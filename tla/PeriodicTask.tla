---------------------------- MODULE PeriodicTask ----------------------------
(***************************************************************************)
(* Class PeriodicTask (include/dejaview/ext/base/periodic_task.h,          *)
(* src/base/periodic_task.cc) on UnixTaskRunner (src/base/                 *)
(* unix_task_runner.cc).  A task that is started has a trigger: a delayed  *)
(* task, or a watch on a timerfd.  Neither can be taken back from the task *)
(* runner: a trigger carries the generation it was made in, and does       *)
(* nothing in another.  A file descriptor that is closed is reused at      *)
(* once, so a watch may be run for the expiry of an earlier timer.         *)
(*                                                                         *)
(* Everything happens on one thread; the task itself may call Start or     *)
(* Reset, or destroy its PeriodicTask.                                     *)
(***************************************************************************)
EXTENDS Integers, Sequences

CONSTANTS
  MaxGeneration,  \* Starts and Resets at most: far below the 2^32 that would wrap
  MaxPolls,       \* RunFileDescriptorWatch tasks posted at most
  MaxCalls,       \* depth of calls
  Immediate       \* start_first_task_immediately is used

ASSUME PeriodicAssumption ==
  /\ {MaxGeneration, MaxPolls, MaxCalls} \subseteq Nat
  /\ Immediate \in BOOLEAN

Generation == 0 .. MaxGeneration
NoArgs == [task |-> FALSE]
Args == [task : {TRUE}, id : Generation, use_suspend_aware_timer : BOOLEAN,
         one_shot : BOOLEAN, start_first_task_immediately : BOOLEAN]
None == -1

VARIABLES
  pt,     \* the object, its timer and its triggers in the task runner
  polls,  \* RunFileDescriptorWatch tasks posted for its file descriptor
  alive,  \* it is not destroyed
  calls   \* tasks being called, and whether it is a copy of args_.task

vars == <<pt, polls, alive, calls>>

(* The type of the object, of its triggers and of the calls under way.       *)
TypeOK ==
  /\ pt \in [generation : Generation, args : {NoArgs} \cup Args, timer_fd : BOOLEAN,
             watch : Generation \cup {None}, ignored : BOOLEAN, expired : BOOLEAN,
             delayed : [Generation -> 0 .. 1]]
  /\ polls \in 0 .. MaxPolls
  /\ alive \in BOOLEAN
  /\ calls \in Seq([id : Generation, copy : BOOLEAN])

Init ==
  /\ pt = [generation |-> 0, args |-> NoArgs, timer_fd |-> FALSE, watch |-> None,
           ignored |-> FALSE, expired |-> FALSE, delayed |-> [g \in Generation |-> 0]]
  /\ polls = 0 /\ alive = TRUE /\ calls = <<>>
-----------------------------------------------------------------------------
(* The methods, as functions of the object.                                  *)
ResetTimerFd(o) ==
  [o EXCEPT !.timer_fd = FALSE, !.watch = None, !.ignored = FALSE, !.expired = FALSE]

Reset(o) ==
  ResetTimerFd([o EXCEPT !.generation = @ + 1, !.args = NoArgs])

PostNextTask(o) ==
  [o EXCEPT !.delayed[o.generation] = @ + 1]

(* Start, with a timerfd if there is to be one and it can be made.           *)
Start(o, args, timer_fd) ==
  LET r == [Reset(o) EXCEPT !.args = args] IN
  IF args = NoArgs THEN Reset(o)
  ELSE IF timer_fd THEN [r EXCEPT !.timer_fd = TRUE, !.watch = r.generation]
  ELSE PostNextTask(r)

(* RunTaskAndPostNext, once it has decided to run the task: what becomes of  *)
(* the object before task() is called.                                       *)
PostNextOneShot(o) ==  \* mutant: a one-shot task is posted again
  IF ~o.timer_fd THEN PostNextTask(o) ELSE o
PostNextAlways(o) ==  \* mutant: posted although there is a timerfd
  IF o.args.one_shot THEN Reset(o) ELSE PostNextTask(o)
PostNext(o) ==
  IF o.args.one_shot THEN Reset(o)
  ELSE IF ~o.timer_fd THEN PostNextTask(o)
  ELSE o

Current(o, generation) == alive /\ o.args # NoArgs /\ generation = o.generation

(* The task is called, or not.                                               *)
Run(o) ==
  /\ pt' = PostNext(o)
  /\ calls' = <<[id |-> o.args.id, copy |-> TRUE]>>
Skip(o) == pt' = o /\ UNCHANGED calls
-----------------------------------------------------------------------------
(* The task runner.                                                          *)
RunDelayedTask(g) ==
  /\ calls = <<>> /\ pt.delayed[g] > 0
  /\ LET o == [pt EXCEPT !.delayed[g] = @ - 1]
     IN IF Current(o, g) THEN Run(o) ELSE Skip(o)
  /\ UNCHANGED <<polls, alive>>

(* PostFileDescriptorWatches: the file descriptor is ignored until its task  *)
(* has run, or the set to poll is built again.                               *)
PostFileDescriptorWatches ==
  /\ calls = <<>> /\ pt.watch # None /\ pt.expired /\ ~pt.ignored /\ polls < MaxPolls
  /\ polls' = polls + 1
  /\ pt' = [pt EXCEPT !.ignored = TRUE]
  /\ UNCHANGED <<alive, calls>>

UpdateWatchTasks ==
  /\ calls = <<>> /\ pt.ignored
  /\ pt' = [pt EXCEPT !.ignored = FALSE]
  /\ UNCHANGED <<polls, alive, calls>>

ReadTimerUnread(o) ==  \* mutant: EAGAIN is not looked at
  Run([o EXCEPT !.expired = FALSE])
ReadTimer(o) ==
  IF o.expired THEN Run([o EXCEPT !.expired = FALSE]) ELSE Skip(o)
ReadFails(o) ==
  Run(ResetTimerFd(o))

(* RunFileDescriptorWatch: the watch that is there now, if any, is run; its  *)
(* read of the timerfd succeeds, or fails and the timer is given up, or finds*)
(* that it has not expired (EAGAIN).                                         *)
RunFileDescriptorWatch(fails) ==
  /\ calls = <<>> /\ polls > 0
  /\ polls' = polls - 1
  /\ IF pt.watch = None THEN Skip(pt)
     ELSE LET o == [pt EXCEPT !.ignored = FALSE]
          IN IF ~Current(o, o.watch) THEN Skip(o)
             ELSE IF fails THEN ReadFails(o) ELSE ReadTimer(o)
  /\ UNCHANGED alive

Expire ==
  /\ pt.timer_fd /\ ~pt.expired
  /\ pt' = [pt EXCEPT !.expired = TRUE]
  /\ UNCHANGED <<polls, alive, calls>>
-----------------------------------------------------------------------------
(* The owner, or the task.                                                   *)
OwnerStart ==
  \E aware, one_shot, immediate \in BOOLEAN, made \in BOOLEAN :
    LET args == [task |-> TRUE, id |-> pt.generation + 1,
                 use_suspend_aware_timer |-> aware, one_shot |-> one_shot,
                 start_first_task_immediately |-> immediate]
    IN /\ alive /\ pt.generation + 1 < MaxGeneration
       /\ immediate => Immediate /\ Len(calls) < MaxCalls
       /\ made => aware
       /\ pt' = Start(pt, args, made)
       /\ calls' = IF immediate THEN Append(calls, [id |-> args.id, copy |-> FALSE])
                   ELSE calls
       /\ UNCHANGED <<polls, alive>>

OwnerReset ==
  /\ alive /\ pt.generation + 1 < MaxGeneration
  /\ pt' = Reset(pt)
  /\ UNCHANGED <<polls, alive, calls>>

Destroy ==
  /\ alive /\ pt.generation < MaxGeneration
  /\ alive' = FALSE
  /\ pt' = Reset(pt)
  /\ UNCHANGED <<polls, calls>>

Return ==
  /\ calls # <<>>
  /\ calls' = SubSeq(calls, 1, Len(calls) - 1)
  /\ UNCHANGED <<pt, polls, alive>>

Next ==
  \/ \E g \in Generation : RunDelayedTask(g)
  \/ PostFileDescriptorWatches
  \/ UpdateWatchTasks
  \/ \E fails \in BOOLEAN : RunFileDescriptorWatch(fails)
  \/ Expire
  \/ OwnerStart
  \/ OwnerReset
  \/ Destroy
  \/ Return

Spec == Init /\ [][Next]_vars

(* Delays elapse, timers expire, the task runner runs what is ready, tasks   *)
(* return.                                                                   *)
Fairness ==
  /\ \A g \in Generation : WF_vars(RunDelayedTask(g))
  /\ WF_vars(PostFileDescriptorWatches) /\ WF_vars(RunFileDescriptorWatch(FALSE))
  /\ WF_vars(Expire) /\ WF_vars(Return)
FairSpec == Spec /\ Fairness
-----------------------------------------------------------------------------
(* A task that is started has exactly one trigger that will call it, and one *)
(* that is not has none: no order of Start, Reset, expiries and fallbacks    *)
(* makes it tick twice a period or stop ticking.                             *)
OneTrigger ==
  pt.delayed[pt.generation] + (IF pt.watch = pt.generation THEN 1 ELSE 0)
    = IF pt.args = NoArgs THEN 0 ELSE 1

(* Although its file descriptor may be one that an earlier timer had, and    *)
(* may be polled twice for one expiry, a timer's task runs only when that    *)
(* timer has expired.                                                        *)
TicksAreDue ==
  [][pt.timer_fd /\ pt'.timer_fd /\ calls = <<>> /\ calls' # <<>> /\ polls' < polls
       => pt.expired]_vars

(* PeriodicTask implements Ticker.                                           *)
Started(args) ==
  IF args = NoArgs THEN {} ELSE {[id |-> args.id, one_shot |-> args.one_shot]}
Ids(called) == [i \in DOMAIN called |-> called[i].id]

T == INSTANCE Ticker WITH
  Id <- Generation, current <- Started(pt.args), calls <- Ids(calls)

(* The abstract specification: its task ticks from Start to Reset, whichever *)
(* triggers are left over from earlier ones.                                 *)
ImplementsTicker == T!Spec

(* A task being called is a copy of args_.task, or args_.task still is that  *)
(* task: it is not destroyed while it runs.                                  *)
RunningTaskExists ==
  \A i \in DOMAIN calls :
    calls[i].copy \/ (pt.args # NoArgs /\ pt.args.id = calls[i].id)
=============================================================================
