------------------------- MODULE PeriodicTaskProofs -------------------------
(***************************************************************************)
(* Proofs about PeriodicTask, for any number of Starts and Resets.         *)
(*                                                                         *)
(* OneTrigger is not inductive: a step may only make a trigger current if  *)
(* none is left that a later generation would find.  Sound adds that the   *)
(* generations to come have no delayed task, that a watch is one of the    *)
(* present generation and goes with the timerfd.                           *)
(***************************************************************************)
EXTENDS PeriodicTask, SequenceTheorems, TLAPS

Pt == [generation : Generation, args : {NoArgs} \cup Args, timer_fd : BOOLEAN,
       watch : Generation \cup {None}, ignored : BOOLEAN, expired : BOOLEAN,
       delayed : [Generation -> 0 .. 1]]

(* What holds of the object even in the middle of RunTaskAndPostNext.        *)
Sound(o) ==
  /\ o \in Pt
  /\ o.watch \in {None, o.generation}
  /\ o.timer_fd <=> o.watch # None
  /\ \A g \in Generation : g > o.generation => o.delayed[g] = 0
  /\ o.args # NoArgs => o.args.id = o.generation /\ o.generation < MaxGeneration

(* The triggers of the present generation.                                   *)
Untriggered(o) == o.watch = None /\ o.delayed[o.generation] = 0
Triggered(o) ==
  \/ o.watch = None /\ o.delayed[o.generation] = 1
  \/ o.watch = o.generation /\ o.delayed[o.generation] = 0

Inv(o) == Sound(o) /\ IF o.args = NoArgs THEN Untriggered(o) ELSE Triggered(o)

IInv ==
  /\ Inv(pt)
  /\ polls \in 0 .. MaxPolls
  /\ alive \in BOOLEAN
  /\ alive \/ pt.args = NoArgs
  /\ calls \in Seq([id : Generation, copy : BOOLEAN])
-----------------------------------------------------------------------------
LEMMA GenerationFacts ==
  /\ MaxGeneration \in Nat
  /\ MaxPolls \in Nat
  /\ Generation \subseteq Nat
  /\ None \notin Generation
  /\ \A g \in Generation : g < MaxGeneration => g + 1 \in Generation
BY PeriodicAssumption DEF Generation, None

LEMMA ArgsFacts == NoArgs \notin Args
<1> SUFFICES ASSUME NoArgs \in Args PROVE FALSE
  OBVIOUS
<1>1. NoArgs.task = TRUE
  BY Zenon DEF Args
<1>2. NoArgs.task = FALSE
  BY DEF NoArgs
<1> QED BY <1>1, <1>2

LEMMA SoundFacts ==
  ASSUME NEW o, Sound(o)
  PROVE  /\ o \in Pt
         /\ o.generation \in Generation /\ o.generation \in Nat
         /\ o.delayed \in [Generation -> 0 .. 1]
<1>1. o \in Pt
  BY DEF Sound
<1>2. o.generation \in Generation /\ o.delayed \in [Generation -> 0 .. 1]
  BY <1>1 DEF Pt
<1> QED BY <1>1, <1>2, GenerationFacts, Zenon

(* Giving up the timer leaves the object sound and, if the timer was its     *)
(* trigger, untriggered.                                                     *)
LEMMA ResetTimerFdSound ==
  ASSUME NEW o, Sound(o)
  PROVE  /\ Sound(ResetTimerFd(o))
         /\ ResetTimerFd(o).watch = None
         /\ ResetTimerFd(o).timer_fd = FALSE
         /\ ResetTimerFd(o).args = o.args
         /\ ResetTimerFd(o).generation = o.generation
         /\ ResetTimerFd(o).delayed = o.delayed
BY GenerationFacts, Zenon DEF Sound, ResetTimerFd, Pt

(* Reset leaves no trigger, whatever there was.                              *)
LEMMA ResetInv ==
  ASSUME NEW o, Sound(o), o.generation < MaxGeneration
  PROVE  Inv(Reset(o)) /\ Reset(o).args = NoArgs /\ Reset(o).generation = o.generation + 1
<1> DEFINE n == [o EXCEPT !.generation = @ + 1, !.args = NoArgs]
           r == ResetTimerFd(n)
<1>1. o \in Pt /\ o.generation \in Nat /\ o.generation + 1 \in Generation
  BY SoundFacts, GenerationFacts
<1>2. /\ n \in Pt
      /\ n.generation = o.generation + 1
      /\ n.args = NoArgs
      /\ n.delayed = o.delayed
  BY <1>1, Zenon DEF Pt
<1>3. /\ r \in Pt
      /\ r.generation = o.generation + 1
      /\ r.args = NoArgs
      /\ r.delayed = o.delayed
      /\ r.watch = None
      /\ r.timer_fd = FALSE
  BY <1>2, Zenon DEF ResetTimerFd, Pt
<1>4. \A g \in Generation : g > o.generation => o.delayed[g] = 0
  BY DEF Sound
<1>5. o.delayed[o.generation + 1] = 0
  BY <1>1, <1>4
<1>6. Sound(r)
  BY <1>1, <1>3, <1>4, GenerationFacts DEF Sound, Pt
<1>7. Untriggered(r)
  BY <1>3, <1>5 DEF Untriggered
<1>8. Reset(o) = r
  BY DEF Reset
<1> QED BY <1>3, <1>6, <1>7, <1>8 DEF Inv

(* PostNextTask gives an object that has none its trigger.                   *)
LEMMA PostNextTaskInv ==
  ASSUME NEW o, Sound(o), Untriggered(o), o.args # NoArgs
  PROVE  Inv(PostNextTask(o))
<1> DEFINE p == PostNextTask(o)
<1>1. o \in Pt /\ o.generation \in Generation /\ o.delayed[o.generation] = 0 /\ o.watch = None
  BY DEF Sound, Pt, Untriggered
<1>2. p = [o EXCEPT !.delayed = [o.delayed EXCEPT ![o.generation] = 1]]
  BY <1>1 DEF PostNextTask, Pt
<1>3. [o.delayed EXCEPT ![o.generation] = 1] \in [Generation -> 0 .. 1]
  BY <1>1 DEF Pt
<1>4. /\ p \in Pt
      /\ p.generation = o.generation
      /\ p.args = o.args
      /\ p.watch = o.watch
      /\ p.timer_fd = o.timer_fd
      /\ p.delayed = [o.delayed EXCEPT ![o.generation] = 1]
  BY <1>1, <1>2, <1>3 DEF Pt
<1>5. \A g \in Generation : g > o.generation => p.delayed[g] = 0
  BY <1>1, <1>4, GenerationFacts DEF Sound, Pt
<1>6. p.delayed[p.generation] = 1
  BY <1>1, <1>4 DEF Pt
<1> HIDE DEF p
<1>7. Sound(p)
  BY <1>4, <1>5 DEF Sound
<1> QED BY <1>1, <1>4, <1>6, <1>7 DEF Inv, Triggered, p

(* Start leaves one trigger, the timerfd's or a delayed task.                *)
LEMMA StartInv ==
  ASSUME NEW o, Sound(o), o.generation + 1 < MaxGeneration,
         NEW args \in Args, args.id = o.generation + 1, NEW timer_fd \in BOOLEAN
  PROVE  Inv(Start(o, args, timer_fd))
<1> DEFINE z == Reset(o)
           r == [z EXCEPT !.args = args]
           s == [r EXCEPT !.timer_fd = TRUE, !.watch = r.generation]
<1>1. o \in Pt /\ o.generation \in Generation /\ o.generation < MaxGeneration
  BY SoundFacts, GenerationFacts
<1>2. Inv(z) /\ z.args = NoArgs /\ z.generation = o.generation + 1
  BY <1>1, ResetInv
<1>3. Sound(z) /\ Untriggered(z) /\ z \in Pt
  BY <1>2 DEF Inv, Sound
<1> HIDE DEF z
<1>4. /\ r \in Pt
      /\ r.args = args
      /\ r.generation = z.generation
      /\ r.watch = z.watch
      /\ r.timer_fd = z.timer_fd
      /\ r.delayed = z.delayed
  BY <1>3 DEF Pt
<1> HIDE DEF r
<1>5. args # NoArgs
  BY ArgsFacts
<1>6. Sound(r) /\ Untriggered(r)
  BY <1>2, <1>3, <1>4 DEF Sound, Untriggered
<1>7. /\ s \in Pt
      /\ s.args = args
      /\ s.generation = r.generation
      /\ s.watch = r.generation
      /\ s.timer_fd = TRUE
      /\ s.delayed = r.delayed
  BY <1>4, Zenon DEF Pt
<1> HIDE DEF s
<1>8. Inv(s)
  BY <1>2, <1>4, <1>5, <1>6, <1>7, GenerationFacts DEF Inv, Sound, Untriggered, Triggered, Pt
<1>9. Inv(PostNextTask(r))
  BY <1>4, <1>5, <1>6, PostNextTaskInv
<1>10. Start(o, args, timer_fd) = IF timer_fd THEN s ELSE PostNextTask(r)
  BY <1>5 DEF Start, s, r, z
<1> QED BY <1>8, <1>9, <1>10

(* What RunTaskAndPostNext leaves behind, of an object whose trigger, unless *)
(* it is the timerfd, was just spent.                                        *)
LEMMA PostNextInv ==
  ASSUME NEW o, Sound(o), o.args # NoArgs,
         IF o.timer_fd THEN Triggered(o) ELSE Untriggered(o)
  PROVE  Inv(PostNext(o))
<1>1. CASE o.args.one_shot
  <2>1. o.generation < MaxGeneration
    BY DEF Sound
  <2> QED BY <1>1, <2>1, ResetInv DEF PostNext
<1>2. CASE ~o.args.one_shot /\ ~o.timer_fd
  BY <1>2, PostNextTaskInv DEF PostNext
<1>3. CASE ~o.args.one_shot /\ o.timer_fd
  BY <1>3 DEF PostNext, Inv
<1> QED BY <1>1, <1>2, <1>3
-----------------------------------------------------------------------------
LEMMA InitIInv == Init => IInv
<1> SUFFICES ASSUME Init PROVE IInv
  OBVIOUS
<1>1. 0 \in Generation /\ None \notin Generation
  BY GenerationFacts DEF Generation
<1>2. pt \in Pt /\ pt.generation = 0 /\ pt.args = NoArgs /\ pt.watch = None /\ pt.timer_fd = FALSE
  BY <1>1 DEF Init, Pt
<1>3. \A g \in Generation : pt.delayed[g] = 0
  BY DEF Init
<1>4. Inv(pt)
  BY <1>1, <1>2, <1>3 DEF Inv, Sound, Untriggered
<1> QED BY <1>4, PeriodicAssumption DEF Init, IInv

Flags(o, i, e) == [o EXCEPT !.ignored = i, !.expired = e]

(* A change of what the invariant does not speak of.                         *)
LEMMA FlagsInv ==
  ASSUME NEW o, Inv(o), NEW i \in BOOLEAN, NEW e \in BOOLEAN
  PROVE  /\ Inv(Flags(o, i, e))
         /\ Flags(o, i, e).args = o.args
         /\ Flags(o, i, e).timer_fd = o.timer_fd
         /\ Flags(o, i, e).watch = o.watch
<1> DEFINE f == Flags(o, i, e)
<1>1. Sound(o) /\ o \in Pt
  BY DEF Inv, Sound
<1>2. /\ f \in Pt
      /\ f.generation = o.generation
      /\ f.args = o.args
      /\ f.watch = o.watch
      /\ f.timer_fd = o.timer_fd
      /\ f.delayed = o.delayed
  BY <1>1, Zenon DEF Pt, Flags
<1> HIDE DEF f
<1>3. Inv(f)
  BY <1>1, <1>2 DEF Inv, Sound, Triggered, Untriggered
<1> QED BY <1>2, <1>3 DEF f

LEMMA SeqFacts ==
  ASSUME NEW S, NEW s \in Seq(S), NEW e \in S
  PROVE  Append(s, e) \in Seq(S)
OBVIOUS

LEMMA ButLast ==
  ASSUME NEW S, NEW s \in Seq(S), s # <<>>
  PROVE  SubSeq(s, 1, Len(s) - 1) \in Seq(S)
<1>1. Len(s) \in Nat /\ Len(s) - 1 <= Len(s) /\ \A i \in 1 .. Len(s) : s[i] \in S
  OBVIOUS
<1> QED BY <1>1

(* Running the task keeps the invariant, whatever trigger led to it.         *)
LEMMA RunInv ==
  ASSUME NEW o, Sound(o), o.args # NoArgs,
         IF o.timer_fd THEN Triggered(o) ELSE Untriggered(o),
         Run(o)
  PROVE  Inv(pt') /\ calls' \in Seq([id : Generation, copy : BOOLEAN])
<1>1. Inv(pt')
  BY PostNextInv DEF Run
<1>2. o.args.id \in Generation
  BY SoundFacts DEF Sound
<1> QED BY <1>1, <1>2 DEF Run

LEMMA RunDelayedTaskIInv ==
  ASSUME IInv, NEW g \in Generation, RunDelayedTask(g)
  PROVE  IInv'
<1> DEFINE o == [pt EXCEPT !.delayed[g] = @ - 1]
<1>1. Inv(pt) /\ Sound(pt) /\ pt \in Pt /\ pt.generation \in Nat /\ g \in Nat
  BY GenerationFacts, SoundFacts DEF IInv, Inv
<1>2. pt.delayed \in [Generation -> 0 .. 1] /\ pt.delayed[g] = 1
  BY <1>1 DEF RunDelayedTask, Pt
<1>3. o = [pt EXCEPT !.delayed = [pt.delayed EXCEPT ![g] = 0]]
  BY <1>1, <1>2 DEF Pt
<1>4. [pt.delayed EXCEPT ![g] = 0] \in [Generation -> 0 .. 1]
  BY <1>2
<1>5. /\ o \in Pt
      /\ o.generation = pt.generation
      /\ o.args = pt.args
      /\ o.watch = pt.watch
      /\ o.timer_fd = pt.timer_fd
      /\ o.delayed = [pt.delayed EXCEPT ![g] = 0]
  BY <1>1, <1>3, <1>4 DEF Pt
<1>6. IF Current(o, g) THEN Run(o) ELSE Skip(o)
  BY DEF RunDelayedTask
<1> HIDE DEF o
<1>7. Sound(o)
  BY <1>1, <1>2, <1>5 DEF Sound
<1>8. CASE Current(o, g)
  <2>1. o.args # NoArgs /\ g = o.generation
    BY <1>8 DEF Current
  <2>2. pt.watch = None /\ ~pt.timer_fd
    BY <1>1, <1>2, <1>5, <2>1 DEF Inv, Triggered, Untriggered, Sound
  <2>3. Untriggered(o)
    BY <1>2, <1>5, <2>1, <2>2 DEF Untriggered
  <2>4. Run(o)
    BY <1>6, <1>8
  <2>5. ~o.timer_fd
    BY <1>5, <2>2
  <2>6. Inv(pt') /\ calls' \in Seq([id : Generation, copy : BOOLEAN])
    BY <1>7, <2>1, <2>3, <2>4, <2>5, RunInv, Zenon
  <2>7. alive
    BY <1>8 DEF Current
  <2> QED BY <2>6, <2>7 DEF IInv, RunDelayedTask
<1>9. CASE ~Current(o, g)
  <2>1. pt' = o /\ calls' = calls
    BY <1>6, <1>9 DEF Skip
  <2>2. CASE g = o.generation
    <3>1. pt.args = NoArgs
      BY <1>5, <1>9, <2>2 DEF Current, IInv
    <3>2. pt.delayed[g] = 0
      BY <1>1, <1>5, <2>2, <3>1 DEF Inv, Untriggered
    <3> QED BY <1>2, <3>2
  <2>3. CASE g # o.generation
    <3>1. o.delayed[o.generation] = pt.delayed[pt.generation]
      BY <1>1, <1>2, <1>5, <2>3 DEF Pt
    <3>2. Inv(o)
      BY <1>1, <1>5, <1>7, <3>1 DEF Inv, Triggered, Untriggered
    <3> QED BY <1>5, <2>1, <3>2 DEF IInv, RunDelayedTask
  <2> QED BY <2>2, <2>3
<1> QED BY <1>8, <1>9

LEMMA RunFileDescriptorWatchIInv ==
  ASSUME IInv, NEW fails \in BOOLEAN, RunFileDescriptorWatch(fails)
  PROVE  IInv'
<1> DEFINE o == [pt EXCEPT !.ignored = FALSE]
           e == [o EXCEPT !.expired = FALSE]
<1>1. Inv(pt) /\ Sound(pt) /\ pt \in Pt
  BY SoundFacts DEF IInv, Inv
<1>2. polls' \in 0 .. MaxPolls /\ alive' = alive
  BY PeriodicAssumption DEF IInv, RunFileDescriptorWatch
<1>3. o = Flags(pt, FALSE, pt.expired) /\ pt.expired \in BOOLEAN
  BY <1>1, Zenon DEF Pt, Flags
<1> HIDE DEF o
<1>4. Inv(o) /\ o.args = pt.args /\ o.timer_fd = pt.timer_fd /\ o.watch = pt.watch
  BY <1>1, <1>3, FlagsInv, Zenon
<1>5. e = Flags(pt, FALSE, FALSE)
  BY <1>1 DEF o, Pt, Flags
<1> HIDE DEF e
<1>6. Inv(e) /\ e.args = pt.args /\ e.timer_fd = pt.timer_fd /\ e.watch = pt.watch
  <2>1. FALSE \in BOOLEAN
    OBVIOUS
  <2> QED BY <1>1, <1>5, <2>1, FlagsInv, Zenon
<1>7. CASE Skip(pt) \/ Skip(o)
  BY <1>1, <1>2, <1>4, <1>7 DEF IInv, Skip
<1>8. CASE pt.watch # None /\ Current(o, o.watch)
           /\ (Run(e) \/ Run(ResetTimerFd(o)))
  <2>1. alive /\ pt.args # NoArgs /\ pt.timer_fd
    BY <1>1, <1>4, <1>8 DEF Current, Sound
  <2>2. CASE Run(e)
    <3>1. Sound(e) /\ Triggered(e) /\ e.args # NoArgs /\ e.timer_fd
      BY <1>6, <2>1 DEF Inv
    <3>2. Inv(pt') /\ calls' \in Seq([id : Generation, copy : BOOLEAN])
      BY <2>2, <3>1, RunInv, Zenon
    <3> QED BY <1>2, <2>1, <3>2 DEF IInv
  <2>3. CASE Run(ResetTimerFd(o))
    <3> DEFINE z == ResetTimerFd(o)
    <3>1. Sound(o) /\ Triggered(o)
      BY <1>4, <2>1 DEF Inv
    <3>2. o.delayed[o.generation] = 0
      BY <1>4, <1>8, <3>1 DEF Triggered
    <3>3. /\ Sound(z) /\ z.watch = None /\ z.timer_fd = FALSE /\ z.args = o.args
          /\ z.generation = o.generation /\ z.delayed = o.delayed
      BY <3>1, ResetTimerFdSound, Zenon
    <3> HIDE DEF z
    <3>4. Untriggered(z) /\ z.args # NoArgs /\ ~z.timer_fd
      BY <1>4, <2>1, <3>2, <3>3 DEF Untriggered
    <3>5. Run(z)
      BY <2>3 DEF z
    <3>6. Inv(pt') /\ calls' \in Seq([id : Generation, copy : BOOLEAN])
      BY <3>3, <3>4, <3>5, RunInv, Zenon
    <3> QED BY <1>2, <2>1, <3>6 DEF IInv
  <2> QED BY <1>8, <2>2, <2>3
<1> QED BY <1>7, <1>8 DEF RunFileDescriptorWatch, ReadTimer, ReadFails, o, e

(* The steps that only change the flags of the timer.                        *)
LEMMA FlagStepsIInv ==
  ASSUME IInv, PostFileDescriptorWatches \/ UpdateWatchTasks \/ Expire
  PROVE  IInv'
<1>1. Inv(pt) /\ pt \in Pt
  BY SoundFacts DEF IInv, Inv
<1>2. pt.ignored \in BOOLEAN /\ pt.expired \in BOOLEAN /\ TRUE \in BOOLEAN /\ FALSE \in BOOLEAN
  BY <1>1 DEF Pt
<1>3. Inv(pt') /\ pt'.args = pt.args
  <2>1. CASE PostFileDescriptorWatches
    <3>1. pt' = Flags(pt, TRUE, pt.expired)
      BY <1>1, <2>1, Zenon DEF PostFileDescriptorWatches, Pt, Flags
    <3> QED BY <1>1, <1>2, <3>1, FlagsInv, Zenon
  <2>2. CASE UpdateWatchTasks
    <3>1. pt' = Flags(pt, FALSE, pt.expired)
      BY <1>1, <2>2, Zenon DEF UpdateWatchTasks, Pt, Flags
    <3> QED BY <1>1, <1>2, <3>1, FlagsInv, Zenon
  <2>3. CASE Expire
    <3>1. pt' = Flags(pt, pt.ignored, TRUE)
      BY <1>1, <2>3, Zenon DEF Expire, Pt, Flags
    <3> QED BY <1>1, <1>2, <3>1, FlagsInv, Zenon
  <2> QED BY <2>1, <2>2, <2>3
<1>4. polls' \in 0 .. MaxPolls /\ alive' = alive /\ calls' = calls
  BY PeriodicAssumption DEF IInv, PostFileDescriptorWatches, UpdateWatchTasks, Expire
<1> QED BY <1>3, <1>4 DEF IInv

LEMMA OwnerIInv ==
  ASSUME IInv, OwnerStart \/ OwnerReset \/ Destroy
  PROVE  IInv'
<1>1. Inv(pt) /\ Sound(pt) /\ pt.generation \in Nat /\ pt.generation \in Generation
  BY SoundFacts DEF IInv, Inv
<1>2. CASE OwnerStart
  <2>1. PICK aware, one_shot, immediate, made \in BOOLEAN :
          LET args == [task |-> TRUE, id |-> pt.generation + 1,
                       use_suspend_aware_timer |-> aware, one_shot |-> one_shot,
                       start_first_task_immediately |-> immediate]
          IN /\ alive /\ pt.generation + 1 < MaxGeneration
             /\ immediate => Immediate /\ Len(calls) < MaxCalls
             /\ made => aware
             /\ pt' = Start(pt, args, made)
             /\ calls' = IF immediate THEN Append(calls, [id |-> args.id, copy |-> FALSE])
                         ELSE calls
             /\ UNCHANGED <<polls, alive>>
    BY <1>2, Zenon DEF OwnerStart
  <2> DEFINE args == [task |-> TRUE, id |-> pt.generation + 1,
                      use_suspend_aware_timer |-> aware, one_shot |-> one_shot,
                      start_first_task_immediately |-> immediate]
  <2>2. pt.generation + 1 \in Generation
    BY <1>1, <2>1, GenerationFacts
  <2>3. args \in Args /\ args.id = pt.generation + 1
    BY <2>2 DEF Args
  <2>4. Inv(Start(pt, args, made))
    <3> HIDE DEF args
    <3> QED BY <1>1, <2>1, <2>3, StartInv
  <2>5. calls' \in Seq([id : Generation, copy : BOOLEAN])
    <3>1. [id |-> args.id, copy |-> FALSE] \in [id : Generation, copy : BOOLEAN]
      BY <2>2
    <3>2. calls \in Seq([id : Generation, copy : BOOLEAN])
      BY DEF IInv
    <3> HIDE DEF args
    <3>3. Append(calls, [id |-> args.id, copy |-> FALSE])
            \in Seq([id : Generation, copy : BOOLEAN])
      BY <3>1, <3>2, SeqFacts
    <3> QED BY <2>1, <3>2, <3>3, Zenon DEF args
  <2> QED BY <2>1, <2>4, <2>5 DEF IInv
<1>3. CASE OwnerReset
  BY <1>1, <1>3, ResetInv, GenerationFacts DEF OwnerReset, IInv
<1>4. CASE Destroy
  BY <1>1, <1>4, ResetInv, Zenon DEF Destroy, IInv
<1> QED BY <1>2, <1>3, <1>4

LEMMA NextIInv == IInv /\ [Next]_vars => IInv'
<1> SUFFICES ASSUME IInv, [Next]_vars PROVE IInv'
  OBVIOUS
<1>1. CASE \E g \in Generation : RunDelayedTask(g)
  BY <1>1, RunDelayedTaskIInv
<1>2. CASE \E fails \in BOOLEAN : RunFileDescriptorWatch(fails)
  BY <1>2, RunFileDescriptorWatchIInv
<1>3. CASE PostFileDescriptorWatches \/ UpdateWatchTasks \/ Expire
  BY <1>3, FlagStepsIInv
<1>4. CASE OwnerStart \/ OwnerReset \/ Destroy
  BY <1>4, OwnerIInv
<1>5. CASE Return
  <2>1. calls' \in Seq([id : Generation, copy : BOOLEAN])
    BY <1>5, ButLast, Zenon DEF Return, IInv
  <2> QED BY <1>5, <2>1 DEF Return, IInv
<1>6. CASE UNCHANGED vars
  BY <1>6 DEF vars, IInv
<1> QED BY <1>1, <1>2, <1>3, <1>4, <1>5, <1>6 DEF Next

LEMMA IInvImplies == IInv => TypeOK /\ OneTrigger
<1> SUFFICES ASSUME IInv PROVE TypeOK /\ OneTrigger
  OBVIOUS
<1>1. pt \in Pt /\ pt.generation \in Generation
  BY SoundFacts DEF IInv, Inv
<1>2. TypeOK
  BY <1>1 DEF TypeOK, IInv, Pt
<1>3. OneTrigger
  BY <1>1, GenerationFacts DEF IInv, Inv, Triggered, Untriggered, OneTrigger
<1> QED BY <1>2, <1>3

(* Type correctness of PeriodicTask, for any number of Starts, Resets and    *)
(* polls.                                                                    *)
THEOREM PeriodicTypeCorrect == Spec => []TypeOK
BY InitIInv, NextIInv, IInvImplies, PTL DEF Spec

(* A task that is started always has exactly one trigger that will call it,  *)
(* and one that is not has none (Start, Reset, RunTaskAndPostNext).          *)
THEOREM AlwaysOneTrigger == Spec => []OneTrigger
BY InitIInv, NextIInv, IInvImplies, PTL DEF Spec
-----------------------------------------------------------------------------
(* Although polled for a file descriptor that an earlier timer had, or twice *)
(* for one expiry, RunFileDescriptorWatch calls the task of a timer that     *)
(* goes on only when read() has found it expired.                            *)
LEMMA ResetClears ==
  ASSUME NEW o \in Pt
  PROVE  ~ResetTimerFd(o).timer_fd /\ ~Reset(o).timer_fd /\ Reset(o).args = NoArgs
BY DEF ResetTimerFd, Reset, Pt

LEMMA PostNextArgs ==
  ASSUME NEW o \in Pt
  PROVE  /\ PostNext(o).timer_fd => o.timer_fd
         /\ PostNext(o).args = IF o.args.one_shot THEN NoArgs ELSE o.args
BY ResetClears DEF PostNext, PostNextTask, Pt

LEMMA StepIsDue ==
  ASSUME IInv, Next, pt.timer_fd, pt'.timer_fd, calls = <<>>, calls' # <<>>, polls' < polls
  PROVE  pt.expired
<1>1. pt \in Pt /\ polls \in Int
  BY SoundFacts DEF IInv, Inv
<1>2. PICK fails \in BOOLEAN : RunFileDescriptorWatch(fails)
  <2>1. CASE \E g \in Generation : RunDelayedTask(g)
    BY <1>1, <2>1 DEF RunDelayedTask
  <2>2. CASE OwnerStart
    BY <1>1, <2>2 DEF OwnerStart
  <2>3. CASE \/ PostFileDescriptorWatches \/ UpdateWatchTasks \/ Expire
             \/ OwnerReset \/ Destroy \/ Return
    BY <2>3 DEF PostFileDescriptorWatches, UpdateWatchTasks, Expire, OwnerReset, Destroy,
                Return
  <2> QED BY <2>1, <2>2, <2>3 DEF Next
<1> DEFINE o == [pt EXCEPT !.ignored = FALSE]
<1>3. o \in Pt /\ o.expired = pt.expired
  BY <1>1 DEF Pt
<1>4. ~Skip(pt) /\ ~Skip(o)
  BY DEF Skip
<1>5. fails => Run(ResetTimerFd(o))
  BY <1>2, <1>4 DEF RunFileDescriptorWatch, ReadFails
<1>6. ~fails => ReadTimer(o)
  BY <1>2, <1>4 DEF RunFileDescriptorWatch
<1> HIDE DEF o
<1>7. ResetTimerFd(o) \in Pt /\ ~ResetTimerFd(o).timer_fd
  BY <1>3 DEF ResetTimerFd, Pt
<1>8. ~fails
  BY <1>5, <1>7, PostNextArgs DEF Run
<1> QED BY <1>3, <1>4, <1>6, <1>8 DEF ReadTimer

(* RunFileDescriptorWatch calls the task of a timer only when that timer has *)
(* expired, whichever timers had its file descriptor before and however      *)
(* often it was polled.                                                      *)
THEOREM TicksAreAlwaysDue == Spec => TicksAreDue
<1>1. IInv /\ [Next]_vars =>
        [pt.timer_fd /\ pt'.timer_fd /\ calls = <<>> /\ calls' # <<>> /\ polls' < polls
           => pt.expired]_vars
  BY StepIsDue
<1> QED BY <1>1, InitIInv, NextIInv, PTL DEF Spec, TicksAreDue
-----------------------------------------------------------------------------
(* The steps of PeriodicTask as steps of Ticker.                             *)
Called == [id : Generation, copy : BOOLEAN]

LEMMA IdsFacts ==
  ASSUME NEW s \in Seq(Called)
  PROVE  /\ Ids(s) \in Seq(Generation) /\ Len(Ids(s)) = Len(s)
         /\ \A i \in 1 .. Len(s) : Ids(s)[i] = s[i].id
<1>1. Len(s) \in Nat /\ DOMAIN s = 1 .. Len(s)
  OBVIOUS
<1>2. \A i \in 1 .. Len(s) : s[i].id \in Generation
  <2>1. \A i \in 1 .. Len(s) : s[i] \in Called
    OBVIOUS
  <2>2. \A x \in Called : x.id \in Generation
    BY DEF Called
  <2> QED BY <2>1, <2>2
<1> QED BY <1>1, <1>2 DEF Ids

LEMMA IdsOfAppend ==
  ASSUME NEW s \in Seq(Called),
         NEW e \in Called
  PROVE  Ids(Append(s, e)) = Append(Ids(s), e.id)
<1>1. Append(s, e) \in Seq(Called)
  BY SeqFacts
<1>2. /\ Ids(Append(s, e)) \in Seq(Generation) /\ Len(Ids(Append(s, e))) = Len(s) + 1
      /\ \A i \in 1 .. Len(s) + 1 : Ids(Append(s, e))[i] = Append(s, e)[i].id
  <2> DEFINE a == Append(s, e)
  <2>1. a \in Seq(Called) /\ Len(a) = Len(s) + 1
    BY <1>1
  <2> HIDE DEF a
  <2>2. /\ Ids(a) \in Seq(Generation) /\ Len(Ids(a)) = Len(s) + 1
        /\ \A i \in 1 .. Len(s) + 1 : Ids(a)[i] = a[i].id
    BY <2>1, IdsFacts
  <2> QED BY <2>2 DEF a
<1>3. /\ Ids(s) \in Seq(Generation) /\ Len(Ids(s)) = Len(s)
      /\ \A i \in 1 .. Len(s) : Ids(s)[i] = s[i].id
  BY IdsFacts
<1>0. e.id \in Generation
  BY DEF Called
<1>4. /\ Append(Ids(s), e.id) \in Seq(Generation)
      /\ Len(Append(Ids(s), e.id)) = Len(s) + 1
  BY <1>0, <1>3
<1>5. ASSUME NEW i \in 1 .. Len(s) + 1
      PROVE  Ids(Append(s, e))[i] = Append(Ids(s), e.id)[i]
  <2>1. Len(s) \in Nat
    OBVIOUS
  <2>2. CASE i = Len(s) + 1
    BY <1>2, <1>3, <2>1, <2>2
  <2>3. CASE i \in 1 .. Len(s)
    BY <1>2, <1>3, <2>1, <2>3
  <2>4. i = Len(s) + 1 \/ i \in 1 .. Len(s)
    BY <2>1
  <2> QED BY <2>2, <2>3, <2>4
<1> QED BY <1>2, <1>4, <1>5

LEMMA IdsOfButLast ==
  ASSUME NEW s \in Seq(Called), s # <<>>
  PROVE  /\ Ids(s) # <<>>
         /\ Ids(SubSeq(s, 1, Len(s) - 1)) = SubSeq(Ids(s), 1, Len(Ids(s)) - 1)
<1> DEFINE t == SubSeq(s, 1, Len(s) - 1)
<1>1. Len(s) \in Nat /\ Len(s) >= 1
  OBVIOUS
<1>2. /\ t \in Seq(Called) /\ Len(t) = Len(s) - 1
      /\ \A i \in 1 .. Len(s) - 1 : t[i] = s[i]
  <2> DEFINE n == Len(s) - 1
  <2>1. n \in Nat /\ 1 \in 1 .. Len(s) + 1 /\ n \in 1 - 1 .. Len(s) /\ n - 1 + 1 = n
    BY <1>1
  <2> HIDE DEF n
  <2>2. /\ SubSeq(s, 1, n) \in Seq(Called) /\ Len(SubSeq(s, 1, n)) = n - 1 + 1
        /\ \A i \in 1 .. n - 1 + 1 : SubSeq(s, 1, n)[i] = s[1 + i - 1]
    BY <2>1, SubSeqProperties
  <2>3. \A i \in 1 .. n : 1 + i - 1 = i
    OBVIOUS
  <2> QED BY <2>1, <2>2, <2>3 DEF n
<1>3. /\ Ids(s) \in Seq(Generation) /\ Len(Ids(s)) = Len(s)
      /\ \A i \in 1 .. Len(s) : Ids(s)[i] = s[i].id
  BY IdsFacts
<1> HIDE DEF t
<1>4. /\ Ids(t) \in Seq(Generation) /\ Len(Ids(t)) = Len(s) - 1
      /\ \A i \in 1 .. Len(s) - 1 : Ids(t)[i] = t[i].id
  BY <1>2, IdsFacts
<1> DEFINE q == Ids(s)
           u == SubSeq(q, 1, Len(s) - 1)
<1>5. q \in Seq(Generation) /\ Len(q) = Len(s) /\ q # <<>>
  BY <1>1, <1>3
<1> HIDE DEF q
<1>6. /\ u \in Seq(Generation) /\ Len(u) = Len(s) - 1
      /\ \A i \in 1 .. Len(s) - 1 : u[i] = q[i]
  BY <1>1, <1>5
<1>7. \A i \in 1 .. Len(s) - 1 : Ids(t)[i] = u[i]
  <2>1. \A i \in 1 .. Len(s) - 1 : i \in 1 .. Len(s)
    BY <1>1
  <2>2. \A i \in 1 .. Len(s) : q[i] = s[i].id
    BY <1>3 DEF q
  <2> HIDE DEF u
  <2> QED BY <1>2, <1>4, <1>6, <2>1, <2>2
<1> HIDE DEF u
<1>8. Ids(t) = u
  BY <1>1, <1>4, <1>6, <1>7
<1> QED BY <1>5, <1>8 DEF q, t, u

LEMMA RunTicks ==
  ASSUME NEW o \in Pt, o.args = pt.args, pt.args # NoArgs, calls = <<>>, Run(o)
  PROVE  T!Tick
<1> DEFINE t == [id |-> o.args.id, one_shot |-> o.args.one_shot]
<1>1. Started(pt.args) = {t} /\ t.id = o.args.id /\ t.one_shot = o.args.one_shot
  BY DEF Started
<1>2. Ids(calls) = <<>>
  BY DEF Ids
<1>3. Ids(calls') = <<t.id>>
  BY DEF Run, Ids
<1>4. Started(pt'.args) = IF t.one_shot THEN {} ELSE Started(pt.args)
  <2>1. pt'.args = IF t.one_shot THEN NoArgs ELSE o.args
    BY PostNextArgs DEF Run
  <2>2. Started(NoArgs) = {}
    BY DEF Started
  <2> HIDE DEF t
  <2> QED BY <2>1, <2>2
<1> HIDE DEF t
<1> QED BY <1>1, <1>2, <1>3, <1>4 DEF T!Tick

LEMMA StartStarts ==
  ASSUME IInv, OwnerStart
  PROVE  T!Start
<1>1. Sound(pt) /\ pt \in Pt /\ pt.generation \in Nat /\ pt.generation \in Generation
  BY SoundFacts DEF IInv, Inv
<1>2. PICK aware, one_shot, immediate, made \in BOOLEAN :
        LET args == [task |-> TRUE, id |-> pt.generation + 1,
                     use_suspend_aware_timer |-> aware, one_shot |-> one_shot,
                     start_first_task_immediately |-> immediate]
        IN /\ alive /\ pt.generation + 1 < MaxGeneration
           /\ immediate => Immediate /\ Len(calls) < MaxCalls
           /\ made => aware
           /\ pt' = Start(pt, args, made)
           /\ calls' = IF immediate THEN Append(calls, [id |-> args.id, copy |-> FALSE])
                       ELSE calls
           /\ UNCHANGED <<polls, alive>>
  BY Zenon DEF OwnerStart
<1> DEFINE id == pt.generation + 1
           args == [task |-> TRUE, id |-> id,
                    use_suspend_aware_timer |-> aware, one_shot |-> one_shot,
                    start_first_task_immediately |-> immediate]
<1>3. id \in Generation
  BY <1>1, <1>2, GenerationFacts
<1>4. args \in Args /\ args.id = id /\ args.one_shot = one_shot /\ args # NoArgs
  <2>1. args \in Args
    BY <1>3 DEF Args
  <2>2. args # NoArgs
    <3> HIDE DEF args
    <3> QED BY <2>1, ArgsFacts
  <2> QED BY <2>1, <2>2
<1>5. \A t \in Started(pt.args) : t.id # id
  BY <1>1 DEF Started, Sound
<1> HIDE DEF args
<1>6. Start(pt, args, made).args = args
  BY <1>1, <1>4 DEF Start, Reset, ResetTimerFd, PostNextTask, Pt
<1>7. Started(pt'.args) = {[id |-> id, one_shot |-> one_shot]}
  BY <1>2, <1>4, <1>6 DEF Started, args
<1>8. Ids(calls') \in {Ids(calls), Append(Ids(calls), id)}
  <2> DEFINE e == [id |-> id, copy |-> FALSE]
  <2>1. e \in Called /\ e.id = id /\ calls \in Seq(Called)
    BY <1>3 DEF Called, IInv
  <2>2. calls' = calls \/ calls' = Append(calls, e)
    BY <1>2
  <2> HIDE DEF e
  <2>3. Ids(Append(calls, e)) = Append(Ids(calls), e.id)
    BY <2>1, IdsOfAppend
  <2> QED BY <2>1, <2>2, <2>3
<1> HIDE DEF id
<1> QED BY <1>3, <1>5, <1>7, <1>8 DEF T!Start

(* Every step of PeriodicTask is one that Ticker allows, or leaves alone     *)
(* what Ticker speaks of.                                                    *)
LEMMA StepRefines == IInv /\ [Next]_vars => [T!Next]_(T!vars)
<1> SUFFICES ASSUME IInv, [Next]_vars PROVE [T!Next]_(T!vars)
  OBVIOUS
<1>1. pt \in Pt /\ calls \in Seq(Called)
  BY SoundFacts DEF IInv, Inv, Called
<1>2. ASSUME pt'.args = pt.args, calls' = calls PROVE UNCHANGED T!vars
  BY <1>2 DEF T!vars
<1>3. CASE \E g \in Generation : RunDelayedTask(g)
  <2>1. PICK g \in Generation : RunDelayedTask(g)
    BY <1>3
  <2> DEFINE o == [pt EXCEPT !.delayed[g] = @ - 1]
  <2>2. o \in Pt /\ o.args = pt.args
    <3>1. pt.delayed \in [Generation -> 0 .. 1] /\ pt.delayed[g] = 1
      BY <1>1, <2>1 DEF RunDelayedTask, Pt
    <3>2. o = [pt EXCEPT !.delayed = [pt.delayed EXCEPT ![g] = 0]]
      BY <1>1, <3>1 DEF Pt
    <3>3. [pt.delayed EXCEPT ![g] = 0] \in [Generation -> 0 .. 1]
      BY <3>1
    <3> QED BY <1>1, <3>2, <3>3 DEF Pt
  <2>3. calls = <<>> /\ IF Current(o, g) THEN Run(o) ELSE Skip(o)
    BY <2>1 DEF RunDelayedTask
  <2> HIDE DEF o
  <2>4. CASE Current(o, g)
    BY <2>2, <2>3, <2>4, RunTicks DEF Current, T!Next
  <2>5. CASE ~Current(o, g)
    BY <1>2, <2>2, <2>3, <2>5 DEF Skip
  <2> QED BY <2>4, <2>5
<1>4. CASE \E fails \in BOOLEAN : RunFileDescriptorWatch(fails)
  <2>1. PICK fails \in BOOLEAN : RunFileDescriptorWatch(fails)
    BY <1>4
  <2> DEFINE o == [pt EXCEPT !.ignored = FALSE]
             e == [o EXCEPT !.expired = FALSE]
             r == ResetTimerFd(o)
  <2>2. o \in Pt /\ o.args = pt.args
    BY <1>1 DEF Pt
  <2>3. /\ calls = <<>>
        /\ Skip(pt) \/ Skip(o) \/ (pt.args # NoArgs /\ (Run(e) \/ Run(r)))
    BY <2>1, <2>2 DEF RunFileDescriptorWatch, ReadTimer, ReadFails, Current
  <2> HIDE DEF o
  <2>4. e \in Pt /\ e.args = pt.args /\ r \in Pt /\ r.args = pt.args
    BY <2>2 DEF Pt, ResetTimerFd
  <2> HIDE DEF e, r
  <2>5. CASE Skip(pt) \/ Skip(o)
    BY <1>2, <2>2, <2>5 DEF Skip
  <2>6. CASE pt.args # NoArgs /\ (Run(e) \/ Run(r))
    BY <2>3, <2>4, <2>6, RunTicks DEF T!Next
  <2> QED BY <2>3, <2>5, <2>6
<1>5. CASE PostFileDescriptorWatches \/ UpdateWatchTasks \/ Expire
  <2>1. pt'.args = pt.args /\ calls' = calls
    BY <1>1, <1>5 DEF PostFileDescriptorWatches, UpdateWatchTasks, Expire, Pt
  <2> QED BY <1>2, <2>1
<1>6. CASE OwnerStart
  BY <1>6, StartStarts DEF T!Next
<1>7. CASE OwnerReset \/ Destroy
  <2>1. pt'.args = NoArgs /\ calls' = calls
    BY <1>1, <1>7, ResetClears DEF OwnerReset, Destroy
  <2> QED BY <2>1 DEF T!Next, T!Reset, Started
<1>8. CASE Return
  BY <1>1, <1>8, IdsOfButLast DEF Return, T!Next, T!Return
<1>9. CASE UNCHANGED vars
  BY <1>2, <1>9 DEF vars
<1> QED BY <1>3, <1>4, <1>5, <1>6, <1>7, <1>8, <1>9 DEF Next

LEMMA InitRefines == Init => T!Init
BY DEF Init, T!Init, Started, Ids

(* PeriodicTask does what Ticker allows and nothing else: it calls its task  *)
(* only between the Start that set it and the next Reset, never over another *)
(* call that the task runner made, and once if it is a one-shot task.        *)
THEOREM PeriodicImplementsTicker == Spec => T!Safety
<1>1. Spec => []IInv
  BY InitIInv, NextIInv, PTL DEF Spec
<1> QED BY <1>1, InitRefines, StepRefines, PTL DEF Spec, T!Safety
=============================================================================
