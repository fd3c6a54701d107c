------------------------------- MODULE Ticker -------------------------------
(***************************************************************************)
(* What PeriodicTask promises (include/dejaview/ext/base/periodic_task.h): *)
(* from Start to Reset, and no longer, its task is called time and again,  *)
(* or once if it is a one-shot task.                                       *)
(***************************************************************************)
EXTENDS Naturals, Sequences

CONSTANT Id  \* tells one Start from another

VARIABLES
  current,  \* the task that was started: at most one, with its Id
  calls     \* the Ids of the calls under way: a task may start another

vars == <<current, calls>>

Init == current = {} /\ calls = <<>>

Start ==
  \E id \in Id, one_shot \in BOOLEAN :
    /\ \A t \in current : t.id # id
    /\ current' = {[id |-> id, one_shot |-> one_shot]}
    /\ calls' \in {calls, Append(calls, id)}

Reset == current' = {} /\ UNCHANGED calls

Tick ==
  /\ calls = <<>>
  /\ \E t \in current : /\ calls' = <<t.id>>
                        /\ current' = IF t.one_shot THEN {} ELSE current

Return ==
  /\ calls # <<>>
  /\ calls' = SubSeq(calls, 1, Len(calls) - 1)
  /\ UNCHANGED current

Next == Start \/ Reset \/ Tick \/ Return

Safety == Init /\ [][Next]_vars
Spec == Safety /\ WF_vars(Tick)
=============================================================================
