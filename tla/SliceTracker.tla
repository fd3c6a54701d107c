---------------------------- MODULE SliceTracker ----------------------------
(***************************************************************************)
(* Class SliceTracker (src/trace_processor/importers/common/slice_tracker):*)
(* begin, end and complete events of a track, in the order of their        *)
(* timestamps, become rows of the slice table that nest.  A track has a    *)
(* stack of the slices that are open, or complete but may still get a      *)
(* child; every event first closes what is over by then.                   *)
(***************************************************************************)
EXTENDS Integers, Sequences

CONSTANTS
  Track,       \* the tracks
  Unnestable,  \* those that get their events from BeginLegacyUnnestable
  Label(_),    \* the [category, name] of a track's events, either of them Null
  Null,
  MaxTs,       \* the latest timestamp
  MaxSlices,   \* rows of the slice table at most
  MaxDepth     \* the limit on the depth: 255 in the code

ASSUME SliceAssumption ==
  /\ Unnestable \subseteq Track
  /\ {MaxTs, MaxSlices} \subseteq Nat /\ MaxDepth \in Nat \ {0}

kPendingDuration == -1
NoParent == 0
NoLabel == [category |-> Null, name |-> Null]

VARIABLES
  slices,          \* the slice table
  stacks,          \* of each track, the rows on its slice_stack
  prev_timestamp,  \* of the last event
  dcheck,          \* every DCHECK of MaybeCloseStack has held
  flushed          \* FlushPendingSlices was called: the end of the trace

vars == <<slices, stacks, prev_timestamp, dcheck, flushed>>

Ts == 0 .. MaxTs
Row == [track : Track, label : (UNION {Label(t) : t \in Track}) \cup {NoLabel}, ts : Ts,
        dur : {kPendingDuration} \cup Ts, depth : 0 .. MaxDepth - 1,
        parent_id : 0 .. MaxSlices, placed : BOOLEAN]

(* The type of the slice table and of the stacks.                            *)
TypeOK ==
  /\ slices \in Seq(Row) /\ Len(slices) <= MaxSlices
  /\ stacks \in [Track -> Seq(1 .. Len(slices))]
  /\ \A t \in Track : Len(stacks[t]) <= MaxDepth
  /\ prev_timestamp \in Ts
  /\ dcheck \in BOOLEAN /\ flushed \in BOOLEAN

Init ==
  /\ slices = <<>>
  /\ stacks = [t \in Track |-> <<>>]
  /\ prev_timestamp = 0
  /\ dcheck = TRUE /\ flushed = FALSE

Pending(row) == row.dur = kPendingDuration
End(row) == row.ts + row.dur
Pop(s) == SubSeq(s, 1, Len(s) - 1)
-----------------------------------------------------------------------------
(* MaybeCloseStack looks at the stack from the top down.  Of a slice that is *)
(* over, everything above it ends where it ends, if something there is still *)
(* pending.                                                                  *)
Truncate(acc, i) ==
  LET above == {acc.stack[j] : j \in i + 1 .. Len(acc.stack)}
      end == End(acc.slices[acc.stack[i]])
  IN [stack |-> SubSeq(acc.stack, 1, i - 1),
      slices |-> [s \in DOMAIN acc.slices |->
                    IF s \in above THEN [acc.slices[s] EXCEPT !.dur = end - acc.slices[s].ts]
                    ELSE acc.slices[s]],
      dcheck |-> acc.dcheck /\ \A s \in above : Pending(acc.slices[s]),
      incomplete_descendent |-> FALSE]

MaybeCloseOnePlain(acc, i, ts) ==  \* mutant: pending slices are not thought of
  LET row == acc.slices[acc.stack[i]] IN
  IF ~Pending(row) /\ End(row) <= ts THEN [acc EXCEPT !.stack = Pop(@)] ELSE acc
MaybeCloseOneKept(acc, i, ts) ==  \* mutant: nothing is truncated
  LET row == acc.slices[acc.stack[i]] IN
  CASE Pending(row) -> [acc EXCEPT !.incomplete_descendent = TRUE]
    [] ~Pending(row) -> IF End(row) <= ts /\ ~acc.incomplete_descendent
                        THEN [acc EXCEPT !.stack = Pop(@)] ELSE acc
MaybeCloseOne(acc, i, ts) ==
  LET row == acc.slices[acc.stack[i]] IN
  CASE Pending(row) -> [acc EXCEPT !.incomplete_descendent = TRUE]
    [] ~Pending(row) /\ acc.incomplete_descendent ->
         IF ts <= End(row) THEN acc ELSE Truncate(acc, i)
    [] ~Pending(row) /\ ~acc.incomplete_descendent ->
         IF End(row) <= ts THEN [acc EXCEPT !.stack = Pop(@)] ELSE acc

MaybeCloseStack(ts, t) ==
  LET n == Len(stacks[t])
      after[i \in 1 .. n + 1] ==
        IF i = n + 1
        THEN [stack |-> stacks[t], slices |-> slices, dcheck |-> dcheck,
              incomplete_descendent |-> FALSE]
        ELSE MaybeCloseOne(after[i + 1], i, ts)
  IN after[1]

MatchingSliceIndex(stack, rows, label) ==  \* mutant: complete or not
  LET found == {i \in 1 .. Len(stack) :
                  label.name # Null => rows[stack[i]].label.name = label.name}
  IN IF found = {} THEN 0 ELSE CHOOSE i \in found : \A j \in found : j <= i
(* MatchingIncompleteSliceIndex, 0 if there is none.                         *)
MatchingIncompleteSliceIndex(stack, rows, label) ==
  LET Matches(row) ==
        /\ Pending(row)
        /\ label.category # Null => row.label.category = label.category
        /\ label.name # Null /\ row.label.name # Null => row.label.name = label.name
      found == {i \in 1 .. Len(stack) : Matches(rows[stack[i]])}
  IN IF found = {} THEN 0 ELSE CHOOSE i \in found : \A j \in found : j <= i
-----------------------------------------------------------------------------
InOrder(ts) ==
  ts >= prev_timestamp

TooDeep(depth) ==
  depth >= MaxDepth

(* StartSlice, for Begin, BeginLegacyUnnestable (a track that is unnestable) *)
(* and Scoped.                                                               *)
StartSlice(ts, t, label, dur) ==
  LET c == MaybeCloseStack(ts, t)
      depth == Len(c.stack)
      row == [track |-> t, label |-> label, ts |-> ts, dur |-> dur,
              depth |-> 0, parent_id |-> NoParent, placed |-> FALSE]
  IN /\ ~flushed /\ Len(slices) < MaxSlices
     /\ UNCHANGED flushed
     /\ \/ ~InOrder(ts) /\ UNCHANGED vars
        \/ /\ InOrder(ts) /\ t \in Unnestable /\ stacks[t] # <<>>
           /\ prev_timestamp' = ts
           /\ UNCHANGED <<slices, stacks, dcheck>>
        \/ /\ InOrder(ts) /\ (t \in Unnestable => stacks[t] = <<>>)
           /\ prev_timestamp' = ts
           /\ dcheck' = c.dcheck
           /\ \/ /\ TooDeep(depth)
                 /\ slices' = Append(c.slices, row)
                 /\ stacks' = [stacks EXCEPT ![t] = c.stack]
              \/ /\ ~TooDeep(depth)
                 /\ slices' = Append(c.slices,
                      [row EXCEPT !.placed = TRUE, !.depth = depth,
                         !.parent_id = IF depth = 0 THEN NoParent ELSE c.stack[depth]])
                 /\ stacks' = [stacks EXCEPT ![t] = Append(c.stack, Len(slices) + 1)]

(* CompleteSlice, with the finder of End.                                    *)
CompleteSlice(ts, t, label) ==
  LET c == MaybeCloseStack(ts, t)
      i == MatchingIncompleteSliceIndex(c.stack, c.slices, label)
  IN /\ ~flushed /\ UNCHANGED flushed
     /\ \/ ~InOrder(ts) /\ UNCHANGED vars
        \/ /\ InOrder(ts)
           /\ prev_timestamp' = ts
           /\ dcheck' = c.dcheck
           /\ \/ /\ i = 0
                 /\ slices' = c.slices
                 /\ stacks' = [stacks EXCEPT ![t] = c.stack]
              \/ /\ i > 0
                 /\ slices' = [s \in DOMAIN c.slices |->
                                IF s = c.stack[i] THEN [c.slices[s] EXCEPT !.dur = ts - c.slices[s].ts]
                                ELSE c.slices[s]]
                 /\ stacks' = [stacks EXCEPT ![t] = IF i = Len(c.stack) THEN Pop(c.stack)
                                                    ELSE c.stack]

FlushPendingSlices ==
  /\ ~flushed
  /\ flushed' = TRUE
  /\ stacks' = [t \in Track |-> <<>>]
  /\ UNCHANGED <<slices, prev_timestamp, dcheck>>
-----------------------------------------------------------------------------
(* Events of a track nest or are disjoint: a complete event fits in the      *)
(* complete slices that are not over, or starts where they end (something    *)
(* pending keeps them on the stack), and a slice does not end before what is *)
(* complete inside it.                                                       *)
Fits(ts, t, dur) ==
  LET c == MaybeCloseStack(ts, t)
  IN \A i \in DOMAIN c.stack :
       LET row == c.slices[c.stack[i]]
       IN Pending(row) \/ ts + dur <= End(row) \/ End(row) = ts

Encloses(ts, t, label) ==
  LET c == MaybeCloseStack(ts, t)
      i == MatchingIncompleteSliceIndex(c.stack, c.slices, label)
  IN i > 0 => \A j \in i + 1 .. Len(c.stack) :
                LET row == c.slices[c.stack[j]] IN ~Pending(row) => End(row) <= ts

Begin ==
  \E ts \in Ts, t \in Track : \E label \in Label(t) :
    StartSlice(ts, t, label, kPendingDuration)

(* The label of a complete slice is never looked at.                         *)
Scoped ==
  \E ts \in Ts, t \in Track \ Unnestable : \E dur \in 0 .. MaxTs - ts :
    /\ Fits(ts, t, dur)
    /\ StartSlice(ts, t, NoLabel, dur)

EndEvent ==
  \E ts \in Ts, t \in Track : \E label \in Label(t) \cup {NoLabel} :
    /\ Encloses(ts, t, label)
    /\ CompleteSlice(ts, t, label)

Next == Begin \/ Scoped \/ EndEvent \/ FlushPendingSlices

Spec == Init /\ [][Next]_vars
-----------------------------------------------------------------------------
(* Every slice lies in its parent, although slices may be ended out of order *)
(* or not at all and are truncated by later events of the track: its start   *)
(* does and, once both are complete, its end.  Only a slice that starts at   *)
(* the very end of its parent may be longer: it was over, and off the stack, *)
(* when its parent was truncated.                                            *)
SlicesNest ==
  \A s \in DOMAIN slices : slices[s].parent_id # NoParent =>
    LET row == slices[s]
        parent == slices[row.parent_id]
    IN /\ parent.track = row.track /\ parent.depth + 1 = row.depth
       /\ parent.ts <= row.ts
       /\ ~Pending(parent) => row.ts <= End(parent)
       /\ ~Pending(parent) /\ ~Pending(row) =>
            End(row) <= End(parent) \/ row.ts = End(parent)

(* Slices of a track at the same depth follow each other: an earlier one is  *)
(* complete, and over, when a later one starts.                              *)
SiblingsAreDisjoint ==
  \A s, r \in DOMAIN slices :
    (/\ s < r /\ slices[s].track = slices[r].track
     /\ slices[s].placed /\ slices[r].placed
     /\ slices[s].depth = slices[r].depth)
    => ~Pending(slices[s]) /\ End(slices[s]) <= slices[r].ts

(* Slice s starts where one ends that is complete and below it on its stack. *)
Touches(s) ==
  LET stack == stacks[slices[s].track]
  IN \E i \in DOMAIN stack : /\ stack[i] < s /\ ~Pending(slices[stack[i]])
                             /\ End(slices[stack[i]]) = slices[s].ts

(* What a complete slice says is final: once it has a duration, a later      *)
(* event changes it in one case only, when the slice touches one below it on *)
(* its stack: what is above that one is cut at its end, this slice to 0.     *)
DurationsAreFinal ==
  [][\A s \in DOMAIN slices :
       ~Pending(slices[s]) /\ slices'[s].dur # slices[s].dur =>
         slices'[s].dur = 0 /\ Touches(s)]_vars

(* The DCHECK of MaybeCloseStack: whatever is above a slice that is over,    *)
(* while something there is pending, is pending.                             *)
OnlyPendingTruncated == dcheck
=============================================================================
