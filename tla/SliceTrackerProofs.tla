------------------------- MODULE SliceTrackerProofs -------------------------
(***************************************************************************)
(* Proofs about SliceTracker: slices of a track nest in their parents,     *)
(* slices at the same depth follow each other, and what a complete slice   *)
(* says is final but for the slices that touch another, for any tracks,    *)
(* labels, depth limit and number of events, as long as the events of a    *)
(* track nest or are disjoint.                                             *)
(*                                                                         *)
(* The stack is what makes it work: of a slice on it, everything that came *)
(* later on the track is a descendant, and lies in it.  MaybeCloseStack is *)
(* a loop down the stack; its invariant says how far the stack is closed   *)
(* and that the rows it completes lie in what is left.  A complete slice   *)
(* that has ended stays on the stack only below something pending: that is *)
(* where later slices may start at its very end.                           *)
(***************************************************************************)
EXTENDS SliceTracker, SequenceTheorems, WellFoundedInduction, TLAPS

-----------------------------------------------------------------------------
(* The inductive invariant, of any table rows, stacks and time: the close of *)
(* a stack comes before the rest of an event.                                *)

(* Row x starts in row p, and ends in it once both are complete, unless it   *)
(* starts where p ends.                                                      *)
Covers(rows, p, x) ==
  /\ rows[p].ts <= rows[x].ts
  /\ ~Pending(rows[p]) =>
       /\ rows[x].ts <= End(rows[p])
       /\ ~Pending(rows[x]) => End(rows[x]) <= End(rows[p]) \/ rows[x].ts = End(rows[p])

OnTrack(rows, t, x) == rows[x].track = t /\ rows[x].placed

(* The parents, which SlicesNest is about.                                   *)
Parents(rows) ==
  \A x \in 1 .. Len(rows) : rows[x].parent_id # NoParent =>
    LET p == rows[x].parent_id
    IN /\ p \in 1 .. Len(rows) /\ p < x
       /\ rows[x].placed /\ OnTrack(rows, rows[x].track, p)
       /\ rows[p].depth + 1 = rows[x].depth
       /\ Covers(rows, p, x)

(* What SiblingsAreDisjoint says.                                            *)
Siblings(rows) ==
  \A x, y \in 1 .. Len(rows) :
    (/\ x < y /\ rows[x].track = rows[y].track /\ rows[x].placed /\ rows[y].placed
     /\ rows[x].depth = rows[y].depth)
    => ~Pending(rows[x]) /\ End(rows[x]) <= rows[y].ts

(* A stack is a path of the tree, and whatever came later on the track than  *)
(* a slice of it lies in that slice.                                         *)
Path(rows, s, t) ==
  /\ \A i, j \in 1 .. Len(s) : i < j => s[i] < s[j]
  /\ \A i \in 1 .. Len(s) :
       /\ OnTrack(rows, t, s[i]) /\ rows[s[i]].depth = i - 1
       /\ i = 1 => rows[s[i]].parent_id = NoParent
       /\ i > 1 => rows[s[i]].parent_id = s[i - 1]

Descend(rows, s, t) ==
  \A i \in 1 .. Len(s), x \in 1 .. Len(rows) :
    x > s[i] /\ OnTrack(rows, t, x) => Covers(rows, s[i], x)

(* What is not on the stack is complete and over.                            *)
Over(rows, s, t, ts) ==
  \A x \in 1 .. Len(rows) : OnTrack(rows, t, x) =>
    \/ \E i \in 1 .. Len(s) : s[i] = x
    \/ ~Pending(rows[x]) /\ End(rows[x]) <= ts

(* A complete slice of a stack ends after a complete one below it only if    *)
(* something between them is pending.                                        *)
Hidden(rows, s) ==
  \A i, j \in 1 .. Len(s) :
    i < j /\ ~Pending(rows[s[i]]) /\ ~Pending(rows[s[j]]) =>
      \/ End(rows[s[j]]) <= End(rows[s[i]])
      \/ \E k \in i + 1 .. j - 1 : Pending(rows[s[k]])

Sound(rows, st, ts) ==
  /\ Parents(rows) /\ Siblings(rows)
  /\ \A x \in 1 .. Len(rows) : rows[x].ts <= ts
  /\ \A t \in Track : Path(rows, st[t], t) /\ Descend(rows, st[t], t)
                      /\ Over(rows, st[t], t, ts)
  /\ \A t \in Track : Hidden(rows, st[t])

IInv ==
  /\ TypeOK
  /\ Parents(slices) /\ Siblings(slices)
  /\ ~flushed => Sound(slices, stacks, prev_timestamp)

-----------------------------------------------------------------------------
(* Rows, and tables of them.                                                 *)

(* The fields of a row.                                                     *)
LEMMA RowFacts ==
  ASSUME NEW r \in Row
  PROVE  /\ r.ts \in Nat /\ r.ts \in Ts /\ r.dur \in Int /\ r.depth \in Nat
         /\ r.parent_id \in Nat /\ r.placed \in BOOLEAN /\ r.track \in Track
         /\ Pending(r) <=> r.dur = -1
         /\ ~Pending(r) => r.dur \in Nat /\ r.dur \in Ts
         /\ End(r) = r.ts + r.dur /\ End(r) \in Int
<1>1. MaxTs \in Nat /\ MaxDepth \in Nat \ {0} /\ MaxSlices \in Nat
  BY SliceAssumption, Zenon
<1>2. r.ts \in Ts /\ r.dur \in {-1} \cup Ts /\ r.depth \in 0 .. MaxDepth - 1
      /\ r.parent_id \in 0 .. MaxSlices /\ r.placed \in BOOLEAN /\ r.track \in Track
  BY Zenon DEF Row, kPendingDuration
<1>3. r.ts \in Nat /\ r.dur \in Int /\ r.depth \in Nat /\ r.parent_id \in Nat
  BY <1>1, <1>2 DEF Ts
<1>4. ~Pending(r) => r.dur \in Nat /\ r.dur \in Ts
  BY <1>1, <1>2 DEF Ts, Pending, kPendingDuration
<1> QED BY <1>2, <1>3, <1>4 DEF Pending, End, kPendingDuration

(* A row that gets its duration.                                             *)
LEMMA RowCompleted ==
  ASSUME NEW r \in Row, NEW d \in Ts
  PROVE  /\ [r EXCEPT !.dur = d] \in Row
         /\ ~Pending([r EXCEPT !.dur = d])
         /\ End([r EXCEPT !.dur = d]) = r.ts + d
         /\ [r EXCEPT !.dur = d].track = r.track /\ [r EXCEPT !.dur = d].ts = r.ts
         /\ [r EXCEPT !.dur = d].depth = r.depth
         /\ [r EXCEPT !.dur = d].parent_id = r.parent_id
         /\ [r EXCEPT !.dur = d].placed = r.placed
<1>1. d \in Nat
  BY SliceAssumption DEF Ts
<1> QED BY <1>1 DEF Row, Pending, End, kPendingDuration

(* A duration from b to the end of a slice that is d long and starts at a.   *)
LEMMA DurationFits ==
  ASSUME NEW a \in Nat, NEW d \in Ts, NEW b \in Nat, a <= b, b <= a + d
  PROVE  (a + d) - b \in Ts
<1>1. MaxTs \in Nat /\ d \in 0 .. MaxTs
  BY SliceAssumption, Zenon DEF Ts
<1>2. d \in Nat /\ d <= MaxTs
  BY <1>1
<1>3. (a + d) - b \in 0 .. MaxTs
  BY <1>1, <1>2
<1> QED BY <1>3, Zenon DEF Ts

(* What an increasing sequence orders, it orders as its indices.            *)
LEMMA Increasing ==
  ASSUME NEW s, NEW n \in Nat, \A k \in 1 .. n : s[k] \in Nat,
         \A k, j \in 1 .. n : k < j => s[k] < s[j]
  PROVE  \A k, j \in 1 .. n : (s[k] < s[j] => k < j) /\ (s[k] = s[j] => k = j)
<1> TAKE k, j \in 1 .. n
<1>1. k \in Int /\ j \in Int /\ s[k] \in Int /\ s[j] \in Int
  OBVIOUS
<1>2. CASE k < j
  <2>1. s[k] < s[j]
    BY <1>2, Zenon
  <2> QED BY <1>1, <1>2, <2>1
<1>3. CASE j < k
  <2>1. s[j] < s[k]
    BY <1>3, Zenon
  <2> QED BY <1>1, <1>3, <2>1
<1>4. CASE k = j
  BY <1>1, <1>4
<1> QED BY <1>1, <1>2, <1>3, <1>4

(* A function on 1 .. n is a sequence of length n.                          *)
LEMMA TableIsSeq ==
  ASSUME NEW S, NEW n \in Nat, NEW f \in [1 .. n -> S]
  PROVE  f \in Seq(S) /\ Len(f) = n /\ DOMAIN f = 1 .. n
BY IsASeq, LenProperties

(* A stack whose rows have not changed is still a path.                      *)
LEMMA PathKept ==
  ASSUME NEW rows, NEW R, NEW v, NEW u, Path(rows, v, u),
         \A k \in 1 .. Len(v) : R[v[k]] = rows[v[k]]
  PROVE  Path(R, v, u)
<1>1. \A k, j \in 1 .. Len(v) : k < j => v[k] < v[j]
  BY Zenon DEF Path
<1>2. ASSUME NEW k \in 1 .. Len(v)
      PROVE  /\ OnTrack(R, u, v[k]) /\ R[v[k]].depth = k - 1
             /\ k = 1 => R[v[k]].parent_id = NoParent
             /\ k > 1 => R[v[k]].parent_id = v[k - 1]
  <2>1. /\ OnTrack(rows, u, v[k]) /\ rows[v[k]].depth = k - 1
        /\ k = 1 => rows[v[k]].parent_id = NoParent
        /\ k > 1 => rows[v[k]].parent_id = v[k - 1]
    BY Zenon DEF Path
  <2>2. R[v[k]] = rows[v[k]]
    BY Zenon
  <2> QED BY <2>1, <2>2, Zenon DEF OnTrack
<1> QED BY <1>1, <1>2, Zenon DEF Path

(* What is left of a stack that is cut after its first n entries.           *)
LEMMA PrefixFacts ==
  ASSUME NEW S, NEW s \in Seq(S), NEW n \in Nat, n <= Len(s)
  PROVE  /\ SubSeq(s, 1, n) \in Seq(S) /\ Len(SubSeq(s, 1, n)) = n
         /\ \A k \in 1 .. n : SubSeq(s, 1, n)[k] = s[k]
<1>1. \A k \in 1 .. n : s[k] \in S
  OBVIOUS
<1>2. SubSeq(s, 1, n) = [k \in 1 .. n |-> s[k]]
  BY SubSeqProperties
<1>3. [k \in 1 .. n |-> s[k]] \in [1 .. n -> S]
  BY <1>1, Zenon
<1> QED BY <1>2, <1>3, TableIsSeq, Zenon

(* A stack, or what is left of it, whose rows have not changed.              *)
LeftOf(rows, v, R, w) ==
  /\ Len(v) \in Nat /\ Len(w) \in Nat /\ Len(w) <= Len(v)
  /\ \A k \in 1 .. Len(w) : R[w[k]] = rows[v[k]]

(* What hid its slices from each other still does.                           *)
LEMMA HiddenKept ==
  ASSUME NEW rows, NEW v, NEW R, NEW w, LeftOf(rows, v, R, w), Hidden(rows, v)
  PROVE  Hidden(R, w)
<1>0. /\ Len(v) \in Nat /\ Len(w) \in Nat /\ Len(w) <= Len(v)
      /\ \A k \in 1 .. Len(w) : R[w[k]] = rows[v[k]]
  BY Zenon DEF LeftOf
<1> SUFFICES ASSUME NEW i \in 1 .. Len(w), NEW j \in 1 .. Len(w), i < j,
                    ~Pending(R[w[i]]), ~Pending(R[w[j]])
             PROVE  \/ End(R[w[j]]) <= End(R[w[i]])
                    \/ \E k \in i + 1 .. j - 1 : Pending(R[w[k]])
  BY Zenon DEF Hidden
<1>1. i \in 1 .. Len(v) /\ j \in 1 .. Len(v) /\ \A k \in i + 1 .. j - 1 : k \in 1 .. Len(w)
  BY <1>0
<1>2. R[w[i]] = rows[v[i]] /\ R[w[j]] = rows[v[j]]
  BY <1>0, Zenon
<1>3. \/ End(rows[v[j]]) <= End(rows[v[i]])
      \/ \E k \in i + 1 .. j - 1 : Pending(rows[v[k]])
  BY <1>1, <1>2, Zenon DEF Hidden
<1> QED BY <1>0, <1>1, <1>2, <1>3, Zenon

-----------------------------------------------------------------------------
(* The loop of MaybeCloseStack, once it has looked at the places from i on.  *)

Acc == [stack : Seq(1 .. Len(slices)), slices : Seq(Row), dcheck : BOOLEAN,
        incomplete_descendent : BOOLEAN]

(* Only rows that have left the stack are changed, and only their durations: *)
(* they were pending, or touch a slice below and are cut down to nothing.    *)
Kept(rows, s, m) ==
  /\ Len(rows) = Len(slices)
  /\ \A x \in 1 .. Len(slices) :
       /\ rows[x].track = slices[x].track /\ rows[x].ts = slices[x].ts
       /\ rows[x].depth = slices[x].depth /\ rows[x].parent_id = slices[x].parent_id
       /\ rows[x].placed = slices[x].placed
       /\ rows[x] # slices[x] =>
            /\ Pending(slices[x]) \/ (rows[x].dur = 0 /\ Touches(x))
            /\ \E k \in m + 1 .. Len(s) : s[k] = x

(* What has left the stack is over.                                          *)
Left(rows, s, m, ts) ==
  \A k \in m + 1 .. Len(s) : ~Pending(rows[s[k]]) /\ End(rows[s[k]]) <= ts

(* The slice at place k, of the n that are left, is pending or not over; at  *)
(* its very end it stays for something above it that is pending.             *)
Lasts(rows, s, n, k, ts) ==
  \/ Pending(rows[s[k]])
  \/ /\ ts <= End(rows[s[k]])
     /\ ts = End(rows[s[k]]) => \E j \in k + 1 .. n : Pending(rows[s[j]])

(* What stays: incomplete_descendent says whether any of it is pending.      *)
Stays(acc, s, i, ts) ==
  /\ acc.incomplete_descendent =>
       /\ \E j \in i .. Len(acc.stack) : Pending(acc.slices[s[j]])
       /\ \A k \in i .. Len(acc.stack) : Lasts(acc.slices, s, Len(acc.stack), k, ts)
  /\ ~acc.incomplete_descendent =>
       \A k \in i .. Len(acc.stack) :
         ~Pending(acc.slices[s[k]]) /\ ts < End(acc.slices[s[k]])

Closing(acc, i, ts, t) ==
  /\ acc \in Acc
  /\ Len(acc.stack) \in i - 1 .. Len(stacks[t])
  /\ \A k \in 1 .. Len(acc.stack) : acc.stack[k] = stacks[t][k]
  /\ Kept(acc.slices, stacks[t], Len(acc.stack))
  /\ Left(acc.slices, stacks[t], Len(acc.stack), ts)
  /\ Descend(acc.slices, stacks[t], t)
  /\ Stays(acc, stacks[t], i, ts)

(* The place the loop looks at.                                              *)
LooksAt(acc, i, ts, t) ==
  /\ stacks[t] \in Seq(1 .. Len(slices)) /\ Len(stacks[t]) \in Nat
  /\ Len(slices) \in Nat /\ ts \in Nat
  /\ acc \in Acc /\ acc.stack \in Seq(1 .. Len(slices))
  /\ Len(acc.stack) \in Nat /\ Len(acc.stack) \in i .. Len(stacks[t])
  /\ acc.slices \in Seq(Row) /\ Len(acc.slices) = Len(slices)
  /\ acc.stack[i] = stacks[t][i]
  /\ \A k \in 1 .. Len(stacks[t]) : /\ stacks[t][k] \in 1 .. Len(slices)
                                    /\ acc.slices[stacks[t][k]] \in Row
  /\ \A k, j \in 1 .. Len(stacks[t]) : k < j => stacks[t][k] < stacks[t][j]
  /\ \A k \in 1 .. Len(stacks[t]) : OnTrack(acc.slices, t, stacks[t][k])

(* Of a table old of N rows, only ones that are above m in stack s changed.  *)
Cut(rows, old, N, s, m) ==
  /\ N \in Nat /\ Len(s) \in Nat /\ m \in Nat /\ m <= Len(s)
  /\ \A k \in 1 .. Len(s) : s[k] \in 1 .. N
  /\ \A k, j \in 1 .. Len(s) : k < j => s[k] < s[j]
  /\ \A x \in 1 .. N : rows[x] # old[x] => \E k \in m + 1 .. Len(s) : s[k] = x

Same(rows, old, s, m) == \A k \in 1 .. m : rows[s[k]] = old[s[k]]

(* The loop changes no row that is still on the stack.                       *)
LEMMA StackKept ==
  ASSUME NEW rows, NEW old, NEW N, NEW s, NEW m, Cut(rows, old, N, s, m)
  PROVE  Same(rows, old, s, m)
<1>0. /\ N \in Nat /\ Len(s) \in Nat /\ m \in Nat /\ m <= Len(s)
      /\ \A k \in 1 .. Len(s) : s[k] \in 1 .. N
      /\ \A k, j \in 1 .. Len(s) : k < j => s[k] < s[j]
      /\ \A x \in 1 .. N : rows[x] # old[x] => \E k \in m + 1 .. Len(s) : s[k] = x
  BY Zenon DEF Cut
<1> SUFFICES ASSUME NEW k \in 1 .. m, rows[s[k]] # old[s[k]]
             PROVE  FALSE
  BY Zenon DEF Same
<1>1. k \in 1 .. Len(s)
  BY <1>0
<1>2. \A j \in 1 .. Len(s) : s[j] \in Nat
  BY <1>0
<1>3. PICK j \in m + 1 .. Len(s) : s[j] = s[k]
  BY <1>0, <1>1, Zenon
<1>4. j \in 1 .. Len(s) /\ j # k
  BY <1>0, <1>3
<1>5. \A a, b \in 1 .. Len(s) : (s[a] < s[b] => a < b) /\ (s[a] = s[b] => a = b)
  <2> DEFINE n == Len(s)
  <2> HIDE DEF n
  <2>1. n \in Nat /\ (\A a \in 1 .. n : s[a] \in Nat)
        /\ (\A a, b \in 1 .. n : a < b => s[a] < s[b])
    BY <1>0, <1>2, Zenon DEF n
  <2>2. \A a, b \in 1 .. n : (s[a] < s[b] => a < b) /\ (s[a] = s[b] => a = b)
    BY <2>1, Increasing, Zenon
  <2> QED BY <2>2, Zenon DEF n
<1> QED BY <1>1, <1>3, <1>4, <1>5, Zenon

(* Where the loop of MaybeCloseStack stands at entry i.                     *)
LEMMA Place ==
  ASSUME IInv, ~flushed, NEW ts \in Ts, NEW t \in Track,
         NEW i \in 1 .. Len(stacks[t]), NEW acc, Closing(acc, i + 1, ts, t)
  PROVE  LooksAt(acc, i, ts, t)
<1>1. stacks[t] \in Seq(1 .. Len(slices)) /\ slices \in Seq(Row)
  BY Zenon DEF IInv, TypeOK
<1>2. Len(stacks[t]) \in Nat /\ Len(slices) \in Nat
      /\ \A k \in 1 .. Len(stacks[t]) : stacks[t][k] \in 1 .. Len(slices)
  BY <1>1
<1>3. ts \in Nat
  BY SliceAssumption DEF Ts
<1>4. /\ acc \in Acc /\ Len(acc.stack) \in i .. Len(stacks[t])
      /\ \A k \in 1 .. Len(acc.stack) : acc.stack[k] = stacks[t][k]
      /\ Kept(acc.slices, stacks[t], Len(acc.stack))
  BY DEF Closing
<1>5. acc.stack \in Seq(1 .. Len(slices)) /\ acc.slices \in Seq(Row)
  BY <1>4, Zenon DEF Acc
<1>6. Len(acc.stack) \in Nat /\ acc.stack[i] = stacks[t][i]
  BY <1>2, <1>4, <1>5
<1>7. Len(acc.slices) = Len(slices)
  BY <1>4, Zenon DEF Kept
<1>8. \A k \in 1 .. Len(stacks[t]) : acc.slices[stacks[t][k]] \in Row
  BY <1>2, <1>5, <1>7
<1>9. /\ \A k, j \in 1 .. Len(stacks[t]) : k < j => stacks[t][k] < stacks[t][j]
      /\ \A k \in 1 .. Len(stacks[t]) : OnTrack(slices, t, stacks[t][k])
  BY Zenon DEF IInv, Sound, Path
<1>10. \A k \in 1 .. Len(stacks[t]) : OnTrack(acc.slices, t, stacks[t][k])
  BY <1>2, <1>4, <1>9, Zenon DEF OnTrack, Kept
<1> QED BY <1>1, <1>2, <1>3, <1>4, <1>5, <1>6, <1>7, <1>8, <1>9, <1>10, Zenon DEF LooksAt

(* A complete slice that is over, below something pending: what is above it  *)
(* is pending or starts where it ends, is made to end there, and leaves the  *)
(* stack with it.                                                            *)
LEMMA TruncateCloses ==
  ASSUME IInv, ~flushed, NEW ts \in Ts, NEW t \in Track,
         NEW i \in 1 .. Len(stacks[t]), NEW acc, Closing(acc, i + 1, ts, t),
         acc.incomplete_descendent, ~Pending(acc.slices[stacks[t][i]]),
         End(acc.slices[stacks[t][i]]) < ts
  PROVE  Closing(Truncate(acc, i), i, ts, t)
<1> DEFINE s == stacks[t]
           m == Len(acc.stack)
           N == Len(slices)
           A == acc.slices
           p == s[i]
           e == End(A[p])
           above == {acc.stack[j] : j \in i + 1 .. m}
           B == [x \in DOMAIN A |-> IF x \in above THEN [A[x] EXCEPT !.dur = e - A[x].ts]
                                    ELSE A[x]]
           st == SubSeq(acc.stack, 1, i - 1)
<1>0. LooksAt(acc, i, ts, t)
  BY Place, Zenon
<1>1. /\ s \in Seq(1 .. N) /\ Len(s) \in Nat /\ N \in Nat /\ ts \in Nat
      /\ acc \in Acc /\ acc.stack \in Seq(1 .. N) /\ m \in Nat /\ m \in i .. Len(s)
      /\ A \in Seq(Row) /\ Len(A) = N /\ acc.stack[i] = p
      /\ \A k \in 1 .. Len(s) : s[k] \in 1 .. N /\ A[s[k]] \in Row
      /\ \A k, j \in 1 .. Len(s) : k < j => s[k] < s[j]
      /\ \A k \in 1 .. Len(s) : OnTrack(A, t, s[k])
      /\ i \in 1 .. Len(s)
  BY <1>0, Zenon DEF LooksAt
<1>2. /\ acc.dcheck \in BOOLEAN /\ \A k \in 1 .. m : acc.stack[k] = s[k]
      /\ Kept(A, s, m) /\ Left(A, s, m, ts) /\ Descend(A, s, t) /\ Stays(acc, s, i + 1, ts)
  BY Zenon DEF Closing, Acc
<1>3. above = {s[j] : j \in i + 1 .. m}
  <2>1. \A j \in i + 1 .. m : j \in 1 .. m
    BY <1>1
  <2>2. \A j \in i + 1 .. m : acc.stack[j] = s[j]
    BY <1>2, <2>1, Zenon
  <2> HIDE DEF s, m
  <2> QED BY <2>2, Zenon
<1>4. Truncate(acc, i) =
        [stack |-> st, slices |-> B,
         dcheck |-> acc.dcheck /\ \A x \in above : Pending(A[x]),
         incomplete_descendent |-> FALSE]
  BY <1>1, Zenon DEF Truncate
<1>5. ~Pending(A[p]) /\ e < ts /\ e \in Int /\ A[p].ts \in Nat /\ A[p].dur \in Ts
      /\ e = A[p].ts + A[p].dur /\ acc.incomplete_descendent
  BY <1>1, RowFacts, Zenon
<1> HIDE DEF s, m, N, A, p, e, above, B, st
<1>num. /\ i \in Nat /\ 1 <= i /\ i <= m /\ m \in Nat /\ m <= Len(s) /\ Len(s) \in Nat
        /\ N \in Nat /\ ts \in Nat
  BY <1>1
<1>inc. \A k, j \in 1 .. Len(s) : /\ k < j => s[k] < s[j]
                                  /\ s[k] < s[j] => k < j
                                  /\ s[k] = s[j] => k = j
  <2>1. \A k \in 1 .. Len(s) : s[k] \in Nat
    <3>1. \A x \in 1 .. N : x \in Nat
      BY <1>num
    <3>2. \A k \in 1 .. Len(s) : s[k] \in 1 .. N
      BY <1>1, Zenon
    <3> QED BY <3>1, <3>2, Zenon
  <2>2. \A k, j \in 1 .. Len(s) : k < j => s[k] < s[j]
    BY <1>1, Zenon
  <2> QED BY <1>num, <2>1, <2>2, Increasing, Zenon
<1>same. \A k \in 1 .. m : A[s[k]] = slices[s[k]]
  <2>1. \A k \in 1 .. Len(s) : s[k] \in 1 .. Len(slices)
    BY <1>1, Zenon DEF N
  <2>2. Cut(A, slices, N, s, m)
    BY <1>1, <1>2, <1>num, <2>1, Zenon DEF Cut, Kept, N
  <2>3. Same(A, slices, s, m)
    BY <2>2, StackKept, Zenon
  <2> QED BY <2>3, Zenon DEF Same
(* What is above lies in it, and is pending or starts where it ends.         *)
<1>6. ASSUME NEW k \in i + 1 .. m
      PROVE  /\ k \in 1 .. Len(s) /\ s[k] \in 1 .. N /\ A[s[k]] \in Row
             /\ p < s[k] /\ Covers(A, p, s[k])
             /\ Pending(A[s[k]]) \/ A[s[k]].ts = e
             /\ e - A[s[k]].ts \in Ts
  <2>1. k \in 1 .. Len(s) /\ i \in 1 .. Len(s) /\ i < k
    BY <1>1, <1>6 DEF s
  <2>2. s[k] \in 1 .. N /\ A[s[k]] \in Row /\ p < s[k] /\ OnTrack(A, t, s[k])
    BY <1>1, <2>1, Zenon DEF p
  <2>3. Covers(A, p, s[k])
    BY <1>1, <1>2, <2>1, <2>2, Zenon DEF Descend, p
  <2>4. Pending(A[s[k]]) \/ ts <= End(A[s[k]])
    BY <1>1, <1>2, <1>5, <1>6, Zenon DEF Stays, Lasts, m, A
  <2>5. A[s[k]].ts \in Nat /\ End(A[s[k]]) \in Int
    BY <2>2, RowFacts, Zenon
  <2>6. A[p].ts <= A[s[k]].ts /\ A[s[k]].ts <= e
        /\ (~Pending(A[s[k]]) => End(A[s[k]]) <= e \/ A[s[k]].ts = e)
    BY <1>5, <2>3, Zenon DEF Covers, e
  <2>7. Pending(A[s[k]]) \/ A[s[k]].ts = e
    <3>1. ts \in Int /\ \A a, b, c \in Int : a <= b /\ b < c => ~(c <= a)
      BY <1>num
    <3> QED BY <1>5, <2>4, <2>5, <2>6, <3>1, Zenon
  <2>8. e - A[s[k]].ts \in Ts
    <3>1. (A[p].ts + A[p].dur) - A[s[k]].ts \in Ts
      BY <1>5, <2>5, <2>6, DurationFits, Zenon
    <3> QED BY <1>5, <3>1, Zenon
  <2> QED BY <2>1, <2>2, <2>3, <2>7, <2>8, Zenon
<1>7. /\ B \in Seq(Row) /\ Len(B) = N
      /\ \A x \in 1 .. N : x \notin above => B[x] = A[x]
      /\ \A x \in above :
           /\ x \in 1 .. N /\ B[x] \in Row /\ ~Pending(B[x]) /\ End(B[x]) = e
           /\ B[x].track = A[x].track /\ B[x].ts = A[x].ts /\ B[x].depth = A[x].depth
           /\ B[x].parent_id = A[x].parent_id /\ B[x].placed = A[x].placed
  <2>1. DOMAIN A = 1 .. N /\ \A x \in 1 .. N : A[x] \in Row
    BY <1>1
  <2>2. \A x \in 1 .. N : /\ x \in above => B[x] = [A[x] EXCEPT !.dur = e - A[x].ts]
                          /\ x \notin above => B[x] = A[x]
    BY <2>1, Zenon DEF B
  <2>3. ASSUME NEW x \in above
        PROVE  /\ x \in 1 .. N /\ B[x] \in Row /\ ~Pending(B[x]) /\ End(B[x]) = e
               /\ B[x].track = A[x].track /\ B[x].ts = A[x].ts /\ B[x].depth = A[x].depth
               /\ B[x].parent_id = A[x].parent_id /\ B[x].placed = A[x].placed
    <3>1. PICK k \in i + 1 .. m : x = s[k]
      BY <1>3, Zenon
    <3>2. x \in 1 .. N /\ A[x] \in Row /\ e - A[x].ts \in Ts
      BY <1>6, <3>1, Zenon
    <3> DEFINE r == A[x]
               d == e - A[x].ts
    <3>3. B[x] = [r EXCEPT !.dur = d]
      BY <2>2, <3>2, Zenon
    <3>4. r \in Row /\ d \in Ts /\ r.ts \in Nat /\ r.ts + d = e
      BY <1>5, <3>2, RowFacts
    <3> HIDE DEF r, d
    <3>5. /\ [r EXCEPT !.dur = d] \in Row /\ ~Pending([r EXCEPT !.dur = d])
          /\ End([r EXCEPT !.dur = d]) = r.ts + d
          /\ [r EXCEPT !.dur = d].track = r.track /\ [r EXCEPT !.dur = d].ts = r.ts
          /\ [r EXCEPT !.dur = d].depth = r.depth
          /\ [r EXCEPT !.dur = d].parent_id = r.parent_id
          /\ [r EXCEPT !.dur = d].placed = r.placed
      BY <3>4, RowCompleted, Zenon
    <3> QED BY <3>2, <3>3, <3>4, <3>5, Zenon DEF r
  <2>4. \A x \in 1 .. N : B[x] \in Row
    BY <2>1, <2>2, <2>3, Zenon
  <2>5. B \in [1 .. N -> Row]
    BY <2>1, <2>4, Zenon DEF B
  <2>6. B \in Seq(Row) /\ Len(B) = N
    BY <1>1, <2>5, TableIsSeq, Zenon
  <2> QED BY <2>2, <2>3, <2>6, Zenon
<1>8. st \in Seq(1 .. N) /\ Len(st) = i - 1 /\ \A k \in 1 .. i - 1 : st[k] = s[k]
  <2>1. i - 1 \in Nat /\ i - 1 <= Len(acc.stack) /\ \A k \in 1 .. i - 1 : k \in 1 .. m
    BY <1>num DEF m
  <2>2. st \in Seq(1 .. N) /\ Len(st) = i - 1
        /\ \A k \in 1 .. i - 1 : st[k] = acc.stack[k]
    <3> DEFINE z == acc.stack
               n == i - 1
               S == 1 .. N
    <3>1. z \in Seq(S) /\ n \in Nat /\ n <= Len(z)
      BY <1>1, <2>1, Zenon
    <3> HIDE DEF z, n, S
    <3>2. /\ SubSeq(z, 1, n) \in Seq(S) /\ Len(SubSeq(z, 1, n)) = n
          /\ \A k \in 1 .. n : SubSeq(z, 1, n)[k] = z[k]
      BY <3>1, PrefixFacts
    <3> QED BY <3>2, Zenon DEF st, z, n, S
  <2> QED BY <1>2, <2>1, <2>2, Zenon
(* What is cut that was complete.                                            *)
<1>9. ASSUME NEW x \in above
      PROVE  Pending(slices[x]) \/ (B[x].dur = 0 /\ Touches(x))
  <2>1. PICK k \in i + 1 .. m : x = s[k]
    BY <1>3, Zenon
  <2>2. k \in 1 .. m /\ i \in 1 .. m /\ DOMAIN s = 1 .. Len(s)
    BY <1>num, <1>1
  <2>3. A[x] = slices[x] /\ A[p] = slices[p] /\ p < x
    BY <1>6, <1>same, <2>1, <2>2, Zenon DEF p
  <2>4. CASE Pending(A[x])
    BY <2>3, <2>4, Zenon
  <2>5. CASE A[x].ts = e
    <3>1. B[x].ts = e /\ End(B[x]) = e /\ B[x] \in Row
      BY <1>7, <2>5, Zenon
    <3>2. End(B[x]) = B[x].ts + B[x].dur /\ B[x].dur \in Int
      BY <3>1, RowFacts, Zenon
    <3>3. B[x].dur = 0
      BY <1>5, <3>1, <3>2
    <3>4. slices[x].track = t
      <4>1. OnTrack(A, t, x)
        BY <1>1, <1>6, <2>1, Zenon
      <4> QED BY <2>3, <4>1, Zenon DEF OnTrack
    <3>5. p < x /\ ~Pending(slices[p]) /\ End(slices[p]) = slices[x].ts
      BY <1>5, <2>3, <2>5, Zenon DEF e
    <3>6. Touches(x)
      BY <1>1, <2>2, <3>4, <3>5, Zenon DEF Touches, p, s
    <3> QED BY <3>3, <3>6, Zenon
  <2> QED BY <1>6, <2>1, <2>4, <2>5, Zenon
<1>10. \A k \in 1 .. Len(s) : s[k] \in above <=> k \in i + 1 .. m
  BY <1>3, <1>6, <1>inc, Zenon
<1>11. Kept(B, s, i - 1)
  <2> SUFFICES ASSUME NEW x \in 1 .. N
               PROVE  /\ B[x].track = slices[x].track /\ B[x].ts = slices[x].ts
                      /\ B[x].depth = slices[x].depth
                      /\ B[x].parent_id = slices[x].parent_id
                      /\ B[x].placed = slices[x].placed
                      /\ B[x] # slices[x] =>
                           /\ Pending(slices[x]) \/ (B[x].dur = 0 /\ Touches(x))
                           /\ \E k \in (i - 1) + 1 .. Len(s) : s[k] = x
    BY <1>7, Zenon DEF Kept, N
  <2>1. /\ A[x].track = slices[x].track /\ A[x].ts = slices[x].ts
        /\ A[x].depth = slices[x].depth /\ A[x].parent_id = slices[x].parent_id
        /\ A[x].placed = slices[x].placed
        /\ A[x] # slices[x] => /\ Pending(slices[x]) \/ (A[x].dur = 0 /\ Touches(x))
                               /\ \E k \in m + 1 .. Len(s) : s[k] = x
    BY <1>2, Zenon DEF Kept, N
  <2>2. CASE x \in above
    <3>1. Pending(slices[x]) \/ (B[x].dur = 0 /\ Touches(x))
      BY <1>9, <2>2, Zenon
    <3>2. \E k \in (i - 1) + 1 .. Len(s) : s[k] = x
      <4>1. PICK k \in i + 1 .. m : x = s[k]
        BY <1>3, <2>2, Zenon
      <4>2. k \in (i - 1) + 1 .. Len(s)
        BY <1>num
      <4> QED BY <4>1, <4>2, Zenon
    <3> QED BY <1>7, <2>1, <2>2, <3>1, <3>2, Zenon
  <2>3. CASE x \notin above
    <3>1. B[x] = A[x]
      BY <1>7, <2>3, Zenon
    <3>2. \A k \in m + 1 .. Len(s) : k \in (i - 1) + 1 .. Len(s)
      BY <1>1
    <3> QED BY <2>1, <3>1, <3>2, Zenon
  <2> QED BY <2>2, <2>3, Zenon
<1>12. Left(B, s, i - 1, ts)
  <2> SUFFICES ASSUME NEW k \in (i - 1) + 1 .. Len(s)
               PROVE  ~Pending(B[s[k]]) /\ End(B[s[k]]) <= ts
    BY Zenon DEF Left
  <2>1. k \in 1 .. Len(s) /\ s[k] \in 1 .. N
    BY <1>1
  <2>2. CASE k = i
    <3>1. s[k] \notin above /\ s[k] = p
      BY <1>1, <1>10, <2>1, <2>2 DEF p
    <3> QED BY <1>1, <1>5, <1>7, <2>1, <3>1 DEF e
  <2>3. CASE k \in i + 1 .. m
    <3>1. s[k] \in above
      BY <1>10, <2>1, <2>3, Zenon
    <3>2. ~Pending(B[s[k]]) /\ End(B[s[k]]) = e
      BY <1>7, <3>1, Zenon
    <3> QED BY <1>num, <1>5, <3>2
  <2>4. CASE k \in m + 1 .. Len(s)
    <3>1. s[k] \notin above
      <4>1. k \notin i + 1 .. m
        BY <1>1, <2>4
      <4> QED BY <1>10, <2>1, <4>1, Zenon
    <3> QED BY <1>2, <1>7, <2>1, <2>4, <3>1, Zenon DEF Left
  <2> QED BY <1>1, <2>2, <2>3, <2>4
<1>13. Descend(B, s, t)
  <2> SUFFICES ASSUME NEW j \in 1 .. Len(s), NEW x \in 1 .. N,
                      x > s[j], OnTrack(B, t, x)
               PROVE  Covers(B, s[j], x)
    BY <1>7, Zenon DEF Descend
  <2>1. /\ s[j] \in 1 .. N /\ i \in 1 .. Len(s) /\ p \in 1 .. N /\ A[x] \in Row
        /\ A[s[j]] \in Row
    BY <1>1 DEF p
  <2>2. OnTrack(A, t, x) /\ A[x].ts = B[x].ts /\ A[s[j]].ts = B[s[j]].ts
    BY <1>7, <2>1, Zenon DEF OnTrack
  <2>3. Covers(A, s[j], x)
    BY <1>1, <1>2, <2>2, Zenon DEF Descend
  <2>4. A[x].ts \in Nat /\ A[s[j]].ts \in Nat /\ End(A[x]) \in Int /\ End(A[s[j]]) \in Int
    BY <2>1, RowFacts, Zenon
  <2>5. CASE s[j] \in above
    <3>1. p < s[j] /\ p < x
      <4>1. p < s[j]
        BY <1>6, <1>10, <2>5, Zenon
      <4> QED BY <2>1, <4>1
    <3>2. Covers(A, p, x)
      BY <1>1, <1>2, <2>1, <2>2, <3>1, Zenon DEF Descend, p
    <3>3. A[x].ts <= e /\ (~Pending(A[x]) => End(A[x]) <= e \/ A[x].ts = e)
      BY <1>5, <3>2, Zenon DEF Covers, e
    <3>4. ~Pending(B[x]) => End(B[x]) <= e \/ B[x].ts = e
      <4>1. CASE x \in above
        BY <1>5, <1>7, <4>1
      <4>2. CASE x \notin above
        BY <1>7, <3>3, <4>2, Zenon
      <4> QED BY <4>1, <4>2, Zenon
    <3> QED BY <1>7, <2>2, <2>3, <2>5, <3>3, <3>4, Zenon DEF Covers
  <2>6. CASE s[j] \notin above /\ x \notin above
    BY <1>7, <2>1, <2>3, <2>6, Zenon DEF Covers
  <2>7. CASE s[j] \notin above /\ x \in above
    <3>1. B[s[j]] = A[s[j]] /\ End(B[x]) = e
      BY <1>7, <2>1, <2>7, Zenon
    <3>2. PICK k \in i + 1 .. m : x = s[k]
      BY <1>3, <2>7, Zenon
    <3>3. j <= i
      <4>1. k \in 1 .. Len(s) /\ s[j] < s[k]
        BY <1>6, <3>2, Zenon
      <4>2. j < k
        BY <1>inc, <4>1, Zenon
      <4>3. j \notin i + 1 .. m
        BY <1>10, <2>7, Zenon
      <4> QED BY <1>num, <3>2, <4>2, <4>3
    <3>4. ~Pending(A[s[j]]) => e <= End(A[s[j]]) \/ A[x].ts = End(A[s[j]])
      <4>1. CASE j = i
        BY <1>5, <4>1 DEF e, p
      <4>2. CASE j < i
        <5>1. s[j] < p /\ OnTrack(A, t, p)
          BY <1>1, <2>1, <4>2, Zenon DEF p
        <5>2. Covers(A, s[j], p)
          BY <1>1, <1>2, <2>1, <5>1, Zenon DEF Descend
        <5>3. ~Pending(A[s[j]]) => e <= End(A[s[j]]) \/ A[p].ts = End(A[s[j]])
          BY <1>5, <5>2, Zenon DEF Covers, e
        <5>4. A[p].ts <= A[x].ts
          BY <1>6, <3>2, Zenon DEF Covers
        <5>5. ~Pending(A[s[j]]) => A[x].ts <= End(A[s[j]])
          BY <2>3, Zenon DEF Covers
        <5>6. \A a, b, c \in Int : a <= b /\ b <= c /\ a = c => b = c
          OBVIOUS
        <5>7. A[p].ts \in Int /\ A[x].ts \in Int
          BY <1>5, <2>4
        <5> QED BY <2>4, <5>3, <5>4, <5>5, <5>6, <5>7, Zenon
      <4> QED BY <1>1, <3>3, <4>1, <4>2
    <3> QED BY <2>2, <2>3, <3>1, <3>4, Zenon DEF Covers
  <2> QED BY <2>5, <2>6, <2>7, Zenon
<1>14. Truncate(acc, i) \in Acc
  BY <1>2, <1>4, <1>7, <1>8 DEF Acc, N
<1> DEFINE c == Truncate(acc, i)
<1> HIDE DEF c
<1>15. c = [stack |-> st, slices |-> B,
            dcheck |-> acc.dcheck /\ \A x \in above : Pending(A[x]),
            incomplete_descendent |-> FALSE]
  BY <1>4, Zenon DEF c
<1>16. c.stack = st /\ c.slices = B /\ c.incomplete_descendent = FALSE
  BY <1>15, Zenon
<1>17. Len(c.stack) = i - 1
  BY <1>8, <1>16, Zenon
<1>18. Len(c.stack) \in i - 1 .. Len(s)
  BY <1>num, <1>17
<1>19. \A k \in 1 .. Len(c.stack) : c.stack[k] = s[k]
  BY <1>8, <1>16, <1>17, Zenon
<1>20. Stays(c, s, i, ts)
  <2>1. \A k \in i .. Len(c.stack) : FALSE
    BY <1>num, <1>17
  <2> QED BY <1>16, <2>1, Zenon DEF Stays
<1>21. Closing(c, i, ts, t)
  BY <1>11, <1>12, <1>13, <1>14, <1>16, <1>17, <1>18, <1>19, <1>20, Zenon DEF Closing, s, c
<1> QED BY <1>21, Zenon DEF c

(* One turn of the loop.                                                     *)
LEMMA CloseOne ==
  ASSUME IInv, ~flushed, NEW ts \in Ts, NEW t \in Track,
         NEW i \in 1 .. Len(stacks[t]), NEW acc, Closing(acc, i + 1, ts, t)
  PROVE  Closing(MaybeCloseOne(acc, i, ts), i, ts, t)
<1> DEFINE s == stacks[t]
           m == Len(acc.stack)
           A == acc.slices
           p == s[i]
           row == acc.slices[acc.stack[i]]
           c == MaybeCloseOne(acc, i, ts)
<1>0. LooksAt(acc, i, ts, t)
  BY Place, Zenon
<1>1. /\ acc \in Acc /\ acc.stack \in Seq(1 .. Len(slices)) /\ acc.stack[i] = p
      /\ \A k \in 1 .. Len(s) : s[k] \in 1 .. Len(slices) /\ A[s[k]] \in Row
      /\ \A k, j \in 1 .. Len(s) : k < j => s[k] < s[j]
      /\ \A k \in 1 .. Len(s) : OnTrack(A, t, s[k])
      /\ i \in 1 .. Len(s) /\ Len(A) = Len(slices)
  BY <1>0, Zenon DEF LooksAt
<1>2. /\ i \in Nat /\ 1 <= i /\ i <= m /\ m \in Nat /\ m <= Len(s) /\ Len(s) \in Nat
      /\ ts \in Nat
  BY <1>0 DEF LooksAt
<1>3. /\ \A k \in 1 .. m : acc.stack[k] = s[k]
      /\ Kept(A, s, m) /\ Left(A, s, m, ts) /\ Descend(A, s, t) /\ Stays(acc, s, i + 1, ts)
  BY Zenon DEF Closing
<1>4. row = A[p] /\ row \in Row /\ End(row) \in Int
  <2>1. row = A[p] /\ row \in Row
    BY <1>1, Zenon
  <2> QED BY <2>1, RowFacts, Zenon
<1>5. acc.incomplete_descendent \in BOOLEAN
  BY <1>1, Zenon DEF Acc
<1>6. /\ Pending(row) => c = [acc EXCEPT !.incomplete_descendent = TRUE]
      /\ ~Pending(row) /\ acc.incomplete_descendent /\ ts <= End(row) => c = acc
      /\ ~Pending(row) /\ acc.incomplete_descendent /\ ~(ts <= End(row)) =>
           c = Truncate(acc, i)
      /\ ~Pending(row) /\ ~acc.incomplete_descendent /\ End(row) <= ts =>
           c = [acc EXCEPT !.stack = Pop(@)]
      /\ ~Pending(row) /\ ~acc.incomplete_descendent /\ ~(End(row) <= ts) => c = acc
  BY <1>5, Zenon DEF MaybeCloseOne
<1> HIDE DEF s, m, A, p, row, c
<1>7. \A k \in i .. m : k = i \/ k \in i + 1 .. m
  BY <1>2
<1>8. \A k \in i .. m : k \in 1 .. Len(s)
  BY <1>2
<1>9. m \in i - 1 .. Len(s)
  BY <1>2
(* The slice is not looked at any closer: it stays, with what is above it.   *)
<1>10. ASSUME NEW d, d \in Acc, d.stack = acc.stack, d.slices = A,
              Stays(d, s, i, ts)
       PROVE  Closing(d, i, ts, t)
  BY <1>3, <1>9, <1>10, Zenon DEF Closing, s, m
<1>11. CASE Pending(row)
  <2>1. c = [acc EXCEPT !.incomplete_descendent = TRUE]
    BY <1>6, <1>11, Zenon
  <2>2. c \in Acc /\ c.stack = acc.stack /\ c.slices = A
        /\ c.incomplete_descendent = TRUE
    BY <1>1, <2>1, Zenon DEF Acc, A
  <2>3. ASSUME NEW k \in i .. m
        PROVE  Lasts(A, s, m, k, ts)
    <3>1. A[s[k]] \in Row /\ End(A[s[k]]) \in Int
      BY <1>1, <1>8, RowFacts, Zenon
    <3>2. CASE k = i
      BY <1>4, <1>11, <3>2, Zenon DEF p, Lasts
    <3>3. CASE k \in i + 1 .. m
      <4>1. Lasts(A, s, m, k, ts) \/ ts < End(A[s[k]])
        BY <1>3, <3>3, Zenon DEF Stays, m, A
      <4>2. ts < End(A[s[k]]) => ts <= End(A[s[k]]) /\ ts # End(A[s[k]])
        BY <1>2, <3>1
      <4> QED BY <4>1, <4>2, Zenon DEF Lasts
    <3> QED BY <1>7, <3>2, <3>3, Zenon
  <2>4. \E j \in i .. m : Pending(A[s[j]])
    <3>1. i \in i .. m /\ Pending(A[s[i]])
      BY <1>2, <1>4, <1>11 DEF p
    <3> QED BY <3>1, Zenon
  <2>5. Stays(c, s, i, ts)
    BY <2>2, <2>3, <2>4, Zenon DEF Stays, m
  <2> QED BY <1>10, <2>2, <2>5, Zenon DEF c
<1>12. CASE ~Pending(row) /\ acc.incomplete_descendent /\ ts <= End(row)
  <2>1. c = acc
    BY <1>6, <1>12, Zenon
  <2>a. PICK j \in i + 1 .. m : Pending(A[s[j]])
    BY <1>3, <1>12, Zenon DEF Stays, m, A
  <2>b. j \in i .. m
    BY <1>2
  <2>2. ASSUME NEW k \in i .. m
        PROVE  Lasts(A, s, m, k, ts)
    <3>1. CASE k = i
      BY <1>4, <1>12, <2>a, <3>1, Zenon DEF p, Lasts
    <3>2. CASE k \in i + 1 .. m
      BY <1>3, <1>12, <3>2, Zenon DEF Stays, m, A
    <3> QED BY <1>7, <3>1, <3>2, Zenon
  <2>3. Stays(acc, s, i, ts)
    BY <1>12, <2>a, <2>b, <2>2, Zenon DEF Stays, m, A
  <2> QED BY <1>1, <1>3, <1>10, <2>1, <2>3, Zenon DEF c, A
<1>13. CASE ~Pending(row) /\ acc.incomplete_descendent /\ ~(ts <= End(row))
  <2>1. c = Truncate(acc, i)
    BY <1>6, <1>13, Zenon
  <2>2. ~Pending(acc.slices[stacks[t][i]]) /\ End(acc.slices[stacks[t][i]]) < ts
    <3>1. row = acc.slices[stacks[t][i]]
      BY <1>4, Zenon DEF A, p, s
    <3>2. End(row) < ts
      BY <1>2, <1>4, <1>13
    <3> QED BY <1>13, <3>1, <3>2, Zenon
  <2>3. Closing(Truncate(acc, i), i, ts, t)
    BY <1>13, <2>2, TruncateCloses, Zenon
  <2> QED BY <2>1, <2>3, Zenon DEF c
<1>14. CASE ~Pending(row) /\ ~acc.incomplete_descendent /\ End(row) <= ts
  <2>1. c = [acc EXCEPT !.stack = Pop(@)]
    BY <1>6, <1>14, Zenon
(* Nothing is left above it: that would have ended by then.                  *)
  <2>2. m = i
    <3>1. SUFFICES ASSUME m # i PROVE FALSE
      BY Zenon
    <3>2. m \in i + 1 .. m /\ m \in 1 .. Len(s) /\ i < m
          /\ \A k \in i + 1 .. m - 1 : k \in i + 1 .. m /\ k \in 1 .. m
      BY <1>2, <3>1
    <3>3. /\ \A k \in i + 1 .. m : ~Pending(A[s[k]])
          /\ ts < End(A[s[m]])
      BY <1>3, <1>14, <3>2, Zenon DEF Stays, m, A
    <3>4. \A k \in 1 .. m : A[s[k]] = slices[s[k]]
      <4>1. Len(slices) \in Nat
        BY <1>0, Zenon DEF LooksAt
      <4>2. Cut(A, slices, Len(slices), s, m)
        BY <1>1, <1>2, <1>3, <4>1, Zenon DEF Cut, Kept
      <4>3. Same(A, slices, s, m)
        BY <4>2, StackKept, Zenon
      <4> QED BY <4>3, Zenon DEF Same
    <3>5. Hidden(slices, s)
      BY Zenon DEF IInv, Sound, s
    <3>6. slices[s[i]] = row /\ slices[s[m]] = A[s[m]]
      <4>1. i \in 1 .. m /\ m \in 1 .. m
        BY <1>2
      <4> QED BY <1>4, <3>4, <4>1, Zenon DEF p
    <3>7. End(A[s[m]]) <= End(row)
      BY <1>1, <1>14, <3>2, <3>3, <3>4, <3>5, <3>6, Zenon DEF Hidden
    <3>8. End(A[s[m]]) \in Int
      BY <1>1, <3>2, RowFacts, Zenon
    <3> QED BY <1>2, <1>4, <1>14, <3>3, <3>7, <3>8
  <2>3. c.stack = SubSeq(acc.stack, 1, m - 1) /\ c.slices = A
        /\ ~c.incomplete_descendent
    BY <1>1, <1>5, <1>14, <2>1, Zenon DEF Acc, Pop, A, m
  <2>4. m - 1 \in Nat /\ m - 1 <= Len(acc.stack)
    BY <1>2 DEF m
  <2>5. /\ c.stack \in Seq(1 .. Len(slices)) /\ Len(c.stack) = i - 1
        /\ \A k \in 1 .. i - 1 : c.stack[k] = acc.stack[k]
    <3> DEFINE q == SubSeq(acc.stack, 1, m - 1)
    <3>1. /\ q \in Seq(1 .. Len(slices)) /\ Len(q) = m - 1
          /\ \A k \in 1 .. m - 1 : q[k] = acc.stack[k]
      BY <1>1, <2>4, PrefixFacts, Zenon
    <3> HIDE DEF q
    <3> QED BY <2>2, <2>3, <3>1, Zenon DEF q
  <2>6. c \in Acc
    <3> DEFINE q == Pop(acc.stack)
    <3>1. q \in Seq(1 .. Len(slices)) /\ c = [acc EXCEPT !.stack = q]
      BY <2>1, <2>3, <2>5, Zenon DEF Pop, m
    <3> HIDE DEF q
    <3> QED BY <1>1, <3>1, Zenon DEF Acc
  <2>7. Len(c.stack) \in i - 1 .. Len(s) /\ \A k \in 1 .. i - 1 : k \in 1 .. m
    BY <1>2, <2>5
  <2>8. \A k \in 1 .. Len(c.stack) : c.stack[k] = s[k]
    BY <1>3, <2>5, <2>7, Zenon
  <2>9. \A k \in m + 1 .. Len(s) : k \in (i - 1) + 1 .. Len(s)
    BY <1>2
  <2>10. Kept(A, s, i - 1)
    BY <1>3, <2>9, Zenon DEF Kept
  <2>11. Left(A, s, i - 1, ts)
    <3> SUFFICES ASSUME NEW k \in (i - 1) + 1 .. Len(s)
                 PROVE  ~Pending(A[s[k]]) /\ End(A[s[k]]) <= ts
      BY Zenon DEF Left
    <3>1. k = i \/ k \in m + 1 .. Len(s)
      BY <1>2, <2>2
    <3>2. CASE k = i
      BY <1>4, <1>14, <3>2, Zenon DEF p
    <3>3. CASE k \in m + 1 .. Len(s)
      BY <1>3, <3>3, Zenon DEF Left
    <3> QED BY <3>1, <3>2, <3>3, Zenon
  <2>12. Stays(c, s, i, ts)
    <3>1. \A k \in i .. Len(c.stack) : FALSE
      BY <1>2, <2>5
    <3> QED BY <2>3, <3>1, Zenon DEF Stays
  <2>13. Closing(c, i, ts, t)
    BY <1>3, <2>3, <2>5, <2>6, <2>7, <2>8, <2>10, <2>11, <2>12, Zenon DEF Closing, s
  <2> QED BY <2>13, Zenon DEF c
<1>15. CASE ~Pending(row) /\ ~acc.incomplete_descendent /\ ~(End(row) <= ts)
  <2>1. c = acc
    BY <1>6, <1>15, Zenon
  <2>2. ASSUME NEW k \in i .. m
        PROVE  ~Pending(A[s[k]]) /\ ts < End(A[s[k]])
    <3>1. CASE k = i
      BY <1>2, <1>4, <1>15, <3>1 DEF p
    <3>2. CASE k \in i + 1 .. m
      BY <1>3, <1>15, <3>2, Zenon DEF Stays, m, A
    <3> QED BY <1>7, <3>1, <3>2, Zenon
  <2>3. Stays(acc, s, i, ts)
    BY <1>15, <2>2, Zenon DEF Stays, m, A
  <2> QED BY <1>1, <1>3, <1>10, <2>1, <2>3, Zenon DEF c, A
<1> QED BY <1>5, <1>11, <1>12, <1>13, <1>14, <1>15, Zenon

(* Every non-empty set of naturals has a smallest element: the only use of   *)
(* induction below.                                                          *)
LEMMA SmallestElement ==
  ASSUME NEW T, T \subseteq Nat, T # {}
  PROVE  \E x \in T : \A y \in T : x <= y
<1> DEFINE R == OpToRel(<, Nat)
<1>1. IsWellFoundedOn(R, Nat)
  BY NatLessThanWellFounded, Zenon
<1>2. \E x \in T : \A y \in T : ~(<<y, x>> \in R)
  <2> HIDE DEF R
  <2> QED BY <1>1, WFMin, Zenon
<1>3. PICK x \in T : \A y \in T : ~(<<y, x>> \in R)
  BY <1>2, Zenon
<1>4. ASSUME NEW y \in T PROVE x <= y
  <2>1. x \in Nat /\ y \in Nat
    BY Zenon
  <2>2. ~(<<y, x>> \in R)
    BY <1>3, Zenon
  <2>3. ~(y < x)
    BY <2>1, <2>2, Zenon DEF R, OpToRel
  <2> QED BY <2>1, <2>3
<1> QED BY <1>4, Zenon

(* Before the first turn.                                                    *)
Unclosed(t) == [stack |-> stacks[t], slices |-> slices, dcheck |-> dcheck,
                incomplete_descendent |-> FALSE]

(* Before its first turn the loop has changed nothing.                      *)
LEMMA UnclosedIsClosing ==
  ASSUME IInv, ~flushed, NEW ts \in Ts, NEW t \in Track
  PROVE  Closing(Unclosed(t), Len(stacks[t]) + 1, ts, t)
<1> DEFINE c == Unclosed(t)
           s == stacks[t]
<1>1. s \in Seq(1 .. Len(slices)) /\ slices \in Seq(Row) /\ dcheck \in BOOLEAN
  BY Zenon DEF IInv, TypeOK
<1>2. /\ c.stack = s /\ c.slices = slices /\ c.dcheck = dcheck
      /\ c.incomplete_descendent = FALSE /\ c \in Acc
  BY <1>1, Zenon DEF Unclosed, Acc
<1>3. Descend(slices, s, t)
  BY Zenon DEF IInv, Sound
<1>4. Len(s) \in (Len(s) + 1) - 1 .. Len(s)
  BY <1>1
<1>5. (\A k \in Len(s) + 1 .. Len(s) : FALSE)
  BY <1>1
<1> HIDE DEF c, s
<1>6. Kept(slices, s, Len(s)) /\ Left(slices, s, Len(s), ts)
  BY <1>5, Zenon DEF Kept, Left
<1>7. Stays(c, s, Len(s) + 1, ts)
  BY <1>2, <1>5, Zenon DEF Stays
<1>8. Closing(c, Len(s) + 1, ts, t)
  BY <1>1, <1>2, <1>3, <1>4, <1>6, <1>7, Zenon DEF Closing, s
<1> QED BY <1>8, Zenon DEF c, s

(* The states of the loop, from the top of the stack down.                   *)
LEMMA LoopDef ==
  ASSUME NEW ts, NEW t \in Track, Len(stacks[t]) \in Nat
  PROVE  \E loop : /\ loop[Len(stacks[t]) + 1] = Unclosed(t)
                   /\ \A i \in 1 .. Len(stacks[t]) :
                        loop[i] = MaybeCloseOne(loop[i + 1], i, ts)
                   /\ MaybeCloseStack(ts, t) = loop[1]
<1> DEFINE n == Len(stacks[t])
           Turn(f, i) == IF i = n + 1 THEN Unclosed(t) ELSE MaybeCloseOne(f[i + 1], i, ts)
           IsLoop(f, d) == f = [i \in (n + 1) - d .. n + 1 |-> Turn(f, i)]
           None == {d \in 0 .. n : ~ \E f : IsLoop(f, d)}
           loop == CHOOSE f : f = [i \in 1 .. n + 1 |-> Turn(f, i)]
<1>0. n \in Nat
  BY Zenon
<1>1. MaybeCloseStack(ts, t) = loop[1]
  BY Zenon DEF MaybeCloseStack, Unclosed
<1> HIDE DEF n, loop
<1>2. None = {}
  <2>1. SUFFICES ASSUME None # {} PROVE FALSE
    BY Zenon
  <2>2. PICK d \in None : \A e \in None : d <= e
    <3>1. None \subseteq Nat
      BY <1>0
    <3> HIDE DEF None
    <3> QED BY <2>1, <3>1, SmallestElement, Zenon
  <2>3. d \in 0 .. n /\ ~ \E f : IsLoop(f, d)
    BY Zenon
  <2>4. d # 0
    <3>1. SUFFICES ASSUME d = 0 PROVE FALSE
      BY Zenon
    <3> DEFINE f == [i \in (n + 1) - 0 .. n + 1 |-> Unclosed(t)]
    <3>2. \A i \in (n + 1) - 0 .. n + 1 : i = n + 1
      BY <1>0
    <3>3. IsLoop(f, 0)
      BY <3>2, Zenon
    <3> QED BY <2>3, <3>1, <3>3, Zenon
  <2>5. d \in Nat /\ d - 1 \in 0 .. n /\ ~(d <= d - 1) /\ 1 <= d /\ d <= n
    BY <1>0, <2>3, <2>4
  <2>6. d - 1 \notin None
    <3> HIDE DEF None
    <3> QED BY <2>2, <2>5, Zenon
  <2>7. PICK f : IsLoop(f, d - 1)
    BY <2>5, <2>6, Zenon
  <2> DEFINE b == (n + 1) - d
             g == [i \in b .. n + 1 |-> IF i = b THEN MaybeCloseOne(f[i + 1], i, ts) ELSE f[i]]
  <2>8. b \in Nat /\ b # n + 1 /\ (n + 1) - (d - 1) = b + 1 /\ b + 1 <= n + 1
    BY <1>0, <2>5
  <2> HIDE DEF b, None
  <2>9. f = [i \in b + 1 .. n + 1 |-> Turn(f, i)]
    <3> HIDE DEF Turn
    <3> QED BY <2>7, <2>8, Zenon
  <2>10. ASSUME NEW i \in b .. n + 1 PROVE g[i] = Turn(g, i)
    <3>1. i \in Int /\ (i = b \/ i \in b + 1 .. n + 1) /\ i + 1 # b
          /\ (i # n + 1 => i + 1 \in b .. n + 1)
      BY <1>0, <2>8
    <3>2. i # n + 1 => g[i + 1] = f[i + 1]
      BY <3>1, Zenon
    <3>3. CASE i = b
      BY <2>8, <3>2, <3>3, Zenon
    <3>4. CASE i # b
      <4>1. g[i] = f[i]
        BY <3>4, Zenon
      <4>2. f[i] = Turn(f, i)
        <5> HIDE DEF Turn
        <5> QED BY <2>9, <3>1, <3>4, Zenon
      <4> QED BY <3>2, <4>1, <4>2, Zenon
    <3> QED BY <3>3, <3>4, Zenon
  <2>11. IsLoop(g, d)
    <3>1. g = [i \in b .. n + 1 |-> g[i]]
      BY Zenon
    <3> HIDE DEF g, Turn
    <3> QED BY <2>10, <3>1, Zenon DEF b
  <2> QED BY <2>3, <2>11, Zenon
<1>3. \E f : f = [i \in 1 .. n + 1 |-> Turn(f, i)]
  <2>1. n \in 0 .. n /\ (n + 1) - n = 1
    BY <1>0
  <2>2. \E f : IsLoop(f, n)
    <3> HIDE DEF IsLoop, Turn
    <3> QED BY <1>2, <2>1, Zenon
  <2> HIDE DEF Turn
  <2> QED BY <2>1, <2>2, Zenon
<1>4. loop = [i \in 1 .. n + 1 |-> Turn(loop, i)]
  <2> HIDE DEF Turn
  <2> QED BY <1>3, Zenon DEF loop
<1>5. n + 1 \in 1 .. n + 1 /\ \A i \in 1 .. n : i \in 1 .. n + 1 /\ i # n + 1
  BY <1>0
<1>6. loop[n + 1] = Unclosed(t)
  BY <1>4, <1>5, Zenon
<1>7. ASSUME NEW i \in 1 .. n PROVE loop[i] = MaybeCloseOne(loop[i + 1], i, ts)
  BY <1>4, <1>5, Zenon
<1> QED BY <1>1, <1>6, <1>7, Zenon DEF n

(* The loop invariant holds to the end.                                      *)
LEMMA CloseStack ==
  ASSUME IInv, ~flushed, NEW ts \in Ts, NEW t \in Track
  PROVE  Closing(MaybeCloseStack(ts, t), 1, ts, t)
<1> DEFINE n == Len(stacks[t])
<1>0. n \in Nat
  BY DEF IInv, TypeOK
<1>1. PICK loop : /\ loop[n + 1] = Unclosed(t)
                  /\ \A i \in 1 .. n : loop[i] = MaybeCloseOne(loop[i + 1], i, ts)
                  /\ MaybeCloseStack(ts, t) = loop[1]
  BY <1>0, LoopDef, Zenon
<1> DEFINE Bad == {d \in 0 .. n : ~Closing(loop[(n + 1) - d], (n + 1) - d, ts, t)}
<1>2. Closing(loop[n + 1], n + 1, ts, t)
  BY <1>1, UnclosedIsClosing, Zenon
<1>3. ASSUME NEW i \in 1 .. n, Closing(loop[i + 1], i + 1, ts, t)
      PROVE  Closing(loop[i], i, ts, t)
  BY <1>1, <1>3, CloseOne, Zenon
<1> HIDE DEF n
<1>4. Bad = {}
  <2>1. SUFFICES ASSUME Bad # {} PROVE FALSE
    BY Zenon
  <2>2. PICK d \in Bad : \A e \in Bad : d <= e
    <3>1. Bad \subseteq Nat
      BY <1>0
    <3> HIDE DEF Bad
    <3> QED BY <2>1, <3>1, SmallestElement, Zenon
  <2>3. d \in 0 .. n /\ ~Closing(loop[(n + 1) - d], (n + 1) - d, ts, t)
    BY Zenon
  <2>4. d # 0
    <3>1. (n + 1) - 0 = n + 1
      BY <1>0
    <3> QED BY <1>2, <2>3, <3>1, Zenon
  <2> DEFINE i == (n + 1) - d
  <2>5. d - 1 \in 0 .. n /\ ~(d <= d - 1) /\ i \in 1 .. n /\ (n + 1) - (d - 1) = i + 1
    BY <1>0, <2>3, <2>4
  <2>6. d - 1 \notin Bad
    <3> HIDE DEF Bad
    <3> QED BY <2>2, <2>5, Zenon
  <2>7. Closing(loop[(n + 1) - (d - 1)], (n + 1) - (d - 1), ts, t)
    BY <2>5, <2>6, Zenon
  <2> HIDE DEF i
  <2>8. Closing(loop[i], i, ts, t)
    BY <1>3, <2>5, <2>7, Zenon
  <2> QED BY <2>3, <2>8, Zenon DEF i
<1>5. n \in 0 .. n /\ (n + 1) - n = 1
  BY <1>0
<1> QED BY <1>1, <1>4, <1>5, Zenon

-----------------------------------------------------------------------------
(* What is complete on stack s is not over at ts.                            *)
NotOver(rows, s, ts) ==
  \A k \in 1 .. Len(s) : Lasts(rows, s, Len(s), k, ts)

(* Row x, which was complete, is as it was, or touches a slice below it and  *)
(* was cut down to nothing.                                                  *)
Settled(rows, x) ==
  ~Pending(rows[x]) /\ (rows[x] = slices[x] \/ (rows[x].dur = 0 /\ Touches(x)))

(* What MaybeCloseStack leaves: what was complete is settled, the invariant   *)
(* holds of the new table and stack at the time of the event, and what is on  *)
(* the stack is not over.                                                     *)
Closed(c, ts, t) ==
  /\ c.slices \in Seq(Row) /\ Len(c.slices) = Len(slices) /\ c.dcheck \in BOOLEAN
  /\ c.stack \in Seq(1 .. Len(slices)) /\ Len(c.stack) <= Len(stacks[t])
  /\ \A x \in 1 .. Len(slices) : ~Pending(slices[x]) => Settled(c.slices, x)
  /\ Sound(c.slices, [stacks EXCEPT ![t] = c.stack], ts)
  /\ NotOver(c.slices, c.stack, ts)

(* MaybeCloseStack leaves a sound table and a stack of what is not over.    *)
LEMMA CloseSound ==
  ASSUME IInv, ~flushed, NEW ts \in Ts, NEW t \in Track, InOrder(ts)
  PROVE  Closed(MaybeCloseStack(ts, t), ts, t)
<1> DEFINE c == MaybeCloseStack(ts, t)
           A == c.slices
           s == stacks[t]
           m == Len(c.stack)
           N == Len(slices)
<1>1. Closing(c, 1, ts, t)
  BY CloseStack, Zenon
<1> HIDE DEF c
<1>2. /\ c \in Acc /\ m \in 0 .. Len(s)
      /\ \A k \in 1 .. m : c.stack[k] = s[k]
      /\ Kept(A, s, m) /\ Left(A, s, m, ts) /\ Descend(A, s, t) /\ Stays(c, s, 1, ts)
  BY <1>1 DEF Closing
<1>3. /\ slices \in Seq(Row) /\ N \in Nat /\ s \in Seq(1 .. N) /\ Len(s) \in Nat
      /\ \A u \in Track : stacks[u] \in Seq(1 .. N)
      /\ stacks \in [Track -> Seq(1 .. N)] /\ prev_timestamp \in Ts
  BY DEF IInv, TypeOK
<1>4. c.stack \in Seq(1 .. N) /\ A \in Seq(Row) /\ Len(A) = N /\ c.dcheck \in BOOLEAN
  BY <1>2, Zenon DEF Acc, Kept
<1>5. Sound(slices, stacks, prev_timestamp)
  BY Zenon DEF IInv
<1>6. /\ m \in Nat /\ m <= Len(s) /\ ts \in Nat /\ prev_timestamp \in Nat
      /\ prev_timestamp <= ts /\ Len(s) \in Nat
  <2>1. ts \in Nat /\ prev_timestamp \in Nat
    BY <1>3, SliceAssumption DEF Ts
  <2> QED BY <1>2, <1>3, <2>1 DEF InOrder
<1>7. \A x \in 1 .. N : slices[x] \in Row /\ A[x] \in Row
  BY <1>3, <1>4
<1> HIDE DEF A, s, m, N
(* The rows: fields, and which of them may have changed.                     *)
<1>8. \A x \in 1 .. N :
        /\ A[x].track = slices[x].track /\ A[x].ts = slices[x].ts
        /\ A[x].depth = slices[x].depth /\ A[x].parent_id = slices[x].parent_id
        /\ A[x].placed = slices[x].placed
  BY <1>2, Zenon DEF Kept, N
<1>9. \A x \in 1 .. N : A[x] # slices[x] =>
        /\ Pending(slices[x]) \/ (A[x].dur = 0 /\ Touches(x))
        /\ \E k \in m + 1 .. Len(s) : s[k] = x
  BY <1>2, Zenon DEF Kept, N
<1>10. \A k \in m + 1 .. Len(s) : k \in 1 .. Len(s)
  BY <1>3, <1>6
<1>11. Path(slices, s, t)
  BY <1>5, Zenon DEF Sound, s
<1>12. \A x \in 1 .. N : slices[x].track # t => A[x] = slices[x]
  <2>1. \A k \in 1 .. Len(s) : slices[s[k]].track = t
    BY <1>11, Zenon DEF Path, OnTrack
  <2> QED BY <1>9, <1>10, <2>1, Zenon
<1>13. ASSUME NEW x \in 1 .. N, ~Pending(slices[x])
       PROVE  Settled(A, x) /\ End(A[x]) <= End(slices[x])
  <2>1. /\ slices[x].dur \in Nat /\ slices[x].ts \in Nat /\ End(A[x]) = A[x].ts + A[x].dur
        /\ End(slices[x]) = slices[x].ts + slices[x].dur /\ A[x].ts = slices[x].ts
        /\ (Pending(A[x]) <=> A[x].dur = -1)
    BY <1>7, <1>8, <1>13, RowFacts, Zenon
  <2>2. CASE A[x] = slices[x]
    <3>1. End(A[x]) <= End(slices[x])
      BY <2>1, <2>2
    <3> QED BY <1>13, <2>2, <3>1, Zenon DEF Settled
  <2>3. CASE A[x].dur = 0 /\ Touches(x)
    <3>1. ~Pending(A[x]) /\ End(A[x]) <= End(slices[x])
      BY <2>1, <2>3
    <3> QED BY <2>3, <3>1, Zenon DEF Settled
  <2> QED BY <1>9, <1>13, <2>2, <2>3, Zenon
<1>14. \A u \in Track : \A k \in 1 .. Len(stacks[u]) : stacks[u][k] \in 1 .. N
  BY <1>3
<1>15. \A k \in 1 .. m : k \in 1 .. Len(s)
  BY <1>3, <1>6
<1>16. Parents(A)
  <2> SUFFICES ASSUME NEW x \in 1 .. N, A[x].parent_id # NoParent
               PROVE  /\ A[x].parent_id \in 1 .. N /\ A[x].parent_id < x
                      /\ A[x].placed /\ OnTrack(A, A[x].track, A[x].parent_id)
                      /\ A[A[x].parent_id].depth + 1 = A[x].depth
                      /\ Covers(A, A[x].parent_id, x)
    BY <1>4, Zenon DEF Parents
  <2> DEFINE p == slices[x].parent_id
  <2>1. A[x].parent_id = p /\ p # NoParent
    BY <1>8, Zenon
  <2>2. /\ p \in 1 .. N /\ p < x /\ slices[x].placed
        /\ OnTrack(slices, slices[x].track, p) /\ slices[p].depth + 1 = slices[x].depth
        /\ Covers(slices, p, x)
    BY <1>5, <2>1, Zenon DEF Sound, Parents, N
  <2> HIDE DEF p
  <2>3. A[x].placed /\ OnTrack(A, A[x].track, p) /\ A[p].depth + 1 = A[x].depth
    BY <1>8, <2>2, Zenon DEF OnTrack
  <2>4. CASE \E k \in 1 .. Len(s) : s[k] = p
    <3>1. PICK k \in 1 .. Len(s) : s[k] = p
      BY <2>4, Zenon
    <3>2. OnTrack(A, t, x)
      BY <1>8, <1>11, <2>2, <3>1, Zenon DEF Path, OnTrack
    <3>3. x > s[k]
      BY <2>2, <3>1, <1>6, Zenon
    <3>4. Covers(A, p, x)
      BY <1>2, <1>4, <3>1, <3>2, <3>3, Zenon DEF Descend
    <3> QED BY <2>1, <2>2, <2>3, <3>4, Zenon
  <2>5. CASE ~ \E k \in 1 .. Len(s) : s[k] = p
    <3>1. A[p] = slices[p]
      BY <1>9, <1>10, <2>2, <2>5, Zenon
    <3>2. A[x] = slices[x]
      <4>1. SUFFICES ASSUME A[x] # slices[x] PROVE FALSE
        BY Zenon
      <4>2. PICK k \in m + 1 .. Len(s) : s[k] = x
        BY <1>9, <4>1, Zenon
      <4>3. k \in 1 .. Len(s) /\ (k = 1 \/ (k > 1 /\ k - 1 \in 1 .. Len(s)))
        BY <1>6
      <4>4. (k = 1 => p = NoParent) /\ (k > 1 => p = s[k - 1])
        BY <1>11, <4>2, <4>3, Zenon DEF Path, p
      <4> QED BY <2>1, <2>5, <4>3, <4>4, Zenon
    <3>3. Covers(A, p, x)
      BY <2>2, <3>1, <3>2, Zenon DEF Covers
    <3> QED BY <2>1, <2>2, <2>3, <3>3, Zenon
  <2> QED BY <2>4, <2>5, Zenon
<1>17. Siblings(A)
  <2> SUFFICES ASSUME NEW x \in 1 .. N, NEW y \in 1 .. N,
                      x < y, A[x].track = A[y].track, A[x].placed, A[y].placed,
                      A[x].depth = A[y].depth
               PROVE  ~Pending(A[x]) /\ End(A[x]) <= A[y].ts
    BY <1>4, Zenon DEF Siblings
  <2>1. ~Pending(slices[x]) /\ End(slices[x]) <= slices[y].ts
    <3>1. /\ slices[x].track = slices[y].track /\ slices[x].placed /\ slices[y].placed
          /\ slices[x].depth = slices[y].depth
      BY <1>8, Zenon
    <3>2. Siblings(slices)
      BY <1>5, Zenon DEF Sound
    <3> QED BY <3>1, <3>2, Zenon DEF Siblings, N
  <2>2. ~Pending(A[x]) /\ End(A[x]) <= End(slices[x])
    BY <1>13, <2>1, Zenon DEF Settled
  <2>3. End(A[x]) \in Int /\ End(slices[x]) \in Int /\ slices[y].ts \in Int
        /\ A[y].ts = slices[y].ts
    <3>1. End(A[x]) \in Int /\ End(slices[x]) \in Int /\ slices[y].ts \in Nat
      BY <1>7, RowFacts, Zenon
    <3> QED BY <1>8, <3>1
  <2> QED BY <2>1, <2>2, <2>3
<1>18. \A x \in 1 .. N : A[x].ts <= ts
  <2> TAKE x \in 1 .. N
  <2>1. slices[x].ts <= prev_timestamp /\ A[x].ts = slices[x].ts
    BY <1>5, <1>8, Zenon DEF Sound, N
  <2>2. slices[x].ts \in Nat
    BY <1>7, RowFacts, Zenon
  <2> QED BY <1>6, <2>1, <2>2
(* The stack of the event's track.                                           *)
<1>19. Path(A, c.stack, t) /\ Descend(A, c.stack, t) /\ Over(A, c.stack, t, ts)
  <2>1. \A k \in 1 .. m : c.stack[k] = s[k] /\ s[k] \in 1 .. N
    BY <1>2, <1>14, <1>15, Zenon DEF s
  <2>2. \A k \in 1 .. m : k > 1 => k - 1 \in 1 .. m
    BY <1>6
  <2>3. Path(A, c.stack, t)
    <3>1. \A i, j \in 1 .. m : i < j => c.stack[i] < c.stack[j]
      BY <1>11, <1>15, <2>1, Zenon DEF Path
    <3>2. ASSUME NEW k \in 1 .. m
          PROVE  /\ OnTrack(A, t, c.stack[k]) /\ A[c.stack[k]].depth = k - 1
                 /\ k = 1 => A[c.stack[k]].parent_id = NoParent
                 /\ k > 1 => A[c.stack[k]].parent_id = c.stack[k - 1]
      <4>1. k \in 1 .. Len(s) /\ c.stack[k] = s[k] /\ s[k] \in 1 .. N
            /\ (k > 1 => c.stack[k - 1] = s[k - 1])
        BY <1>15, <2>1, <2>2, Zenon
      <4>2. /\ OnTrack(slices, t, s[k]) /\ slices[s[k]].depth = k - 1
            /\ k = 1 => slices[s[k]].parent_id = NoParent
            /\ k > 1 => slices[s[k]].parent_id = s[k - 1]
        BY <1>11, <4>1, Zenon DEF Path
      <4> QED BY <1>8, <4>1, <4>2, Zenon DEF OnTrack
    <3> QED BY <3>1, <3>2, Zenon DEF Path, m
  <2>4. Descend(A, c.stack, t)
    BY <1>2, <1>15, <2>1, Zenon DEF Descend, m
  <2>5. Over(A, c.stack, t, ts)
    <3> SUFFICES ASSUME NEW x \in 1 .. N, OnTrack(A, t, x)
                 PROVE  \/ \E i \in 1 .. m : c.stack[i] = x
                        \/ ~Pending(A[x]) /\ End(A[x]) <= ts
      BY <1>4, Zenon DEF Over, m
    <3>1. \/ \E k \in 1 .. Len(s) : s[k] = x
          \/ ~Pending(slices[x]) /\ End(slices[x]) <= prev_timestamp
      BY <1>5, <1>8, Zenon DEF Sound, Over, OnTrack, N, s
    <3>2. CASE \E k \in 1 .. Len(s) : s[k] = x
      <4>1. PICK k \in 1 .. Len(s) : s[k] = x
        BY <3>2, Zenon
      <4>2. k \in 1 .. m \/ k \in m + 1 .. Len(s)
        BY <1>3, <1>6
      <4> QED BY <1>2, <2>1, <4>1, <4>2, Zenon DEF Left
    <3>3. CASE ~Pending(slices[x]) /\ End(slices[x]) <= prev_timestamp
      <4>1. End(A[x]) \in Int /\ End(slices[x]) \in Int
        BY <1>7, RowFacts, Zenon
      <4>2. ~Pending(A[x]) /\ End(A[x]) <= End(slices[x])
        BY <1>13, <3>3, Zenon DEF Settled
      <4> QED BY <1>6, <3>3, <4>1, <4>2
    <3> QED BY <3>1, <3>2, <3>3, Zenon
  <2> QED BY <2>3, <2>4, <2>5, Zenon
(* The others: their rows are as they were.                                  *)
<1>20. ASSUME NEW u \in Track, u # t
       PROVE  /\ Path(A, stacks[u], u) /\ Descend(A, stacks[u], u)
              /\ Over(A, stacks[u], u, ts) /\ Hidden(A, stacks[u])
  <2>1. \A x \in 1 .. N : OnTrack(A, u, x) => OnTrack(slices, u, x) /\ A[x] = slices[x]
    BY <1>8, <1>12, <1>20, Zenon DEF OnTrack
  <2>2. Path(slices, stacks[u], u) /\ Descend(slices, stacks[u], u)
        /\ Over(slices, stacks[u], u, prev_timestamp) /\ Hidden(slices, stacks[u])
    BY <1>5, Zenon DEF Sound
  <2>3. \A k \in 1 .. Len(stacks[u]) : A[stacks[u][k]] = slices[stacks[u][k]]
    <3>1. \A k \in 1 .. Len(stacks[u]) : slices[stacks[u][k]].track = u
      BY <2>2, Zenon DEF Path, OnTrack
    <3> QED BY <1>12, <1>14, <1>20, <3>1, Zenon
  <2>4. Path(A, stacks[u], u)
    <3> DEFINE w == stacks[u]
    <3> HIDE DEF w
    <3>1. Path(slices, w, u) /\ \A k \in 1 .. Len(w) : A[w[k]] = slices[w[k]]
      BY <2>2, <2>3, Zenon DEF w
    <3>4. Path(A, w, u)
      BY <3>1, PathKept, Zenon
    <3> QED BY <3>4, Zenon DEF w
  <2>5. Descend(A, stacks[u], u)
    BY <1>4, <2>1, <2>2, <2>3, Zenon DEF Descend, Covers, N
  <2>6. ASSUME NEW x \in 1 .. N, OnTrack(A, u, x)
        PROVE  \/ \E i \in 1 .. Len(stacks[u]) : stacks[u][i] = x
               \/ ~Pending(A[x]) /\ End(A[x]) <= ts
    <3>1. \/ \E i \in 1 .. Len(stacks[u]) : stacks[u][i] = x
          \/ ~Pending(A[x]) /\ End(A[x]) <= prev_timestamp
      BY <2>1, <2>2, <2>6, Zenon DEF Over, N
    <3>2. End(A[x]) \in Int
      BY <1>7, RowFacts, Zenon
    <3>3. End(A[x]) <= prev_timestamp => End(A[x]) <= ts
      BY <1>6, <3>2
    <3> QED BY <3>1, <3>3, Zenon
  <2>7. Over(A, stacks[u], u, ts)
    BY <1>4, <2>6, Zenon DEF Over
  <2>8. Hidden(A, stacks[u])
    <3>1. Len(stacks[u]) \in Nat /\ Len(stacks[u]) <= Len(stacks[u])
      BY <1>3
    <3>2. LeftOf(slices, stacks[u], A, stacks[u])
      BY <2>3, <3>1, Zenon DEF LeftOf
    <3> QED BY <2>2, <3>2, HiddenKept, Zenon
  <2> QED BY <2>4, <2>5, <2>7, <2>8, Zenon
<1>h. Hidden(A, c.stack)
  <2>1. \A k \in 1 .. m : A[s[k]] = slices[s[k]]
    <3>1. \A k \in 1 .. Len(s) : s[k] \in 1 .. Len(slices)
      BY <1>14, Zenon DEF s, N
    <3>2. \A k, j \in 1 .. Len(s) : k < j => s[k] < s[j]
      BY <1>11, Zenon DEF Path
    <3>3. Cut(A, slices, N, s, m)
      BY <1>2, <1>3, <1>6, <3>1, <3>2, Zenon DEF Cut, Kept, N
    <3>4. Same(A, slices, s, m)
      BY <3>3, StackKept, Zenon
    <3> QED BY <3>4, Zenon DEF Same
  <2>2. \A k \in 1 .. m : A[c.stack[k]] = slices[s[k]]
    BY <1>2, <2>1, Zenon
  <2>3. Hidden(slices, s)
    BY <1>5, Zenon DEF Sound, s
  <2>4. LeftOf(slices, s, A, c.stack)
    BY <1>6, <2>2, Zenon DEF LeftOf, m
  <2> QED BY <2>3, <2>4, HiddenKept, Zenon
<1> DEFINE st == [stacks EXCEPT ![t] = c.stack]
<1>21. st[t] = c.stack /\ \A u \in Track : u # t => st[u] = stacks[u]
  BY <1>3, Zenon
<1> HIDE DEF st
<1>22. Sound(A, st, ts)
  <2>1. ASSUME NEW u \in Track
        PROVE  /\ Path(A, st[u], u) /\ Descend(A, st[u], u) /\ Over(A, st[u], u, ts)
               /\ Hidden(A, st[u])
    BY <1>19, <1>20, <1>21, <1>h, Zenon
  <2> QED BY <1>4, <1>16, <1>17, <1>18, <2>1, Zenon DEF Sound
<1>23. ASSUME NEW k \in 1 .. m
       PROVE  Lasts(A, c.stack, m, k, ts)
  <2>1. Lasts(A, s, m, k, ts) \/ ts < End(A[s[k]])
    BY <1>2, Zenon DEF Stays, m, A
  <2>2. End(A[s[k]]) \in Int
    <3>1. A[s[k]] \in Row
      BY <1>7, <1>14, <1>15, Zenon DEF s
    <3> QED BY <3>1, RowFacts, Zenon
  <2>3. ts < End(A[s[k]]) => ts <= End(A[s[k]]) /\ ts # End(A[s[k]])
    BY <1>6, <2>2
  <2>4. Lasts(A, s, m, k, ts)
    BY <2>1, <2>3, Zenon DEF Lasts
  <2>5. \A j \in k + 1 .. m : j \in 1 .. m
    BY <1>6
  <2> QED BY <1>2, <2>4, <2>5, Zenon DEF Lasts
<1> QED
  BY <1>4, <1>6, <1>13, <1>22, <1>23, Zenon DEF Closed, NotOver, A, N, m, s, st, c

-----------------------------------------------------------------------------
(* What an event does to the closed table: it appends a row, or it completes *)
(* one.                                                                      *)

(* A row that is too deep is left out of the tree; any other goes on top of  *)
(* the stack, and fits in what is there or touches it.                       *)
Enters(rows, s, row, w) ==
  /\ row.placed /\ row.depth = Len(s)
  /\ row.parent_id = IF Len(s) = 0 THEN NoParent ELSE s[Len(s)]
  /\ w = Append(s, Len(rows) + 1)
  /\ \A k \in 1 .. Len(s) :
       ~Pending(rows[s[k]]) /\ ~Pending(row) =>
         End(row) <= End(rows[s[k]]) \/ row.ts = End(rows[s[k]])

(* StartSlice appends a row under the top of a stack that was closed.       *)
LEMMA AppendSound ==
  ASSUME NEW rows \in Seq(Row), NEW st \in [Track -> Seq(1 .. Len(rows))], NEW ts \in Nat,
         Sound(rows, st, ts), NEW t \in Track, NEW row \in Row,
         row.track = t, row.ts = ts, NotOver(rows, st[t], ts), NEW w,
         \/ ~row.placed /\ row.parent_id = NoParent /\ w = st[t]
         \/ Enters(rows, st[t], row, w)
  PROVE  Sound(Append(rows, row), [st EXCEPT ![t] = w], ts)
<1> DEFINE N == Len(rows)
           R == Append(rows, row)
           s == st[t]
           n == Len(s)
           st2 == [st EXCEPT ![t] = w]
<1>1. N \in Nat /\ s \in Seq(1 .. N) /\ n \in Nat
  OBVIOUS
<1>2. /\ Len(R) = N + 1 /\ R[N + 1] = row /\ \A x \in 1 .. N : R[x] = rows[x]
  BY AppendProperties
<1>3. st2[t] = w /\ \A u \in Track : u # t => st2[u] = st[u]
  BY Zenon
<1>4. \A x \in 1 .. N : rows[x] \in Row
  OBVIOUS
<1>5. \A k \in 1 .. n : s[k] \in 1 .. N
  OBVIOUS
<1>6. \A u \in Track : \A k \in 1 .. Len(st[u]) : st[u][k] \in 1 .. N
  OBVIOUS
<1>7. \A u \in Track : Path(rows, st[u], u) /\ Descend(rows, st[u], u) /\ Over(rows, st[u], u, ts)
  BY Zenon DEF Sound
<1>8. Parents(rows) /\ Siblings(rows) /\ \A x \in 1 .. N : rows[x].ts <= ts
  BY Zenon DEF Sound
<1>9. Enters(rows, s, row, w) => Len(w) = n + 1 /\ w[n + 1] = N + 1
                                 /\ \A k \in 1 .. n : w[k] = s[k]
  <2>1. SUFFICES ASSUME w = Append(s, N + 1)
                 PROVE  Len(w) = n + 1 /\ w[n + 1] = N + 1 /\ \A k \in 1 .. n : w[k] = s[k]
    BY Zenon DEF Enters
  <2>2. s \in Seq(Nat) /\ N + 1 \in Nat
    <3>1. \A x \in 1 .. N : x \in Nat
      BY <1>1
    <3> QED BY <1>1, <3>1
  <2> HIDE DEF s, N
  <2> QED BY <2>1, <2>2, AppendProperties
<1>10. row.placed => Enters(rows, s, row, w)
  BY Zenon
<1> HIDE DEF N, R, s, n, st2
<1>11. /\ N + 1 \in 1 .. N + 1 /\ \A x \in 1 .. N + 1 : x \in 1 .. N \/ x = N + 1
       /\ \A x \in 1 .. N : x \in 1 .. N + 1 /\ x < N + 1 /\ x # N + 1 /\ ~(N + 1 < x)
       /\ ~(N + 1 < N + 1)
  BY <1>1
<1>12. /\ \A k \in 1 .. n + 1 : k \in 1 .. n \/ k = n + 1
       /\ \A k \in 1 .. n : k # n + 1 /\ k < n + 1 /\ ~(n + 1 < k) /\ k \in 1 .. n + 1
       /\ n + 1 \in 1 .. n + 1 /\ ~(n + 1 < n + 1)
  BY <1>1
(* The new row lies in what is on the stack.                                 *)
<1>13. ASSUME row.placed, NEW k \in 1 .. n
       PROVE  Covers(R, s[k], N + 1)
  <2>1. s[k] \in 1 .. N /\ R[s[k]] = rows[s[k]] /\ R[N + 1] = row
    BY <1>2, <1>5, Zenon
  <2>2. rows[s[k]].ts <= row.ts
    BY <1>8, <2>1, Zenon
  <2>3. ~Pending(rows[s[k]]) => row.ts <= End(rows[s[k]])
    BY Zenon DEF NotOver, Lasts, s, n
  <2>4. ~Pending(rows[s[k]]) /\ ~Pending(row) =>
          End(row) <= End(rows[s[k]]) \/ row.ts = End(rows[s[k]])
    BY <1>10, <1>13, Zenon DEF Enters, n
  <2> QED BY <2>1, <2>2, <2>3, <2>4, Zenon DEF Covers
(* It comes after what is complete on its track, or is on the stack.         *)
<1>14. ASSUME row.placed, NEW x \in 1 .. N, OnTrack(rows, t, x), rows[x].depth = row.depth
       PROVE  ~Pending(rows[x]) /\ End(rows[x]) <= row.ts
  <2>1. ASSUME NEW k \in 1 .. n, s[k] = x  PROVE FALSE
    <3>1. rows[x].depth = k - 1
      BY <1>7, <2>1, Zenon DEF Path, s, n
    <3>2. row.depth = n
      BY <1>10, <1>14, Zenon DEF Enters, n
    <3>3. k - 1 # n
      BY <1>1
    <3> QED BY <1>14, <3>1, <3>2, <3>3, Zenon
  <2> QED BY <1>7, <1>14, <2>1, Zenon DEF Over, N, s, n
<1>15. Parents(R)
  <2> SUFFICES ASSUME NEW x \in 1 .. N + 1, R[x].parent_id # NoParent
               PROVE  /\ R[x].parent_id \in 1 .. N + 1 /\ R[x].parent_id < x
                      /\ R[x].placed /\ OnTrack(R, R[x].track, R[x].parent_id)
                      /\ R[R[x].parent_id].depth + 1 = R[x].depth
                      /\ Covers(R, R[x].parent_id, x)
    BY <1>2, Zenon DEF Parents
  <2>1. CASE x \in 1 .. N
    <3> DEFINE p == rows[x].parent_id
    <3>1. R[x] = rows[x] /\ p # NoParent
      BY <1>2, <2>1, Zenon
    <3>2. /\ p \in 1 .. N /\ p < x /\ rows[x].placed /\ OnTrack(rows, rows[x].track, p)
          /\ rows[p].depth + 1 = rows[x].depth /\ Covers(rows, p, x)
      BY <1>8, <2>1, <3>1, Zenon DEF Parents, N
    <3>3. R[p] = rows[p] /\ p \in 1 .. N + 1
      BY <1>2, <1>11, <3>2, Zenon
    <3> HIDE DEF p
    <3> QED BY <3>1, <3>2, <3>3, Zenon DEF OnTrack, Covers, p
  <2>2. CASE x = N + 1
    <3>1. R[x] = row /\ row.parent_id # NoParent
      BY <1>2, <2>2, Zenon
    <3>2. row.placed
      BY <3>1, Zenon DEF Enters
    <3>3. row.depth = n /\ row.parent_id = IF n = 0 THEN NoParent ELSE s[n]
      BY <1>10, <3>2, Zenon DEF Enters, n
    <3>4. n # 0 /\ row.parent_id = s[n]
      BY <3>1, <3>3, Zenon
    <3>5. n \in 1 .. n
      BY <1>1, <3>4
    <3>6. s[n] \in 1 .. N /\ R[s[n]] = rows[s[n]] /\ s[n] < N + 1 /\ s[n] \in 1 .. N + 1
      BY <1>2, <1>5, <1>11, <3>5, Zenon
    <3>7. OnTrack(rows, t, s[n]) /\ rows[s[n]].depth = n - 1
      BY <1>7, <3>5, Zenon DEF Path, s, n
    <3>8. rows[s[n]].depth + 1 = n
      BY <1>1, <3>7
    <3>9. Covers(R, s[n], N + 1)
      BY <1>13, <3>2, <3>5, Zenon
    <3>10. OnTrack(R, row.track, s[n]) /\ R[s[n]].depth + 1 = row.depth
      BY <3>3, <3>6, <3>7, <3>8, Zenon DEF OnTrack
    <3> QED BY <2>2, <3>1, <3>2, <3>4, <3>6, <3>9, <3>10, Zenon
  <2> QED BY <1>11, <2>1, <2>2, Zenon
<1>16. Siblings(R)
  <2> SUFFICES ASSUME NEW x \in 1 .. N + 1, NEW y \in 1 .. N + 1,
                      x < y, R[x].track = R[y].track, R[x].placed, R[y].placed,
                      R[x].depth = R[y].depth
               PROVE  ~Pending(R[x]) /\ End(R[x]) <= R[y].ts
    BY <1>2, Zenon DEF Siblings
  <2>1. CASE x \in 1 .. N /\ y \in 1 .. N
    BY <1>2, <1>8, <2>1, Zenon DEF Siblings, N
  <2>2. CASE x \in 1 .. N /\ y = N + 1
    BY <1>2, <1>14, <2>2, Zenon DEF OnTrack
  <2>3. CASE x = N + 1
    BY <1>11, <2>3, Zenon
  <2> QED BY <1>11, <2>1, <2>2, <2>3, Zenon
<1>17. \A x \in 1 .. N + 1 : R[x].ts <= ts
  <2>1. row.ts <= ts
    OBVIOUS
  <2> QED BY <1>2, <1>8, <1>11, <2>1, Zenon
(* A stack that stays, of whose track the new row is not or is not placed.   *)
<1>18. ASSUME NEW u \in Track, ~(row.placed /\ u = t)
       PROVE  /\ Path(R, st[u], u) /\ Descend(R, st[u], u) /\ Over(R, st[u], u, ts)
              /\ Hidden(R, st[u])
  <2> DEFINE v == st[u]
  <2>1. /\ Path(rows, v, u) /\ Descend(rows, v, u) /\ Over(rows, v, u, ts)
        /\ \A k \in 1 .. Len(v) : v[k] \in 1 .. N /\ R[v[k]] = rows[v[k]]
    BY <1>2, <1>6, <1>7, Zenon
  <2>a. Hidden(rows, v) /\ Len(v) \in Nat /\ Len(v) <= Len(v)
    <3>1. Len(v) \in Nat
      OBVIOUS
    <3>2. Len(v) <= Len(v)
      BY <3>1
    <3> QED BY <3>1, <3>2, Zenon DEF Sound
  <2> HIDE DEF v
  <2>2. ASSUME NEW x \in 1 .. N + 1, OnTrack(R, u, x)
        PROVE  x \in 1 .. N /\ R[x] = rows[x] /\ OnTrack(rows, u, x)
    BY <1>2, <1>11, <1>18, <2>2, Zenon DEF OnTrack
  <2>3. Path(R, v, u)
    BY <2>1, PathKept, Zenon
  <2>4. Descend(R, v, u)
    BY <1>2, <2>1, <2>2, Zenon DEF Descend, Covers, N
  <2>5. Over(R, v, u, ts)
    BY <1>2, <2>1, <2>2, Zenon DEF Over, N
  <2>6. Hidden(R, v)
    <3>1. LeftOf(rows, v, R, v)
      BY <2>1, <2>a, Zenon DEF LeftOf
    <3> QED BY <2>a, <3>1, HiddenKept, Zenon
  <2> QED BY <2>3, <2>4, <2>5, <2>6, Zenon DEF v
(* The stack the new row is on.                                              *)
<1>19. ASSUME row.placed
       PROVE  Path(R, w, t) /\ Descend(R, w, t) /\ Over(R, w, t, ts) /\ Hidden(R, w)
  <2>1. Len(w) = n + 1 /\ w[n + 1] = N + 1 /\ \A k \in 1 .. n : w[k] = s[k]
    BY <1>9, <1>10, <1>19, Zenon
  <2>2. /\ Path(rows, s, t) /\ Descend(rows, s, t) /\ Over(rows, s, t, ts)
        /\ \A k \in 1 .. n : s[k] \in 1 .. N /\ R[s[k]] = rows[s[k]]
    BY <1>2, <1>5, <1>7, Zenon DEF s
  <2>3. row.depth = n /\ row.parent_id = IF n = 0 THEN NoParent ELSE s[n]
    BY <1>10, <1>19, Zenon DEF Enters, n
  <2>4. Path(R, w, t)
    <3>1. ASSUME NEW i \in 1 .. n + 1, NEW j \in 1 .. n + 1, i < j
          PROVE  w[i] < w[j]
      <4>1. i \in 1 .. n
        BY <1>1, <3>1
      <4>2. CASE j \in 1 .. n
        BY <2>1, <2>2, <3>1, <4>1, <4>2, Zenon DEF Path, n
      <4>3. CASE j = n + 1
        BY <1>11, <2>1, <2>2, <4>1, <4>3, Zenon
      <4> QED BY <1>12, <4>2, <4>3, Zenon
    <3>2. ASSUME NEW k \in 1 .. n + 1
          PROVE  /\ OnTrack(R, t, w[k]) /\ R[w[k]].depth = k - 1
                 /\ k = 1 => R[w[k]].parent_id = NoParent
                 /\ k > 1 => R[w[k]].parent_id = w[k - 1]
      <4>1. CASE k \in 1 .. n
        <5>1. k > 1 => k - 1 \in 1 .. n
          BY <1>1, <4>1
        <5>2. /\ OnTrack(rows, t, s[k]) /\ rows[s[k]].depth = k - 1
              /\ k = 1 => rows[s[k]].parent_id = NoParent
              /\ k > 1 => rows[s[k]].parent_id = s[k - 1]
          BY <2>2, <4>1, Zenon DEF Path, n
        <5> QED BY <2>1, <2>2, <4>1, <5>1, <5>2, Zenon DEF OnTrack
      <4>2. CASE k = n + 1
        <5>1. /\ k - 1 = n /\ (k = 1 => n = 0)
              /\ (k > 1 => n # 0 /\ n \in 1 .. n)
          BY <1>1, <4>2
        <5>2. w[k] = N + 1 /\ R[w[k]] = row
          BY <1>2, <2>1, <4>2, Zenon
        <5> QED BY <1>19, <2>1, <2>3, <5>1, <5>2, Zenon DEF OnTrack
      <4> QED BY <1>12, <4>1, <4>2, Zenon
    <3> QED BY <2>1, <3>1, <3>2, Zenon DEF Path
  <2>5. ASSUME NEW k \in 1 .. n + 1, NEW x \in 1 .. N + 1, x > w[k], OnTrack(R, t, x)
        PROVE  Covers(R, w[k], x)
    <3>1. CASE k = n + 1
      <4>1. ~(x > N + 1)
        BY <1>1
      <4> QED BY <2>1, <2>5, <3>1, <4>1, Zenon
    <3>2. CASE k \in 1 .. n /\ x \in 1 .. N
      <4>1. R[x] = rows[x] /\ R[s[k]] = rows[s[k]] /\ w[k] = s[k]
        BY <1>2, <2>1, <2>2, <3>2, Zenon
      <4>2. x > s[k] /\ OnTrack(rows, t, x)
        BY <2>5, <4>1, Zenon DEF OnTrack
      <4>3. Covers(rows, s[k], x)
        BY <2>2, <3>2, <4>2, Zenon DEF Descend, N, n
      <4> QED BY <4>1, <4>3, Zenon DEF Covers
    <3>3. CASE k \in 1 .. n /\ x = N + 1
      BY <1>13, <1>19, <2>1, <3>3, Zenon
    <3> QED BY <1>11, <1>12, <3>1, <3>2, <3>3, Zenon
  <2>6. Descend(R, w, t)
    BY <1>2, <2>1, <2>5, Zenon DEF Descend
  <2>7. ASSUME NEW x \in 1 .. N + 1, OnTrack(R, t, x)
        PROVE  \/ \E k \in 1 .. n + 1 : w[k] = x
               \/ ~Pending(R[x]) /\ End(R[x]) <= ts
    <3>1. CASE x \in 1 .. N
      <4>1. OnTrack(rows, t, x) /\ R[x] = rows[x]
        BY <1>2, <2>7, <3>1, Zenon DEF OnTrack
      <4>2. \/ \E k \in 1 .. n : s[k] = x
            \/ ~Pending(rows[x]) /\ End(rows[x]) <= ts
        BY <2>2, <3>1, <4>1, Zenon DEF Over, N, n
      <4> QED BY <1>12, <2>1, <4>1, <4>2, Zenon
    <3>2. CASE x = N + 1
      BY <1>12, <2>1, <3>2, Zenon
    <3> QED BY <1>11, <3>1, <3>2, Zenon
  <2>8. Over(R, w, t, ts)
    BY <1>2, <2>1, <2>7, Zenon DEF Over
  <2>9. ASSUME NEW i \in 1 .. n + 1, NEW j \in 1 .. n + 1, i < j,
               ~Pending(R[w[i]]), ~Pending(R[w[j]])
        PROVE  \/ End(R[w[j]]) <= End(R[w[i]])
               \/ \E k \in i + 1 .. j - 1 : Pending(R[w[k]])
    <3>1. i \in 1 .. n /\ w[i] = s[i] /\ R[w[i]] = rows[s[i]]
      <4>1. i \in 1 .. n
        BY <1>1, <2>9
      <4> QED BY <2>1, <2>2, <4>1, Zenon
    <3>2. \A k \in 1 .. n : R[w[k]] = rows[s[k]]
      BY <2>1, <2>2, Zenon
    <3>3. CASE j \in 1 .. n
      <4>1. Hidden(rows, s)
        BY Zenon DEF Sound, s
      <4>2. \A k \in i + 1 .. j - 1 : k \in 1 .. n
        BY <1>1, <3>1, <3>3
      <4>3. \/ End(rows[s[j]]) <= End(rows[s[i]])
            \/ \E k \in i + 1 .. j - 1 : Pending(rows[s[k]])
        BY <2>9, <3>1, <3>2, <3>3, <4>1, Zenon DEF Hidden, n
      <4> QED BY <3>1, <3>2, <3>3, <4>2, <4>3, Zenon
(* The new row touches the one at i: that one lasts for a pending one.       *)
    <3>4. CASE j = n + 1
      <4>1. R[w[j]] = row /\ j - 1 = n
        <5>1. j - 1 = n
          BY <1>1, <3>4
        <5> QED BY <1>2, <2>1, <3>4, <5>1, Zenon
      <4>2. End(row) <= End(rows[s[i]]) \/ row.ts = End(rows[s[i]])
        BY <1>10, <1>19, <2>9, <3>1, <4>1, Zenon DEF Enters, n
      <4>3. row.ts = End(rows[s[i]]) => \E k \in i + 1 .. n : Pending(rows[s[k]])
        BY <2>9, <3>1, Zenon DEF NotOver, Lasts, s, n
      <4>4. \A k \in i + 1 .. n : k \in 1 .. n
        BY <1>1, <3>1
      <4> QED BY <3>1, <3>2, <4>1, <4>2, <4>3, <4>4, Zenon
    <3> QED BY <1>12, <3>3, <3>4, Zenon
  <2>10. Hidden(R, w)
    BY <2>1, <2>9, Zenon DEF Hidden
  <2> QED BY <2>4, <2>6, <2>8, <2>10, Zenon
<1>20. ASSUME NEW u \in Track
       PROVE  /\ Path(R, st2[u], u) /\ Descend(R, st2[u], u) /\ Over(R, st2[u], u, ts)
              /\ Hidden(R, st2[u])
  <2>1. CASE u # t
    BY <1>3, <1>18, <2>1, Zenon
  <2>2. CASE u = t /\ row.placed
    BY <1>3, <1>19, <2>2, Zenon
  <2>3. CASE u = t /\ ~row.placed
    <3>1. w = st[t]
      BY <2>3, Zenon DEF Enters
    <3> QED BY <1>3, <1>18, <2>3, <3>1, Zenon
  <2> QED BY <2>1, <2>2, <2>3, Zenon
<1>21. Sound(R, st2, ts)
  BY <1>2, <1>15, <1>16, <1>17, <1>20, Zenon DEF Sound
<1> QED BY <1>21, Zenon DEF R, st2

(* The row at place i of the stack ends, with ts, and leaves the stack if it *)
(* is on top.                                                                *)
Completes(rows, p, ts, R) ==
  R = [x \in DOMAIN rows |-> IF x = p THEN [rows[x] EXCEPT !.dur = ts - rows[x].ts]
                             ELSE rows[x]]
Leaves(s, i, w) == w = IF i = Len(s) THEN Pop(s) ELSE s

(* CompleteSlice completes a row of a stack that was closed.                *)
LEMMA CompleteSound ==
  ASSUME NEW rows \in Seq(Row), NEW st \in [Track -> Seq(1 .. Len(rows))], NEW ts \in Ts,
         Sound(rows, st, ts), NEW t \in Track, NotOver(rows, st[t], ts),
         NEW i \in 1 .. Len(st[t]), Pending(rows[st[t][i]]),
         \A j \in i + 1 .. Len(st[t]) :
           ~Pending(rows[st[t][j]]) => End(rows[st[t][j]]) <= ts,
         NEW R, Completes(rows, st[t][i], ts, R), NEW w, Leaves(st[t], i, w)
  PROVE  /\ R \in Seq(Row) /\ Len(R) = Len(rows)
         /\ w \in Seq(1 .. Len(rows)) /\ Len(w) <= Len(st[t])
         /\ \A x \in 1 .. Len(rows) : ~Pending(rows[x]) => R[x] = rows[x]
         /\ Sound(R, [st EXCEPT ![t] = w], ts)
<1> DEFINE N == Len(rows)
           s == st[t]
           n == Len(s)
           p == s[i]
           st2 == [st EXCEPT ![t] = w]
<1>1. N \in Nat /\ s \in Seq(1 .. N) /\ n \in Nat /\ ts \in Nat /\ DOMAIN rows = 1 .. N
  BY SliceAssumption DEF Ts
<1>2. i \in Nat /\ 1 <= i /\ i <= n /\ i \in 1 .. n
  BY <1>1
<1>3. \A x \in 1 .. N : rows[x] \in Row
  OBVIOUS
<1>4. \A u \in Track : \A k \in 1 .. Len(st[u]) : st[u][k] \in 1 .. N
  OBVIOUS
<1>5. st2[t] = w /\ \A u \in Track : u # t => st2[u] = st[u]
  BY Zenon
<1>6. \A u \in Track : Path(rows, st[u], u) /\ Descend(rows, st[u], u) /\ Over(rows, st[u], u, ts)
  BY Zenon DEF Sound
<1>7. Parents(rows) /\ Siblings(rows) /\ \A x \in 1 .. N : rows[x].ts <= ts
  BY Zenon DEF Sound
<1>8. \A k \in 1 .. n : s[k] \in 1 .. N
  BY <1>4, Zenon
<1>9. p \in 1 .. N /\ rows[p] \in Row /\ Pending(rows[p]) /\ OnTrack(rows, t, p)
  BY <1>2, <1>3, <1>6, <1>8, Zenon DEF Path
<1>10. rows[p].ts \in Nat /\ rows[p].ts <= ts
  BY <1>7, <1>9, RowFacts, Zenon
<1>11. ts - rows[p].ts \in Ts
  <2> DEFINE a == rows[p].ts
  <2>1. a \in Nat /\ a <= ts /\ ts \in 0 .. MaxTs /\ MaxTs \in Nat
    BY <1>10, SliceAssumption, Zenon DEF Ts
  <2> HIDE DEF a
  <2>2. ts - a \in 0 .. MaxTs
    BY <2>1
  <2> QED
    BY <2>2, Zenon DEF a, Ts
<1> HIDE DEF N, s, n, p, st2
(* The table.                                                                *)
<1>12. \A x \in 1 .. N : x # p => R[x] = rows[x]
  BY <1>1, Zenon DEF Completes, p, s
<1>13. R[p] = [rows[p] EXCEPT !.dur = ts - rows[p].ts]
  BY <1>1, <1>9, Zenon DEF Completes, p, s
<1>14. /\ R[p] \in Row /\ ~Pending(R[p]) /\ End(R[p]) = ts
       /\ R[p].track = rows[p].track /\ R[p].ts = rows[p].ts /\ R[p].depth = rows[p].depth
       /\ R[p].parent_id = rows[p].parent_id /\ R[p].placed = rows[p].placed
  <2> DEFINE r == rows[p]
             d == ts - rows[p].ts
  <2>1. r \in Row /\ d \in Ts /\ R[p] = [r EXCEPT !.dur = d] /\ r.ts + d = ts
    BY <1>1, <1>9, <1>10, <1>11, <1>13
  <2> HIDE DEF r, d
  <2>2. /\ R[p] \in Row /\ ~Pending(R[p]) /\ End(R[p]) = r.ts + d
        /\ R[p].track = r.track /\ R[p].ts = r.ts /\ R[p].depth = r.depth
        /\ R[p].parent_id = r.parent_id /\ R[p].placed = r.placed
    <3> DEFINE q == [r EXCEPT !.dur = d]
    <3>1. /\ q \in Row /\ ~Pending(q) /\ End(q) = r.ts + d
          /\ q.track = r.track /\ q.ts = r.ts /\ q.depth = r.depth
          /\ q.parent_id = r.parent_id /\ q.placed = r.placed
      BY <2>1, RowCompleted, Zenon
    <3> HIDE DEF q
    <3> QED BY <2>1, <3>1, Zenon DEF q
  <2> QED BY <2>1, <2>2, Zenon DEF r
<1>15. \A x \in 1 .. N :
         /\ R[x].track = rows[x].track /\ R[x].ts = rows[x].ts
         /\ R[x].depth = rows[x].depth /\ R[x].parent_id = rows[x].parent_id
         /\ R[x].placed = rows[x].placed
  BY <1>12, <1>14, Zenon
<1>16. R \in Seq(Row) /\ Len(R) = N
  <2>1. \A x \in 1 .. N : R[x] \in Row
    BY <1>3, <1>12, <1>14, Zenon
  <2>2. R = [x \in 1 .. N |-> R[x]]
    BY <1>1, Zenon DEF Completes
  <2>3. R \in [1 .. N -> Row]
    BY <2>1, <2>2, Zenon
  <2> QED BY <1>1, <2>3, TableIsSeq, Zenon
<1>17. \A x \in 1 .. N : ~Pending(rows[x]) => R[x] = rows[x]
  BY <1>9, <1>12, Zenon
(* The stack.                                                                *)
<1>18. /\ w \in Seq(1 .. N) /\ Len(w) \in Nat /\ Len(w) <= n
       /\ \A k \in 1 .. Len(w) : w[k] = s[k] /\ k \in 1 .. n
       /\ Len(w) = n \/ (i = n /\ Len(w) = n - 1)
  <2>1. CASE i = n
    <3>1. w = SubSeq(s, 1, n - 1)
      BY <2>1, Zenon DEF Leaves, Pop, s, n
    <3>2. n - 1 \in Nat /\ n - 1 <= Len(s) /\ \A k \in 1 .. n - 1 : k \in 1 .. n
      BY <1>1, <1>2 DEF n
    <3>3. w \in Seq(1 .. N) /\ Len(w) = n - 1 /\ \A k \in 1 .. n - 1 : w[k] = s[k]
      <4>1. /\ SubSeq(s, 1, n - 1) \in Seq(1 .. N) /\ Len(SubSeq(s, 1, n - 1)) = n - 1
            /\ \A k \in 1 .. n - 1 : SubSeq(s, 1, n - 1)[k] = s[k]
        BY <1>1, <3>2, PrefixFacts, Zenon
      <4> QED BY <3>1, <4>1, Zenon
    <3>4. Len(w) \in Nat /\ Len(w) <= n
      BY <1>1, <1>2, <3>3
    <3> QED BY <2>1, <3>2, <3>3, <3>4, Zenon
  <2>2. CASE i # n
    <3>1. w = s
      BY <2>2, Zenon DEF Leaves, s, n
    <3>2. n <= n
      BY <1>1
    <3> QED BY <1>1, <3>1, <3>2, Zenon DEF n
  <2> QED BY <2>1, <2>2, Zenon
<1>19. /\ Path(rows, s, t) /\ Descend(rows, s, t) /\ Over(rows, s, t, ts)
  BY <1>6, Zenon DEF s
<1>20. \A k, j \in 1 .. n : /\ k < j => s[k] < s[j]
                            /\ s[k] < s[j] => k < j
                            /\ s[k] = s[j] => k = j
  <2>1. \A k \in 1 .. n : s[k] \in Nat
    <3>1. \A x \in 1 .. N : x \in Nat
      BY <1>1
    <3> QED BY <1>8, <3>1, Zenon
  <2>2. \A k, j \in 1 .. n : k < j => s[k] < s[j]
    BY <1>19, Zenon DEF Path, n
  <2> QED BY <1>1, <2>1, <2>2, Increasing, Zenon
(* What came later than the row lies in it.                                  *)
<1>21. ASSUME NEW x \in 1 .. N, x > p, OnTrack(rows, t, x)
       PROVE  Covers(R, p, x)
  <2>1. x # p /\ p < x
    BY <1>1, <1>9, <1>21
  <2>2. R[x] = rows[x] /\ rows[x] \in Row /\ End(rows[x]) \in Int
    BY <1>3, <1>12, <2>1, RowFacts, Zenon
  <2>3. rows[p].ts <= rows[x].ts /\ rows[x].ts <= ts
    BY <1>2, <1>7, <1>19, <1>21, Zenon DEF Descend, Covers, N, n, p
  <2>4. ~Pending(rows[x]) => End(rows[x]) <= ts
    <3>1. ASSUME NEW k \in 1 .. n, s[k] = x, ~Pending(rows[x])  PROVE End(rows[x]) <= ts
      <4>1. i < k
        <5>1. s[i] < s[k]
          BY <2>1, <3>1, Zenon DEF p
        <5> QED BY <1>2, <1>20, <5>1, Zenon
      <4>2. k \in i + 1 .. n
        BY <1>1, <1>2, <4>1
      <4> QED BY <3>1, <4>2, Zenon DEF s, n
    <3> QED BY <1>19, <1>21, <3>1, Zenon DEF Over, N, n
  <2> QED BY <1>14, <2>2, <2>3, <2>4, Zenon DEF Covers
(* It lies in what is below it.                                              *)
<1>22. ASSUME NEW k \in 1 .. n, s[k] < p
       PROVE  Covers(R, s[k], p)
  <2>1. s[k] \in 1 .. N /\ s[k] # p /\ p > s[k]
    BY <1>1, <1>8, <1>9, <1>22
  <2>2. R[s[k]] = rows[s[k]]
    BY <1>12, <2>1, Zenon
  <2>3. Covers(rows, s[k], p)
    BY <1>9, <1>19, <2>1, Zenon DEF Descend, N, n
  <2>4. ~Pending(rows[s[k]]) => ts <= End(rows[s[k]])
    BY Zenon DEF NotOver, Lasts, s, n
  <2> QED BY <1>14, <2>2, <2>3, <2>4, Zenon DEF Covers
<1>23. ASSUME NEW k \in 1 .. n, NEW x \in 1 .. N, x > s[k], OnTrack(rows, t, x)
       PROVE  Covers(R, s[k], x)
  <2>1. CASE s[k] = p
    BY <1>21, <1>23, <2>1, Zenon
  <2>2. CASE x = p
    <3>1. s[k] < p
      BY <1>1, <1>8, <1>23, <2>2, Zenon
    <3> QED BY <1>22, <2>2, <3>1, Zenon
  <2>3. CASE s[k] # p /\ x # p
    <3>1. R[s[k]] = rows[s[k]] /\ R[x] = rows[x]
      BY <1>8, <1>12, <2>3, Zenon
    <3>2. Covers(rows, s[k], x)
      BY <1>19, <1>23, Zenon DEF Descend, N, n
    <3> QED BY <3>1, <3>2, Zenon DEF Covers
  <2> QED BY <2>1, <2>2, <2>3, Zenon
<1>24. Parents(R)
  <2> SUFFICES ASSUME NEW x \in 1 .. N, R[x].parent_id # NoParent
               PROVE  /\ R[x].parent_id \in 1 .. N /\ R[x].parent_id < x
                      /\ R[x].placed /\ OnTrack(R, R[x].track, R[x].parent_id)
                      /\ R[R[x].parent_id].depth + 1 = R[x].depth
                      /\ Covers(R, R[x].parent_id, x)
    BY <1>16, Zenon DEF Parents
  <2> DEFINE q == rows[x].parent_id
  <2>1. R[x].parent_id = q /\ q # NoParent
    BY <1>15, Zenon
  <2>2. /\ q \in 1 .. N /\ q < x /\ rows[x].placed /\ OnTrack(rows, rows[x].track, q)
        /\ rows[q].depth + 1 = rows[x].depth /\ Covers(rows, q, x)
    BY <1>7, <2>1, Zenon DEF Parents, N
  <2> HIDE DEF q
  <2>3. R[x].placed /\ OnTrack(R, R[x].track, q) /\ R[q].depth + 1 = R[x].depth
    BY <1>15, <2>2, Zenon DEF OnTrack
  <2>4. CASE q = p
    <3>1. x > p /\ OnTrack(rows, t, x)
      <4>1. x > p
        BY <1>1, <2>2, <2>4, Zenon
      <4> QED BY <1>9, <2>2, <2>4, <4>1, Zenon DEF OnTrack
    <3>2. Covers(R, q, x)
      BY <1>21, <2>4, <3>1, Zenon
    <3> QED BY <2>1, <2>2, <2>3, <3>2, Zenon
  <2>5. CASE x = p
    <3>1. i = 1 \/ (i > 1 /\ i - 1 \in 1 .. n)
      BY <1>1, <1>2
    <3>2. (i = 1 => q = NoParent) /\ (i > 1 => q = s[i - 1])
      BY <1>2, <1>19, <2>5, Zenon DEF Path, n, p, q
    <3>3. i - 1 \in 1 .. n /\ q = s[i - 1]
      BY <2>1, <3>1, <3>2, Zenon
    <3>4. Covers(R, q, x)
      BY <1>22, <2>2, <2>5, <3>3, Zenon
    <3> QED BY <2>1, <2>2, <2>3, <3>4, Zenon
  <2>6. CASE q # p /\ x # p
    <3>1. Covers(R, q, x)
      BY <1>12, <2>2, <2>6, Zenon DEF Covers
    <3> QED BY <2>1, <2>2, <2>3, <3>1, Zenon
  <2> QED BY <2>4, <2>5, <2>6, Zenon
<1>25. Siblings(R)
  <2> SUFFICES ASSUME NEW x \in 1 .. N, NEW y \in 1 .. N,
                      x < y, R[x].track = R[y].track, R[x].placed, R[y].placed,
                      R[x].depth = R[y].depth
               PROVE  ~Pending(R[x]) /\ End(R[x]) <= R[y].ts
    BY <1>16, Zenon DEF Siblings
  <2>1. ~Pending(rows[x]) /\ End(rows[x]) <= rows[y].ts
    <3>1. /\ rows[x].track = rows[y].track /\ rows[x].placed /\ rows[y].placed
          /\ rows[x].depth = rows[y].depth
      BY <1>15, Zenon
    <3>2. \A a, b \in 1 .. N :
            (/\ a < b /\ rows[a].track = rows[b].track /\ rows[a].placed /\ rows[b].placed
             /\ rows[a].depth = rows[b].depth)
            => ~Pending(rows[a]) /\ End(rows[a]) <= rows[b].ts
      BY <1>7, Zenon DEF Siblings, N
    <3> QED BY <3>1, <3>2, Zenon
  <2> QED BY <1>15, <1>17, <2>1, Zenon
<1>26. \A x \in 1 .. N : R[x].ts <= ts
  BY <1>7, <1>15, Zenon
<1>27. Path(R, w, t)
  <2>1. ASSUME NEW k \in 1 .. Len(w), NEW j \in 1 .. Len(w), k < j
        PROVE  w[k] < w[j]
    <3>1. k \in 1 .. n /\ j \in 1 .. n /\ w[k] = s[k] /\ w[j] = s[j]
      BY <1>18, Zenon
    <3>2. s[k] < s[j]
      BY <1>20, <2>1, <3>1, Zenon
    <3> QED BY <3>1, <3>2, Zenon
  <2>2. ASSUME NEW k \in 1 .. Len(w)
        PROVE  /\ OnTrack(R, t, w[k]) /\ R[w[k]].depth = k - 1
               /\ k = 1 => R[w[k]].parent_id = NoParent
               /\ k > 1 => R[w[k]].parent_id = w[k - 1]
    <3>1. k > 1 => k - 1 \in 1 .. Len(w)
      BY <1>18
    <3>2. k \in 1 .. n /\ w[k] = s[k] /\ s[k] \in 1 .. N /\ (k > 1 => w[k - 1] = s[k - 1])
      BY <1>8, <1>18, <3>1, Zenon
    <3>3. /\ OnTrack(rows, t, s[k]) /\ rows[s[k]].depth = k - 1
          /\ k = 1 => rows[s[k]].parent_id = NoParent
          /\ k > 1 => rows[s[k]].parent_id = s[k - 1]
      BY <1>19, <3>2, Zenon DEF Path, n
    <3> QED BY <1>15, <3>2, <3>3, Zenon DEF OnTrack
  <2> QED BY <2>1, <2>2, Zenon DEF Path
<1>28. Descend(R, w, t)
  BY <1>15, <1>16, <1>18, <1>23, Zenon DEF Descend, OnTrack
<1>29. Over(R, w, t, ts)
  <2> SUFFICES ASSUME NEW x \in 1 .. N, OnTrack(R, t, x)
               PROVE  \/ \E k \in 1 .. Len(w) : w[k] = x
                      \/ ~Pending(R[x]) /\ End(R[x]) <= ts
    BY <1>16, Zenon DEF Over
  <2>1. \/ \E k \in 1 .. n : s[k] = x
        \/ ~Pending(rows[x]) /\ End(rows[x]) <= ts
    BY <1>15, <1>19, Zenon DEF Over, OnTrack, N, n
  <2>2. CASE ~Pending(rows[x]) /\ End(rows[x]) <= ts
    BY <1>17, <2>2, Zenon
  <2>3. CASE \E k \in 1 .. n : s[k] = x
    <3>1. PICK k \in 1 .. n : s[k] = x
      BY <2>3, Zenon
    <3>2. CASE k \in 1 .. Len(w)
      BY <1>18, <3>1, <3>2, Zenon
    <3>3. CASE k \notin 1 .. Len(w)
      <4>1. k = i
        BY <1>1, <1>2, <1>18, <3>3
      <4>2. ~Pending(R[x]) /\ End(R[x]) = ts
        BY <1>14, <3>1, <4>1, Zenon DEF p
      <4> QED BY <1>1, <4>2
    <3> QED BY <3>2, <3>3, Zenon
  <2> QED BY <2>1, <2>2, <2>3, Zenon
(* Between a complete slice below it and one above it, it was what hid them. *)
<1>h. ASSUME NEW a \in 1 .. n, NEW b \in 1 .. n, a < b,
             ~Pending(R[s[a]]), ~Pending(R[s[b]])
      PROVE  \/ End(R[s[b]]) <= End(R[s[a]])
             \/ \E k \in a + 1 .. b - 1 : Pending(R[s[k]])
  <2>1. \A k \in 1 .. n : k # i => s[k] # p /\ R[s[k]] = rows[s[k]]
    BY <1>2, <1>8, <1>12, <1>20, Zenon DEF p
  <2>2. b # i /\ i < b => ~Pending(rows[s[b]]) /\ End(rows[s[b]]) <= ts
    <3>1. i < b => b \in i + 1 .. n
      BY <1>1, <1>2
    <3> QED BY <1>h, <2>1, <3>1, Zenon DEF s, n
  <2>3. a # i => ~Pending(rows[s[a]]) /\ ts <= End(rows[s[a]])
    BY <1>h, <2>1, Zenon DEF NotOver, Lasts, s, n
  <2>4. CASE a = i
    <3>1. b # i /\ i < b
      BY <1>1, <1>2, <1>h, <2>4
    <3> QED BY <1>14, <2>1, <2>2, <2>4, <3>1, Zenon DEF p
  <2>5. CASE b = i
    <3>1. a # i
      BY <1>1, <1>2, <1>h, <2>5
    <3> QED BY <1>14, <2>1, <2>3, <2>5, <3>1, Zenon DEF p
  <2>6. CASE a # i /\ b # i
    <3>1. R[s[a]] = rows[s[a]] /\ R[s[b]] = rows[s[b]]
      BY <2>1, <2>6, Zenon
    <3>2. Hidden(rows, s)
      BY Zenon DEF Sound, s
    <3>3. \/ End(rows[s[b]]) <= End(rows[s[a]])
          \/ \E k \in a + 1 .. b - 1 : Pending(rows[s[k]])
      BY <1>h, <3>1, <3>2, Zenon DEF Hidden, n
    <3>4. ASSUME NEW k \in a + 1 .. b - 1, Pending(rows[s[k]])
          PROVE  End(R[s[b]]) <= End(R[s[a]]) \/ Pending(R[s[k]])
      <4>1. k \in 1 .. n /\ (k = i => i < b)
        BY <1>1, <1>2
      <4>2. CASE k = i
        <5>1. End(rows[s[b]]) <= ts /\ ts <= End(rows[s[a]])
          BY <2>2, <2>3, <2>6, <4>1, <4>2, Zenon
        <5>2. End(rows[s[b]]) \in Int /\ End(rows[s[a]]) \in Int
          BY <1>3, <1>8, RowFacts, Zenon
        <5>3. End(rows[s[b]]) <= End(rows[s[a]])
          BY <1>1, <5>1, <5>2
        <5> QED BY <3>1, <5>3, Zenon
      <4>3. CASE k # i
        BY <2>1, <3>4, <4>1, <4>3, Zenon
      <4> QED BY <4>2, <4>3, Zenon
    <3> QED BY <3>1, <3>3, <3>4, Zenon
  <2> QED BY <2>4, <2>5, <2>6, Zenon
<1>hw. Hidden(R, w)
  <2>1. Hidden(R, s)
    BY <1>h, Zenon DEF Hidden, n
  <2>2. \A k \in 1 .. Len(w) : R[w[k]] = R[s[k]]
    BY <1>18, Zenon
  <2>3. LeftOf(R, s, R, w)
    BY <1>1, <1>18, <2>2, Zenon DEF LeftOf, n
  <2> QED BY <2>1, <2>3, HiddenKept, Zenon
<1>30. ASSUME NEW u \in Track, u # t
       PROVE  /\ Path(R, st[u], u) /\ Descend(R, st[u], u) /\ Over(R, st[u], u, ts)
              /\ Hidden(R, st[u])
  <2> DEFINE v == st[u]
  <2>1. /\ Path(rows, v, u) /\ Descend(rows, v, u) /\ Over(rows, v, u, ts)
        /\ \A k \in 1 .. Len(v) : v[k] \in 1 .. N
    BY <1>4, <1>6, Zenon
  <2>a. Hidden(rows, v) /\ Len(v) \in Nat /\ Len(v) <= Len(v)
    <3>1. Len(v) \in Nat
      OBVIOUS
    <3>2. Len(v) <= Len(v)
      BY <3>1
    <3> QED BY <3>1, <3>2, Zenon DEF Sound
  <2> HIDE DEF v
  <2>2. \A x \in 1 .. N : rows[x].track = u => R[x] = rows[x]
    BY <1>9, <1>12, <1>30, Zenon DEF OnTrack
  <2>3. \A k \in 1 .. Len(v) : R[v[k]] = rows[v[k]]
    <3>1. \A k \in 1 .. Len(v) : rows[v[k]].track = u
      BY <2>1, Zenon DEF Path, OnTrack
    <3> QED BY <2>1, <2>2, <3>1, Zenon
  <2>4. \A x \in 1 .. N : OnTrack(R, u, x) => OnTrack(rows, u, x) /\ R[x] = rows[x]
    BY <1>15, <2>2, Zenon DEF OnTrack
  <2>5. Path(R, v, u)
    BY <2>1, <2>3, PathKept, Zenon
  <2>6. Descend(R, v, u)
    <3> SUFFICES ASSUME NEW k \in 1 .. Len(v), NEW x \in 1 .. N,
                        x > v[k], OnTrack(R, u, x)
                 PROVE  Covers(R, v[k], x)
      BY <1>16, Zenon DEF Descend
    <3>1. Covers(rows, v[k], x)
      BY <2>1, <2>4, Zenon DEF Descend, N
    <3> QED BY <2>3, <2>4, <3>1, Zenon DEF Covers
  <2>7. Over(R, v, u, ts)
    BY <1>16, <2>1, <2>4, Zenon DEF Over, N
  <2>8. Hidden(R, v)
    <3>1. LeftOf(rows, v, R, v)
      BY <2>3, <2>a, Zenon DEF LeftOf
    <3> QED BY <2>a, <3>1, HiddenKept, Zenon
  <2> QED BY <2>5, <2>6, <2>7, <2>8, Zenon DEF v
<1>31. ASSUME NEW u \in Track
       PROVE  /\ Path(R, st2[u], u) /\ Descend(R, st2[u], u) /\ Over(R, st2[u], u, ts)
              /\ Hidden(R, st2[u])
  BY <1>5, <1>27, <1>28, <1>29, <1>30, <1>hw, Zenon
<1>32. Sound(R, st2, ts)
  BY <1>16, <1>24, <1>25, <1>26, <1>31, Zenon DEF Sound
<1> QED BY <1>16, <1>17, <1>18, <1>32, Zenon DEF N, n, s, st2

-----------------------------------------------------------------------------
(* The actions.                                                              *)

(* What is sound at a time is sound at any later one.                       *)
LEMMA LaterSound ==
  ASSUME NEW rows \in Seq(Row), NEW st, NEW a \in Nat, NEW b \in Nat, a <= b,
         Sound(rows, st, a)
  PROVE  Sound(rows, st, b)
<1>1. ASSUME NEW x \in 1 .. Len(rows)
      PROVE  /\ rows[x].ts <= a => rows[x].ts <= b
             /\ End(rows[x]) <= a => End(rows[x]) <= b
  <2>1. rows[x] \in Row
    OBVIOUS
  <2>2. rows[x].ts \in Nat /\ End(rows[x]) \in Int
    BY <2>1, RowFacts, Zenon
  <2> QED BY <2>2
<1>2. ASSUME NEW t \in Track, Over(rows, st[t], t, a)  PROVE Over(rows, st[t], t, b)
  BY <1>1, <1>2, Zenon DEF Over
<1> QED BY <1>1, <1>2, Zenon DEF Sound

(* A set of numbers that is bounded and not empty has a largest one.        *)
LEMMA LargestElement ==
  ASSUME NEW n \in Nat, NEW T, T \subseteq 1 .. n, T # {}
  PROVE  \E x \in T : \A y \in T : y <= x
<1> DEFINE D == {n - j : j \in T}
<1>1. D \subseteq Nat /\ D # {}
  <2>1. \A j \in T : n - j \in Nat
    OBVIOUS
  <2>2. PICK j : j \in T
    BY Zenon
  <2>3. n - j \in D
    BY <2>2, Zenon
  <2> QED BY <2>1, <2>3, Zenon
<1>2. PICK d \in D : \A e \in D : d <= e
  <2> HIDE DEF D
  <2> QED BY <1>1, SmallestElement, Zenon
<1>3. PICK x \in T : d = n - x
  BY Zenon
<1>4. ASSUME NEW y \in T  PROVE y <= x
  <2>1. n - x <= n - y
    BY <1>2, <1>3, Zenon
  <2>2. x \in Int /\ y \in Int
    OBVIOUS
  <2> QED BY <2>1, <2>2
<1> QED BY <1>4, Zenon

(* The slice that an end event matches is on the stack, and pending.        *)
LEMMA MatchFacts ==
  ASSUME NEW S, NEW stack \in Seq(S), NEW rows, NEW label
  PROVE  LET i == MatchingIncompleteSliceIndex(stack, rows, label)
         IN  i = 0 \/ (i \in 1 .. Len(stack) /\ i > 0 /\ Pending(rows[stack[i]]))
<1> DEFINE Matches(row) ==
             /\ Pending(row)
             /\ label.category # Null => row.label.category = label.category
             /\ label.name # Null /\ row.label.name # Null => row.label.name = label.name
           found == {i \in 1 .. Len(stack) : Matches(rows[stack[i]])}
           m == MatchingIncompleteSliceIndex(stack, rows, label)
<1>1. m = IF found = {} THEN 0 ELSE CHOOSE i \in found : \A j \in found : j <= i
  BY Zenon DEF MatchingIncompleteSliceIndex
<1>2. found \subseteq 1 .. Len(stack) /\ \A i \in found : Pending(rows[stack[i]])
  BY Zenon
<1> HIDE DEF found, m
<1>3. CASE found = {}
  BY <1>1, <1>3, Zenon DEF m
<1>4. CASE found # {}
  <2>1. \E x \in found : \A y \in found : y <= x
    <3>1. Len(stack) \in Nat
      OBVIOUS
    <3> QED BY <1>2, <1>4, <3>1, LargestElement, Zenon
  <2>2. m = CHOOSE i \in found : \A j \in found : j <= i
    BY <1>1, <1>4, Zenon
  <2>3. m \in found
    BY <2>1, <2>2, Zenon
  <2>4. m \in 1 .. Len(stack) /\ Pending(rows[stack[m]])
    BY <1>2, <2>3, Zenon
  <2>5. m > 0
    BY <2>4
  <2> QED BY <2>4, <2>5, Zenon DEF m
<1> QED BY <1>3, <1>4, Zenon

(* The rows StartSlice appends.                                              *)
InTree(r, depth, parent) ==
  [r EXCEPT !.placed = TRUE, !.depth = depth, !.parent_id = parent]

IsInTree(p, r, depth, parent) ==
  /\ p \in Row /\ p.track = r.track /\ p.ts = r.ts /\ p.dur = r.dur
  /\ p.depth = depth /\ p.parent_id = parent /\ p.placed = TRUE

(* The row that StartSlice places is a row of the table.                    *)
LEMMA RowInTree ==
  ASSUME NEW r \in Row, NEW depth \in 0 .. MaxDepth - 1, NEW parent \in 0 .. MaxSlices
  PROVE  IsInTree(InTree(r, depth, parent), r, depth, parent)
BY Zenon DEF Row, InTree, IsInTree

(* What an event must show of the table and the stack it leaves.             *)
LEMMA EventInv ==
  ASSUME IInv, ~flushed, flushed' = flushed, NEW ts \in Ts, NEW t \in Track,
         prev_timestamp' = ts, dcheck' \in BOOLEAN,
         slices' \in Seq(Row), Len(slices') <= MaxSlices, Len(slices) <= Len(slices'),
         NEW w \in Seq(1 .. Len(slices')), Len(w) <= MaxDepth,
         stacks' = [stacks EXCEPT ![t] = w], Sound(slices', stacks', ts)
  PROVE  IInv'
<1>1. /\ stacks \in [Track -> Seq(1 .. Len(slices))] /\ slices \in Seq(Row)
      /\ \A u \in Track : Len(stacks[u]) <= MaxDepth
  BY Zenon DEF IInv, TypeOK
<1>2. \A u \in Track : /\ u = t => stacks'[u] = w
                       /\ u # t => stacks'[u] = stacks[u]
  BY <1>1, Zenon
<1>3. \A x \in 1 .. Len(slices) : x \in 1 .. Len(slices')
  <2>1. Len(slices) \in Nat /\ Len(slices') \in Nat
    BY <1>1
  <2> QED BY <2>1
<1>4. ASSUME NEW u \in Track PROVE stacks[u] \in Seq(1 .. Len(slices'))
  <2>1. stacks[u] \in Seq(1 .. Len(slices))
    BY <1>1, Zenon
  <2> DEFINE A == 1 .. Len(slices)
             B == 1 .. Len(slices')
             v == stacks[u]
  <2> HIDE DEF A, B, v
  <2>2. A \subseteq B /\ v \in Seq(A)
    BY <1>3, <2>1, Zenon DEF A, B, v
  <2>3. v \in Seq(B)
    BY <2>2
  <2> QED BY <2>3, Zenon DEF B, v
<1>5. ASSUME NEW u \in Track
      PROVE  stacks'[u] \in Seq(1 .. Len(slices')) /\ Len(stacks'[u]) <= MaxDepth
  BY <1>1, <1>2, <1>4, Zenon
<1>6. stacks' = [u \in Track |-> stacks'[u]]
  BY <1>1, Zenon
<1>7. stacks' \in [Track -> Seq(1 .. Len(slices'))]
  BY <1>5, <1>6, Zenon
<1>8. TypeOK'
  <2>1. prev_timestamp' \in Ts /\ dcheck' \in BOOLEAN /\ flushed' \in BOOLEAN
    BY Zenon DEF IInv, TypeOK
  <2> QED BY <1>5, <1>7, <2>1, Zenon DEF TypeOK
<1>9. Sound(slices', stacks', prev_timestamp')
  BY Zenon
<1>10. Parents(slices') /\ Siblings(slices')
  BY <1>9, Zenon DEF Sound
<1> QED BY <1>8, <1>9, <1>10, Zenon DEF IInv

(* What a complete slice says stays, but for those that touch another.       *)
Final == \A x \in DOMAIN slices :
           ~Pending(slices[x]) /\ slices'[x].dur # slices[x].dur =>
             slices'[x].dur = 0 /\ Touches(x)

(* Begin, BeginLegacyUnnestable and Scoped keep the invariant.              *)
LEMMA StartInv ==
  ASSUME IInv, NEW ts \in Ts, NEW t \in Track,
         NEW label \in (UNION {Label(u) : u \in Track}) \cup {NoLabel},
         NEW dur \in {kPendingDuration} \cup Ts,
         dur = kPendingDuration \/ Fits(ts, t, dur),
         StartSlice(ts, t, label, dur)
  PROVE  IInv' /\ Final
<1> DEFINE c == MaybeCloseStack(ts, t)
           N == Len(slices)
           depth == Len(c.stack)
           row == [track |-> t, label |-> label, ts |-> ts, dur |-> dur,
                   depth |-> 0, parent_id |-> NoParent, placed |-> FALSE]
           row2 == [row EXCEPT !.placed = TRUE, !.depth = depth,
                      !.parent_id = IF depth = 0 THEN NoParent ELSE c.stack[depth]]
<1>1. ~flushed /\ N < MaxSlices /\ flushed' = flushed
  BY Zenon DEF StartSlice
<1>2. \/ ~InOrder(ts) /\ UNCHANGED vars
      \/ /\ InOrder(ts) /\ prev_timestamp' = ts /\ UNCHANGED <<slices, stacks, dcheck>>
      \/ /\ InOrder(ts) /\ prev_timestamp' = ts /\ dcheck' = c.dcheck
         /\ \/ /\ TooDeep(depth) /\ slices' = Append(c.slices, row)
               /\ stacks' = [stacks EXCEPT ![t] = c.stack]
            \/ /\ ~TooDeep(depth) /\ slices' = Append(c.slices, row2)
               /\ stacks' = [stacks EXCEPT ![t] = Append(c.stack, N + 1)]
  BY Zenon DEF StartSlice
<1>3. /\ slices \in Seq(Row) /\ N \in Nat /\ stacks \in [Track -> Seq(1 .. N)]
      /\ prev_timestamp \in Ts /\ DOMAIN slices = 1 .. N
      /\ Sound(slices, stacks, prev_timestamp) /\ Len(stacks[t]) <= MaxDepth
  BY <1>1 DEF IInv, TypeOK
<1>4. ts \in Nat /\ prev_timestamp \in Nat /\ MaxSlices \in Nat /\ MaxDepth \in Nat /\ 0 < MaxDepth
  BY <1>3, SliceAssumption DEF Ts
<1>r. /\ row \in Row /\ row.track = t /\ row.ts = ts /\ row.dur = dur
      /\ row.parent_id = NoParent /\ ~row.placed
  <2>1. 0 \in 0 .. MaxDepth - 1 /\ NoParent \in 0 .. MaxSlices
    BY <1>4 DEF NoParent
  <2>2. FALSE \in BOOLEAN
    BY Zenon
  <2>3. row = [track |-> t, label |-> label, ts |-> ts, dur |-> dur,
               depth |-> 0, parent_id |-> NoParent, placed |-> FALSE]
    BY Zenon
  <2> HIDE DEF row
  <2>4. /\ row.track = t /\ row.ts = ts /\ row.dur = dur
        /\ row.parent_id = NoParent /\ row.placed = FALSE
    BY <2>3, Zenon
  <2>5. row \in Row
    BY <2>1, <2>2, <2>3, Zenon DEF Row
  <2> QED BY <2>4, <2>5, Zenon
<1> HIDE DEF row
<1>5. CASE ~InOrder(ts) /\ UNCHANGED vars
  BY <1>5, Zenon DEF IInv, TypeOK, Final, vars
<1>6. CASE InOrder(ts) /\ prev_timestamp' = ts /\ UNCHANGED <<slices, stacks, dcheck>>
  <2>1. prev_timestamp <= ts
    BY <1>4, <1>6, Zenon DEF InOrder
  <2>2. Sound(slices, stacks, ts)
    BY <1>3, <1>4, <2>1, LaterSound, Zenon
  <2>3. slices' = slices /\ stacks' = stacks /\ dcheck' = dcheck
    BY <1>6, Zenon
  <2>4. TypeOK /\ Parents(slices) /\ Siblings(slices)
    BY Zenon DEF IInv
  <2>5. TypeOK'
    BY <1>1, <1>6, <2>3, <2>4, Zenon DEF TypeOK
  <2>6. Sound(slices', stacks', prev_timestamp')
    BY <1>6, <2>2, <2>3, Zenon
  <2>7. Parents(slices') /\ Siblings(slices')
    BY <2>3, <2>4, Zenon
  <2>8. IInv'
    BY <2>5, <2>6, <2>7, Zenon DEF IInv
  <2> QED BY <2>3, <2>8, Zenon DEF Final
<1>7. CASE /\ InOrder(ts) /\ prev_timestamp' = ts /\ dcheck' = c.dcheck
           /\ \/ /\ TooDeep(depth) /\ slices' = Append(c.slices, row)
                 /\ stacks' = [stacks EXCEPT ![t] = c.stack]
              \/ /\ ~TooDeep(depth) /\ slices' = Append(c.slices, row2)
                 /\ stacks' = [stacks EXCEPT ![t] = Append(c.stack, N + 1)]
  <2>1. Closed(c, ts, t)
    BY <1>1, <1>7, CloseSound, Zenon
  <2>2. dur # kPendingDuration =>
          \A k \in DOMAIN c.stack :
            \/ Pending(c.slices[c.stack[k]]) \/ ts + dur <= End(c.slices[c.stack[k]])
            \/ End(c.slices[c.stack[k]]) = ts
    BY Zenon DEF Fits
  <2> HIDE DEF c
  <2> DEFINE A == c.slices
             s == c.stack
             st == [stacks EXCEPT ![t] = c.stack]
  <2>3. /\ A \in Seq(Row) /\ Len(A) = N /\ c.dcheck \in BOOLEAN /\ s \in Seq(1 .. N)
        /\ Len(s) <= Len(stacks[t])
        /\ \A x \in 1 .. N : ~Pending(slices[x]) => Settled(A, x)
        /\ Sound(A, st, ts) /\ NotOver(A, s, ts)
    BY <2>1, Zenon DEF Closed
  <2>4. st \in [Track -> Seq(1 .. Len(A))] /\ st[t] = s
    BY <1>3, <2>3, Zenon
  <2>5. depth \in Nat /\ DOMAIN s = 1 .. depth /\ Len(stacks[t]) \in Nat
        /\ \A k \in 1 .. depth : s[k] \in 1 .. N
    <3>1. depth = Len(s) /\ s \in Seq(1 .. N) /\ stacks[t] \in Seq(1 .. N)
      BY <1>3, <2>3, Zenon
    <3> HIDE DEF A, s, st, depth, row2, N
    <3>2. Len(s) \in Nat /\ DOMAIN s = 1 .. Len(s) /\ Len(stacks[t]) \in Nat
      BY <3>1, LenProperties, Zenon
    <3>3. \A k \in 1 .. Len(s) : s[k] \in 1 .. N
      BY <3>1, ElementOfSeq, Zenon
    <3> QED
      BY <3>1, <3>2, <3>3, Zenon
  <2>6. depth <= MaxDepth
    BY <1>3, <1>4, <2>3, <2>5
(* Whatever row r is appended, the rest follows from Sound.                  *)
  <2>7. ASSUME NEW r \in Row, slices' = Append(A, r), NEW w \in Seq(1 .. N + 1),
               Len(w) <= MaxDepth, stacks' = [stacks EXCEPT ![t] = w],
               Sound(Append(A, r), [st EXCEPT ![t] = w], ts)
        PROVE  IInv' /\ Final
    <3>1. slices' \in Seq(Row) /\ Len(slices') = N + 1 /\ \A x \in 1 .. N : slices'[x] = A[x]
      <4> HIDE DEF A
      <4>1. /\ Append(A, r) \in Seq(Row) /\ Len(Append(A, r)) = Len(A) + 1
            /\ \A x \in 1 .. Len(A) : Append(A, r)[x] = A[x]
        BY <2>3, AppendProperties
      <4> QED BY <2>3, <2>7, <4>1, Zenon
    <3>2. [st EXCEPT ![t] = w] = stacks'
      BY <1>3, <2>7, Zenon
    <3>3. Sound(slices', stacks', ts)
      BY <2>7, <3>2, Zenon
    <3>4. Len(slices') <= MaxSlices /\ N <= Len(slices') /\ w \in Seq(1 .. Len(slices'))
      BY <1>1, <1>3, <1>4, <2>7, <3>1
    <3>5. dcheck' \in BOOLEAN
      BY <1>7, <2>3, Zenon
    <3>6. IInv'
      BY <1>1, <1>7, <2>7, <3>1, <3>3, <3>4, <3>5, EventInv, Zenon
    <3>7. Final
      BY <1>3, <2>3, <3>1, Zenon DEF Final, Settled
    <3> QED BY <3>6, <3>7, Zenon
  <2>8. CASE /\ TooDeep(depth) /\ slices' = Append(A, row)
             /\ stacks' = [stacks EXCEPT ![t] = s]
    <3>2. Sound(Append(A, row), [st EXCEPT ![t] = s], ts)
      <4> HIDE DEF A, s, st
      <4>1. NotOver(A, st[t], ts)
        BY <2>3, <2>4, Zenon
      <4>2. \/ ~row.placed /\ row.parent_id = NoParent /\ s = st[t]
            \/ Enters(A, st[t], row, s)
        BY <1>r, <2>4, Zenon
      <4> QED BY <1>4, <1>r, <2>3, <2>4, <4>1, <4>2, AppendSound, Zenon
    <3>3. s \in Seq(1 .. N + 1)
      <4>1. \A x \in 1 .. N : x \in 1 .. N + 1
        BY <1>3
      <4> QED BY <2>3, <4>1
    <3> QED BY <1>r, <2>6, <2>7, <2>8, <3>2, <3>3, Zenon
  <2>9. CASE /\ ~TooDeep(depth) /\ slices' = Append(A, row2)
             /\ stacks' = [stacks EXCEPT ![t] = Append(s, N + 1)]
    <3> DEFINE parent == IF depth = 0 THEN NoParent ELSE s[depth]
               w == Append(s, N + 1)
    <3>1. depth < MaxDepth
      BY <1>4, <2>5, <2>9 DEF TooDeep
    <3>2. depth \in 0 .. MaxDepth - 1 /\ parent \in 0 .. MaxSlices
      <4>1. depth \in 0 .. MaxDepth - 1
        BY <1>4, <2>5, <3>1
      <4>2. CASE depth = 0
        BY <1>4, <4>1, <4>2 DEF NoParent
      <4>3. CASE depth # 0
        <5>1. depth \in 1 .. depth
          BY <2>5, <4>3
        <5>2. s[depth] \in 1 .. N
          BY <2>5, <5>1, Zenon
        <5>3. s[depth] \in 0 .. MaxSlices
          BY <1>1, <1>3, <1>4, <5>2
        <5> QED BY <4>1, <4>3, <5>3, Zenon
      <4> QED BY <4>2, <4>3, Zenon
    <3>3. row2 = InTree(row, depth, parent)
      BY Zenon DEF InTree
    <3> HIDE DEF row2, parent
    <3>4. /\ row2 \in Row /\ row2.track = t /\ row2.ts = ts /\ row2.depth = depth
          /\ row2.parent_id = parent /\ row2.placed
          /\ End(row2) = ts + dur /\ (Pending(row2) <=> dur = kPendingDuration)
      <4> HIDE DEF depth
      <4>1. /\ row2 \in Row /\ row2.track = row.track /\ row2.ts = row.ts
            /\ row2.dur = row.dur /\ row2.depth = depth /\ row2.parent_id = parent
            /\ row2.placed = TRUE
        <5>1. IsInTree(row2, row, depth, parent)
          BY <1>r, <3>2, <3>3, RowInTree, Zenon
        <5> QED BY <5>1, Zenon DEF IsInTree
      <4> QED BY <1>r, <4>1, Zenon DEF End, Pending
    <3>5. w \in Seq(1 .. N + 1) /\ Len(w) <= MaxDepth
      <4>1. s \in Seq(1 .. N + 1) /\ N + 1 \in 1 .. N + 1
        <5>1. N + 1 \in 1 .. N + 1 /\ \A x \in 1 .. N : x \in 1 .. N + 1
          BY <1>3
        <5> QED BY <2>3, <5>1
      <4>2. w \in Seq(1 .. N + 1) /\ Len(w) = depth + 1
        <5> DEFINE S == 1 .. N + 1
                   e == N + 1
        <5>1. s \in Seq(S) /\ e \in S
          BY <4>1, Zenon
        <5> HIDE DEF S, s, e
        <5>2. Append(s, e) \in Seq(S) /\ Len(Append(s, e)) = Len(s) + 1
          BY <5>1, AppendProperties, Zenon
        <5> QED BY <5>2, Zenon DEF S, s, e
      <4> QED BY <1>4, <2>5, <3>1, <4>2
    <3>6. Enters(A, s, row2, w)
      <4>1. \A k \in 1 .. depth :
              ~Pending(A[s[k]]) /\ ~Pending(row2) =>
                End(row2) <= End(A[s[k]]) \/ row2.ts = End(A[s[k]])
        BY <2>2, <2>5, <3>4, Zenon
      <4> QED BY <2>3, <3>4, <4>1, Zenon DEF Enters, parent
    <3>7. Sound(Append(A, row2), [st EXCEPT ![t] = w], ts)
      <4> HIDE DEF A, s, st, w
      <4>1. NotOver(A, st[t], ts) /\ Enters(A, st[t], row2, w)
        BY <2>3, <2>4, <3>6, Zenon
      <4> QED BY <1>4, <2>3, <2>4, <3>4, <4>1, AppendSound, Zenon
    <3> QED BY <2>7, <2>9, <3>4, <3>5, <3>7, Zenon
  <2> QED BY <1>7, <2>8, <2>9, Zenon
<1> QED BY <1>2, <1>5, <1>6, <1>7, Zenon

(* End keeps the invariant.                                                 *)
LEMMA EndInv ==
  ASSUME IInv, NEW ts \in Ts, NEW t \in Track, NEW label,
         Encloses(ts, t, label), CompleteSlice(ts, t, label)
  PROVE  IInv' /\ Final
<1> DEFINE c == MaybeCloseStack(ts, t)
           N == Len(slices)
           i == MatchingIncompleteSliceIndex(c.stack, c.slices, label)
           w == IF i = Len(c.stack) THEN Pop(c.stack) ELSE c.stack
<1>1. ~flushed /\ flushed' = flushed
  BY Zenon DEF CompleteSlice
<1>2. \/ ~InOrder(ts) /\ UNCHANGED vars
      \/ /\ InOrder(ts) /\ prev_timestamp' = ts /\ dcheck' = c.dcheck
         /\ \/ i = 0 /\ slices' = c.slices /\ stacks' = [stacks EXCEPT ![t] = c.stack]
            \/ /\ i > 0 /\ Completes(c.slices, c.stack[i], ts, slices')
               /\ stacks' = [stacks EXCEPT ![t] = w]
  BY Zenon DEF CompleteSlice, Completes
<1>3. i > 0 => \A j \in i + 1 .. Len(c.stack) :
                 ~Pending(c.slices[c.stack[j]]) => End(c.slices[c.stack[j]]) <= ts
  BY Zenon DEF Encloses
<1>4. Leaves(c.stack, i, w)
  BY Zenon DEF Leaves
<1>5. /\ slices \in Seq(Row) /\ N \in Nat /\ stacks \in [Track -> Seq(1 .. N)]
      /\ DOMAIN slices = 1 .. N /\ N <= MaxSlices /\ Len(stacks[t]) <= MaxDepth
      /\ MaxDepth \in Nat
  BY SliceAssumption DEF IInv, TypeOK
<1>6. CASE ~InOrder(ts) /\ UNCHANGED vars
  BY <1>6, Zenon DEF IInv, TypeOK, Final, vars
<1>7. CASE /\ InOrder(ts) /\ prev_timestamp' = ts /\ dcheck' = c.dcheck
           /\ \/ i = 0 /\ slices' = c.slices /\ stacks' = [stacks EXCEPT ![t] = c.stack]
              \/ /\ i > 0 /\ Completes(c.slices, c.stack[i], ts, slices')
                 /\ stacks' = [stacks EXCEPT ![t] = w]
  <2>1. Closed(c, ts, t)
    BY <1>1, <1>7, CloseSound, Zenon
  <2> HIDE DEF c
  <2> DEFINE A == c.slices
             s == c.stack
             st == [stacks EXCEPT ![t] = c.stack]
  <2>2. /\ A \in Seq(Row) /\ Len(A) = N /\ c.dcheck \in BOOLEAN /\ s \in Seq(1 .. N)
        /\ Len(s) <= Len(stacks[t])
        /\ \A x \in 1 .. N : ~Pending(slices[x]) => Settled(A, x)
        /\ Sound(A, st, ts) /\ NotOver(A, s, ts)
    BY <2>1, Zenon DEF Closed
  <2>3. st \in [Track -> Seq(1 .. Len(A))] /\ st[t] = s
    BY <1>5, <2>2, Zenon
  <2>4. Len(s) \in Nat /\ Len(stacks[t]) \in Nat
    BY <1>5, <2>2
  <2>5. Len(s) <= MaxDepth
    BY <1>5, <2>2, <2>4
  <2>6. dcheck' \in BOOLEAN
    BY <1>7, <2>2, Zenon
  <2>7. N <= N
    BY <1>5
(* Whatever table r and stack v the event leaves, the rest follows.          *)
  <2>8. ASSUME NEW r \in Seq(Row), NEW v \in Seq(1 .. N), Len(r) = N, Len(v) <= MaxDepth,
               slices' = r, stacks' = [stacks EXCEPT ![t] = v],
               Sound(r, [stacks EXCEPT ![t] = v], ts),
               \A x \in 1 .. N : ~Pending(slices[x]) => Settled(r, x)
        PROVE  IInv' /\ Final
    <3>1. /\ slices' \in Seq(Row) /\ Len(slices') <= MaxSlices /\ N <= Len(slices')
          /\ v \in Seq(1 .. Len(slices')) /\ Sound(slices', stacks', ts)
      BY <1>5, <2>7, <2>8, Zenon
    <3>2. IInv'
      BY <1>1, <1>7, <2>6, <2>8, <3>1, EventInv, Zenon
    <3>3. Final
      BY <1>5, <2>8, Zenon DEF Final, Settled
    <3> QED BY <3>2, <3>3, Zenon
  <2>9. CASE i = 0 /\ slices' = A /\ stacks' = [stacks EXCEPT ![t] = s]
    BY <2>2, <2>5, <2>8, <2>9, Zenon
  <2>10. CASE /\ i > 0 /\ Completes(A, s[i], ts, slices')
              /\ stacks' = [stacks EXCEPT ![t] = w]
    <3>1. i = 0 \/ (i \in 1 .. Len(s) /\ i > 0 /\ Pending(A[s[i]]))
      BY <2>2, MatchFacts, Zenon
    <3>2. i \in 1 .. Len(s) /\ Pending(A[s[i]])
      <4>1. ~(0 > 0)
        OBVIOUS
      <4> HIDE DEF i
      <4> QED BY <2>10, <3>1, <4>1, Zenon
    <3>3. \A j \in i + 1 .. Len(s) : ~Pending(A[s[j]]) => End(A[s[j]]) <= ts
      BY <1>3, <2>10, Zenon
    <3>4. Leaves(s, i, w)
      BY <1>4, Zenon
    <3> HIDE DEF A, s, st, i, w
    <3>5. /\ NotOver(A, st[t], ts) /\ i \in 1 .. Len(st[t]) /\ Pending(A[st[t][i]])
          /\ \A j \in i + 1 .. Len(st[t]) :
               ~Pending(A[st[t][j]]) => End(A[st[t][j]]) <= ts
          /\ Completes(A, st[t][i], ts, slices') /\ Leaves(st[t], i, w)
      BY <2>2, <2>3, <2>10, <3>2, <3>3, <3>4, Zenon
    <3>6. /\ slices' \in Seq(Row) /\ Len(slices') = Len(A)
          /\ w \in Seq(1 .. Len(A)) /\ Len(w) <= Len(st[t])
          /\ \A x \in 1 .. Len(A) : ~Pending(A[x]) => slices'[x] = A[x]
          /\ Sound(slices', [st EXCEPT ![t] = w], ts)
      BY <2>2, <2>3, <3>5, CompleteSound, Zenon
    <3>7. [st EXCEPT ![t] = w] = [stacks EXCEPT ![t] = w]
      BY <1>5, Zenon DEF st
    <3>8. Len(w) <= MaxDepth
      <4>1. Len(w) \in Nat /\ Len(w) <= Len(s)
        BY <2>3, <3>6
      <4> QED BY <1>5, <2>4, <2>5, <4>1
    <3>9. \A x \in 1 .. N : ~Pending(slices[x]) => Settled(slices', x)
      BY <2>2, <3>6, Zenon DEF Settled
    <3> QED BY <2>2, <2>8, <2>10, <3>6, <3>7, <3>8, <3>9, Zenon
  <2> QED BY <1>7, <2>9, <2>10, Zenon
<1> QED BY <1>2, <1>6, <1>7, Zenon

(* FlushPendingSlices keeps what is said of a trace that has ended.         *)
LEMMA FlushInv ==
  ASSUME IInv, FlushPendingSlices
  PROVE  IInv' /\ Final
<1>1. /\ TypeOK /\ Parents(slices) /\ Siblings(slices)
      /\ flushed' = TRUE /\ stacks' = [t \in Track |-> <<>>] /\ slices' = slices
      /\ prev_timestamp' = prev_timestamp /\ dcheck' = dcheck
  BY Zenon DEF IInv, FlushPendingSlices
<1>2. MaxDepth \in Nat
  BY SliceAssumption, Zenon
<1>3. ASSUME NEW t \in Track
      PROVE  /\ stacks'[t] = <<>> /\ <<>> \in Seq(1 .. Len(slices')) /\ Len(stacks'[t]) <= MaxDepth
  BY <1>1, <1>2
<1>4. stacks' \in [Track -> Seq(1 .. Len(slices'))]
  BY <1>1, <1>3, Zenon
<1>5. TypeOK'
  BY <1>1, <1>3, <1>4, Zenon DEF TypeOK
<1>6. Parents(slices') /\ Siblings(slices') /\ flushed'
  BY <1>1, Zenon
<1>7. IInv'
  BY <1>5, <1>6, Zenon DEF IInv
<1>8. Final
  BY <1>1, Zenon DEF Final
<1> QED BY <1>7, <1>8, Zenon

(* An empty table is sound.                                                 *)
LEMMA InitInv ==
  ASSUME Init
  PROVE  IInv
<1>1. /\ slices = <<>> /\ Len(slices) = 0 /\ slices \in Seq(Row)
      /\ stacks = [t \in Track |-> <<>>] /\ \A x \in 1 .. Len(slices) : FALSE
  BY DEF Init
<1>2. prev_timestamp \in Ts /\ MaxSlices \in Nat /\ MaxDepth \in Nat /\ 0 <= MaxDepth
      /\ 0 <= MaxSlices
  BY SliceAssumption DEF Init, Ts
<1>3. ASSUME NEW t \in Track
      PROVE  /\ stacks[t] \in Seq(1 .. Len(slices)) /\ Len(stacks[t]) = 0
             /\ \A k \in 1 .. Len(stacks[t]) : FALSE
  BY <1>1
<1>4. stacks \in [Track -> Seq(1 .. Len(slices))]
  BY <1>1, <1>3, Zenon
<1>5. TypeOK
  <2>1. \A t \in Track : Len(stacks[t]) <= MaxDepth
    BY <1>2, <1>3, Zenon
  <2> QED BY <1>1, <1>2, <1>4, <2>1, Zenon DEF TypeOK, Init
<1>6. Parents(slices) /\ Siblings(slices)
  BY <1>1, Zenon DEF Parents, Siblings
<1>7. ASSUME NEW t \in Track
      PROVE  /\ Path(slices, stacks[t], t) /\ Descend(slices, stacks[t], t)
             /\ Over(slices, stacks[t], t, prev_timestamp) /\ Hidden(slices, stacks[t])
  BY <1>1, <1>3, Zenon DEF Path, Descend, Over, Hidden
<1>8. Sound(slices, stacks, prev_timestamp)
  BY <1>1, <1>6, <1>7, Zenon DEF Sound
<1> QED BY <1>5, <1>6, <1>8, Zenon DEF IInv, Init
-----------------------------------------------------------------------------
(* Every step keeps the invariant, and what is final.                        *)
LEMMA StepInv ==
  ASSUME IInv, [Next]_vars
  PROVE  IInv' /\ Final
<1>1. CASE UNCHANGED vars
  BY <1>1, Zenon DEF IInv, TypeOK, Final, vars
<1>2. CASE Begin
  <2>0. PICK ts \in Ts, t \in Track : \E label \in Label(t) :
               StartSlice(ts, t, label, kPendingDuration)
    BY <1>2, Zenon DEF Begin
  <2>1. PICK label \in Label(t) : StartSlice(ts, t, label, kPendingDuration)
    BY <2>0, Zenon
  <2>2. label \in (UNION {Label(u) : u \in Track}) \cup {NoLabel}
    BY Zenon
  <2>3. kPendingDuration \in {kPendingDuration} \cup Ts
    BY Zenon
  <2> QED BY <2>1, <2>2, <2>3, StartInv, Zenon
<1>3. CASE Scoped
  <2>0. PICK ts \in Ts, t \in Track \ Unnestable : \E dur \in 0 .. MaxTs - ts :
               Fits(ts, t, dur) /\ StartSlice(ts, t, NoLabel, dur)
    BY <1>3, Zenon DEF Scoped
  <2>1. PICK dur \in 0 .. MaxTs - ts : Fits(ts, t, dur) /\ StartSlice(ts, t, NoLabel, dur)
    BY <2>0, Zenon
  <2>2. t \in Track /\ NoLabel \in (UNION {Label(u) : u \in Track}) \cup {NoLabel}
    BY Zenon
  <2>3. dur \in {kPendingDuration} \cup Ts
    BY SliceAssumption DEF Ts
  <2> QED BY <2>1, <2>2, <2>3, StartInv, Zenon
<1>4. CASE EndEvent
  <2>0. PICK ts \in Ts, t \in Track : \E label \in Label(t) \cup {NoLabel} :
               Encloses(ts, t, label) /\ CompleteSlice(ts, t, label)
    BY <1>4, Zenon DEF EndEvent
  <2>1. PICK label \in Label(t) \cup {NoLabel} :
               Encloses(ts, t, label) /\ CompleteSlice(ts, t, label)
    BY <2>0, Zenon
  <2> QED BY <2>1, EndInv, Zenon
<1>5. CASE FlushPendingSlices
  BY <1>5, FlushInv, Zenon
<1> QED BY <1>1, <1>2, <1>3, <1>4, <1>5, Zenon DEF Next

(* The invariant holds in every state.                                      *)
LEMMA Invariance == Spec => []IInv
<1>1. Init => IInv
  BY InitInv, Zenon
<1>2. IInv /\ [Next]_vars => IInv'
  BY StepInv, Zenon
<1> QED BY <1>1, <1>2, PTL DEF Spec

(* Every slice lies in its parent: its start does, and once both are        *)
(* complete its end, however MaybeCloseStack truncates what was not ended,  *)
(* CompleteSlice ends slices out of order, and FlushPendingSlices drops the *)
(* rest.  Only one that starts at the very end of its parent may be longer. *)
THEOREM SlicesAlwaysNest == Spec => []SlicesNest
<1>1. IInv => SlicesNest
  <2> SUFFICES ASSUME IInv, NEW x \in DOMAIN slices, slices[x].parent_id # NoParent
               PROVE  LET row == slices[x]
                          parent == slices[row.parent_id]
                      IN /\ parent.track = row.track /\ parent.depth + 1 = row.depth
                         /\ parent.ts <= row.ts
                         /\ ~Pending(parent) => row.ts <= End(parent)
                         /\ ~Pending(parent) /\ ~Pending(row) =>
                              End(row) <= End(parent) \/ row.ts = End(parent)
    BY Zenon DEF SlicesNest
  <2>1. x \in 1 .. Len(slices)
    BY DEF IInv, TypeOK
  <2> QED BY <2>1, Zenon DEF IInv, Parents, Covers, OnTrack
<1> QED BY <1>1, Invariance, PTL

(* Of two slices of a track at the same depth, the earlier is complete and  *)
(* over when the later one starts: StartSlice gives a row the depth of a    *)
(* stack that MaybeCloseStack has just closed.                              *)
THEOREM SiblingsNeverOverlap == Spec => []SiblingsAreDisjoint
<1>1. IInv => SiblingsAreDisjoint
  <2>1. IInv => DOMAIN slices = 1 .. Len(slices)
    BY DEF IInv, TypeOK
  <2> QED BY <2>1, Zenon DEF IInv, Siblings, SiblingsAreDisjoint
<1> QED BY <1>1, Invariance, PTL

(* Once a slice has a duration, a later event changes it in one case only:  *)
(* the slice starts where a complete one below it on the stack ends, and    *)
(* MaybeCloseStack, which truncates what is above that one, cuts it down to *)
(* nothing.  CompleteSlice only ever completes rows that are pending.       *)
THEOREM CompleteIsFinal == Spec => DurationsAreFinal
<1>1. IInv /\ [Next]_vars =>
        [\A s \in DOMAIN slices :
           ~Pending(slices[s]) /\ slices'[s].dur # slices[s].dur =>
             slices'[s].dur = 0 /\ Touches(s)]_vars
  BY StepInv, Zenon DEF Final
<1> QED BY <1>1, Invariance, PTL DEF Spec, DurationsAreFinal
=============================================================================
