---------------------------- MODULE TracerProofs ----------------------------
(***************************************************************************)
(* Theorems about Tracer, for every set of addresses, pids and timestamps, *)
(* every setting of the options and every sequence of callbacks.           *)
(*                                                                         *)
(* The first part has facts about the operators of Tracer that are defined *)
(* by recursion, for every queue: what a reader makes of it (Reading) and  *)
(* the packets it is written as (WriteLoop).  Every induction there is the *)
(* choice of a smallest counterexample.                                    *)
(***************************************************************************)
EXTENDS Tracer, FiniteSetTheorems, WellFoundedInduction, TLAPS

(* Every non-empty set of naturals has a smallest element: the only use of   *)
(* induction below.                                                          *)
LEMMA SmallestElement ==
  ASSUME NEW T, T \subseteq Nat, T # {}
  PROVE  \E x \in T : \A y \in T : x <= y
<1> DEFINE R == OpToRel(<, Nat)
<1>1. IsWellFoundedOn(R, Nat)
  BY NatLessThanWellFounded
<1>2. \E x \in T : \A y \in T : ~(<<y, x>> \in R)
  <2> HIDE DEF R
  <2> QED BY <1>1, WFMin, Zenon
<1>3. PICK x \in T : \A y \in T : ~(<<y, x>> \in R)
  BY <1>2
<1>4. ASSUME NEW y \in T PROVE x <= y
  <2>1. x \in Nat /\ y \in Nat
    OBVIOUS
  <2>2. ~(<<y, x>> \in R)
    BY <1>3
  <2>3. ~(y < x)
    BY <2>1, <2>2 DEF R, OpToRel
  <2> QED BY <2>1, <2>3
<1> QED BY <1>4
-----------------------------------------------------------------------------
NothingOpen == [t \in Track |-> <<>>]
OpenStacks  == [Track -> Seq(Addr)]

(* f is the sequence of what is open after each prefix of q.                 *)
IsReading(f, q) ==
  f = [i \in 0 .. Len(q) |-> IF i = 0 THEN NothingOpen
                             ELSE ReadEvent(f[i - 1], q[i])]

(* Reading an event keeps the stacks stacks of addresses.                    *)
LEMMA ReadEventType ==
  ASSUME NEW open \in OpenStacks, NEW e \in Event
  PROVE  ReadEvent(open, e) \in OpenStacks
<1>1. CASE e.addr # 0
  BY <1>1 DEF ReadEvent, OpenStacks, Event
<1>2. CASE e.addr = 0 /\ open[e.track] = <<>>
  BY <1>2 DEF ReadEvent, OpenStacks, Event
<1>3. CASE e.addr = 0 /\ open[e.track] # <<>>
  <2>1. e.track \in Track /\ open[e.track] \in Seq(Addr)
    BY DEF OpenStacks, Event
  <2>2. PopBack(open[e.track]) \in Seq(Addr)
    BY <2>1, <1>3 DEF PopBack
  <2> QED BY <1>3, <2>1, <2>2 DEF ReadEvent, OpenStacks
<1> QED BY <1>1, <1>2, <1>3

(* Every queue has a reading.                                                *)
LEMMA ReadingExists ==
  ASSUME NEW q \in Seq(Event)
  PROVE  \E f \in [0 .. Len(q) -> OpenStacks] : IsReading(f, q)
<1> DEFINE Upto(f, n) == f = [i \in 0 .. n |-> IF i = 0 THEN NothingOpen
                                              ELSE ReadEvent(f[i - 1], q[i])]
           Bad == {n \in 0 .. Len(q) :
                     ~ \E f \in [0 .. n -> OpenStacks] : Upto(f, n)}
<1>1. SUFFICES ASSUME Bad # {} PROVE FALSE
  BY DEF IsReading
<1>2. PICK n \in Bad : \A m \in Bad : n <= m
  <2>1. Bad \subseteq Nat
    OBVIOUS
  <2> HIDE DEF Bad
  <2> QED BY <1>1, <2>1, SmallestElement, Zenon
<1>3. n # 0
  <2>1. SUFFICES ASSUME n = 0 PROVE FALSE
    OBVIOUS
  <2> DEFINE f == [i \in 0 .. 0 |-> NothingOpen]
  <2>2. f \in [0 .. 0 -> OpenStacks]
    BY DEF NothingOpen, OpenStacks
  <2>3. Upto(f, 0)
    OBVIOUS
  <2> QED BY <2>1, <2>2, <2>3, Zenon
<1>4. n - 1 \in 0 .. Len(q) /\ n - 1 \notin Bad /\ n \in 1 .. Len(q)
  <2>1. n \in 0 .. Len(q) /\ Len(q) \in Nat
    OBVIOUS
  <2> HIDE DEF Bad
  <2> QED BY <2>1, <1>2, <1>3
<1>5. PICK f \in [0 .. n - 1 -> OpenStacks] : Upto(f, n - 1)
  BY <1>4
<1> DEFINE g == [i \in 0 .. n |-> IF i < n THEN f[i]
                                  ELSE ReadEvent(f[n - 1], q[n])]
<1>6. ReadEvent(f[n - 1], q[n]) \in OpenStacks
  BY <1>4, <1>5, ReadEventType
<1>7. g \in [0 .. n -> OpenStacks]
  BY <1>4, <1>5, <1>6
<1>8. ASSUME NEW i \in 0 .. n
      PROVE  g[i] = IF i = 0 THEN NothingOpen ELSE ReadEvent(g[i - 1], q[i])
  <2>1. CASE i = 0
    BY <2>1, <1>4, <1>5
  <2>2. CASE i # 0 /\ i < n
    <3>1. g[i] = f[i] /\ g[i - 1] = f[i - 1] /\ i \in 0 .. n - 1
      BY <2>2, <1>4
    <3>2. f[i] = ReadEvent(f[i - 1], q[i])
      BY <3>1, <2>2, <1>5
    <3> QED BY <3>1, <3>2, <2>2
  <2>3. CASE i = n
    <3>1. g[n] = ReadEvent(f[n - 1], q[n]) /\ g[n - 1] = f[n - 1]
      BY <1>4
    <3> QED BY <3>1, <2>3, <1>3
  <2> QED BY <2>1, <2>2, <2>3, <1>4
<1>9. Upto(g, n)
  <2> HIDE DEF g
  <2>1. g = [i \in 0 .. n |-> g[i]]
    BY <1>7
  <2> QED BY <2>1, <1>8, SMTT(30)
<1> QED BY <1>2, <1>7, <1>9, Zenon

(* Readings of two queues agree as long as the queues do.                    *)
LEMMA ReadingsAgree ==
  ASSUME NEW q \in Seq(Event), NEW r \in Seq(Event), NEW f, NEW g,
         IsReading(f, q), IsReading(g, r),
         NEW n \in Nat, n <= Len(q), n <= Len(r),
         \A i \in 1 .. n : q[i] = r[i]
  PROVE  \A i \in 0 .. n : f[i] = g[i]
<1> DEFINE Bad == {i \in 0 .. n : f[i] # g[i]}
<1>1. SUFFICES ASSUME Bad # {} PROVE FALSE
  OBVIOUS
<1>2. PICK k \in Bad : \A m \in Bad : k <= m
  <2>1. Bad \subseteq Nat
    OBVIOUS
  <2> HIDE DEF Bad
  <2> QED BY <1>1, <2>1, SmallestElement, Zenon
<1>3. k \in 0 .. n /\ f[k] # g[k]
  OBVIOUS
<1>4. k \in 0 .. Len(q) /\ k \in 0 .. Len(r)
  BY <1>3
<1>5. /\ f[k] = IF k = 0 THEN NothingOpen ELSE ReadEvent(f[k - 1], q[k])
      /\ g[k] = IF k = 0 THEN NothingOpen ELSE ReadEvent(g[k - 1], r[k])
  BY <1>4, Zenon DEF IsReading
<1>6. k # 0
  BY <1>3, <1>5
<1>7. k - 1 \in 0 .. n /\ k - 1 \notin Bad
  <2> HIDE DEF Bad
  <2> QED BY <1>2, <1>3, <1>6
<1>8. f[k - 1] = g[k - 1] /\ q[k] = r[k]
  BY <1>3, <1>6, <1>7
<1> QED BY <1>3, <1>5, <1>6, <1>8

(* Reading is defined: it satisfies its recursion equations.                 *)
LEMMA ReadingDef ==
  ASSUME NEW q \in Seq(Event)
  PROVE  /\ Reading(q) \in [0 .. Len(q) -> OpenStacks]
         /\ IsReading(Reading(q), q)
<1>1. PICK f \in [0 .. Len(q) -> OpenStacks] : IsReading(f, q)
  BY ReadingExists
<1>2. Reading(q) = CHOOSE g : IsReading(g, q)
  BY DEF Reading, IsReading, NothingOpen
<1>3. IsReading(Reading(q), q)
  BY <1>1, <1>2
<1>4. \A i \in 0 .. Len(q) : f[i] = Reading(q)[i]
  BY <1>1, <1>3, ReadingsAgree
<1>5. Reading(q) = [i \in 0 .. Len(q) |-> Reading(q)[i]]
  BY <1>3 DEF IsReading
<1> QED BY <1>1, <1>3, <1>4, <1>5

(* What is open at the end of a queue.                                       *)
OpenAtEnd(q) == Reading(q)[Len(q)]

(* The reading of a queue is determined by the events read so far.           *)
LEMMA ReadingOfPrefix ==
  ASSUME NEW q \in Seq(Event), NEW r \in Seq(Event), Len(q) <= Len(r),
         \A i \in 1 .. Len(q) : q[i] = r[i]
  PROVE  Reading(r)[Len(q)] = OpenAtEnd(q)
<1>1. IsReading(Reading(q), q) /\ IsReading(Reading(r), r)
  BY ReadingDef
<1>2. Len(q) \in Nat /\ Len(r) \in Nat
  OBVIOUS
<1>3. \A i \in 0 .. Len(q) : Reading(q)[i] = Reading(r)[i]
  BY <1>1, <1>2, ReadingsAgree
<1> QED BY <1>2, <1>3 DEF OpenAtEnd

LEMMA OpenAtEndType ==
  ASSUME NEW q \in Seq(Event)
  PROVE  OpenAtEnd(q) \in OpenStacks
<1>1. Len(q) \in 0 .. Len(q)
  OBVIOUS
<1> QED BY <1>1, ReadingDef DEF OpenAtEnd

(* An empty queue opens nothing.                                             *)
LEMMA ReadNothing == OpenAtEnd(<<>>) = NothingOpen
<1>1. <<>> \in Seq(Event) /\ Len(<<>>) = 0
  OBVIOUS
<1>2. IsReading(Reading(<<>>), <<>>)
  BY <1>1, ReadingDef, Zenon
<1>3. Reading(<<>>)[0] = NothingOpen
  BY <1>1, <1>2 DEF IsReading
<1> QED BY <1>1, <1>3 DEF OpenAtEnd

(* One more event is read after the others.                                  *)
LEMMA ReadAppended ==
  ASSUME NEW q \in Seq(Event), NEW e \in Event
  PROVE  OpenAtEnd(Append(q, e)) = ReadEvent(OpenAtEnd(q), e)
<1> DEFINE r == Append(q, e)
<1>1. /\ r \in Seq(Event) /\ Len(r) = Len(q) + 1 /\ Len(q) \in Nat
      /\ r[Len(r)] = e /\ \A i \in 1 .. Len(q) : q[i] = r[i]
  OBVIOUS
<1> HIDE DEF r
<1>2. Reading(r)[Len(q)] = OpenAtEnd(q)
  BY <1>1, ReadingOfPrefix
<1>3. IsReading(Reading(r), r)
  BY <1>1, ReadingDef
<1>4. Reading(r)[Len(r)] = ReadEvent(Reading(r)[Len(r) - 1], r[Len(r)])
  BY <1>1, <1>3 DEF IsReading
<1>5. OpenAtEnd(r) = ReadEvent(OpenAtEnd(q), e)
  BY <1>1, <1>2, <1>4 DEF OpenAtEnd
<1> QED BY <1>5 DEF r

(* The last event of a queue is read after the rest of it.                   *)
LEMMA ReadLast ==
  ASSUME NEW q \in Seq(Event), q # <<>>
  PROVE  /\ PopBack(q) \in Seq(Event) /\ Back(q) \in Event
         /\ OpenAtEnd(q) = ReadEvent(OpenAtEnd(PopBack(q)), Back(q))
<1>1. PopBack(q) \in Seq(Event) /\ Back(q) \in Event /\ q = Append(PopBack(q), Back(q))
  BY DEF PopBack, Back
<1> QED BY <1>1, ReadAppended, Zenon
-----------------------------------------------------------------------------
(* Adding the events of c one at a time.                                     *)
LEMMA ConcatPrefix ==
  ASSUME NEW q \in Seq(Event), NEW c \in Seq(Event), NEW k \in 1 .. Len(c)
  PROVE  /\ q \o SubSeq(c, 1, k - 1) \in Seq(Event)
         /\ q \o SubSeq(c, 1, k) = Append(q \o SubSeq(c, 1, k - 1), c[k])
<1>1. /\ SubSeq(c, 1, k - 1) \in Seq(Event) /\ SubSeq(c, 1, k) \in Seq(Event)
      /\ Len(SubSeq(c, 1, k - 1)) = k - 1 /\ Len(SubSeq(c, 1, k)) = k
  OBVIOUS
<1>2. SubSeq(c, 1, k) = Append(SubSeq(c, 1, k - 1), c[k])
  BY <1>1
<1> QED BY <1>1, <1>2

LEMMA ConcatEnds ==
  ASSUME NEW q \in Seq(Event), NEW c \in Seq(Event)
  PROVE  /\ q \o SubSeq(c, 1, 0) = q
         /\ q \o SubSeq(c, 1, Len(c)) = q \o c
<1>1. SubSeq(c, 1, 0) = <<>> /\ SubSeq(c, 1, Len(c)) = c
  OBVIOUS
<1> QED BY <1>1

(* Closing as many slices of a track as are open leaves none open on it.     *)
LEMMA ReadClosed ==
  ASSUME NEW q \in Seq(Event), NEW t \in Track, NEW ts \in Ts,
         NEW c \in Seq(Event), Len(c) = Len(OpenAtEnd(q)[t]),
         \A i \in 1 .. Len(c) : c[i] = TracingEvent(0, ts, t)
  PROVE  OpenAtEnd(q \o c) = [OpenAtEnd(q) EXCEPT ![t] = <<>>]
<1>1. PICK n \in Nat :
        n = Len(c) /\ n = Len(OpenAtEnd(q)[t])
          /\ \A i \in 1 .. n : c[i] = TracingEvent(0, ts, t)
  OBVIOUS
<1> DEFINE open == OpenAtEnd(q)
           after(k) == q \o SubSeq(c, 1, k)
           want(k) == [open EXCEPT ![t] = SubSeq(open[t], 1, n - k)]
           Bad == {k \in 0 .. n : OpenAtEnd(after(k)) # want(k)}
<1>2. open \in OpenStacks /\ open[t] \in Seq(Addr)
  BY OpenAtEndType DEF OpenStacks
<1>3. OpenAtEnd(after(0)) = want(0)
  <2>1. SubSeq(open[t], 1, n - 0) = open[t]
    BY <1>1, <1>2
  <2>2. after(0) = q
    BY <1>1, ConcatEnds
  <2>3. want(0) = open
    BY <2>1, <1>2 DEF OpenStacks
  <2> QED BY <2>2, <2>3, Zenon
<1>4. Bad = {}
  <2>1. SUFFICES ASSUME Bad # {} PROVE FALSE
    BY Zenon
  <2>2. PICK k \in Bad : \A m \in Bad : k <= m
    <3>1. Bad \subseteq Nat
      BY SMTT(30)
    <3> HIDE DEF Bad
    <3> QED BY <2>1, <3>1, SmallestElement, Zenon
  <2>3. k \in 0 .. n /\ OpenAtEnd(after(k)) # want(k)
    OBVIOUS
  <2>4. k # 0
    BY <2>3, <1>3, Zenon
  <2>5. k - 1 \in 0 .. n /\ k \in 1 .. n /\ k - 1 \notin Bad
    <3> HIDE DEF Bad
    <3> QED BY <2>2, <2>3, <2>4
  <2>6. OpenAtEnd(after(k - 1)) = want(k - 1)
    BY <2>5
  <2>7. OpenAtEnd(after(k)) = ReadEvent(want(k - 1), TracingEvent(0, ts, t))
    <3>1. /\ after(k - 1) \in Seq(Event)
          /\ after(k) = Append(after(k - 1), TracingEvent(0, ts, t))
      <4>1. k \in 1 .. Len(c) /\ c[k] = TracingEvent(0, ts, t)
        BY <1>1, <2>5
      <4>2. /\ q \o SubSeq(c, 1, k - 1) \in Seq(Event)
            /\ q \o SubSeq(c, 1, k) = Append(q \o SubSeq(c, 1, k - 1), c[k])
        BY <4>1, ConcatPrefix, SMTT(30)
      <4> QED BY <4>1, <4>2, SMTT(30)
    <3>2. TracingEvent(0, ts, t) \in Event
      BY DEF TracingEvent, Event
    <3> HIDE DEF after, want
    <3> QED BY <3>1, <3>2, <2>6, ReadAppended
  <2>8. ReadEvent(want(k - 1), TracingEvent(0, ts, t)) = want(k)
    <3> DEFINE s == SubSeq(open[t], 1, n - (k - 1))
    <3>1. want(k - 1) = [open EXCEPT ![t] = s]
      BY SMTT(30)
    <3>2. s \in Seq(Addr) /\ Len(s) = n - (k - 1) /\ s # <<>>
      <4> DEFINE m == n - (k - 1)
      <4>1. m \in 1 .. Len(open[t])
        BY <1>1, <1>2, <2>5
      <4>2. s \in Seq(Addr) /\ Len(s) = m
        BY <1>2, <4>1, SMTT(30)
      <4>3. m # 0
        BY <4>1
      <4> HIDE DEF s, m
      <4>4. s # <<>>
        BY <4>2, <4>3
      <4> QED BY <4>2, <4>4 DEF m
    <3>3. PopBack(s) = SubSeq(open[t], 1, n - k)
      BY <1>1, <1>2, <2>5, <3>2, SMTT(30) DEF PopBack
    <3> HIDE DEF s
    <3>4. want(k - 1)[t] = s
      BY <3>1, <1>2, SMTT(30) DEF OpenStacks
    <3>5. ReadEvent(want(k - 1), TracingEvent(0, ts, t))
            = [want(k - 1) EXCEPT ![t] = PopBack(s)]
      BY <3>2, <3>4, Zenon DEF ReadEvent, TracingEvent
    <3> QED BY <3>1, <3>3, <3>5, <1>2 DEF OpenStacks
  <2> QED BY <2>3, <2>7, <2>8
<1>5. OpenAtEnd(after(n)) = want(n)
  <2>1. n \in 0 .. n /\ n \notin Bad
    <3> HIDE DEF Bad
    <3> QED BY <1>4
  <2> HIDE DEF after, want
  <2> QED BY <2>1
<1>6. after(n) = q \o c
  <2>1. q \o SubSeq(c, 1, Len(c)) = q \o c
    BY ConcatEnds, Zenon
  <2> QED BY <1>1, <2>1, SMTT(30)
<1>7. want(n) = [open EXCEPT ![t] = <<>>]
  <2>1. SubSeq(open[t], 1, n - n) = <<>>
    BY <1>2
  <2> QED BY <2>1, Zenon
<1> QED BY <1>5, <1>6, <1>7, Zenon

(* Opening the calls of a track that has no slice open stacks them in order. *)
LEMMA ReadReopened ==
  ASSUME NEW q \in Seq(Event), NEW t \in Track, NEW ts \in Ts,
         OpenAtEnd(q)[t] = <<>>, NEW s \in Seq(Addr),
         NEW c \in Seq(Event), Len(c) = Len(s),
         \A i \in 1 .. Len(c) : c[i] = TracingEvent(s[i], ts, t)
  PROVE  OpenAtEnd(q \o c) = [OpenAtEnd(q) EXCEPT ![t] = s]
<1> DEFINE open == OpenAtEnd(q)
           n == Len(s)
           after(k) == q \o SubSeq(c, 1, k)
           want(k) == [open EXCEPT ![t] = SubSeq(s, 1, k)]
           Bad == {k \in 0 .. n : OpenAtEnd(after(k)) # want(k)}
<1>0. n \in Nat /\ \A i \in 1 .. n : TracingEvent(s[i], ts, t) \in Event
  BY DEF TracingEvent, Event
<1>1. Len(c) = n /\ \A i \in 1 .. n : c[i] = TracingEvent(s[i], ts, t)
  OBVIOUS
<1>2. open \in OpenStacks
  BY OpenAtEndType
<1>3. OpenAtEnd(after(0)) = want(0)
  <2>1. SubSeq(s, 1, 0) = open[t]
    OBVIOUS
  <2>2. after(0) = q
    BY <1>1, ConcatEnds
  <2>3. want(0) = open
    BY <2>1, <1>2 DEF OpenStacks
  <2> QED BY <2>2, <2>3, Zenon
<1>4. Bad = {}
  <2>1. SUFFICES ASSUME Bad # {} PROVE FALSE
    BY Zenon
  <2>2. PICK k \in Bad : \A m \in Bad : k <= m
    <3>1. Bad \subseteq Nat
      OBVIOUS
    <3> HIDE DEF Bad
    <3> QED BY <2>1, <3>1, SmallestElement, Zenon
  <2>3. k \in 0 .. n /\ OpenAtEnd(after(k)) # want(k)
    OBVIOUS
  <2>4. k # 0
    BY <2>3, <1>3, Zenon
  <2>5. k - 1 \in 0 .. n /\ k \in 1 .. n /\ k - 1 \notin Bad
    <3> HIDE DEF Bad
    <3> QED BY <2>2, <2>3, <2>4, <1>0
  <2>6. OpenAtEnd(after(k - 1)) = want(k - 1)
    BY <2>5, SMTT(30)
  <2>7. OpenAtEnd(after(k)) = ReadEvent(want(k - 1), TracingEvent(s[k], ts, t))
    <3>1. /\ after(k - 1) \in Seq(Event)
          /\ after(k) = Append(after(k - 1), TracingEvent(s[k], ts, t))
      <4>1. k \in 1 .. Len(c) /\ c[k] = TracingEvent(s[k], ts, t)
        BY <1>1, <2>5
      <4>2. /\ q \o SubSeq(c, 1, k - 1) \in Seq(Event)
            /\ q \o SubSeq(c, 1, k) = Append(q \o SubSeq(c, 1, k - 1), c[k])
        BY <4>1, ConcatPrefix, SMTT(30)
      <4> QED BY <4>1, <4>2, SMTT(30)
    <3>2. TracingEvent(s[k], ts, t) \in Event
      BY <2>5, <1>0
    <3> HIDE DEF after, want
    <3> QED BY <3>1, <3>2, <2>6, ReadAppended
  <2>8. ReadEvent(want(k - 1), TracingEvent(s[k], ts, t)) = want(k)
    <3>1. SubSeq(s, 1, k) = Append(SubSeq(s, 1, k - 1), s[k])
      BY <2>5, SMTT(30)
    <3>2. s[k] # 0
      BY <2>5, TracerAssumption
    <3>3. want(k - 1)[t] = SubSeq(s, 1, k - 1)
      BY <1>2 DEF OpenStacks
    <3>4. ReadEvent(want(k - 1), TracingEvent(s[k], ts, t))
            = [want(k - 1) EXCEPT ![t] = Append(SubSeq(s, 1, k - 1), s[k])]
      BY <3>2, <3>3, Zenon DEF ReadEvent, TracingEvent
    <3> QED BY <3>1, <3>4, <1>2, SMTT(30) DEF OpenStacks
  <2> QED BY <2>3, <2>7, <2>8
<1>5. OpenAtEnd(after(n)) = want(n)
  <2>1. n \in 0 .. n /\ n \notin Bad
    <3> HIDE DEF Bad, n
    <3> QED BY <1>0, <1>4
  <2> HIDE DEF after, want
  <2> QED BY <2>1
<1>6. after(n) = q \o c
  <2>1. q \o SubSeq(c, 1, Len(c)) = q \o c
    BY ConcatEnds, Zenon
  <2> QED BY <1>1, <2>1, SMTT(30)
<1>7. want(n) = [open EXCEPT ![t] = s]
  <2>1. SubSeq(s, 1, n) = s
    OBVIOUS
  <2> QED BY <2>1, Zenon
<1> QED BY <1>5, <1>6, <1>7, Zenon
-----------------------------------------------------------------------------
(* Every event the loop of WriteToDisk meets becomes a packet of the trace.  *)
WriteState == [uuids : [Addr -> Nat], packets : Seq(Packet)]

LEMMA WriteEventType ==
  ASSUME NEW acc \in WriteState, NEW e \in Event
  PROVE  WriteEvent(acc, e) \in WriteState
<1>1. /\ acc.uuids \in [Addr -> Nat] /\ acc.packets \in Seq(Packet)
      /\ acc = [uuids |-> acc.uuids, packets |-> acc.packets]
  BY DEF WriteState
<1>2. ASSUME NEW iid \in Nat, NEW name \in Addr \cup {0}
      PROVE  TrackEvent(e, iid, name) \in Packet
  <2>1. TrackEvent(e, iid, name) \in
          [type : {"track_event"}, begin : BOOLEAN, ts : Ts, track : Track,
           iid : Nat, name : Addr \cup {0}]
    BY DEF TrackEvent, Event
  <2> QED BY <2>1 DEF Packet
<1>3. CASE e.addr = 0
  <2>1. WriteEvent(acc, e)
          = [uuids |-> acc.uuids, packets |-> Append(acc.packets, TrackEvent(e, 0, 0))]
    BY <1>1, <1>3, Zenon DEF WriteEvent
  <2>2. TrackEvent(e, 0, 0) \in Packet
    BY <1>2
  <2>3. Append(acc.packets, TrackEvent(e, 0, 0)) \in Seq(Packet)
    BY <1>1, <2>2
  <2> QED BY <1>1, <2>1, <2>3 DEF WriteState
<1>4. CASE e.addr # 0
  <2> DEFINE iid == FunctionUuid(acc.uuids, e.addr)
             name == IF acc.uuids[e.addr] = 0 THEN e.addr ELSE 0
  <2>1. e.addr \in Addr
    BY <1>4 DEF Event
  <2>2. iid \in Nat
    <3> DEFINE K == {a \in Addr : acc.uuids[a] # 0}
    <3>1. Cardinality(K) \in Nat
      BY TracerAssumption, FS_Subset, FS_CardinalityType, SMTT(30)
    <3> HIDE DEF K
    <3>2. iid = IF acc.uuids[e.addr] # 0 THEN acc.uuids[e.addr] ELSE Cardinality(K) + 1
      BY SMTT(30) DEF FunctionUuid, K
    <3> QED BY <1>1, <2>1, <3>1, <3>2
  <2>3. name \in Addr \cup {0}
    BY <2>1
  <2>4. WriteEvent(acc, e)
          = [uuids   |-> [acc.uuids EXCEPT ![e.addr] = iid],
             packets |-> Append(acc.packets, TrackEvent(e, iid, name))]
    BY <1>4 DEF WriteEvent
  <2> HIDE DEF iid, name
  <2>5. /\ [acc.uuids EXCEPT ![e.addr] = iid] \in [Addr -> Nat]
        /\ Append(acc.packets, TrackEvent(e, iid, name)) \in Seq(Packet)
    BY <1>1, <1>2, <2>1, <2>2, <2>3
  <2> QED BY <2>4, <2>5, SMTT(30) DEF WriteState
<1> QED BY <1>3, <1>4

(* The states of the loop, from the first to the one it ends in.             *)
FirstWrite == [uuids |-> [a \in Addr |-> 0], packets |-> protos]
IsWriteLoop(loop, q) ==
  /\ loop \in [0 .. Len(q) -> WriteState]
  /\ loop[0] = FirstWrite
  /\ \A i \in 1 .. Len(q) : loop[i] = WriteEvent(loop[i - 1], q[i])
  /\ WriteLoop(q) = loop[Len(q)]

LEMMA WriteLoopDef ==
  ASSUME NEW q \in Seq(Event), protos \in Seq(Packet)
  PROVE  \E loop : IsWriteLoop(loop, q)
<1> DEFINE first == [uuids |-> [a \in Addr |-> 0], packets |-> protos]
           IsLoop(f, n) == f = [i \in 0 .. n |-> IF i = 0 THEN first
                                                ELSE WriteEvent(f[i - 1], q[i])]
           None == {n \in 0 .. Len(q) :
                      ~ \E f \in [0 .. n -> WriteState] : IsLoop(f, n)}
           loop == CHOOSE f : IsLoop(f, Len(q))
           Bad == {i \in 0 .. Len(q) : loop[i] \notin WriteState}
<1>1. first \in WriteState
  BY DEF WriteState
<1>2. None = {}
  <2>1. SUFFICES ASSUME None # {} PROVE FALSE
    BY SMTT(30)
  <2>2. PICK n \in None : \A m \in None : n <= m
    <3>1. None \subseteq Nat
      BY SMTT(30)
    <3> HIDE DEF None
    <3> QED BY <2>1, <3>1, SmallestElement, Zenon
  <2>3. n # 0
    <3>1. SUFFICES ASSUME n = 0 PROVE FALSE
      OBVIOUS
    <3> DEFINE f == [i \in 0 .. 0 |-> first]
    <3>2. f \in [0 .. 0 -> WriteState] /\ IsLoop(f, 0)
      BY <1>1
    <3> QED BY <3>1, <3>2, Zenon
  <2>4. n - 1 \in 0 .. Len(q) /\ n - 1 \notin None /\ n \in 1 .. Len(q)
    <3>1. n \in 0 .. Len(q) /\ Len(q) \in Nat
      BY SMTT(30)
    <3> HIDE DEF None
    <3> QED BY <3>1, <2>2, <2>3
  <2>5. PICK f \in [0 .. n - 1 -> WriteState] : IsLoop(f, n - 1)
    BY <2>4
  <2> DEFINE g == [i \in 0 .. n |-> IF i < n THEN f[i]
                                    ELSE WriteEvent(f[n - 1], q[n])]
  <2>6. WriteEvent(f[n - 1], q[n]) \in WriteState
    BY <2>4, <2>5, WriteEventType, SMTT(30)
  <2>7. g \in [0 .. n -> WriteState]
    BY <2>4, <2>5, <2>6, SMTT(30)
  <2>8. ASSUME NEW i \in 0 .. n
        PROVE  g[i] = IF i = 0 THEN first ELSE WriteEvent(g[i - 1], q[i])
    <3> HIDE DEF first
    <3>1. CASE i = 0
      BY <3>1, <2>4, <2>5, SMTT(30)
    <3>2. CASE i # 0 /\ i < n
      <4>1. g[i] = f[i] /\ g[i - 1] = f[i - 1] /\ i \in 0 .. n - 1
        BY <3>2, <2>4, SMTT(30)
      <4>2. f[i] = WriteEvent(f[i - 1], q[i])
        BY <4>1, <3>2, <2>5, SMTT(30)
      <4> QED BY <4>1, <4>2, <3>2, SMTT(30)
    <3>3. CASE i = n
      <4>1. g[n] = WriteEvent(f[n - 1], q[n]) /\ g[n - 1] = f[n - 1]
        BY <2>4, SMTT(30)
      <4> QED BY <4>1, <3>3, <2>3, SMTT(30)
    <3> QED BY <3>1, <3>2, <3>3, <2>4, SMTT(30)
  <2>9. IsLoop(g, n)
    <3> HIDE DEF g, first
    <3>1. g = [i \in 0 .. n |-> g[i]]
      BY <2>7
    <3> QED BY <3>1, <2>8, Zenon
  <2> QED BY <2>2, <2>7, <2>9, Zenon
<1>3. IsLoop(loop, Len(q))
  <2>1. Len(q) \in 0 .. Len(q)
    OBVIOUS
  <2>2. \E f : IsLoop(f, Len(q))
    BY <1>2, <2>1
  <2> HIDE DEF IsLoop
  <2> QED BY <2>2
<1>4. WriteLoop(q) = loop[Len(q)]
  BY SMTT(30) DEF WriteLoop
<1> HIDE DEF loop, None
<1>5. Bad = {}
  <2>1. SUFFICES ASSUME Bad # {} PROVE FALSE
    BY SMTT(30)
  <2>2. PICK n \in Bad : \A m \in Bad : n <= m
    <3>1. Bad \subseteq Nat
      OBVIOUS
    <3> HIDE DEF Bad
    <3> QED BY <2>1, <3>1, SmallestElement
  <2>3. n \in 0 .. Len(q) /\ loop[n] \notin WriteState
    OBVIOUS
  <2>4. loop[n] = IF n = 0 THEN first ELSE WriteEvent(loop[n - 1], q[n])
    <3> HIDE DEF first
    <3> QED BY <2>3, <1>3, Zenon
  <2>5. n # 0
    BY <2>3, <2>4, <1>1, SMTT(30)
  <2>6. n - 1 \in 0 .. Len(q) /\ n \in 1 .. Len(q) /\ n - 1 \notin Bad
    <3> HIDE DEF Bad
    <3> QED BY <2>2, <2>3, <2>5, SMTT(30)
  <2>7. loop[n - 1] \in WriteState /\ q[n] \in Event
    BY <2>6, SMTT(30)
  <2> QED BY <2>3, <2>4, <2>5, <2>7, WriteEventType
<1> HIDE DEF first
<1>6. loop = [i \in 0 .. Len(q) |-> IF i = 0 THEN first ELSE WriteEvent(loop[i - 1], q[i])]
  BY <1>3
<1>7. loop \in [0 .. Len(q) -> WriteState]
  <2>1. \A i \in 0 .. Len(q) : loop[i] \in WriteState
    BY <1>5
  <2>2. loop = [i \in 0 .. Len(q) |-> loop[i]]
    BY <1>6, Zenon
  <2> QED BY <2>1, <2>2, Zenon
<1>8. loop[0] = first
  <2>1. 0 \in 0 .. Len(q)
    OBVIOUS
  <2> QED BY <1>6, <2>1, Zenon
<1>9. ASSUME NEW i \in 1 .. Len(q) PROVE loop[i] = WriteEvent(loop[i - 1], q[i])
  <2>1. i \in 0 .. Len(q) /\ i # 0
    OBVIOUS
  <2> QED BY <1>6, <2>1, Zenon
<1>10. first = FirstWrite
  BY DEF first, FirstWrite
<1>11. IsWriteLoop(loop, q)
  BY <1>4, <1>7, <1>8, <1>9, <1>10, Zenon DEF IsWriteLoop
<1> QED BY <1>11

LEMMA WriteLoopType ==
  ASSUME NEW q \in Seq(Event), protos \in Seq(Packet)
  PROVE  WriteLoop(q).packets \in Seq(Packet)
<1>1. PICK loop : IsWriteLoop(loop, q)
  BY WriteLoopDef
<1>2. Len(q) \in 0 .. Len(q)
  OBVIOUS
<1>3. WriteLoop(q) \in WriteState
  BY <1>1, <1>2, Zenon DEF IsWriteLoop
<1> QED BY <1>3 DEF WriteState

-----------------------------------------------------------------------------
USE DEF Running

(* An unknown pid gets the next track uuid, and there is one left for it.    *)
LEMMA TrackUuidType ==
  ASSUME TypeOK, NEW info \in ProcessInfo
  PROVE  TrackUuid(info) \in Track /\ info.pid \in Pid /\ info.tgid \in Pid
<1>1. info.pid \in Pid /\ info.tgid \in Pid
  BY TracerAssumption DEF ProcessInfo
<1>2. IsFiniteSet(Pid) /\ IsFiniteSet(KnownPids) /\ KnownPids \subseteq Pid
  BY TracerAssumption, FS_Subset DEF KnownPids
<1>3. Cardinality(Pid) \in Nat /\ Cardinality(KnownPids) \in Nat
  BY <1>2, FS_CardinalityType
<1>4. CASE ~invalidated
  BY <1>4, <1>1 DEF TrackUuid, TypeOK
<1>5. CASE invalidated /\ info.pid \in KnownPids
  BY <1>5, <1>1 DEF TrackUuid, TypeOK
<1>6. CASE invalidated /\ info.pid \notin KnownPids
  <2>1. TrackUuid(info) = Cardinality(KnownPids) + 1
    BY <1>6 DEF TrackUuid
  <2>2. KnownPids # Pid
    BY <1>1, <1>6
  <2>3. Cardinality(KnownPids) <= Cardinality(Pid) /\ Cardinality(KnownPids) # Cardinality(Pid)
    BY <1>2, <2>2, FS_Subset
  <2>4. Cardinality(KnownPids) + 1 \in 0 .. Cardinality(Pid)
    BY <2>3, <1>3
  <2> QED BY <1>1, <2>1, <2>4 DEF Track
<1> QED BY <1>4, <1>5, <1>6 DEF TypeOK

LEMMA GetTrackUuidType ==
  ASSUME TypeOK, NEW info \in ProcessInfo, GetTrackUuid(info)
  PROVE  ret' \in Track /\ pid_to_uuid' \in [Pid -> Track] /\ protos' \in Seq(Packet)
<1>1. ret' \in Track /\ info.pid \in Pid /\ info.tgid \in Pid
  BY TrackUuidType DEF GetTrackUuid
<1>2. TrackDescriptor(ret', info.tgid) \in Packet
  <2>1. TrackDescriptor(ret', info.tgid)
          \in [type : {"track_descriptor"}, uuid : Track, pid : Pid]
    BY <1>1 DEF TrackDescriptor
  <2> QED BY <2>1 DEF Packet
<1>3. CASE invalidated /\ info.pid \notin KnownPids
  <2> DEFINE d == TrackDescriptor(ret', info.tgid)
  <2>1. /\ pid_to_uuid' = [pid_to_uuid EXCEPT ![info.pid] = ret']
        /\ protos' = Append(protos, d)
    BY <1>3 DEF GetTrackUuid
  <2>2. pid_to_uuid \in [Pid -> Track] /\ protos \in Seq(Packet) /\ d \in Packet
    BY <1>2 DEF TypeOK
  <2> HIDE DEF d
  <2> QED BY <1>1, <2>1, <2>2
<1>4. CASE ~(invalidated /\ info.pid \notin KnownPids)
  BY <1>1, <1>4 DEF GetTrackUuid, TypeOK
<1> QED BY <1>3, <1>4

(* What LogCall adds to the queue are events.                                *)
LEMMA ContextSwitchType ==
  ASSUME TypeOK, NEW track \in Track, NEW ts \in Ts
  PROVE  /\ CloseSlices(prevTrack, ts) \in Seq(Event)
         /\ ReopenSlices(track, ts) \in Seq(Event)
         /\ ContextSwitch(track, ts) \in Seq(Event)
<1>1. /\ prevTrack \in Track
      /\ track_backtrace[prevTrack] \in Seq(Addr)
      /\ track_backtrace[track] \in Seq(Addr)
  BY DEF TypeOK
<1>2. CloseSlices(prevTrack, ts) \in Seq(Event)
  <2>1. TracingEvent(0, ts, prevTrack) \in Event
    BY <1>1 DEF TracingEvent, Event
  <2> QED BY <1>1, <2>1 DEF CloseSlices
<1>3. ReopenSlices(track, ts) \in Seq(Event)
  <2>1. \A i \in 1 .. Len(track_backtrace[track]) :
          TracingEvent(track_backtrace[track][i], ts, track) \in Event
    BY <1>1 DEF TracingEvent, Event
  <2> QED BY <1>1, <2>1 DEF ReopenSlices
<1> QED BY <1>2, <1>3 DEF ContextSwitch

LEMMA TypeStep == TypeOK /\ [Next]_vars => TypeOK'
<1> SUFFICES ASSUME TypeOK, [Next]_vars PROVE TypeOK'
  OBVIOUS
<1>1. ASSUME NEW addr \in Addr, NEW info \in ProcessInfo, NEW ts \in Ts,
             LogCall(addr, info, ts)
      PROVE  TypeOK'
  <2>1. CASE inhibited /\ addr # startingFrom
    BY <1>1, <2>1 DEF LogCall, vars, TypeOK
  <2>2. CASE ~(inhibited /\ addr # startingFrom)
    <3> DEFINE track == TrackUuid(info)
    <3>1. /\ inhibited' = FALSE
          /\ GetTrackUuid(info)
          /\ prevTrack' = track
          /\ track_backtrace' = [track_backtrace EXCEPT ![track] = Append(@, addr)]
          /\ queue' = queue \o ContextSwitch(track, ts) \o <<TracingEvent(addr, ts, track)>>
          /\ invalidated' = (addr = SwitchTo \/ (invalidated /\ ~info.ok))
          /\ UNCHANGED <<startingFrom, exited, disk>>
      BY <1>1, <2>2, SMTT(30) DEF LogCall
    <3>2. track \in Track
      BY TrackUuidType
    <3> HIDE DEF track
    <3>3. ret' \in Track /\ pid_to_uuid' \in [Pid -> Track] /\ protos' \in Seq(Packet)
      BY <3>1, GetTrackUuidType
    <3>4. TracingEvent(addr, ts, track) \in Event
      BY <3>2 DEF TracingEvent, Event
    <3>5. queue' \in Seq(Event)
      <4>1. queue \in Seq(Event) /\ ContextSwitch(track, ts) \in Seq(Event)
        BY <3>2, ContextSwitchType DEF TypeOK
      <4> QED BY <3>1, <3>4, <4>1
    <3>6. track_backtrace' \in [Track -> Seq(Addr)]
      <4>1. track_backtrace[track] \in Seq(Addr)
        BY <3>2 DEF TypeOK
      <4>2. Append(track_backtrace[track], addr) \in Seq(Addr)
        BY <4>1
      <4> QED BY <3>1, <3>2, <4>2 DEF TypeOK
    <3>7. inhibited' \in BOOLEAN /\ invalidated' \in BOOLEAN
      BY <3>1, Zenon
    <3> QED BY <3>1, <3>2, <3>3, <3>5, <3>6, <3>7 DEF TypeOK
  <2> QED BY <2>1, <2>2
<1>2. ASSUME NEW info \in ProcessInfo, NEW ts \in Ts, LogRet(info, ts)
      PROVE  TypeOK'
  <2>1. CASE inhibited
    BY <1>2, <2>1 DEF LogRet, vars, TypeOK
  <2>2. CASE ~inhibited
    <3> DEFINE track == TrackUuid(info)
    <3>1. /\ GetTrackUuid(info)
          /\ invalidated' = (invalidated /\ ~info.ok)
          /\ UNCHANGED <<inhibited, startingFrom, prevTrack, exited, disk>>
          /\ IF track_backtrace[track] = <<>>
             THEN UNCHANGED <<queue, track_backtrace>>
             ELSE /\ queue' = IF IsShort(Back(queue), track, ts)
                              THEN PopBack(queue)
                              ELSE Append(queue, TracingEvent(0, ts, track))
                  /\ track_backtrace' =
                       [track_backtrace EXCEPT ![track] = PopBack(@)]
      BY <1>2, <2>2, SMTT(30) DEF LogRet, PopBacktrace
    <3>2. track \in Track
      BY TrackUuidType
    <3> HIDE DEF track
    <3>3. ret' \in Track /\ pid_to_uuid' \in [Pid -> Track] /\ protos' \in Seq(Packet)
      BY <3>1, GetTrackUuidType
    <3>4. queue' \in Seq(Event)
      <4>1. TracingEvent(0, ts, track) \in Event
        BY <3>2, SMTT(30) DEF TracingEvent, Event
      <4>2. queue \in Seq(Event)
        BY DEF TypeOK
      <4>3. Append(queue, TracingEvent(0, ts, track)) \in Seq(Event)
        BY <4>1, <4>2
      <4>4. PopBack(queue) \in Seq(Event)
        BY <4>2 DEF PopBack
      <4> QED BY <3>1, <4>2, <4>3, <4>4, SMTT(30)
    <3>5. track_backtrace' \in [Track -> Seq(Addr)]
      <4>1. track_backtrace \in [Track -> Seq(Addr)] /\ track_backtrace[track] \in Seq(Addr)
        BY <3>2 DEF TypeOK
      <4>2. PopBack(track_backtrace[track]) \in Seq(Addr)
        BY <4>1 DEF PopBack
      <4> QED BY <3>1, <3>2, <4>1, <4>2, Zenon
    <3>6. inhibited' \in BOOLEAN /\ invalidated' \in BOOLEAN
      BY <3>1 DEF TypeOK
    <3> QED BY <3>1, <3>3, <3>4, <3>5, <3>6 DEF TypeOK
  <2> QED BY <2>1, <2>2
<1>3. CASE WriteToDisk
  <2>1. CASE UNCHANGED <<queue, protos, disk>>
    BY <1>3, <2>1 DEF WriteToDisk, TypeOK
  <2>2. CASE /\ queue' = <<>>
             /\ protos' = WriteLoop(queue).packets
             /\ \E n \in 0 .. Len(protos') : disk' = SubSeq(protos', 1, n)
    <3>1. protos' \in Seq(Packet)
      BY <2>2, WriteLoopType DEF TypeOK
    <3>2. disk' \in Seq(Packet)
      <4>1. PICK n \in 0 .. Len(protos') : disk' = SubSeq(protos', 1, n)
        BY <2>2
      <4> QED BY <3>1, <4>1
    <3>3. queue' \in Seq(Event)
      BY <2>2
    <3> QED BY <1>3, <3>1, <3>2, <3>3 DEF WriteToDisk, TypeOK
  <2> QED BY <1>3, <2>1, <2>2 DEF WriteToDisk
<1>4. CASE UNCHANGED vars
  BY <1>4 DEF vars, TypeOK
<1> QED BY <1>1, <1>2, <1>3, <1>4 DEF Next

LEMMA TypeInit == Init => TypeOK
<1> SUFFICES ASSUME Init PROVE TypeOK
  OBVIOUS
<1>1. inhibited \in BOOLEAN /\ startingFrom \in Addr \cup {0}
  BY TracerAssumption, Zenon DEF Init, NoOption, NotFound
<1>2. 0 \in Track
  BY TracerAssumption, FS_CardinalityType DEF Track
<1>3. <<StateCleared, QemuInfo>> \in Seq(Packet)
  <2>1. StateCleared \in Packet /\ QemuInfo \in Packet
    BY DEF Packet
  <2> QED BY <2>1
<1>4. /\ pid_to_uuid \in [Pid -> Track]
      /\ track_backtrace \in [Track -> Seq(Addr)]
      /\ queue \in Seq(Event)
  BY <1>2 DEF Init
<1>5. protos \in Seq(Packet) /\ disk \in Seq(Packet)
  BY <1>3 DEF Init
<1> QED BY <1>1, <1>2, <1>4, <1>5, Zenon DEF Init, TypeOK

(* The variables stay in their types; in particular the uuids handed out     *)
(* never exceed the number of pids, and every packet is well formed.         *)
THEOREM TypeCorrect == Spec => []TypeOK
<1>1. Init => TypeOK
  BY TypeInit
<1>2. TypeOK /\ [Next]_vars => TypeOK'
  BY TypeStep
<1> QED BY <1>1, <1>2, PTL DEF Spec
-----------------------------------------------------------------------------
(* What a reader should see open: the calls of the track of the last call.   *)
Shown == [t \in Track |-> IF t = prevTrack THEN track_backtrace[t] ELSE <<>>]

(* The inductive invariant.  QueueReadsAsBacktrace does not say that the     *)
(* queue is not empty when a track the tracer has switched away from still   *)
(* has open calls: that holds because switching away left end events in the  *)
(* queue, and LogRet only ever takes back begin events.                      *)
HasEnd == \E i \in DOMAIN queue : queue[i].addr = 0
ReadInv ==
  Running => /\ OpenAtEnd(queue) = Shown
             /\ \A t \in Track : t # prevTrack /\ track_backtrace[t] # <<>> => HasEnd
IInv == TypeOK /\ ReadInv

LEMMA ReadInit == Init => ReadInv
<1> SUFFICES ASSUME Init PROVE ReadInv
  OBVIOUS
<1>1. OpenAtEnd(queue) = NothingOpen
  BY ReadNothing DEF Init
<1>2. Shown = NothingOpen
  BY DEF Init, Shown, NothingOpen
<1>3. \A t \in Track : track_backtrace[t] = <<>>
  BY DEF Init
<1> QED BY <1>1, <1>2, <1>3 DEF ReadInv

(* LogCall leaves a queue that reads as the backtrace of the call's track.   *)
LEMMA ReadLogCall ==
  ASSUME IInv, NEW addr \in Addr, NEW info \in ProcessInfo, NEW ts \in Ts,
         LogCall(addr, info, ts)
  PROVE  ReadInv'
<1>1. CASE inhibited /\ addr # startingFrom
  BY <1>1 DEF LogCall, vars, IInv, ReadInv, Shown, HasEnd
<1>2. CASE ~(inhibited /\ addr # startingFrom)
  <2> DEFINE track == TrackUuid(info)
             e == TracingEvent(addr, ts, track)
             bt == track_backtrace
             q2 == queue \o ContextSwitch(track, ts)
  <2>1. /\ prevTrack' = track
        /\ bt' = [bt EXCEPT ![track] = Append(@, addr)]
        /\ queue' = q2 \o <<e>>
        /\ ~exited
    BY <1>2 DEF LogCall
  <2>2. TypeOK /\ track \in Track /\ OpenAtEnd(queue) = Shown
    BY <2>1, TrackUuidType DEF IInv, ReadInv
  <2>3. e \in Event /\ e.addr = addr /\ e.track = track /\ addr # 0
    BY <2>2, TracerAssumption DEF TracingEvent, Event
  <2>4. /\ queue \in Seq(Event) /\ prevTrack \in Track /\ bt \in [Track -> Seq(Addr)]
        /\ CloseSlices(prevTrack, ts) \in Seq(Event)
        /\ ReopenSlices(track, ts) \in Seq(Event)
        /\ ContextSwitch(track, ts) \in Seq(Event)
    BY <2>2, ContextSwitchType DEF TypeOK
  <2> HIDE DEF track, e
  <2> DEFINE want == [t \in Track |-> IF t = track THEN bt[t] ELSE <<>>]
  <2>5. q2 \in Seq(Event) /\ OpenAtEnd(q2) = want
    <3>1. CASE track = prevTrack
      <4>1. ContextSwitch(track, ts) = <<>>
        BY <3>1 DEF ContextSwitch
      <4>2. q2 = queue
        BY <2>4, <4>1
      <4>3. want = Shown
        BY <3>1 DEF Shown
      <4> QED BY <2>2, <2>4, <4>2, <4>3
    <3>2. CASE track # prevTrack
      <4> DEFINE c == CloseSlices(prevTrack, ts)
                 r == ReopenSlices(track, ts)
                 q1 == queue \o c
      <4>1. q2 = q1 \o r /\ q1 \in Seq(Event) /\ q2 \in Seq(Event)
        BY <2>4, <3>2, SMTT(30) DEF ContextSwitch
      <4>2. OpenAtEnd(q1) = NothingOpen
        <5>1. OpenAtEnd(queue)[prevTrack] = bt[prevTrack]
          BY <2>2, <2>4 DEF Shown
        <5>2. /\ Len(c) = Len(bt[prevTrack])
              /\ \A i \in 1 .. Len(c) : c[i] = TracingEvent(0, ts, prevTrack)
          BY <2>4 DEF CloseSlices
        <5> HIDE DEF c
        <5>3. c \in Seq(Event)
          BY <2>4 DEF c
        <5>4. OpenAtEnd(queue \o c) = [OpenAtEnd(queue) EXCEPT ![prevTrack] = <<>>]
          BY <2>4, <5>1, <5>2, <5>3, ReadClosed
        <5>5. [Shown EXCEPT ![prevTrack] = <<>>] = NothingOpen
          BY <2>4, Zenon DEF Shown, NothingOpen
        <5> QED BY <5>4, <5>5, <2>2
      <4>3. OpenAtEnd(q1 \o r) = [NothingOpen EXCEPT ![track] = bt[track]]
        <5>1. NothingOpen[track] = <<>> /\ bt[track] \in Seq(Addr)
          BY <2>2, <2>4 DEF NothingOpen
        <5>2. /\ Len(r) = Len(bt[track])
              /\ \A i \in 1 .. Len(r) : r[i] = TracingEvent(bt[track][i], ts, track)
          BY <2>2, <2>4 DEF ReopenSlices
        <5>3. r \in Seq(Event)
          BY <2>4
        <5>4. OpenAtEnd(q1)[track] = <<>> /\ q1 \in Seq(Event)
          BY <4>1, <4>2, <5>1
        <5> HIDE DEF q1, r
        <5>5. OpenAtEnd(q1 \o r) = [OpenAtEnd(q1) EXCEPT ![track] = bt[track]]
          BY <2>2, <5>1, <5>2, <5>3, <5>4, ReadReopened, SMTT(30)
        <5> QED BY <4>2, <5>5
      <4>4. [NothingOpen EXCEPT ![track] = bt[track]] = want
        BY <2>2, SMTT(30) DEF NothingOpen
      <4> QED BY <4>1, <4>3, <4>4
    <3> QED BY <3>1, <3>2
  <2>6. OpenAtEnd(queue') = ReadEvent(want, e)
    <3>1. queue' = Append(q2, e)
      BY <2>1, <2>5, SMTT(30)
    <3> HIDE DEF q2, want
    <3> QED BY <3>1, <2>3, <2>5, ReadAppended
  <2>7. ReadEvent(want, e) = Shown'
    <3>1. ReadEvent(want, e) = [want EXCEPT ![track] = Append(bt[track], addr)]
      BY <2>2, <2>3, SMTT(30) DEF ReadEvent
    <3>2. Shown' = [t \in Track |-> IF t = track THEN bt'[t] ELSE <<>>]
      BY <2>1 DEF Shown
    <3>3. bt'[track] = Append(bt[track], addr)
      BY <2>1, <2>2, <2>4
    <3> QED BY <3>1, <3>2, <3>3, Zenon
  <2>8. ASSUME NEW t \in Track, t # prevTrack', bt'[t] # <<>>
        PROVE  HasEnd'
    <3>1. t # track /\ bt[t] # <<>>
      BY <2>1, <2>2, <2>4, <2>8
    <3>2. \E i \in DOMAIN q2 : q2[i].addr = 0
      <4>1. CASE t # prevTrack
        <5>1. PICK i \in DOMAIN queue : queue[i].addr = 0
          BY <3>1, <4>1, <2>1 DEF IInv, ReadInv, HasEnd
        <5>2. i \in DOMAIN q2 /\ q2[i] = queue[i]
          BY <5>1, <2>4, SMTT(30)
        <5> QED BY <5>1, <5>2
      <4>2. CASE t = prevTrack
        <5> DEFINE c == CloseSlices(prevTrack, ts)
                   r == ReopenSlices(track, ts)
        <5>1. ContextSwitch(track, ts) = c \o r
          BY <3>1, <4>2 DEF ContextSwitch
        <5>2. Len(bt[prevTrack]) \in Nat \ {0}
          BY <3>1, <4>2, <2>4
        <5>3. Len(c) >= 1 /\ c[1].addr = 0
          BY <5>2, SMTT(30) DEF CloseSlices, TracingEvent
        <5>4. Len(queue) + 1 \in DOMAIN q2 /\ q2[Len(queue) + 1] = c[1]
          <6> HIDE DEF c, r
          <6>1. c \in Seq(Event) /\ r \in Seq(Event)
            BY <2>4, SMTT(30) DEF c, r
          <6> QED BY <2>4, <5>1, <5>3, <6>1
        <5> QED BY <5>3, <5>4, SMTT(30)
      <4> QED BY <4>1, <4>2, SMTT(30)
    <3>3. PICK i \in DOMAIN q2 : q2[i].addr = 0
      BY <3>2
    <3>4. i \in DOMAIN queue' /\ queue'[i] = q2[i]
      <4> HIDE DEF q2
      <4> QED BY <2>1, <2>3, <2>5, <3>3
    <3> QED BY <3>3, <3>4 DEF HasEnd
  <2> QED BY <2>6, <2>7, <2>8 DEF ReadInv
<1> QED BY <1>1, <1>2

(* LogRet takes back or closes the innermost call of its track: on the track *)
(* of the last call that is the innermost slice a reader sees open, on any   *)
(* other the reader has none open and ignores the end event.                 *)
LEMMA ReadLogRet ==
  ASSUME IInv, NEW info \in ProcessInfo, NEW ts \in Ts, LogRet(info, ts)
  PROVE  ReadInv'
<1>1. CASE inhibited
  BY <1>1, SMTT(30) DEF LogRet, vars, IInv, ReadInv, Shown, HasEnd
<1> DEFINE track == TrackUuid(info)
           bt == track_backtrace
<1>2. TypeOK /\ track \in Track /\ ~exited
  BY TrackUuidType DEF IInv, LogRet
<1>3. CASE ~inhibited /\ bt[track] = <<>>
  BY <1>2, <1>3 DEF LogRet, IInv, ReadInv, Shown, HasEnd
<1>4. CASE ~inhibited /\ bt[track] # <<>>
  <2> DEFINE e == TracingEvent(0, ts, track)
             open == OpenAtEnd(queue)
  <2>1. /\ prevTrack' = prevTrack
        /\ bt' = [bt EXCEPT ![track] = PopBack(@)]
        /\ queue' = IF IsShort(Back(queue), track, ts) THEN PopBack(queue)
                    ELSE Append(queue, e)
    BY <1>4 DEF LogRet, PopBacktrace
  <2>2. /\ queue \in Seq(Event) /\ prevTrack \in Track /\ bt \in [Track -> Seq(Addr)]
        /\ open = Shown /\ open \in OpenStacks
    BY <1>2, OpenAtEndType DEF IInv, ReadInv, TypeOK
  <2>3. e \in Event /\ e.addr = 0 /\ e.track = track
    BY <1>2 DEF TracingEvent, Event
  <2> HIDE DEF track, e
  <2>4. bt'[track] = PopBack(bt[track]) /\ \A t \in Track \ {track} : bt'[t] = bt[t]
    BY <1>2, <2>1, <2>2
  <2>5. queue # <<>>
    <3>1. CASE track = prevTrack
      <4>1. open # NothingOpen
        BY <1>2, <1>4, <2>2, <3>1 DEF Shown, NothingOpen
      <4> QED BY <4>1, ReadNothing
    <3>2. CASE track # prevTrack
      BY <1>2, <1>4, <2>2, <3>2, SMTT(30) DEF IInv, ReadInv, HasEnd
    <3> QED BY <3>1, <3>2
  <2>6. Shown' = IF track = prevTrack THEN [open EXCEPT ![track] = PopBack(bt[track])]
                 ELSE open
    <3>1. Shown' = [t \in Track |-> IF t = prevTrack THEN bt'[t] ELSE <<>>]
      BY <2>1 DEF Shown
    <3>2. CASE track = prevTrack
      BY <1>2, <2>2, <2>4, <3>1, <3>2, ZenonT(30) DEF Shown
    <3>3. CASE track # prevTrack
      BY <1>2, <2>2, <2>4, <3>1, <3>3, SMTT(30) DEF Shown
    <3> QED BY <3>2, <3>3, SMTT(30)
  <2>7. CASE IsShort(Back(queue), track, ts)
    <3> DEFINE l == Back(queue)
               f == OpenAtEnd(PopBack(queue))
    <3>1. l \in Event /\ PopBack(queue) \in Seq(Event) /\ open = ReadEvent(f, l)
      BY <2>2, <2>5, ReadLast
    <3>2. l.addr # 0 /\ l.track = track
      BY <2>7, SMTT(30) DEF IsShort
    <3>3. f \in OpenStacks
      BY <3>1, OpenAtEndType
    <3> HIDE DEF l, f
    <3>4. open = [f EXCEPT ![track] = Append(f[track], l.addr)]
      BY <3>1, <3>2 DEF ReadEvent
    <3>5. f[track] \in Seq(Addr) /\ l.addr \in Addr
      BY <1>2, <3>1, <3>2, <3>3 DEF OpenStacks, Event
    <3>6. open[track] = Append(f[track], l.addr) /\ Append(f[track], l.addr) # <<>>
      BY <1>2, <3>3, <3>4, <3>5, SMTT(30) DEF OpenStacks
    <3>7. track = prevTrack
      BY <1>2, <2>2, <3>6 DEF Shown
    <3>8. bt[track] = Append(f[track], l.addr)
      BY <1>2, <2>2, <3>6, <3>7 DEF Shown
    <3>9. PopBack(bt[track]) = f[track]
      BY <3>5, <3>8, SMTT(30) DEF PopBack
    <3>10. [open EXCEPT ![track] = f[track]] = f
      BY <1>2, <3>3, <3>4, Zenon DEF OpenStacks
    <3>11. OpenAtEnd(queue') = Shown'
      BY <2>1, <2>6, <2>7, <3>7, <3>9, <3>10, SMTT(30) DEF f
    <3>12. ASSUME NEW t \in Track, t # prevTrack', bt'[t] # <<>>
           PROVE  HasEnd'
      <4>1. t # prevTrack /\ bt[t] # <<>>
        BY <2>1, <2>4, <3>7, <3>12, SMTT(30)
      <4>2. PICK i \in DOMAIN queue : queue[i].addr = 0
        BY <1>2, <4>1, SMTT(30) DEF IInv, ReadInv, HasEnd
      <4>3. i # Len(queue)
        BY <4>2, <3>2, SMTT(30) DEF l, Back
      <4>4. queue' = PopBack(queue)
        BY <2>1, <2>7
      <4>5. i \in DOMAIN queue' /\ queue'[i] = queue[i]
        BY <2>2, <4>2, <4>3, <4>4 DEF PopBack
      <4> QED BY <4>2, <4>5, SMTT(30) DEF HasEnd
    <3> QED BY <3>11, <3>12, SMTT(30) DEF ReadInv
  <2>8. CASE ~IsShort(Back(queue), track, ts)
    <3>1. queue' = Append(queue, e)
      BY <2>1, <2>8
    <3>2. OpenAtEnd(queue') = ReadEvent(open, e)
      BY <2>2, <2>3, <3>1, ReadAppended, SMTT(30)
    <3>3. HasEnd'
      <4>1. Len(queue) + 1 \in DOMAIN queue' /\ queue'[Len(queue) + 1] = e
        BY <2>2, <2>3, <3>1, SMTT(30)
      <4> QED BY <2>3, <4>1, SMTT(30) DEF HasEnd
    <3>4. CASE track = prevTrack
      <4>1. open[track] = bt[track]
        BY <1>2, <2>2, <3>4, SMTT(30) DEF Shown
      <4>2. ReadEvent(open, e) = [open EXCEPT ![track] = PopBack(bt[track])]
        BY <1>4, <2>3, <4>1, SMTT(30) DEF ReadEvent
      <4> QED BY <2>6, <3>2, <3>3, <4>2, <3>4, SMTT(30) DEF ReadInv
    <3>5. CASE track # prevTrack
      <4>1. open[track] = <<>>
        BY <1>2, <2>2, <3>5, SMTT(30) DEF Shown
      <4>2. ReadEvent(open, e) = open
        BY <2>3, <4>1, SMTT(30) DEF ReadEvent
      <4> QED BY <2>6, <3>2, <3>3, <3>5, <4>2, SMTT(30) DEF ReadInv
    <3> QED BY <3>4, <3>5, SMTT(30)
  <2> QED BY <2>7, <2>8
<1> QED BY <1>1, <1>3, <1>4, SMTT(30)

LEMMA ReadStep == IInv /\ [Next]_vars => IInv'
<1> SUFFICES ASSUME IInv, [Next]_vars PROVE IInv'
  BY SMTT(30)
<1>1. TypeOK'
  BY TypeStep DEF IInv
<1>2. ASSUME NEW addr \in Addr, NEW info \in ProcessInfo, NEW ts \in Ts,
             LogCall(addr, info, ts)
      PROVE  ReadInv'
  BY <1>2, ReadLogCall
<1>3. ASSUME NEW info \in ProcessInfo, NEW ts \in Ts, LogRet(info, ts)
      PROVE  ReadInv'
  BY <1>3, ReadLogRet
<1>4. CASE WriteToDisk
  BY <1>1, <1>4, SMTT(30) DEF WriteToDisk, ReadInv, IInv
<1>5. CASE UNCHANGED vars
  BY <1>1, <1>5, SMTT(30) DEF vars, IInv, ReadInv, Shown, HasEnd
<1> QED BY <1>1, <1>2, <1>3, <1>4, <1>5, SMTT(30) DEF Next, IInv

(* Whatever the guest does and whatever the process lookup returns, the      *)
(* queue reads as the open calls of the last call's track.                   *)
THEOREM ReadsAsBacktrace == Spec => []QueueReadsAsBacktrace
<1>1. Init => IInv
  BY TypeInit, ReadInit, SMTT(30) DEF IInv
<1>2. IInv /\ [Next]_vars => IInv'
  BY ReadStep
<1>3. IInv => QueueReadsAsBacktrace
  BY DEF IInv, ReadInv, QueueReadsAsBacktrace, Shown, OpenAtEnd
<1> QED BY <1>1, <1>2, <1>3, PTL DEF Spec

(* LogRet never reads the back of an empty deque.                            *)
THEOREM BackAlwaysDefined == Spec => []BackIsDefined
<1>1. Init => IInv
  BY TypeInit, ReadInit, SMTT(30) DEF IInv
<1>2. IInv /\ [Next]_vars => IInv'
  BY ReadStep
<1>3. IInv => BackIsDefined
  <2> SUFFICES ASSUME IInv, ~exited, NEW t \in Track, track_backtrace[t] # <<>>,
                      queue = <<>>
               PROVE  FALSE
    BY DEF BackIsDefined
  <2>1. Shown = NothingOpen
    BY ReadNothing DEF IInv, ReadInv
  <2>2. t # prevTrack
    BY <2>1 DEF Shown, NothingOpen
  <2> QED BY <2>2 DEF IInv, ReadInv, HasEnd
<1> QED BY <1>1, <1>2, <1>3, PTL DEF Spec
-----------------------------------------------------------------------------
(* Of a call and a return only the return shortens the queue, by an event    *)
(* that the reader of the rest of the queue does not see open any more.      *)
LEMMA CallLengthens ==
  ASSUME IInv, NEW addr \in Addr, NEW info \in ProcessInfo, NEW ts \in Ts,
         LogCall(addr, info, ts)
  PROVE  Len(queue') >= Len(queue)
<1>1. CASE inhibited /\ addr # startingFrom
  <2>1. queue' = queue /\ queue \in Seq(Event)
    BY <1>1, SMTT(30) DEF LogCall, vars, IInv, TypeOK
  <2> QED BY <2>1
<1>2. CASE ~(inhibited /\ addr # startingFrom)
  <2> DEFINE track == TrackUuid(info)
             e == TracingEvent(addr, ts, track)
             switch == ContextSwitch(track, ts)
  <2>1. queue' = queue \o switch \o <<e>>
    BY <1>2, SMTT(30) DEF LogCall
  <2>2. TypeOK /\ track \in Track
    BY TrackUuidType DEF IInv
  <2>3. queue \in Seq(Event) /\ switch \in Seq(Event) /\ e \in Event
    BY <2>2, ContextSwitchType DEF TypeOK, TracingEvent, Event
  <2> HIDE DEF track, e, switch
  <2> QED BY <2>1, <2>3
<1> QED BY <1>1, <1>2

LEMMA TakenBack ==
  ASSUME IInv, IInv', NEW info \in ProcessInfo, NEW ts \in Ts, LogRet(info, ts),
         Len(queue') < Len(queue)
  PROVE  LET e == Back(queue) IN
           /\ queue' = PopBack(queue)
           /\ e.track = prevTrack
           /\ track_backtrace[e.track] = Append(track_backtrace'[e.track], e.addr)
<1> DEFINE track == TrackUuid(info)
           bt == track_backtrace
           e == Back(queue)
           open == OpenAtEnd(PopBack(queue))
<1>1. /\ queue \in Seq(Event) /\ queue' \in Seq(Event)
      /\ prevTrack \in Track /\ bt \in [Track -> Seq(Addr)] /\ bt' \in [Track -> Seq(Addr)]
  BY DEF IInv, TypeOK
<1>2. track \in Track
  BY TrackUuidType DEF IInv
<1>3. ~exited /\ ~exited' /\ prevTrack' = prevTrack
  BY SMTT(30) DEF LogRet, vars
<1>4. queue # queue'
  BY <1>1
<1>5. ~inhibited /\ bt[track] # <<>>
  BY <1>4, SMTT(30) DEF LogRet, vars
<1>6. queue' = IF IsShort(e, track, ts) THEN PopBack(queue)
               ELSE Append(queue, TracingEvent(0, ts, track))
  BY <1>5 DEF LogRet
<1>7. queue # <<>>
  BY <1>1
<1>8. IsShort(e, track, ts) /\ queue' = PopBack(queue)
  <2>1. ASSUME NEW x, queue' = Append(queue, x) PROVE FALSE
    BY <1>1, <2>1
  <2> QED BY <1>6, <2>1
<1>9. e \in Event /\ PopBack(queue) \in Seq(Event) /\ OpenAtEnd(queue) = ReadEvent(open, e)
  BY <1>1, <1>7, ReadLast
<1>10. e.addr # 0 /\ e.track = track /\ e.addr \in Addr
  BY <1>8, <1>9, SMTT(30) DEF IsShort, Event
<1>11. OpenAtEnd(queue) = Shown /\ open = Shown'
  BY <1>3, <1>8 DEF IInv, ReadInv
<1>12. Shown' = [t \in Track |-> IF t = prevTrack THEN bt'[t] ELSE <<>>]
  BY <1>3 DEF Shown
<1> HIDE DEF e, open, track
<1>13. Shown = [open EXCEPT ![track] = Append(open[track], e.addr)]
  BY <1>9, <1>10, <1>11 DEF ReadEvent
<1>14. open \in [Track -> Seq(Addr)]
  BY <1>1, <1>11, <1>12
<1>15. Shown[track] = Append(open[track], e.addr) /\ Append(open[track], e.addr) # <<>>
  BY <1>2, <1>10, <1>13, <1>14
<1>16. track = prevTrack
  BY <1>2, <1>15 DEF Shown
<1>17. bt[track] = Append(bt'[track], e.addr)
  BY <1>2, <1>11, <1>12, <1>15, <1>16 DEF Shown
<1> QED BY <1>8, <1>10, <1>16, <1>17 DEF e

(* LogRet takes an event back only if it is the begin event of the call that *)
(* returns, on the track the queue ends on, however many switches and other  *)
(* returns came between the call and the return.                             *)
THEOREM AlwaysTakesBackOwnBegin == Spec => TakesBackOwnBegin
<1>1. Init => IInv
  BY TypeInit, ReadInit, SMTT(30) DEF IInv
<1>2. IInv /\ [Next]_vars => IInv'
  BY ReadStep
<1>3. IInv /\ IInv' /\ [Next]_vars =>
        [Len(queue') < Len(queue) /\ Running' =>
           LET e == Back(queue) IN
             /\ queue' = PopBack(queue)
             /\ e.track = prevTrack
             /\ track_backtrace[e.track] = Append(track_backtrace'[e.track], e.addr)]_vars
  <2> SUFFICES ASSUME IInv, IInv', Next, Len(queue') < Len(queue), ~exited'
               PROVE  LET e == Back(queue) IN
                        /\ queue' = PopBack(queue)
                        /\ e.track = prevTrack
                        /\ track_backtrace[e.track]
                             = Append(track_backtrace'[e.track], e.addr)
    BY SMTT(30)
  <2>1. ASSUME NEW addr \in Addr, NEW info \in ProcessInfo, NEW ts \in Ts,
               LogCall(addr, info, ts)
        PROVE  FALSE
    <3>1. Len(queue') >= Len(queue)
      BY <2>1, CallLengthens
    <3>2. queue \in Seq(Event) /\ queue' \in Seq(Event)
      BY DEF IInv, TypeOK
    <3> QED BY <3>1, <3>2
  <2>2. ~WriteToDisk
    BY DEF WriteToDisk
  <2>3. PICK info \in ProcessInfo, ts \in Ts : LogRet(info, ts)
    BY <2>1, <2>2 DEF Next
  <2> QED BY <2>3, TakenBack
<1> QED BY <1>1, <1>2, <1>3, PTL DEF Spec, TakesBackOwnBegin
-----------------------------------------------------------------------------
(* The tracks that were given to a pid, and the packets that announce a      *)
(* track among ps.                                                           *)
Announced == {pid_to_uuid[p] : p \in KnownPids}
DescriptorsOf(ps, t) ==
  {d \in DOMAIN ps : ps[d].type = "track_descriptor" /\ ps[d].uuid = t}
AllOn(q, tracks) == \A i \in DOMAIN q : q[i].track \in tracks

(* The inductive invariant behind TracksAreAnnounced.  A new uuid is new     *)
(* because those in use do not exceed their number; what LogCall closes and  *)
(* re-opens, and the cached result of the lookup, are on tracks announced    *)
(* when they were found.  Packets serialised after the queue are no          *)
(* descriptors, but then the queue is empty.                                 *)
UuidsInv ==
  /\ \A p \in Pid : pid_to_uuid[p] <= Cardinality(KnownPids)
  /\ \A p, q \in KnownPids : pid_to_uuid[p] = pid_to_uuid[q] => p = q
DescriptorsInv ==
  \A t \in Track :
    IF t \in Announced THEN \E d \in DOMAIN protos : DescriptorsOf(protos, t) = {d}
    ELSE DescriptorsOf(protos, t) = {}
AnnounceInv ==
  /\ UuidsInv
  /\ ~invalidated => ret \in Announced
  /\ \A t \in Track : track_backtrace[t] # <<>> => t \in Announced
  /\ AllOn(queue, Announced)
  /\ Running \/ queue # <<>> => DescriptorsInv

LEMMA DescriptorAppended ==
  ASSUME NEW ps \in Seq(Packet), NEW u \in Track, NEW g \in Pid, NEW t \in Track
  PROVE  /\ t = u => DescriptorsOf(Append(ps, TrackDescriptor(u, g)), t)
                        = DescriptorsOf(ps, t) \cup {Len(ps) + 1}
         /\ t # u => DescriptorsOf(Append(ps, TrackDescriptor(u, g)), t)
                        = DescriptorsOf(ps, t)
<1> DEFINE d == TrackDescriptor(u, g)
           as == Append(ps, d)
<1>1. d.type = "track_descriptor" /\ d.uuid = u
  BY DEF TrackDescriptor
<1> HIDE DEF d
<1>2. /\ DOMAIN as = DOMAIN ps \cup {Len(ps) + 1}
      /\ as[Len(ps) + 1] = d
      /\ \A i \in DOMAIN ps : as[i] = ps[i]
  <2>1. DOMAIN ps = 1 .. Len(ps) /\ Len(ps) \in Nat /\ DOMAIN as = 1 .. Len(ps) + 1
    OBVIOUS
  <2> QED BY <2>1
<1> HIDE DEF as
<1>3. /\ t = u => DescriptorsOf(as, t) = DescriptorsOf(ps, t) \cup {Len(ps) + 1}
      /\ t # u => DescriptorsOf(as, t) = DescriptorsOf(ps, t)
  <2>1. Len(ps) + 1 \notin DOMAIN ps
    OBVIOUS
  <2> QED BY <1>1, <1>2, <2>1, ZenonT(30) DEF DescriptorsOf
<1> QED BY <1>3 DEF as, d

(* GetTrackUuid returns a track that is announced by the time it returns.    *)
LEMMA LookupAnnounces ==
  ASSUME TypeOK, AnnounceInv, Running, NEW info \in ProcessInfo, GetTrackUuid(info)
  PROVE  /\ TrackUuid(info) \in Announced' /\ ret' = TrackUuid(info)
         /\ Announced \subseteq Announced'
         /\ UuidsInv' /\ DescriptorsInv'
<1>1. ret' = TrackUuid(info) /\ TrackUuid(info) \in Track /\ info.pid \in Pid
  BY TrackUuidType DEF GetTrackUuid
<1>2. UuidsInv /\ DescriptorsInv
  BY DEF AnnounceInv
<1>3. CASE ~(invalidated /\ info.pid \notin KnownPids)
  <2>1. pid_to_uuid' = pid_to_uuid /\ protos' = protos
    BY <1>3 DEF GetTrackUuid
  <2>2. KnownPids' = KnownPids /\ Announced' = Announced
    BY <2>1 DEF KnownPids, Announced
  <2>3. TrackUuid(info) \in Announced
    <3>1. CASE ~invalidated
      <4>1. TrackUuid(info) = ret
        BY <3>1 DEF TrackUuid
      <4> QED BY <3>1, <4>1 DEF AnnounceInv
    <3>2. CASE invalidated /\ info.pid \in KnownPids
      BY <3>2 DEF TrackUuid, Announced
    <3> QED BY <1>3, <3>1, <3>2
  <2>4. UuidsInv'
    BY <1>2, <2>1, <2>2 DEF UuidsInv
  <2>5. DescriptorsInv'
    BY <1>2, <2>1, <2>2 DEF DescriptorsInv
  <2> QED BY <1>1, <2>2, <2>3, <2>4, <2>5
<1>4. CASE invalidated /\ info.pid \notin KnownPids
  <2> DEFINE n == TrackUuid(info)
             k == Cardinality(KnownPids)
             p0 == info.pid
  <2>1. /\ n = k + 1 /\ n \in Track /\ ret' = n
        /\ pid_to_uuid' = [pid_to_uuid EXCEPT ![p0] = n]
        /\ protos' = Append(protos, TrackDescriptor(n, info.tgid))
    BY <1>1, <1>4 DEF TrackUuid, GetTrackUuid
  <2>2. IsFiniteSet(KnownPids) /\ k \in Nat
    BY TracerAssumption, FS_Subset, FS_CardinalityType DEF KnownPids
  <2>3. pid_to_uuid \in [Pid -> Track] /\ protos \in Seq(Packet) /\ Track \subseteq Nat
    BY DEF TypeOK, Track
  <2> HIDE DEF n
  <2>4. pid_to_uuid'[p0] = n /\ \A p \in Pid \ {p0} : pid_to_uuid'[p] = pid_to_uuid[p]
    BY <1>1, <2>1, <2>3
  <2>5. KnownPids' = KnownPids \cup {p0} /\ p0 \notin KnownPids
    <3>1. n # 0
      BY <2>1, <2>2
    <3>2. \A p \in Pid : p \in KnownPids' <=> p \in KnownPids \/ p = p0
      BY <2>4, <3>1 DEF KnownPids
    <3>3. KnownPids' \subseteq Pid /\ KnownPids \subseteq Pid
      BY DEF KnownPids
    <3> QED BY <1>1, <1>4, <3>2, <3>3, Zenon
  <2>6. Cardinality(KnownPids)' = k + 1
    BY <2>2, <2>5, FS_AddElement
  <2>7. \A p \in Pid : pid_to_uuid[p] \in Nat /\ pid_to_uuid[p] <= k
    BY <1>2, <2>3 DEF UuidsInv
  <2> HIDE DEF k
  <2>8. n \notin Announced
    BY <2>1, <2>2, <2>7 DEF Announced, KnownPids
  <2>9. Announced' = Announced \cup {n}
    <3>1. \A p \in KnownPids : p # p0 /\ pid_to_uuid'[p] = pid_to_uuid[p]
      BY <2>4, <2>5 DEF KnownPids
    <3> QED BY <2>4, <2>5, <3>1 DEF Announced
  <2>10. UuidsInv'
    <3>1. ASSUME NEW p \in Pid PROVE pid_to_uuid'[p] <= k + 1
      <4>1. CASE p = p0
        BY <4>1, <2>1, <2>2, <2>4
      <4>2. CASE p # p0
        BY <4>2, <2>2, <2>4, <2>7
      <4> QED BY <4>1, <4>2
    <3>2. ASSUME NEW p \in KnownPids', NEW q \in KnownPids', pid_to_uuid'[p] = pid_to_uuid'[q]
          PROVE  p = q
      <4>1. \A r \in KnownPids : /\ r # p0 /\ pid_to_uuid'[r] = pid_to_uuid[r]
                                 /\ pid_to_uuid[r] \in Announced
        BY <2>4, <2>5 DEF KnownPids, Announced
      <4>2. CASE p \in KnownPids /\ q \in KnownPids
        BY <1>2, <3>2, <4>1, <4>2 DEF UuidsInv
      <4>3. CASE p = p0 \/ q = p0
        BY <2>4, <2>5, <2>8, <3>2, <4>1, <4>3
      <4> QED BY <2>5, <4>2, <4>3
    <3> QED BY <2>6, <3>1, <3>2 DEF UuidsInv
  <2>11. DescriptorsInv'
    <3> SUFFICES ASSUME NEW t \in Track
                 PROVE  IF t \in Announced'
                        THEN \E d \in DOMAIN protos' : DescriptorsOf(protos', t) = {d}
                        ELSE DescriptorsOf(protos', t) = {}
      BY DEF DescriptorsInv
    <3>1. /\ t = n => DescriptorsOf(protos', t)
                         = DescriptorsOf(protos, t) \cup {Len(protos) + 1}
          /\ t # n => DescriptorsOf(protos', t) = DescriptorsOf(protos, t)
      <4> DEFINE as == Append(protos, TrackDescriptor(n, info.tgid))
      <4>1. info.tgid \in Pid /\ n \in Track /\ protos \in Seq(Packet)
        BY <2>1, <2>3, TrackUuidType
      <4>2. /\ t = n => DescriptorsOf(as, t)
                          = DescriptorsOf(protos, t) \cup {Len(protos) + 1}
            /\ t # n => DescriptorsOf(as, t) = DescriptorsOf(protos, t)
        BY <4>1, DescriptorAppended
      <4>3. protos' = as
        BY <2>1
      <4> HIDE DEF as
      <4> QED BY <4>2, <4>3
    <3>2. DOMAIN protos \subseteq DOMAIN protos' /\ Len(protos) + 1 \in DOMAIN protos'
      <4> DEFINE d0 == TrackDescriptor(n, info.tgid)
      <4>1. protos' = Append(protos, d0)
        BY <2>1
      <4> HIDE DEF d0
      <4> QED BY <2>3, <4>1
    <3>3. CASE t = n
      <4>1. DescriptorsOf(protos, t) = {}
        BY <1>2, <2>8, <3>3 DEF DescriptorsInv
      <4>2. DescriptorsOf(protos', t) = {Len(protos) + 1}
        BY <3>1, <3>3, <4>1
      <4> QED BY <2>9, <3>2, <3>3, <4>2
    <3>4. CASE t # n
      BY <1>2, <2>9, <3>1, <3>2, <3>4 DEF DescriptorsInv
    <3> QED BY <3>3, <3>4
  <2> QED BY <1>1, <2>9, <2>10, <2>11 DEF n
<1> QED BY <1>3, <1>4

LEMMA AllOnConcat ==
  ASSUME NEW q \in Seq(Event), NEW r \in Seq(Event), NEW tracks,
         AllOn(q, tracks), AllOn(r, tracks)
  PROVE  AllOn(q \o r, tracks) /\ q \o r \in Seq(Event)
<1>1. ASSUME NEW i \in DOMAIN (q \o r) PROVE (q \o r)[i].track \in tracks
  <2>1. CASE i <= Len(q)
    <3>1. (q \o r)[i] = q[i] /\ i \in DOMAIN q
      BY <2>1
    <3> QED BY <3>1 DEF AllOn
  <2>2. CASE i > Len(q)
    <3>1. (q \o r)[i] = r[i - Len(q)] /\ i - Len(q) \in DOMAIN r
      BY <2>2
    <3> QED BY <3>1 DEF AllOn
  <2> QED BY <2>1, <2>2
<1> QED BY <1>1 DEF AllOn

(* What LogCall queues is on the track it looked up or on the one it leaves, *)
(* which has open calls if there is anything to close.                       *)
LEMMA SwitchOnAnnounced ==
  ASSUME TypeOK, NEW tracks, NEW track \in Track, NEW ts \in Ts, track \in tracks,
         \A t \in Track : track_backtrace[t] # <<>> => t \in tracks
  PROVE  AllOn(ContextSwitch(track, ts), tracks)
<1> DEFINE closed == CloseSlices(prevTrack, ts)
           reopened == ReopenSlices(track, ts)
<1>1. closed \in Seq(Event) /\ reopened \in Seq(Event)
  BY ContextSwitchType
<1>2. /\ prevTrack \in Track
      /\ track_backtrace[prevTrack] \in Seq(Addr) /\ track_backtrace[track] \in Seq(Addr)
  BY DEF TypeOK
<1>3. AllOn(closed, tracks)
  <2>1. DOMAIN closed = 1 .. Len(track_backtrace[prevTrack])
    BY DEF CloseSlices
  <2> SUFFICES ASSUME NEW i \in 1 .. Len(track_backtrace[prevTrack])
               PROVE  closed[i].track \in tracks
    BY <2>1 DEF AllOn
  <2>2. closed[i].track = prevTrack
    BY DEF CloseSlices, TracingEvent
  <2>3. track_backtrace[prevTrack] # <<>>
    BY <1>2
  <2> HIDE DEF closed
  <2> QED BY <1>2, <2>2, <2>3
<1>4. AllOn(reopened, tracks)
  <2>1. DOMAIN reopened = 1 .. Len(track_backtrace[track])
    BY DEF ReopenSlices
  <2> SUFFICES ASSUME NEW i \in 1 .. Len(track_backtrace[track])
               PROVE  reopened[i].track \in tracks
    BY <2>1 DEF AllOn
  <2>2. reopened[i].track = track
    BY DEF ReopenSlices, TracingEvent
  <2> HIDE DEF reopened
  <2> QED BY <2>2
<1> HIDE DEF closed, reopened
<1>5. AllOn(closed \o reopened, tracks)
  BY <1>1, <1>3, <1>4, AllOnConcat
<1>6. AllOn(<<>>, tracks)
  BY DEF AllOn
<1> QED BY <1>5, <1>6 DEF ContextSwitch, closed, reopened

LEMMA AnnounceUnchanged ==
  ASSUME AnnounceInv, UNCHANGED vars
  PROVE  AnnounceInv'
<1>1. /\ UNCHANGED <<invalidated, ret, pid_to_uuid, track_backtrace>>
      /\ UNCHANGED <<queue, protos, exited>>
  BY DEF vars
<1>2. KnownPids' = KnownPids /\ Announced' = Announced
  BY <1>1 DEF KnownPids, Announced
<1>3. UuidsInv' /\ (DescriptorsInv => DescriptorsInv')
  BY <1>1, <1>2 DEF AnnounceInv, UuidsInv, DescriptorsInv
<1>4. AllOn(queue', Announced')
  BY <1>1, <1>2 DEF AnnounceInv
<1> QED BY <1>1, <1>2, <1>3, <1>4 DEF AnnounceInv

LEMMA AnnounceLogCall ==
  ASSUME TypeOK, AnnounceInv, NEW addr \in Addr, NEW info \in ProcessInfo, NEW ts \in Ts,
         LogCall(addr, info, ts)
  PROVE  AnnounceInv'
<1>1. CASE inhibited /\ addr # startingFrom
  <2>1. UNCHANGED vars
    BY <1>1, Zenon DEF LogCall
  <2> QED BY <2>1, AnnounceUnchanged
<1>2. CASE ~(inhibited /\ addr # startingFrom)
  <2> DEFINE track == TrackUuid(info)
             e == TracingEvent(addr, ts, track)
             switch == ContextSwitch(track, ts)
  <2>1. /\ GetTrackUuid(info) /\ ~exited
        /\ track_backtrace' = [track_backtrace EXCEPT ![track] = Append(@, addr)]
        /\ queue' = queue \o switch \o <<e>>
    BY <1>2, SMTT(30) DEF LogCall
  <2>2. /\ track \in Announced' /\ ret' = track /\ Announced \subseteq Announced'
        /\ UuidsInv' /\ DescriptorsInv'
    BY <2>1, LookupAnnounces
  <2>3. track \in Track
    BY TrackUuidType
  <2>4. \A t \in Track : track_backtrace[t] # <<>> => t \in Announced'
    BY <2>2 DEF AnnounceInv
  <2>5. switch \in Seq(Event) /\ AllOn(switch, Announced')
    BY <2>2, <2>3, <2>4, ContextSwitchType, SwitchOnAnnounced
  <2>6. <<e>> \in Seq(Event) /\ AllOn(<<e>>, Announced')
    <3>1. e \in Event /\ e.track = track
      BY <2>3 DEF TracingEvent, Event
    <3> HIDE DEF e, track
    <3>2. DOMAIN <<e>> = {1} /\ <<e>>[1] = e
      OBVIOUS
    <3> QED BY <2>2, <3>1, <3>2 DEF AllOn
  <2>7. queue \in Seq(Event) /\ AllOn(queue, Announced')
    BY <2>2 DEF TypeOK, AnnounceInv, AllOn
  <2> HIDE DEF track, e, switch
  <2>8. AllOn(queue', Announced')
    <3>1. AllOn(queue \o switch, Announced') /\ queue \o switch \in Seq(Event)
      BY <2>5, <2>7, AllOnConcat
    <3> QED BY <2>1, <2>6, <3>1, AllOnConcat
  <2>9. \A t \in Track : track_backtrace'[t] # <<>> => t \in Announced'
    <3>1. track_backtrace \in [Track -> Seq(Addr)]
      BY DEF TypeOK
    <3>2. \A t \in Track \ {track} : track_backtrace'[t] = track_backtrace[t]
      BY <2>1, <3>1
    <3> QED BY <2>2, <2>4, <3>2
  <2> QED BY <2>2, <2>8, <2>9 DEF AnnounceInv
<1> QED BY <1>1, <1>2

LEMMA AnnounceLogRet ==
  ASSUME TypeOK, AnnounceInv, NEW info \in ProcessInfo, NEW ts \in Ts, LogRet(info, ts)
  PROVE  AnnounceInv'
<1>1. CASE inhibited
  <2>1. UNCHANGED vars
    BY <1>1, Zenon DEF LogRet
  <2> QED BY <2>1, AnnounceUnchanged
<1>2. CASE ~inhibited
  <2> DEFINE track == TrackUuid(info)
             e == TracingEvent(0, ts, track)
             bt == track_backtrace
  <2>1. /\ GetTrackUuid(info) /\ ~exited
        /\ \/ bt[track] = <<>> /\ queue' = queue /\ bt' = bt
           \/ /\ bt[track] # <<>> /\ bt' = [bt EXCEPT ![track] = PopBack(@)]
              /\ queue' = PopBack(queue) \/ queue' = Append(queue, e)
    BY <1>2, SMTT(30) DEF LogRet, PopBacktrace
  <2>2. /\ track \in Announced' /\ ret' = track /\ Announced \subseteq Announced'
        /\ UuidsInv' /\ DescriptorsInv'
    BY <2>1, LookupAnnounces
  <2>3. track \in Track
    BY TrackUuidType
  <2>4. \A t \in Track : bt[t] # <<>> => t \in Announced'
    BY <2>2 DEF AnnounceInv
  <2>5. e.track = track
    BY DEF TracingEvent
  <2>6. queue \in Seq(Event) /\ AllOn(queue, Announced') /\ bt \in [Track -> Seq(Addr)]
    BY <2>2 DEF TypeOK, AnnounceInv, AllOn
  <2> HIDE DEF track, e
  <2>7. AllOn(queue', Announced')
    <3>1. CASE queue' = queue
      BY <2>6, <3>1
    <3>2. CASE queue' = PopBack(queue)
      <4>1. \A i \in DOMAIN queue' : i \in DOMAIN queue /\ queue'[i] = queue[i]
        BY <2>6, <3>2 DEF PopBack
      <4> QED BY <2>6, <4>1 DEF AllOn
    <3>3. CASE queue' = Append(queue, e)
      <4>1. \A i \in DOMAIN queue' :
              queue'[i] = e \/ (i \in DOMAIN queue /\ queue'[i] = queue[i])
        BY <2>6, <3>3
      <4> QED BY <2>2, <2>5, <2>6, <4>1 DEF AllOn
    <3> QED BY <2>1, <3>1, <3>2, <3>3
  <2>8. \A t \in Track : bt'[t] # <<>> => t \in Announced'
    <3>1. \A t \in Track \ {track} : bt'[t] = bt[t]
      BY <2>1, <2>6
    <3> QED BY <2>2, <2>4, <3>1
  <2> QED BY <2>2, <2>7, <2>8 DEF AnnounceInv
<1> QED BY <1>1, <1>2

LEMMA AnnounceInit == Init => AnnounceInv
<1> SUFFICES ASSUME Init PROVE AnnounceInv
  OBVIOUS
<1>1. KnownPids = {} /\ Announced = {}
  BY DEF Init, KnownPids, Announced
<1>2. UuidsInv
  <2>1. \A p \in Pid : pid_to_uuid[p] = 0
    BY DEF Init
  <2> QED BY <1>1, <2>1, FS_EmptySet DEF UuidsInv
<1>3. DescriptorsInv
  <2>1. \A t : DescriptorsOf(<<StateCleared, QemuInfo>>, t) = {}
    <3>1. DOMAIN <<StateCleared, QemuInfo>> = {1, 2}
      OBVIOUS
    <3>2. /\ <<StateCleared, QemuInfo>>[1].type # "track_descriptor"
          /\ <<StateCleared, QemuInfo>>[2].type # "track_descriptor"
      BY DEF StateCleared, QemuInfo
    <3> QED BY <3>1, <3>2 DEF DescriptorsOf
  <2> QED BY <1>1, <2>1 DEF DescriptorsInv, Init
<1>4. invalidated /\ AllOn(queue, Announced) /\ \A t \in Track : track_backtrace[t] = <<>>
  BY DEF Init, AllOn
<1> QED BY <1>2, <1>3, <1>4 DEF AnnounceInv

LEMMA AnnounceStep == TypeOK /\ AnnounceInv /\ [Next]_vars => AnnounceInv'
<1> SUFFICES ASSUME TypeOK, AnnounceInv, [Next]_vars PROVE AnnounceInv'
  OBVIOUS
<1>1. ASSUME NEW addr \in Addr, NEW info \in ProcessInfo, NEW ts \in Ts,
             LogCall(addr, info, ts)
      PROVE  AnnounceInv'
  BY <1>1, AnnounceLogCall
<1>2. ASSUME NEW info \in ProcessInfo, NEW ts \in Ts, LogRet(info, ts)
      PROVE  AnnounceInv'
  BY <1>2, AnnounceLogRet
<1>3. CASE WriteToDisk
  <2>1. /\ UNCHANGED <<invalidated, ret, pid_to_uuid, track_backtrace>>
        /\ exited' /\ ~exited
        /\ UNCHANGED <<queue, protos>> \/ queue' = <<>>
    BY <1>3 DEF WriteToDisk
  <2>2. KnownPids' = KnownPids /\ Announced' = Announced /\ UuidsInv'
    BY <2>1 DEF KnownPids, Announced, UuidsInv, AnnounceInv
  <2>3. AllOn(queue', Announced')
    BY <2>1, <2>2 DEF AllOn, AnnounceInv
  <2>4. queue' # <<>> => DescriptorsInv'
    BY <2>1, <2>2 DEF DescriptorsInv, AnnounceInv
  <2> QED BY <2>1, <2>2, <2>3, <2>4 DEF AnnounceInv
<1>4. CASE UNCHANGED vars
  BY <1>4, AnnounceUnchanged
<1> QED BY <1>1, <1>2, <1>3, <1>4 DEF Next

(* GetTrackUuid gives every pid a track of its own, and LogCall and LogRet   *)
(* queue events only on tracks that exactly one descriptor has announced.    *)
THEOREM TracksAlwaysAnnounced == Spec => []TracksAreAnnounced
<1>1. Init => TypeOK /\ AnnounceInv
  BY TypeInit, AnnounceInit
<1>2. TypeOK /\ AnnounceInv /\ [Next]_vars => (TypeOK /\ AnnounceInv)'
  BY TypeStep, AnnounceStep
<1>3. TypeOK /\ AnnounceInv => TracksAreAnnounced
  <2> SUFFICES ASSUME TypeOK, AnnounceInv PROVE TracksAreAnnounced
    OBVIOUS
  <2>1. ASSUME NEW i \in DOMAIN queue
        PROVE  Cardinality({d \in Descriptors : protos[d].uuid = queue[i].track}) = 1
    <3> DEFINE t == queue[i].track
    <3>1. t \in Announced /\ queue # <<>>
      BY <2>1 DEF AnnounceInv, AllOn
    <3>2. t \in Track
      <4>1. queue[i] \in Event
        BY <2>1 DEF TypeOK
      <4> QED BY <4>1 DEF Event
    <3>3. PICK d \in DOMAIN protos : DescriptorsOf(protos, t) = {d}
      BY <3>1, <3>2 DEF AnnounceInv, DescriptorsInv
    <3>4. {x \in Descriptors : protos[x].uuid = t} = {d}
      BY <3>3 DEF Descriptors, DescriptorsOf
    <3> QED BY <3>4, FS_Singleton
  <2> QED BY <2>1 DEF TracksAreAnnounced, AnnounceInv, UuidsInv
<1> QED BY <1>1, <1>2, <1>3, PTL DEF Spec
-----------------------------------------------------------------------------
(* What the loop of WriteToDisk keeps: the names interned under an iid are   *)
(* the addresses that have it as their uuid, of which there is one.          *)
InMap(uuids) == {a \in Addr : uuids[a] # 0}
UuidsDiffer(uuids) ==
  /\ \A a \in Addr : uuids[a] <= Cardinality(InMap(uuids))
  /\ \A a, b \in Addr : uuids[a] # 0 /\ uuids[a] = uuids[b] => a = b
Interns(acc) ==
  /\ UuidsDiffer(acc.uuids)
  /\ \A iid \in Nat \ {0} : Interned(acc.packets, iid) = {a \in Addr : acc.uuids[a] = iid}

LEMMA InternedAppended ==
  ASSUME NEW ps \in Seq(Packet), NEW e \in Event, NEW iid \in Nat,
         NEW name \in Addr \cup {0}, NEW x \in Nat
  PROVE  Interned(Append(ps, TrackEvent(e, iid, name)), x)
           = Interned(ps, x) \cup {v \in {name} : x = iid /\ name # 0}
<1> DEFINE p == TrackEvent(e, iid, name)
           as == Append(ps, p)
           Names(s, k) == s[k].type = "track_event" /\ s[k].iid = x /\ s[k].name # 0
<1>1. p.type = "track_event" /\ p.iid = iid /\ p.name = name
  BY DEF TrackEvent
<1> HIDE DEF p
<1>2. /\ DOMAIN as = DOMAIN ps \cup {Len(ps) + 1}
      /\ as[Len(ps) + 1] = p
      /\ \A i \in DOMAIN ps : as[i] = ps[i]
  <2>1. DOMAIN ps = 1 .. Len(ps) /\ Len(ps) \in Nat /\ DOMAIN as = 1 .. Len(ps) + 1
    OBVIOUS
  <2> QED BY <2>1
<1> HIDE DEF as
<1>3. \A s : Interned(s, x) = {s[k].name : k \in {j \in DOMAIN s : Names(s, j)}}
  BY DEF Interned
<1>4. \A i \in DOMAIN ps : Names(as, i) <=> Names(ps, i)
  BY <1>2
<1>5. Names(as, Len(ps) + 1) <=> x = iid /\ name # 0
  BY <1>1, <1>2
<1>6. as[Len(ps) + 1].name = name
  BY <1>1, <1>2
<1> HIDE DEF Names
<1>7. Interned(as, x) = Interned(ps, x) \cup {v \in {name} : x = iid /\ name # 0}
  <2>1. Interned(as, x) = {as[k].name : k \in {j \in DOMAIN as : Names(as, j)}}
    BY <1>3
  <2>2. Interned(ps, x) = {ps[k].name : k \in {j \in DOMAIN ps : Names(ps, j)}}
    BY <1>3
  <2>3. ASSUME NEW v \in Interned(as, x)
        PROVE  v \in Interned(ps, x) \/ (v = name /\ x = iid /\ name # 0)
    <3>1. PICK k \in DOMAIN as : Names(as, k) /\ v = as[k].name
      BY <2>1, <2>3
    <3>2. CASE k \in DOMAIN ps
      BY <1>2, <1>4, <2>2, <3>1, <3>2
    <3>3. CASE k = Len(ps) + 1
      BY <1>5, <1>6, <3>1, <3>3
    <3> QED BY <1>2, <3>1, <3>2, <3>3
  <2>4. ASSUME NEW v \in Interned(ps, x) PROVE v \in Interned(as, x)
    <3>1. PICK k \in DOMAIN ps : Names(ps, k) /\ v = ps[k].name
      BY <2>2, <2>4
    <3> QED BY <1>2, <1>4, <2>1, <3>1
  <2>5. x = iid /\ name # 0 => name \in Interned(as, x)
    BY <1>2, <1>5, <1>6, <2>1
  <2> QED BY <2>3, <2>4, <2>5
<1> QED BY <1>7 DEF as, p

(* GetFunctionUuid gives a new function a uuid that no other has.            *)
LEMMA UuidsStayDifferent ==
  ASSUME NEW uuids \in [Addr -> Nat], UuidsDiffer(uuids), NEW a0 \in Addr, uuids[a0] = 0
  PROVE  LET n == Cardinality(InMap(uuids)) + 1 IN
           /\ n \in Nat \ {0} /\ \A a \in Addr : uuids[a] # n
           /\ UuidsDiffer([uuids EXCEPT ![a0] = n])
<1> DEFINE k == Cardinality(InMap(uuids))
           n == k + 1
           new == [uuids EXCEPT ![a0] = n]
<1>1. IsFiniteSet(InMap(uuids)) /\ k \in Nat
  BY TracerAssumption, FS_Subset, FS_CardinalityType DEF InMap
<1>2. \A a \in Addr : uuids[a] \in Nat /\ uuids[a] <= k
  BY DEF UuidsDiffer
<1> HIDE DEF k
<1>3. n \in Nat \ {0} /\ \A a \in Addr : uuids[a] # n
  BY <1>1, <1>2
<1>4. /\ new \in [Addr -> Nat] /\ new[a0] = n
      /\ \A a \in Addr \ {a0} : new[a] = uuids[a]
  BY <1>3
<1> HIDE DEF new
<1>5. InMap(new) = InMap(uuids) \cup {a0} /\ a0 \notin InMap(uuids)
  BY <1>3, <1>4 DEF InMap
<1>6. Cardinality(InMap(new)) = n
  BY <1>1, <1>5, FS_AddElement DEF k
<1>7. ASSUME NEW a \in Addr PROVE new[a] <= n
  <2>1. CASE a = a0
    BY <1>3, <1>4, <2>1
  <2>2. CASE a # a0
    BY <1>1, <1>2, <1>4, <2>2
  <2> QED BY <2>1, <2>2
<1> HIDE DEF n
<1>8. ASSUME NEW a \in Addr, NEW b \in Addr, new[a] # 0, new[a] = new[b] PROVE a = b
  <2>1. CASE a # a0 /\ b # a0
    BY <1>4, <1>8, <2>1 DEF UuidsDiffer
  <2>2. CASE a = a0 \/ b = a0
    BY <1>3, <1>4, <1>8, <2>2
  <2> QED BY <2>1, <2>2
<1>9. UuidsDiffer(new)
  BY <1>6, <1>7, <1>8 DEF UuidsDiffer
<1> QED BY <1>3, <1>9 DEF new, n, k

LEMMA WriteEventInterns ==
  ASSUME NEW acc \in WriteState, Interns(acc), NEW e \in Event
  PROVE  LET new == WriteEvent(acc, e) IN
           /\ Interns(new)
           /\ Len(new.packets) = Len(acc.packets) + 1
           /\ \A k \in 1 .. Len(acc.packets) : new.packets[k] = acc.packets[k]
           /\ e.addr # 0 => /\ new.packets[Len(acc.packets) + 1].iid = new.uuids[e.addr]
                            /\ new.uuids[e.addr] \in Nat \ {0}
<1> DEFINE new == WriteEvent(acc, e)
           u == acc.uuids
           ps == acc.packets
<1>1. u \in [Addr -> Nat] /\ ps \in Seq(Packet) /\ UuidsDiffer(u)
  BY DEF WriteState, Interns
<1>2. \A x \in Nat \ {0} : Interned(ps, x) = {a \in Addr : u[a] = x}
  BY DEF Interns
<1>3. ASSUME NEW p PROVE /\ Len(Append(ps, p)) = Len(ps) + 1
                         /\ \A k \in 1 .. Len(ps) : Append(ps, p)[k] = ps[k]
                         /\ Append(ps, p)[Len(ps) + 1] = p
  BY <1>1
<1>4. CASE e.addr = 0
  <2> DEFINE p == TrackEvent(e, 0, 0)
  <2>1. new.uuids = u /\ new.packets = Append(ps, p)
    <3>1. acc = [uuids |-> u, packets |-> ps]
      BY DEF WriteState
    <3>2. new = [uuids |-> u, packets |-> Append(ps, p)]
      BY <1>4, <3>1, Zenon DEF WriteEvent
    <3> QED BY <3>2
  <2>2. ASSUME NEW x \in Nat \ {0} PROVE Interned(Append(ps, p), x) = {a \in Addr : u[a] = x}
    <3>1. Interned(Append(ps, p), x) = Interned(ps, x) \cup {v \in {0} : x = 0 /\ 0 # 0}
      BY <1>1, InternedAppended
    <3>2. {v \in {0} : x = 0 /\ 0 # 0} = {}
      OBVIOUS
    <3>3. Interned(Append(ps, p), x) = Interned(ps, x)
      BY <3>1, <3>2
    <3> QED BY <1>2, <3>3
  <2> HIDE DEF p, new
  <2>3. Interns(new)
    BY <1>1, <2>1, <2>2 DEF Interns
  <2>4. Len(new.packets) = Len(ps) + 1 /\ \A k \in 1 .. Len(ps) : new.packets[k] = ps[k]
    BY <1>3, <2>1
  <2> QED BY <1>4, <2>3, <2>4 DEF new
<1>5. CASE e.addr # 0
  <2> DEFINE a0 == e.addr
             iid == FunctionUuid(u, a0)
             name == IF u[a0] = 0 THEN a0 ELSE 0
             p == TrackEvent(e, iid, name)
  <2>1. a0 \in Addr /\ a0 # 0
    BY <1>5 DEF Event
  <2>2. new.uuids = [u EXCEPT ![a0] = iid] /\ new.packets = Append(ps, p) /\ p.iid = iid
    BY <1>5 DEF WriteEvent, TrackEvent
  <2>3. CASE u[a0] # 0
    <3>1. iid = u[a0] /\ name = 0 /\ iid \in Nat
      BY <1>1, <2>1, <2>3 DEF FunctionUuid
    <3>2. new.uuids = u
      BY <1>1, <2>1, <2>2, <3>1
    <3>3. ASSUME NEW x \in Nat \ {0}
          PROVE  Interned(Append(ps, p), x) = {a \in Addr : u[a] = x}
      <4>0. iid \in Nat /\ name \in Addr \cup {0}
        BY <3>1
      <4> HIDE DEF iid, name
      <4>1. Interned(Append(ps, p), x) = Interned(ps, x) \cup {v \in {name} : x = iid /\ name # 0}
        BY <1>1, <4>0, InternedAppended
      <4>2. {v \in {name} : x = iid /\ name # 0} = {}
        BY <3>1
      <4>3. Interned(Append(ps, p), x) = Interned(ps, x)
        BY <4>1, <4>2
      <4> QED BY <1>2, <4>3
    <3> HIDE DEF p, new, iid, name, a0
    <3>4. Interns(new)
      BY <1>1, <2>2, <3>2, <3>3 DEF Interns
    <3>5. new.packets[Len(ps) + 1].iid = new.uuids[a0] /\ new.uuids[a0] \in Nat \ {0}
      BY <1>3, <2>2, <2>3, <3>1, <3>2
    <3> QED BY <1>3, <2>2, <3>4, <3>5 DEF new, a0
  <2>4. CASE u[a0] = 0
    <3>1. iid = Cardinality(InMap(u)) + 1 /\ name = a0
      BY <2>4 DEF FunctionUuid, InMap
    <3>2. /\ iid \in Nat \ {0} /\ \A a \in Addr : u[a] # iid
          /\ UuidsDiffer([u EXCEPT ![a0] = iid])
      BY <1>1, <2>1, <2>4, <3>1, UuidsStayDifferent
    <3>3. new.uuids[a0] = iid /\ \A a \in Addr \ {a0} : new.uuids[a] = u[a]
      BY <1>1, <2>1, <2>2
    <3>4. ASSUME NEW x \in Nat \ {0}
          PROVE  Interned(Append(ps, p), x) = {a \in Addr : new.uuids[a] = x}
      <4>0. iid \in Nat /\ name \in Addr \cup {0}
        BY <2>1, <3>1, <3>2
      <4> HIDE DEF iid, name
      <4>1. Interned(Append(ps, p), x) = Interned(ps, x) \cup {v \in {name} : x = iid /\ name # 0}
        BY <1>1, <4>0, InternedAppended
      <4>2. Interned(ps, x) = {a \in Addr : u[a] = x}
        BY <1>2
      <4> HIDE DEF p, new, a0
      <4>3. CASE x = iid
        <5>1. Interned(ps, x) = {} /\ {v \in {name} : x = iid /\ name # 0} = {a0}
          BY <2>1, <3>1, <3>2, <4>2, <4>3
        <5>2. {a \in Addr : new.uuids[a] = x} = {a0}
          BY <2>1, <3>2, <3>3, <4>3
        <5> QED BY <4>1, <5>1, <5>2
      <4>4. CASE x # iid
        <5>1. {v \in {name} : x = iid /\ name # 0} = {}
          BY <4>4
        <5>2. {a \in Addr : new.uuids[a] = x} = {a \in Addr : u[a] = x}
          BY <2>4, <3>3, <4>4
        <5> QED BY <4>1, <4>2, <5>1, <5>2
      <4> QED BY <4>3, <4>4
    <3> HIDE DEF p, new, iid, name, a0
    <3>5. Interns(new)
      BY <2>2, <3>2, <3>4 DEF Interns
    <3>6. new.packets[Len(ps) + 1].iid = new.uuids[a0] /\ new.uuids[a0] \in Nat \ {0}
      BY <1>3, <2>2, <3>2, <3>3
    <3> QED BY <1>3, <2>2, <3>5, <3>6 DEF new, a0
  <2> QED BY <2>3, <2>4
<1> QED BY <1>4, <1>5

(* Every state of the loop has written one packet per event, after those of  *)
(* the states before it.                                                     *)
Wrote(loop, i) ==
  /\ Interns(loop[i])
  /\ Len(loop[i].packets) = Len(protos) + i
  /\ \A j \in 0 .. i : \A k \in 1 .. Len(protos) + j :
       loop[i].packets[k] = loop[j].packets[k]
WroteIid(loop, q, i) ==
  q[i].addr # 0 =>
    /\ loop[i].packets[Len(protos) + i].iid = loop[i].uuids[q[i].addr]
    /\ loop[i].uuids[q[i].addr] \in Nat \ {0}

LEMMA WroteNext ==
  ASSUME protos \in Seq(Packet), NEW q \in Seq(Event), NEW loop, IsWriteLoop(loop, q),
         NEW i \in 1 .. Len(q), Wrote(loop, i - 1)
  PROVE  Wrote(loop, i) /\ WroteIid(loop, q, i)
<1> DEFINE old == loop[i - 1]
           new == loop[i]
           n == Len(protos) + (i - 1)
<1>1. i - 1 \in 0 .. Len(q) /\ n \in Nat /\ n + 1 = Len(protos) + i
  OBVIOUS
<1>2. old \in WriteState /\ new = WriteEvent(old, q[i]) /\ q[i] \in Event
  BY <1>1 DEF IsWriteLoop
<1>3. /\ Interns(old) /\ Len(old.packets) = n
      /\ \A j \in 0 .. i - 1 : \A k \in 1 .. Len(protos) + j :
           old.packets[k] = loop[j].packets[k]
  BY DEF Wrote
<1> HIDE DEF old, new, n
<1>4. /\ Interns(new) /\ Len(new.packets) = n + 1
      /\ \A k \in 1 .. n : new.packets[k] = old.packets[k]
      /\ q[i].addr # 0 => /\ new.packets[n + 1].iid = new.uuids[q[i].addr]
                          /\ new.uuids[q[i].addr] \in Nat \ {0}
  BY <1>2, <1>3, WriteEventInterns
<1>5. ASSUME NEW j \in 0 .. i, NEW k \in 1 .. Len(protos) + j
      PROVE  new.packets[k] = loop[j].packets[k]
  <2>1. CASE j = i
    BY <2>1 DEF new
  <2>2. CASE j # i
    <3>1. j \in 0 .. i - 1 /\ k \in 1 .. n
      BY <2>2 DEF n
    <3> QED BY <1>3, <1>4, <3>1
  <2> QED BY <2>1, <2>2
<1>6. Wrote(loop, i)
  BY <1>1, <1>4, <1>5 DEF Wrote, new
<1>7. WroteIid(loop, q, i)
  BY <1>1, <1>4 DEF WroteIid, new
<1> QED BY <1>6, <1>7

(* Nothing is interned before the loop.                                      *)
NoEventYet == \A k \in DOMAIN protos : protos[k].type # "track_event"

LEMMA WroteFirst ==
  ASSUME protos \in Seq(Packet), NoEventYet, NEW q \in Seq(Event), NEW loop,
         IsWriteLoop(loop, q)
  PROVE  Wrote(loop, 0)
<1> DEFINE u == [a \in Addr |-> 0]
<1>1. loop[0].uuids = u /\ loop[0].packets = protos
  BY DEF IsWriteLoop, FirstWrite
<1>2. \A a \in Addr : u[a] = 0
  OBVIOUS
<1> HIDE DEF u
<1>3. InMap(u) = {}
  BY <1>2 DEF InMap
<1>4. UuidsDiffer(u)
  BY <1>2, <1>3, FS_EmptySet DEF UuidsDiffer
<1>5. ASSUME NEW x \in Nat \ {0} PROVE Interned(protos, x) = {a \in Addr : u[a] = x}
  <2>1. Interned(protos, x) = {}
    BY DEF Interned, NoEventYet
  <2>2. {a \in Addr : u[a] = x} = {}
    BY <1>2
  <2> QED BY <2>1, <2>2
<1>6. Interns(loop[0])
  BY <1>1, <1>4, <1>5 DEF Interns
<1>7. \A j \in 0 .. 0 : j = 0
  OBVIOUS
<1>8. Len(protos) = Len(protos) + 0
  OBVIOUS
<1> QED BY <1>1, <1>6, <1>7, <1>8 DEF Wrote

LEMMA WroteAlways ==
  ASSUME protos \in Seq(Packet), NoEventYet, NEW q \in Seq(Event), NEW loop,
         IsWriteLoop(loop, q)
  PROVE  \A i \in 0 .. Len(q) : Wrote(loop, i) /\ (i # 0 => WroteIid(loop, q, i))
<1> DEFINE Bad == {i \in 0 .. Len(q) : ~Wrote(loop, i)}
<1>1. Bad = {}
  <2>1. SUFFICES ASSUME Bad # {} PROVE FALSE
    OBVIOUS
  <2>2. PICK n \in Bad : \A m \in Bad : n <= m
    <3>1. Bad \subseteq Nat
      OBVIOUS
    <3> HIDE DEF Bad
    <3> QED BY <2>1, <3>1, SmallestElement
  <2>3. n \in 0 .. Len(q) /\ ~Wrote(loop, n)
    OBVIOUS
  <2>4. n # 0
    BY <2>3, WroteFirst
  <2>5. n \in 1 .. Len(q) /\ n - 1 \in 0 .. Len(q) /\ n - 1 \notin Bad
    <3> HIDE DEF Bad
    <3> QED BY <2>2, <2>3, <2>4
  <2>6. Wrote(loop, n - 1)
    BY <2>5
  <2> QED BY <2>3, <2>5, <2>6, WroteNext
<1>2. \A i \in 0 .. Len(q) : Wrote(loop, i)
  BY <1>1
<1>3. ASSUME NEW i \in 0 .. Len(q), i # 0 PROVE WroteIid(loop, q, i)
  <2>1. i \in 1 .. Len(q) /\ i - 1 \in 0 .. Len(q)
    BY <1>3
  <2> QED BY <1>2, <2>1, WroteNext
<1> QED BY <1>2, <1>3

LEMMA NamesWritten ==
  ASSUME TypeOK, NoEventYet, WriteToDisk, disk' # disk, NEW i \in DOMAIN queue,
         Len(protos) + i <= Len(disk'), queue[i].addr # 0
  PROVE  LET k == Len(protos) + i IN
           Interned(SubSeq(disk', 1, k), disk'[k].iid) = {queue[i].addr}
<1> DEFINE k == Len(protos) + i
           a0 == queue[i].addr
           m == Len(queue)
<1>1. queue \in Seq(Event) /\ protos \in Seq(Packet)
  BY DEF TypeOK
<1>2. i \in 1 .. m /\ i \in 0 .. m /\ m \in 0 .. m /\ i # 0 /\ k \in Nat /\ k >= 1
  BY <1>1
<1>3. queue[i] \in Event /\ a0 \in Addr
  <2>1. queue[i] \in Event
    BY <1>1, <1>2
  <2> QED BY <2>1 DEF Event
<1>4. /\ protos' = WriteLoop(queue).packets
      /\ \E n \in 0 .. Len(protos') : disk' = SubSeq(protos', 1, n)
  BY DEF WriteToDisk
<1>5. protos' \in Seq(Packet)
  BY <1>1, <1>4, WriteLoopType
<1>6. PICK n \in 0 .. Len(protos') : disk' = SubSeq(protos', 1, n)
  BY <1>4
<1>7. Len(disk') = n /\ \A j \in 1 .. n : disk'[j] = protos'[j]
  BY <1>5, <1>6
<1>8. PICK loop : IsWriteLoop(loop, queue)
  BY <1>1, WriteLoopDef
<1>9. Wrote(loop, i) /\ Wrote(loop, m) /\ WroteIid(loop, queue, i)
  BY <1>1, <1>2, <1>8, WroteAlways
<1> DEFINE ps == loop[i].packets
           u == loop[i].uuids
<1>10. protos' = loop[m].packets /\ loop[i] \in WriteState
  BY <1>2, <1>4, <1>8 DEF IsWriteLoop
<1>11. ps \in Seq(Packet) /\ Len(ps) = k /\ Interns(loop[i])
  BY <1>9, <1>10 DEF WriteState, Wrote
<1>12. \A j \in 1 .. k : protos'[j] = ps[j]
  BY <1>2, <1>9, <1>10 DEF Wrote
<1>13. ps[k].iid = u[a0] /\ u[a0] \in Nat \ {0}
  BY <1>9 DEF WroteIid
<1> HIDE DEF ps, u, a0, k, m
<1>14. k <= n /\ k \in 1 .. k
  BY <1>2, <1>7 DEF k
<1>15. \A j \in 1 .. k : disk'[j] = ps[j]
  BY <1>7, <1>12, <1>14, <1>2
<1>16. disk'[k].iid = u[a0]
  BY <1>13, <1>14, <1>15
<1>17. SubSeq(disk', 1, k) = ps
  <2>1. disk' \in Seq(Packet) /\ k \in 0 .. Len(disk')
    BY <1>2, <1>5, <1>6, <1>7, <1>14
  <2>2. /\ SubSeq(disk', 1, k) \in Seq(Packet) /\ Len(SubSeq(disk', 1, k)) = k
        /\ \A j \in 1 .. k : SubSeq(disk', 1, k)[j] = disk'[j]
    BY <2>1
  <2> QED BY <1>11, <1>15, <2>2
<1>18. Interned(ps, u[a0]) = {a \in Addr : u[a] = u[a0]}
  BY <1>11, <1>13 DEF Interns, ps, u
<1>19. {a \in Addr : u[a] = u[a0]} = {a0}
  BY <1>3, <1>11, <1>13 DEF Interns, UuidsDiffer, u
<1> QED BY <1>16, <1>17, <1>18, <1>19 DEF k, a0

(* A call or a return is ignored, or looks its track up.                     *)
LEMMA CallOrNothing ==
  ASSUME NEW addr \in Addr, NEW info \in ProcessInfo, NEW ts \in Ts,
         LogCall(addr, info, ts)
  PROVE  ~exited /\ disk' = disk /\ (protos' = protos \/ GetTrackUuid(info))
<1>1. /\ ~exited
      /\ \/ UNCHANGED vars
         \/ GetTrackUuid(info) /\ UNCHANGED <<startingFrom, exited, disk>>
  BY ZenonT(30) DEF LogCall
<1> QED BY <1>1 DEF vars

LEMMA RetOrNothing ==
  ASSUME NEW info \in ProcessInfo, NEW ts \in Ts, LogRet(info, ts)
  PROVE  ~exited /\ disk' = disk /\ (protos' = protos \/ GetTrackUuid(info))
<1>1. /\ ~exited
      /\ \/ UNCHANGED vars
         \/ /\ GetTrackUuid(info)
            /\ UNCHANGED <<inhibited, startingFrom, prevTrack, exited, disk>>
  BY ZenonT(30) DEF LogRet
<1> QED BY <1>1 DEF vars

LEMMA NoEventStep ==
  ASSUME TypeOK, ~exited => NoEventYet, [Next]_vars
  PROVE  ~exited' => NoEventYet'
<1>1. protos \in Seq(Packet)
  BY DEF TypeOK
<1>2. ASSUME NEW info \in ProcessInfo, GetTrackUuid(info), NoEventYet PROVE NoEventYet'
  <2>1. CASE protos' = protos
    BY <1>2, <2>1 DEF NoEventYet
  <2> DEFINE d == TrackDescriptor(ret', info.tgid)
  <2>2. CASE protos' = Append(protos, d)
    <3>1. d.type # "track_event"
      BY DEF TrackDescriptor
    <3> HIDE DEF d
    <3>2. \A k \in DOMAIN protos' :
            protos'[k] = d \/ (k \in DOMAIN protos /\ protos'[k] = protos[k])
      BY <1>1, <2>2
    <3> QED BY <1>2, <3>1, <3>2 DEF NoEventYet
  <2> QED BY <1>2, <2>1, <2>2 DEF GetTrackUuid
<1>3. ASSUME NEW addr \in Addr, NEW info \in ProcessInfo, NEW ts \in Ts,
             LogCall(addr, info, ts)
      PROVE  NoEventYet'
  <2>1. ~exited /\ (protos' = protos \/ GetTrackUuid(info))
    BY <1>3, CallOrNothing
  <2> QED BY <1>2, <2>1 DEF NoEventYet
<1>4. ASSUME NEW info \in ProcessInfo, NEW ts \in Ts, LogRet(info, ts)
      PROVE  NoEventYet'
  <2>1. ~exited /\ (protos' = protos \/ GetTrackUuid(info))
    BY <1>4, RetOrNothing
  <2> QED BY <1>2, <2>1 DEF NoEventYet
<1>5. CASE WriteToDisk
  BY <1>5 DEF WriteToDisk
<1>6. CASE UNCHANGED vars
  BY <1>6 DEF vars, NoEventYet
<1> QED BY <1>3, <1>4, <1>5, <1>6 DEF Next

(* In what WriteToDisk writes, even cut short, the packets up to a begin     *)
(* event intern the function it is about, and no other, under its iid.       *)
THEOREM NamesAlwaysInterned == Spec => NamesAreInterned
<1> DEFINE J == TypeOK /\ (~exited => NoEventYet)
<1>1. Init => J
  <2>1. Init => NoEventYet
    <3>1. DOMAIN <<StateCleared, QemuInfo>> = {1, 2}
      OBVIOUS
    <3>2. /\ <<StateCleared, QemuInfo>>[1].type # "track_event"
          /\ <<StateCleared, QemuInfo>>[2].type # "track_event"
      BY DEF StateCleared, QemuInfo
    <3> QED BY <3>1, <3>2 DEF Init, NoEventYet
  <2> QED BY <2>1, TypeInit
<1>2. J /\ [Next]_vars => J'
  <2> SUFFICES ASSUME J, [Next]_vars PROVE J'
    OBVIOUS
  <2>1. TypeOK'
    BY TypeStep
  <2>2. ~exited' => NoEventYet'
    BY NoEventStep
  <2> QED BY <2>1, <2>2
<1>3. J /\ [Next]_vars =>
        [disk' # disk =>
           \A i \in DOMAIN queue :
             LET k == Len(protos) + i IN
               k <= Len(disk') /\ queue[i].addr # 0 =>
                 Interned(SubSeq(disk', 1, k), disk'[k].iid) = {queue[i].addr}]_vars
  <2> SUFFICES ASSUME J, Next, disk' # disk, NEW i \in DOMAIN queue,
                      Len(protos) + i <= Len(disk'), queue[i].addr # 0
               PROVE  LET k == Len(protos) + i IN
                        Interned(SubSeq(disk', 1, k), disk'[k].iid) = {queue[i].addr}
    OBVIOUS
  <2>1. ASSUME NEW addr \in Addr, NEW info \in ProcessInfo, NEW ts \in Ts,
               LogCall(addr, info, ts)
        PROVE  disk' = disk
    BY <2>1, CallOrNothing
  <2>2. ASSUME NEW info \in ProcessInfo, NEW ts \in Ts, LogRet(info, ts)
        PROVE  disk' = disk
    BY <2>2, RetOrNothing
  <2>3. WriteToDisk
    BY <2>1, <2>2 DEF Next
  <2>4. NoEventYet
    BY <2>3 DEF WriteToDisk
  <2> QED BY <2>3, <2>4, NamesWritten
<1> QED BY <1>1, <1>2, <1>3, PTL DEF Spec, NamesAreInterned
=============================================================================
