------------------------ MODULE SharedMemoryABILemmas -----------------------
(***************************************************************************)
(* The inductive invariant of SharedMemoryABI, and what its proof needs to *)
(* know of the layout words, of the counts of chunks, of the operators     *)
(* several actions share and of the attempts of CommitData; then that the  *)
(* steps of the producer, of its writers and of its arbiter, keep it.  It  *)
(* holds for any number of writers, pages and chunks and for any           *)
(* kRetryAttempts that ABIAssumption allows.                               *)
(***************************************************************************)
EXTENDS SharedMemoryABI, FiniteSets, FiniteSetTheorems, TLAPS

States == [c \in Chunk |-> layout[c[1]].state[c[2]]]

Getting == {"probe", "partition", "list", "load", "cas", "writer_id", "chunk_id",
            "packets"}
Storing == {"writer_id", "chunk_id", "packets"}
MovingAt == {"copy", "clear_writer", "clear_chunk", "clear_packets", "release", "free"}

(* Who holds what.                                                           *)
Held ==
  /\ arbiter.at = "idle" => arbiter = Idle
  /\ arbiter.at # "idle" => arbiter.w \in Writers
  /\ arbiter.at \in Getting => old[arbiter.w] = NoChunk
  /\ arbiter.at \in {"release", "complete"} => old[arbiter.w] # NoChunk
  /\ \A w \in Writers : cur[w] # NoChunk =>
       States[cur[w]] = "kChunkBeingWritten" /\ cur[w] # old[w]
  /\ \A w \in Writers : old[w] # NoChunk => States[old[w]] = "kChunkBeingWritten"
  /\ \A v, w \in Writers : v # w /\ cur[v] # NoChunk => cur[v] # cur[w] /\ cur[v] # old[w]
  /\ \A v, w \in Writers : v # w /\ old[v] # NoChunk => old[v] # old[w]
  /\ arbiter.at \in Storing =>
       /\ States[Taken] = "kChunkBeingWritten"
       /\ \A w \in Writers : cur[w] # Taken /\ old[w] # Taken
  /\ \A c \in requests : States[c] = "kChunkComplete"
  /\ service.at \in {"load", "cas"} =>
       States[Target] = "kChunkComplete" /\ Target \notin requests
  /\ service.at \in MovingAt => States[Target] = "kChunkBeingRead"

(* Nobody has lost hold of a chunk.                                          *)
Accounted ==
  \A c \in Chunk :
    /\ States[c] = "kChunkBeingWritten" =>
         \/ arbiter.at \in Storing /\ Taken = c
         \/ \E w \in Writers : cur[w] = c \/ old[w] = c
    /\ States[c] = "kChunkComplete" =>
         c \in requests \/ (service.at \in {"load", "cas"} /\ Target = c)
    /\ States[c] = "kChunkBeingRead" => service.at \in MovingAt /\ Target = c

(* What was loaded before a compare_exchange.                                *)
Loaded ==
  /\ arbiter.at = "cas" => In(arbiter.seen, arbiter.idx, "kChunkFree")
  /\ service.at = "cas" => In(service.seen, service.idx, "kChunkComplete")

(* Whose the header says the chunk is.                                       *)
Owned(c) == owner[c] = <<header[c].writer_id, header[c].chunk_id>>
Headers ==
  /\ \A c \in Chunk : States[c] = "kChunkFree" => header[c] = ClearHeader
  /\ \A c \in Chunk : States[c] = "kChunkComplete" => Owned(c)
  /\ \A w \in Writers : cur[w] # NoChunk => Owned(cur[w])
  /\ \A w \in Writers : old[w] # NoChunk => Owned(old[w])
  /\ arbiter.at \in Storing =>
       /\ owner[Taken] = <<arbiter.w, next_id[arbiter.w]>>
       /\ header[Taken].count = 0
       /\ arbiter.at # "writer_id" => header[Taken].writer_id = arbiter.w
       /\ arbiter.at = "packets" => header[Taken].chunk_id = next_id[arbiter.w]
  /\ service.at = "copy" => Owned(Target)
  /\ service.at \in {"clear_chunk", "clear_packets", "release", "free"} =>
       header[Target].writer_id = NoWriter
  /\ service.at \in {"clear_packets", "release", "free"} => header[Target].chunk_id = 0
  /\ service.at \in {"release", "free"} => header[Target].count = 0

(* What the service looks at while it scrapes.                               *)
Scraping ==
  /\ service.at \in {"count", "writer_id", "chunk_id"} =>
       /\ service.idx \in service.used
       /\ \A i \in service.used :
            /\ States[<<service.page, i>>] \in {"kChunkBeingWritten", "kChunkComplete"}
            /\ service.seen.state[i] = "kChunkComplete" =>
                 States[<<service.page, i>>] = "kChunkComplete"
  /\ service.at \in {"writer_id", "chunk_id"} =>
       Owned(Target) /\ ~(arbiter.at \in Storing /\ Taken = Target)
  /\ service.at = "chunk_id" => service.writer_id = header[Target].writer_id

(* What the other side may still do to the word of page p while chunk i      *)
(* stays as it is, and how often an attempt to change it may yet fail.       *)
ByProducer(st, p, i) ==
  {e \in (Idx \ {i}) \X {1, 2} :
     \/ st[<<p, e[1]>>] = "kChunkFree"
     \/ st[<<p, e[1]>>] = "kChunkBeingWritten" /\ e[2] = 2}
ByService(st, p, i) ==
  {e \in (Idx \ {i}) \X {1, 2} :
     \/ st[<<p, e[1]>>] = "kChunkComplete"
     \/ st[<<p, e[1]>>] = "kChunkBeingRead" /\ e[2] = 2}
Most == 2 * (NumChunks - 1)

ServiceBudget ==
  /\ service.at \in {"load", "cas", "release", "free"} =>
       service.attempt + Cardinality(ByProducer(States, service.page, service.idx))
         <= Most
  /\ service.at \in {"cas", "free"} =>
       \/ layout[service.page] = service.seen
       \/ service.attempt + 1
            + Cardinality(ByProducer(States, service.page, service.idx)) <= Most
ArbiterBudget ==
  /\ arbiter.at \in {"release", "complete"} =>
       arbiter.attempt + Cardinality(ByService(States, Returned[1], Returned[2])) <= Most
  /\ arbiter.at = "complete" =>
       \/ layout[Returned[1]] = arbiter.seen
       \/ arbiter.attempt + 1
            + Cardinality(ByService(States, Returned[1], Returned[2])) <= Most
Budget == ServiceBudget /\ ArbiterBudget

IInv ==
  /\ TypeOK /\ Held /\ Accounted /\ Loaded /\ Headers /\ Scraping /\ Budget
  /\ RightfullyAttributed
-----------------------------------------------------------------------------
LEMMA ChunkFacts ==
  /\ NoChunk \notin Chunk
  /\ \A c \in Chunk : c[1] \in Page /\ c[2] \in Idx /\ c = <<c[1], c[2]>>
  /\ \A p \in Page, i \in Idx : <<p, i>> \in Chunk
BY DEF Chunk, NoChunk

LEMMA StatesType ==
  ASSUME TypeOK
  PROVE  States \in [Chunk -> ChunkState]
BY ChunkFacts DEF TypeOK, States, Word

(* A chunk in use is in a partitioned page.                                *)
LEMMA InUse ==
  ASSUME TypeOK, NEW p \in Page, NEW i \in Idx
  PROVE  /\ States[<<p, i>>] = layout[p].state[i]
         /\ States[<<p, i>>] # "kChunkFree" => In(layout[p], i, States[<<p, i>>])
         /\ layout[p].part => In(layout[p], i, States[<<p, i>>])
BY ChunkFacts DEF TypeOK, States, In, FreePage, AllFree

(* What the three kinds of compare_exchange do to the chunks.              *)
LEMMA AcquireStates ==
  ASSUME TypeOK, NEW p \in Page, NEW i \in Idx, NEW to \in ChunkState,
         layout[p].part,
         layout' = [layout EXCEPT ![p] = Acquired(@, i, to)]
  PROVE  /\ layout' \in [Page -> Word]
         /\ \A q \in Page : ~layout'[q].part => layout'[q] = FreePage
         /\ States' = [States EXCEPT ![<<p, i>>] = to]
<1> DEFINE word == Acquired(layout[p], i, to)
<1>1. layout[p] \in Word /\ layout \in [Page -> Word]
  BY Zenon DEF TypeOK
<1>2. word \in Word /\ word.part /\ word.state = [layout[p].state EXCEPT ![i] = to]
  BY <1>1, Zenon DEF Acquired, Word
<1>3. layout' = [layout EXCEPT ![p] = word]
  BY Zenon
<1> HIDE DEF word
<1>4. layout' \in [Page -> Word]
  BY <1>1, <1>2, <1>3, Zenon
<1>5. \A q \in Page : ~layout'[q].part => layout'[q] = FreePage
  BY <1>2, <1>3, Zenon DEF TypeOK
<1>6. \A c \in Chunk : layout'[c[1]].state[c[2]]
                       = IF c = <<p, i>> THEN to ELSE layout[c[1]].state[c[2]]
  <2> TAKE c \in Chunk
  <2>1. c[1] \in Page /\ c[2] \in Idx /\ c = <<c[1], c[2]>>
    BY ChunkFacts, Zenon
  <2> QED BY <1>1, <1>2, <1>3, <2>1 DEF Word
<1> QED BY <1>4, <1>5, <1>6, ChunkFacts, Zenon DEF States

LEMMA ReleaseStates ==
  ASSUME TypeOK, NEW p \in Page, NEW i \in Idx, NEW to \in ChunkState,
         layout[p].part,
         layout' = [layout EXCEPT ![p] = Released(@, i, to)]
  PROVE  /\ layout' \in [Page -> Word]
         /\ \A q \in Page : ~layout'[q].part => layout'[q] = FreePage
         /\ States' = [States EXCEPT ![<<p, i>>] = to]
<1> DEFINE word == Released(layout[p], i, to)
<1>0. layout[p].part \in BOOLEAN /\ layout[p].state \in [Idx -> ChunkState]
      /\ Acquired(layout[p], i, to) \in Word /\ Acquired(layout[p], i, to).part
      /\ Acquired(layout[p], i, to).state = [layout[p].state EXCEPT ![i] = to]
  BY DEF TypeOK, Acquired, Word
<1>1. FreePage \in Word /\ FreePage.state = AllFree
  BY DEF FreePage, AllFree, Word, ChunkState
<1>2. /\ word \in Word /\ (~word.part => word = FreePage)
      /\ word.state = [layout[p].state EXCEPT ![i] = to]
  BY <1>0, <1>1, Zenon DEF Released
<1>3. layout' = [layout EXCEPT ![p] = word]
  BY Zenon
<1> HIDE DEF word
<1>4. layout' \in [Page -> Word]
  BY <1>2, <1>3, Zenon DEF TypeOK
<1>5. \A q \in Page : ~layout'[q].part => layout'[q] = FreePage
  BY <1>2, <1>3 DEF TypeOK
<1>6. \A c \in Chunk : layout'[c[1]].state[c[2]]
                       = IF c = <<p, i>> THEN to ELSE layout[c[1]].state[c[2]]
  <2> TAKE c \in Chunk
  <2>1. c[1] \in Page /\ c[2] \in Idx /\ c = <<c[1], c[2]>>
    BY ChunkFacts, Zenon
  <2> QED BY <1>2, <1>3, <2>1 DEF TypeOK, Word
<1> QED BY <1>4, <1>5, <1>6, ChunkFacts, Zenon DEF States

LEMMA PartitionStates ==
  ASSUME TypeOK, NEW p \in Page, layout' = [layout EXCEPT ![p].part = TRUE]
  PROVE  /\ layout' \in [Page -> Word]
         /\ \A q \in Page : ~layout'[q].part => layout'[q] = FreePage
         /\ States' = States
<1>1. layout' \in [Page -> Word]
  BY Zenon DEF TypeOK, Word
<1>2. layout'[p].part /\ \A q \in Page : q # p => layout'[q] = layout[q]
  BY Zenon DEF TypeOK, Word
<1>3. \A q \in Page : layout'[q].state = layout[q].state
  BY Zenon DEF TypeOK, Word
<1>4. \A q \in Page : ~layout'[q].part => layout'[q] = FreePage
  BY <1>2, Zenon DEF TypeOK
<1> QED BY <1>1, <1>3, <1>4, ChunkFacts DEF States

(* The counts are numbers, and an access of the other side lowers them.    *)
LEMMA CountFacts ==
  ASSUME NEW S \in SUBSET (Idx \X {1, 2}), NEW T \in SUBSET S
  PROVE  /\ IsFiniteSet(S) /\ Cardinality(S) \in Nat /\ Cardinality(T) \in Nat
         /\ Cardinality(T) <= Cardinality(S)
         /\ S # T => Cardinality(T) + 1 <= Cardinality(S)
<1>1. IsFiniteSet(Idx)
  BY ABIAssumption, FS_Interval DEF Idx
<1>2. IsFiniteSet({1, 2})
  <2>1. IsFiniteSet({1})
    BY FS_Singleton, Zenon
  <2>2. {1, 2} = {1} \cup {2}
    BY Zenon
  <2> QED BY <2>1, <2>2, FS_AddElement
<1>3. IsFiniteSet(Idx \X {1, 2})
  BY <1>1, <1>2, FS_Product, Zenon
<1>4. IsFiniteSet(S)
  BY <1>3, FS_Subset, Zenon
<1>5. /\ IsFiniteSet(T) /\ Cardinality(T) <= Cardinality(S)
      /\ Cardinality(S) = Cardinality(T) => S = T
  BY <1>4, FS_Subset, Zenon
<1>6. Cardinality(S) \in Nat /\ Cardinality(T) \in Nat
  BY <1>4, <1>5, FS_CardinalityType, Zenon
<1> QED BY <1>4, <1>5, <1>6

LEMMA MostFacts ==
  ASSUME NEW i \in Idx, NEW S \in SUBSET ((Idx \ {i}) \X {1, 2})
  PROVE  /\ Cardinality(S) \in Nat /\ Cardinality(S) <= Most
<1>1. IsFiniteSet(Idx) /\ Cardinality(Idx) = NumChunks
  BY ABIAssumption, FS_Interval DEF Idx
<1>2. IsFiniteSet(Idx \ {i}) /\ Cardinality(Idx \ {i}) = NumChunks - 1
  BY <1>1, FS_RemoveElement, Zenon
<1>3. IsFiniteSet({1, 2}) /\ Cardinality({1, 2}) = 2
  <2>1. IsFiniteSet({1}) /\ Cardinality({1}) = 1
    BY FS_Singleton, Zenon
  <2>2. {1, 2} = {1} \cup {2} /\ 2 \notin {1}
    OBVIOUS
  <2> QED BY <2>1, <2>2, FS_AddElement
<1>4. /\ IsFiniteSet((Idx \ {i}) \X {1, 2})
      /\ Cardinality((Idx \ {i}) \X {1, 2}) = (NumChunks - 1) * 2
  BY <1>2, <1>3, FS_Product
<1>5. IsFiniteSet(S) /\ Cardinality(S) <= (NumChunks - 1) * 2
  BY <1>4, FS_Subset, Zenon
<1> QED BY <1>5, FS_CardinalityType, ABIAssumption DEF Most
LEMMA ByProducerFacts ==
  ASSUME NEW st \in [Chunk -> ChunkState], NEW p \in Page, NEW i \in Idx
  PROVE  /\ Cardinality(ByProducer(st, p, i)) \in Nat
         /\ Cardinality(ByProducer(st, p, i)) <= Most
BY MostFacts, Zenon DEF ByProducer

LEMMA ByServiceFacts ==
  ASSUME NEW st \in [Chunk -> ChunkState], NEW p \in Page, NEW i \in Idx
  PROVE  /\ Cardinality(ByService(st, p, i)) \in Nat
         /\ Cardinality(ByService(st, p, i)) <= Most
BY MostFacts, Zenon DEF ByService

LEMMA ProducerUses ==
  ASSUME NEW st \in [Chunk -> ChunkState], NEW p \in Page, NEW i \in Idx,
         NEW c \in Chunk, c # <<p, i>>, NEW to,
         \/ st[c] = "kChunkFree" /\ to = "kChunkBeingWritten"
         \/ st[c] = "kChunkBeingWritten" /\ to = "kChunkComplete"
  PROVE  LET new == ByProducer([st EXCEPT ![c] = to], p, i)
             before == ByProducer(st, p, i)
         IN  /\ Cardinality(new) <= Cardinality(before)
             /\ c[1] = p => Cardinality(new) + 1 <= Cardinality(before)
<1> DEFINE new == ByProducer([st EXCEPT ![c] = to], p, i)
           before == ByProducer(st, p, i)
<1>0. c[1] \in Page /\ c[2] \in Idx /\ c = <<c[1], c[2]>>
      /\ \A j \in Idx : <<p, j>> \in Chunk
  BY ChunkFacts, Zenon
<1>1. new \subseteq before
  <2> SUFFICES ASSUME NEW e \in (Idx \ {i}) \X {1, 2}, e \in new PROVE e \in before
    BY Zenon DEF ByProducer
  <2>1. e[1] \in Idx /\ <<p, e[1]>> \in Chunk
    BY <1>0, Zenon
  <2> QED BY <2>1, Zenon DEF ByProducer
<1>2. before \in SUBSET (Idx \X {1, 2})
  BY Zenon DEF ByProducer
<1>3. CASE c[1] = p
  <2> DEFINE e == IF st[c] = "kChunkFree" THEN <<c[2], 1>> ELSE <<c[2], 2>>
  <2>1. e \in (Idx \ {i}) \X {1, 2}
    BY <1>0, <1>3, Zenon
  <2>2. e \in before
    BY <1>0, <1>3, <2>1, Zenon DEF ByProducer
  <2>3. e \notin new
    BY <1>0, <1>3, <2>1 DEF ByProducer
  <2> QED BY <1>1, <1>2, <2>2, <2>3, CountFacts, Zenon
<1>4. CASE c[1] # p
  BY <1>1, <1>2, <1>4, CountFacts, Zenon
<1> QED BY <1>3, <1>4, Zenon

LEMMA ServiceUses ==
  ASSUME NEW st \in [Chunk -> ChunkState], NEW p \in Page, NEW i \in Idx,
         NEW c \in Chunk, c # <<p, i>>, NEW to,
         \/ st[c] = "kChunkComplete" /\ to = "kChunkBeingRead"
         \/ st[c] = "kChunkBeingRead" /\ to = "kChunkFree"
  PROVE  LET new == ByService([st EXCEPT ![c] = to], p, i)
             before == ByService(st, p, i)
         IN  /\ Cardinality(new) <= Cardinality(before)
             /\ c[1] = p => Cardinality(new) + 1 <= Cardinality(before)
<1> DEFINE new == ByService([st EXCEPT ![c] = to], p, i)
           before == ByService(st, p, i)
<1>0. c[1] \in Page /\ c[2] \in Idx /\ c = <<c[1], c[2]>>
      /\ \A j \in Idx : <<p, j>> \in Chunk
  BY ChunkFacts, Zenon
<1>1. new \subseteq before
  <2> SUFFICES ASSUME NEW e \in (Idx \ {i}) \X {1, 2}, e \in new PROVE e \in before
    BY Zenon DEF ByService
  <2>1. e[1] \in Idx /\ <<p, e[1]>> \in Chunk
    BY <1>0, Zenon
  <2> QED BY <2>1, Zenon DEF ByService
<1>2. before \in SUBSET (Idx \X {1, 2})
  BY Zenon DEF ByService
<1>3. CASE c[1] = p
  <2> DEFINE e == IF st[c] = "kChunkComplete" THEN <<c[2], 1>> ELSE <<c[2], 2>>
  <2>1. e \in (Idx \ {i}) \X {1, 2}
    BY <1>0, <1>3, Zenon
  <2>2. e \in before
    BY <1>0, <1>3, <2>1, Zenon DEF ByService
  <2>3. e \notin new
    BY <1>0, <1>3, <2>1 DEF ByService
  <2> QED BY <1>1, <1>2, <2>2, <2>3, CountFacts, Zenon
<1>4. CASE c[1] # p
  BY <1>1, <1>2, <1>4, CountFacts, Zenon
<1> QED BY <1>3, <1>4, Zenon
-----------------------------------------------------------------------------
(* How far GetNewChunk gets when it does not get a chunk.                  *)
Scanning == {"idle", "probe", "partition", "list", "load", "cas"}
ScanOn ==
  /\ arbiter' \in Arbiter /\ arbiter'.at \in Scanning /\ page_idx' \in Page
  /\ arbiter'.at = "idle" => arbiter' = Idle
  /\ arbiter'.at # "idle" => arbiter'.w = arbiter.w
  /\ arbiter'.at = "cas" => In(arbiter'.seen, arbiter'.idx, "kChunkFree")

LEMMA IdleFacts ==
  /\ FreePage \in Word /\ Idle \in Arbiter /\ Rest \in Service
  /\ Idle.at = "idle" /\ Idle.w = NoWriter /\ Rest.at = "idle"
BY ABIAssumption DEF Idle, Rest, Arbiter, Service, FreePage, AllFree, Word, ChunkState,
  Idx, Page

LEMMA TryFreeFacts ==
  ASSUME TypeOK, NEW free \in SUBSET Idx, TryFree(arbiter, free)
  PROVE  ScanOn
<1> DEFINE first == {i \in free : \A j \in free : i <= j}
<1>1. /\ arbiter \in Arbiter /\ page_idx \in Page
      /\ Idle \in Arbiter /\ Idle.at = "idle"
  BY IdleFacts, Zenon DEF TypeOK
<1>2. CASE first # {}
  <2>1. (CHOOSE i \in first : TRUE) \in Idx
    BY <1>2, Zenon
  <2>2. /\ arbiter' = [Idle EXCEPT !.at = "load", !.w = arbiter.w,
                          !.left = arbiter.left, !.free = free,
                          !.idx = CHOOSE i \in first : TRUE]
        /\ page_idx' = page_idx
    BY <1>2, Zenon DEF TryFree
  <2> QED BY <1>1, <2>1, <2>2, ABIAssumption, Zenon DEF ScanOn, Scanning, Arbiter, Idle
<1>3. CASE first = {} /\ arbiter.left > 0
  <2>1. /\ arbiter' = [Idle EXCEPT !.at = "probe", !.w = arbiter.w,
                          !.left = arbiter.left - 1]
        /\ page_idx' = (page_idx + 1) % NumPages
    BY <1>3, Zenon DEF TryFree
  <2>2. page_idx' \in Page
    BY <1>1, <2>1, ABIAssumption DEF Page
  <2>3. arbiter.left - 1 \in 0 .. NumPages - 1
    BY <1>1, <1>3, ABIAssumption DEF Arbiter
  <2> QED BY <1>1, <2>1, <2>2, <2>3, Zenon DEF ScanOn, Scanning, Arbiter, Idle
<1>4. CASE first = {} /\ ~(arbiter.left > 0)
  <2>1. arbiter' = Idle /\ page_idx' = page_idx
    BY <1>4, Zenon DEF TryFree
  <2> QED BY <1>1, <2>1, Zenon DEF ScanOn, Scanning
<1> QED BY <1>2, <1>3, <1>4, Zenon

LEMMA ScanInv ==
  ASSUME IInv, ScanOn, arbiter.at \in Scanning \ {"idle"},
         UNCHANGED <<header, owner, cur, old, next_id, requests, service, copied>>,
         layout' \in [Page -> Word],
         \A p \in Page : ~layout'[p].part => layout'[p] = FreePage,
         States' = States,
         \A p \in Page : layout'[p] = layout[p] \/ layout[p] = FreePage
  PROVE  IInv'
<1> USE DEF IInv
<1>1. TypeOK'
  BY Zenon DEF TypeOK, ScanOn
<1>2. Held'
  BY Zenon DEF Held, ScanOn, Scanning, Getting, Storing, Target
<1>3. Accounted'
  BY Zenon DEF Accounted, ScanOn, Scanning, Storing, Target
<1>4. Loaded'
  BY Zenon DEF Loaded, ScanOn
<1>5. Headers'
  BY Zenon DEF Headers, Owned, ScanOn, Scanning, Storing, Target
<1>6. Scraping'
  BY Zenon DEF Scraping, Owned, ScanOn, Scanning, Storing, Target
<1>7. Budget'
  <2>1. service.at \in {"cas", "free"} => layout[service.page] # FreePage
    <3>1. service.page \in Page /\ service.idx \in Idx
      BY Zenon DEF TypeOK, Service
    <3>2. service.at \in {"cas", "free"} => States[Target] # "kChunkFree"
      BY Zenon DEF Held, MovingAt
    <3> QED BY <3>1, <3>2, InUse DEF Target, In, FreePage
  <2>2. service.page \in Page
    BY Zenon DEF TypeOK, Service
  <2> QED BY <2>1, <2>2, Zenon DEF Budget, ServiceBudget, ArbiterBudget, ScanOn, Scanning
<1>8. RightfullyAttributed'
  BY Zenon DEF RightfullyAttributed
<1> QED BY <1>1, <1>2, <1>3, <1>4, <1>5, <1>6, <1>7, <1>8, Zenon

(* What the service does while it scrapes changes nothing but itself.      *)
LEMMA ScrapeInv ==
  ASSUME IInv, service' \in Service, service.at \notin MovingAt \cup {"load", "cas"},
         service'.at \in {"idle", "scrape", "count", "writer_id", "chunk_id"},
         UNCHANGED <<layout, header, owner, arbiter, page_idx, cur, old, next_id,
                     requests>>,
         Scraping', copied' \in [writer_id : Writers \cup {NoWriter}, chunk_id : ChunkID,
                                  owner : (Writers \cup {NoWriter}) \X ChunkID],
         RightfullyAttributed'
  PROVE  IInv'
<1> USE DEF IInv
<1>0. States' = States
  BY Zenon DEF States
<1>1. TypeOK'
  BY Zenon DEF TypeOK
<1>2. Held'
  BY <1>0 DEF Held, MovingAt, Taken
<1>3. Accounted'
  BY <1>0, Zenon DEF Accounted, MovingAt, Taken
<1>4. Loaded'
  BY Zenon DEF Loaded
<1>5. Headers'
  BY <1>0, Zenon DEF Headers, Owned, Taken
<1>7. Budget'
  BY <1>0, Zenon DEF Budget, ServiceBudget, ArbiterBudget, Returned
<1> QED BY <1>1, <1>2, <1>3, <1>4, <1>5, <1>7, Zenon

(* The chunks that the parts speak of.                                     *)
LEMMA PlaceFacts ==
  ASSUME TypeOK
  PROVE  /\ Taken \in Chunk /\ Target \in Chunk /\ requests \subseteq Chunk
         /\ \A w \in Writers : cur[w] \in Chunk \cup {NoChunk}
                               /\ old[w] \in Chunk \cup {NoChunk}
         /\ \A i \in service.used : <<service.page, i>> \in Chunk
         /\ service.page \in Page /\ service.idx \in Idx
BY ChunkFacts, Zenon DEF TypeOK, Service, Arbiter, Target, Taken

-----------------------------------------------------------------------------
(* CommitData.                                                             *)

LEMMA CopyType ==
  ASSUME TypeOK, NEW id \in ChunkID, NEW w \in Writers \cup {NoWriter}
  PROVE  /\ NoCopy \in [writer_id : Writers \cup {NoWriter}, chunk_id : ChunkID,
                        owner : (Writers \cup {NoWriter}) \X ChunkID]
         /\ Copied(w, id) \in [writer_id : Writers \cup {NoWriter}, chunk_id : ChunkID,
                               owner : (Writers \cup {NoWriter}) \X ChunkID]
         /\ NoCopy.owner = <<NoCopy.writer_id, NoCopy.chunk_id>>
         /\ Copied(w, id).owner = owner[Target]
         /\ Copied(w, id).writer_id = w /\ Copied(w, id).chunk_id = id
<1>1. 0 \in ChunkID
  BY ABIAssumption DEF ChunkID
<1>2. owner[Target] \in (Writers \cup {NoWriter}) \X ChunkID
  BY PlaceFacts, Zenon DEF TypeOK
<1> QED BY <1>1, <1>2, Zenon DEF NoCopy, Copied

(* The service goes on with the chunk it is moving and loads or copies.    *)
LEMMA MoveOnInv ==
  ASSUME IInv, service' \in Service, Target' = Target,
         \/ service.at \in {"load", "cas"} /\ service'.at \in {"load", "cas"}
         \/ service.at = "copy" /\ service'.at = "clear_writer"
         \/ service.at \in {"release", "free"} /\ service'.at \in {"release", "free"},
         UNCHANGED <<layout, header, owner, arbiter, page_idx, cur, old, next_id,
                     requests>>,
         copied' \in [writer_id : Writers \cup {NoWriter}, chunk_id : ChunkID,
                      owner : (Writers \cup {NoWriter}) \X ChunkID],
         RightfullyAttributed', ServiceBudget',
         service'.at = "cas" => In(service'.seen, service'.idx, "kChunkComplete")
  PROVE  IInv'
<1> USE DEF IInv
<1>0. States' = States /\ Taken' = Taken
  BY Zenon DEF States, Taken
<1>1. TypeOK'
  BY Zenon DEF TypeOK
<1>2. Held'
  BY <1>0 DEF Held, MovingAt
<1>3. Accounted'
  BY <1>0, Zenon DEF Accounted, MovingAt
<1>4. Loaded' /\ Scraping'
  BY Zenon DEF Loaded, Scraping
<1>5. Headers'
  BY <1>0, Zenon DEF Headers, Owned
<1>6. Budget'
  BY <1>0, Zenon DEF Budget, ArbiterBudget, Returned
<1> QED BY <1>1, <1>2, <1>3, <1>4, <1>5, <1>6, Zenon

(* A compare_exchange of the service uses up a failure of the arbiter.     *)
LEMMA ServiceUsesBudget ==
  ASSUME IInv, NEW c \in Chunk, NEW to, UNCHANGED <<arbiter, old>>,
         \/ States[c] = "kChunkComplete" /\ to = "kChunkBeingRead"
         \/ States[c] = "kChunkBeingRead" /\ to = "kChunkFree",
         States' = [States EXCEPT ![c] = to],
         \A p \in Page : p # c[1] => layout'[p] = layout[p]
  PROVE  ArbiterBudget'
<1> USE DEF IInv
<1>1. SUFFICES ASSUME arbiter.at \in {"release", "complete"}
               PROVE  ArbiterBudget'
  BY Zenon DEF ArbiterBudget
<1> DEFINE p == Returned[1]
           i == Returned[2]
<1>2. /\ p \in Page /\ i \in Idx /\ arbiter.attempt \in Nat /\ c # <<p, i>>
      /\ States \in [Chunk -> ChunkState] /\ Returned' = Returned
  <2>1. Returned \in Chunk /\ States[Returned] = "kChunkBeingWritten"
    BY <1>1, PlaceFacts, Zenon DEF Held, Returned
  <2>2. p \in Page /\ i \in Idx /\ Returned = <<p, i>>
    BY <2>1, ChunkFacts, Zenon
  <2>3. arbiter.attempt \in Nat /\ States \in [Chunk -> ChunkState]
    BY StatesType DEF TypeOK, Arbiter
  <2>4. Returned' = Returned
    BY Zenon DEF Returned
  <2>5. States[c] # "kChunkBeingWritten"
    BY Zenon
  <2> HIDE DEF p, i
  <2> QED BY <2>1, <2>2, <2>3, <2>4, <2>5, Zenon
<1> DEFINE before == Cardinality(ByService(States, p, i))
           new == Cardinality(ByService(States', p, i))
<1>3. /\ arbiter.attempt + before <= Most
      /\ arbiter.at = "complete" =>
           layout[p] = arbiter.seen \/ arbiter.attempt + 1 + before <= Most
  BY <1>1, Zenon DEF Budget, ArbiterBudget
<1>4. to \in ChunkState /\ States' \in [Chunk -> ChunkState]
  BY <1>2, Zenon DEF ChunkState
<1> HIDE DEF p, i
<1>5. new <= before /\ (c[1] = p => new + 1 <= before)
  BY <1>2, ServiceUses, Zenon
<1>6. before \in Nat /\ new \in Nat
  BY <1>2, <1>4, ByServiceFacts, Zenon
<1>7. Most \in Int
  BY ABIAssumption DEF Most
<1> HIDE DEF before, new
<1>8. /\ arbiter.attempt + new <= Most
      /\ arbiter.at = "complete" =>
           layout'[p] = arbiter.seen \/ arbiter.attempt + 1 + new <= Most
  BY <1>2, <1>3, <1>5, <1>6, <1>7
<1> QED BY <1>2, <1>8, Zenon DEF ArbiterBudget, new, p, i

(* A fresh attempt may fail as often as there are accesses to come.        *)
LEMMA FreshBudget ==
  ASSUME TypeOK'
  PROVE  0 + Cardinality(ByProducer(States', service'.page, service'.idx)) <= Most
<1>1. States' \in [Chunk -> ChunkState]
  BY ChunkFacts DEF TypeOK, States, Word
<1>2. service'.page \in Page /\ service'.idx \in Idx
  BY Zenon DEF TypeOK, Service
<1> QED BY <1>1, <1>2, ByProducerFacts

LEMMA CommitDataInv ==
  ASSUME IInv, CommitData
  PROVE  IInv'
<1>0. TypeOK /\ service.at = "idle"
  BY Zenon DEF IInv, CommitData, Serve
<1>1. PICK c \in requests :
        /\ service' = [Rest EXCEPT !.at = "load", !.page = c[1], !.idx = c[2]]
        /\ requests' = requests \ {c}
  BY Zenon DEF CommitData
<1>2. /\ UNCHANGED <<layout, header, owner, arbiter, page_idx, cur, old, next_id>>
      /\ copied' = NoCopy /\ States' = States /\ Taken' = Taken
  BY Zenon DEF CommitData, Serve, writerVars, NothingCopied, States, Taken
<1>3. c \in Chunk /\ c[1] \in Page /\ c[2] \in Idx /\ c = <<c[1], c[2]>>
  BY <1>0, PlaceFacts, ChunkFacts, Zenon
<1>4. /\ service' \in Service /\ service'.at = "load" /\ service'.attempt = 0
      /\ service'.page = c[1] /\ service'.idx = c[2]
  BY <1>1, <1>3, IdleFacts, Zenon DEF Service, Rest
<1>5. Target' = c
  BY <1>3, <1>4, Zenon DEF Target
<1>6. RightfullyAttributed'
  BY <1>2, Zenon DEF RightfullyAttributed, NoCopy
<1>7. TypeOK'
  <2>1. 0 \in ChunkID
    BY ABIAssumption DEF ChunkID
  <2> QED BY <1>0, <1>1, <1>2, <1>4, <2>1, Zenon DEF TypeOK, NoCopy
<1>8. Held'
  BY <1>0, <1>1, <1>2, <1>4, <1>5, Zenon DEF IInv, Held, MovingAt
<1>9. Accounted'
  BY <1>0, <1>1, <1>2, <1>4, <1>5, Zenon DEF IInv, Accounted, MovingAt
<1>10. Loaded' /\ Scraping'
  BY <1>2, <1>4, Zenon DEF IInv, Loaded, Scraping
<1>11. Headers'
  BY <1>2, <1>4, Zenon DEF IInv, Headers, Owned
<1>12. Budget'
  BY <1>2, <1>4, <1>7, FreshBudget, Zenon
    DEF IInv, Budget, ServiceBudget, ArbiterBudget, Returned
<1> QED BY <1>6, <1>7, <1>8, <1>9, <1>10, <1>11, <1>12, Zenon DEF IInv

(* What every step of the service leaves alone, and that it copies nothing *)
(* unless it says so.                                                      *)
LEMMA NotCopied ==
  ASSUME TypeOK, NothingCopied
  PROVE  /\ RightfullyAttributed'
         /\ copied' \in [writer_id : Writers \cup {NoWriter}, chunk_id : ChunkID,
                         owner : (Writers \cup {NoWriter}) \X ChunkID]
<1>1. 0 \in ChunkID
  BY ABIAssumption DEF ChunkID
<1> QED BY <1>1, Zenon DEF NothingCopied, NoCopy, RightfullyAttributed

(* The budget is enough for another attempt.                               *)
LEMMA AnotherAttempt ==
  ASSUME IInv, service.at \in {"cas", "free"}, layout[service.page] # service.seen
  PROVE  /\ service.attempt + 1 < RetryAttempts
         /\ service.attempt + 1 \in 0 .. RetryAttempts - 1
         /\ service.attempt + 1
              + Cardinality(ByProducer(States, service.page, service.idx)) <= Most
<1> DEFINE n == Cardinality(ByProducer(States, service.page, service.idx))
<1>1. n \in Nat
  BY PlaceFacts, StatesType, ByProducerFacts, Zenon DEF IInv
<1>2. service.attempt \in Nat
  BY DEF IInv, TypeOK, Service
<1>3. service.attempt + 1 + n <= Most
  BY Zenon DEF IInv, Budget, ServiceBudget
<1> HIDE DEF n
<1>4. service.attempt + 1 < RetryAttempts
      /\ service.attempt + 1 \in 0 .. RetryAttempts - 1
  BY <1>1, <1>2, <1>3, ABIAssumption DEF Most
<1> QED BY <1>3, <1>4, Zenon DEF n

LEMMA LoadCompleteInv ==
  ASSUME IInv, LoadComplete
  PROVE  IInv'
<1>0. /\ TypeOK /\ service \in Service /\ service.at = "load"
      /\ layout[service.page] \in Word /\ service.page \in Page /\ service.idx \in Idx
      /\ States[Target] = "kChunkComplete"
  BY PlaceFacts, Zenon DEF IInv, TypeOK, LoadComplete, Serve, Held
<1>1. In(layout[service.page], service.idx, "kChunkComplete")
  BY <1>0, InUse, Zenon DEF Target
<1>2. /\ service' = [service EXCEPT !.at = "cas", !.seen = layout[service.page]]
      /\ UNCHANGED <<layout, header, owner, arbiter, page_idx, cur, old, next_id,
                     requests>>
      /\ NothingCopied /\ States' = States
  BY <1>1, Zenon DEF LoadComplete, Serve, writerVars, States
<1>3. /\ service' \in Service /\ service'.at = "cas" /\ service'.page = service.page
      /\ service'.idx = service.idx /\ service'.attempt = service.attempt
      /\ service'.seen = layout[service.page] /\ Target' = Target
  BY <1>0, <1>2, Zenon DEF Service, Target
<1>4. ServiceBudget'
  BY <1>0, <1>2, <1>3, Zenon DEF IInv, Budget, ServiceBudget
<1> QED BY <1>0, <1>1, <1>2, <1>3, <1>4, NotCopied, MoveOnInv, Zenon
-----------------------------------------------------------------------------
(* GetNewChunk.                                                            *)

LEMMA GetNewChunkInv ==
  ASSUME IInv, NEW w \in Writers, GetNewChunk(w)
  PROVE  IInv'
<1> USE DEF IInv
<1>0. /\ States' = States /\ arbiter.at = "idle" /\ old[w] = NoChunk
      /\ arbiter' \in Arbiter /\ arbiter'.at = "probe" /\ arbiter'.w = w
      /\ UNCHANGED <<layout, header, owner, page_idx, cur, old, next_id, requests,
                     service, copied>>
  <2>1. /\ arbiter = Idle /\ old[w] = NoChunk
        /\ arbiter' = [Idle EXCEPT !.at = "probe", !.w = w, !.left = NumPages - 1]
        /\ UNCHANGED <<layout, header, owner, page_idx, cur, old, next_id, requests,
                       service, copied>>
    BY Zenon DEF GetNewChunk, Start, writerVars
  <2>2. NumPages - 1 \in 0 .. NumPages - 1
    BY ABIAssumption
  <2>3. /\ arbiter' \in Arbiter /\ arbiter'.at = "probe" /\ arbiter'.w = w
        /\ arbiter.at = "idle"
    BY <2>1, <2>2, IdleFacts, Zenon DEF Arbiter, Idle
  <2> QED BY <2>1, <2>3, Zenon DEF States
<1>1. TypeOK'
  BY <1>0, Zenon DEF TypeOK
<1>2. Held'
  BY <1>0, Zenon DEF Held, Getting, Storing, Target
<1>3. Accounted'
  BY <1>0, Zenon DEF Accounted, Storing, Target
<1>4. Loaded'
  BY <1>0, Zenon DEF Loaded
<1>5. Headers'
  BY <1>0, Zenon DEF Headers, Owned, Storing, Target
<1>6. Scraping'
  BY <1>0, Zenon DEF Scraping, Owned, Storing, Target
<1>7. Budget'
  BY <1>0, Zenon DEF Budget, ServiceBudget, ArbiterBudget
<1> QED BY <1>0, <1>1, <1>2, <1>3, <1>4, <1>5, <1>6, <1>7, Zenon DEF RightfullyAttributed

LEMMA ProbePageInv ==
  ASSUME IInv, ProbePage
  PROVE  IInv'
<1>1. /\ arbiter.at = "probe" /\ States' = States
      /\ UNCHANGED <<layout, header, owner, page_idx, cur, old, next_id, requests,
                     service, copied>>
  BY Zenon DEF ProbePage, InArbiter, writerVars, States
<1>2. ScanOn
  BY <1>1, Zenon DEF IInv, TypeOK, ProbePage, ScanOn, Scanning, Arbiter
<1> QED BY <1>1, <1>2, ScanInv, Zenon DEF Scanning, IInv, TypeOK

LEMMA TryPartitionPageInv ==
  ASSUME IInv, TryPartitionPage
  PROVE  IInv'
<1>0. TypeOK /\ page_idx \in Page /\ arbiter \in Arbiter
  BY Zenon DEF IInv, TypeOK
<1>1. /\ arbiter.at = "partition"
      /\ UNCHANGED <<header, owner, cur, old, next_id, requests, service, copied>>
  BY Zenon DEF TryPartitionPage, InArbiter, writerVars
<1>2. CASE layout[page_idx] = FreePage
  <2>1. layout' = [layout EXCEPT ![page_idx].part = TRUE] /\ TryFree(arbiter, Idx)
    BY <1>2, Zenon DEF TryPartitionPage
  <2>2. /\ layout' \in [Page -> Word] /\ States' = States
        /\ \A q \in Page : ~layout'[q].part => layout'[q] = FreePage
    BY <1>0, <2>1, PartitionStates, Zenon
  <2>3. ScanOn
    BY <1>0, <2>1, TryFreeFacts, Zenon
  <2>4. \A q \in Page : layout'[q] = layout[q] \/ layout[q] = FreePage
    BY <1>0, <1>2, <2>1, Zenon DEF TypeOK
  <2> QED BY <1>1, <2>2, <2>3, <2>4, ScanInv, Zenon DEF Scanning
<1>3. CASE layout[page_idx] # FreePage
  <2>1. /\ arbiter' = [arbiter EXCEPT !.at = "list"]
        /\ UNCHANGED <<layout, page_idx>> /\ States' = States
    BY <1>3, Zenon DEF TryPartitionPage, States
  <2>2. ScanOn
    BY <1>0, <1>1, <2>1, Zenon DEF ScanOn, Scanning, Arbiter
  <2> QED BY <1>0, <1>1, <2>1, <2>2, ScanInv, Zenon DEF Scanning, TypeOK
<1> QED BY <1>2, <1>3, Zenon

LEMMA GetFreeChunksInv ==
  ASSUME IInv, GetFreeChunks
  PROVE  IInv'
<1>1. /\ arbiter.at = "list" /\ States' = States
      /\ UNCHANGED <<layout, header, owner, cur, old, next_id, requests, service,
                     copied>>
      /\ TryFree(arbiter, {i \in Idx : In(layout[page_idx], i, "kChunkFree")})
  BY Zenon DEF GetFreeChunks, InArbiter, writerVars, States
<1>2. ScanOn
  BY <1>1, TryFreeFacts, Zenon DEF IInv
<1> QED BY <1>1, <1>2, ScanInv, Zenon DEF Scanning, IInv, TypeOK

LEMMA LoadFreeInv ==
  ASSUME IInv, LoadFree
  PROVE  IInv'
<1>0. /\ TypeOK /\ page_idx \in Page /\ arbiter \in Arbiter
      /\ layout[page_idx] \in Word /\ arbiter.free \subseteq Idx
  BY Zenon DEF IInv, TypeOK, Arbiter
<1>1. /\ arbiter.at = "load" /\ States' = States
      /\ UNCHANGED <<layout, header, owner, cur, old, next_id, requests, service,
                     copied>>
  BY Zenon DEF LoadFree, InArbiter, writerVars, States
<1>2. ScanOn
  <2>1. CASE In(layout[page_idx], arbiter.idx, "kChunkFree")
    BY <1>0, <1>1, <2>1, Zenon DEF LoadFree, ScanOn, Scanning, Arbiter
  <2>2. CASE ~In(layout[page_idx], arbiter.idx, "kChunkFree")
    BY <1>0, <2>2, TryFreeFacts, Zenon DEF LoadFree
  <2> QED BY <2>1, <2>2, Zenon
<1> QED BY <1>0, <1>1, <1>2, ScanInv, Zenon DEF Scanning, TypeOK

(* A compare_exchange of the arbiter uses up a failure of the service.     *)
LEMMA ProducerBudget ==
  ASSUME IInv, NEW c \in Chunk, NEW to, service' = service,
         \/ States[c] = "kChunkFree" /\ to = "kChunkBeingWritten"
         \/ States[c] = "kChunkBeingWritten" /\ to = "kChunkComplete",
         States' = [States EXCEPT ![c] = to],
         \A p \in Page : p # c[1] => layout'[p] = layout[p]
  PROVE  ServiceBudget'
<1> USE DEF IInv
<1>1. /\ service.page \in Page /\ service.idx \in Idx /\ service.attempt \in Nat
      /\ States \in [Chunk -> ChunkState]
  <2>1. TypeOK /\ service \in Service
    BY Zenon DEF TypeOK
  <2> HIDE DEF IInv
  <2> QED BY <2>1, StatesType DEF Service
<1>2. SUFFICES ASSUME service.at \in {"load", "cas", "release", "free"}
               PROVE  ServiceBudget'
  BY Zenon DEF ServiceBudget
<1>3. c # <<service.page, service.idx>>
  BY <1>2, Zenon DEF Held, MovingAt, Target
<1> DEFINE before == Cardinality(ByProducer(States, service.page, service.idx))
           new == Cardinality(ByProducer(States', service.page, service.idx))
<1>4. new <= before /\ (c[1] = service.page => new + 1 <= before)
  BY <1>1, <1>3, ProducerUses, Zenon
<1>5. to \in ChunkState /\ States' \in [Chunk -> ChunkState]
  BY <1>1, Zenon DEF ChunkState
<1>6. before \in Nat /\ new \in Nat /\ Most \in Int
  <2>1. before \in Nat /\ new \in Nat
    BY <1>1, <1>5, ByProducerFacts, Zenon
  <2>2. Most \in Int
    BY ABIAssumption DEF Most
  <2> QED BY <2>1, <2>2, Zenon
<1>7. /\ service.attempt + before <= Most
      /\ service.at \in {"cas", "free"} =>
           layout[service.page] = service.seen \/ service.attempt + 1 + before <= Most
  BY <1>2, Zenon DEF Budget, ServiceBudget
<1> HIDE DEF before, new
<1>8. /\ service.attempt + new <= Most
      /\ service.at \in {"cas", "free"} =>
           layout'[service.page] = service.seen \/ service.attempt + 1 + new <= Most
  BY <1>1, <1>4, <1>6, <1>7
<1> QED BY <1>8, Zenon DEF ServiceBudget, new

LEMMA AcquireForWritingInv ==
  ASSUME IInv, AcquireForWriting
  PROVE  IInv'
<1> USE DEF IInv
<1>0. /\ page_idx \in Page /\ arbiter \in Arbiter /\ arbiter.idx \in Idx
      /\ layout \in [Page -> Word] /\ arbiter.free \subseteq Idx
      /\ arbiter.attempt \in 0 .. RetryAttempts - 1 /\ Taken \in Chunk
      /\ States \in [Chunk -> ChunkState]
  BY ChunkFacts, StatesType, Zenon DEF TypeOK, Arbiter, Taken
<1>1. /\ arbiter.at = "cas"
      /\ UNCHANGED <<header, cur, old, next_id, requests, service, copied>>
  BY Zenon DEF AcquireForWriting, InArbiter, writerVars
<1>2. CASE layout[page_idx] # arbiter.seen
  <2>1. UNCHANGED <<layout, owner>> /\ States' = States
    BY <1>2, Zenon DEF AcquireForWriting, States
  <2>2. ScanOn
    <3>1. CASE arbiter.attempt + 1 < RetryAttempts
      <4>1. /\ arbiter' = [arbiter EXCEPT !.at = "load", !.attempt = @ + 1,
                                          !.seen = FreePage]
            /\ page_idx' = page_idx
        BY <1>2, <3>1, Zenon DEF AcquireForWriting, MoreAttempts
      <4>2. arbiter.attempt + 1 \in 0 .. RetryAttempts - 1
        BY <1>0, <3>1, ABIAssumption
      <4> QED BY <1>0, <1>1, <4>1, <4>2, IdleFacts, Zenon DEF ScanOn, Scanning, Arbiter
    <3>2. CASE ~(arbiter.attempt + 1 < RetryAttempts)
      BY <1>0, <1>2, <3>2, TryFreeFacts, Zenon DEF AcquireForWriting, MoreAttempts
    <3> QED BY <3>1, <3>2, Zenon
  <2> QED BY <1>1, <2>1, <2>2, ScanInv, Zenon DEF Scanning, TypeOK
<1>3. CASE layout[page_idx] = arbiter.seen
  <2>1. /\ layout' = [layout EXCEPT ![page_idx] =
                         Acquired(@, arbiter.idx, "kChunkBeingWritten")]
        /\ owner' = [owner EXCEPT ![Taken] = <<arbiter.w, next_id[arbiter.w]>>]
        /\ arbiter' = [Idle EXCEPT !.at = "writer_id", !.w = arbiter.w,
                                   !.idx = arbiter.idx]
        /\ page_idx' = page_idx
    BY <1>3, Zenon DEF AcquireForWriting
  <2>2. layout[page_idx].part /\ States[Taken] = "kChunkFree"
    BY <1>0, <1>1, <1>3, InUse, Zenon DEF Loaded, In, Taken
  <2>3. /\ layout' \in [Page -> Word] /\ States' = [States EXCEPT ![Taken] =
                                                     "kChunkBeingWritten"]
        /\ \A q \in Page : ~layout'[q].part => layout'[q] = FreePage
    BY <1>0, <2>1, <2>2, AcquireStates, Zenon DEF Taken, ChunkState
  <2>4. /\ arbiter' \in Arbiter /\ arbiter'.at = "writer_id" /\ arbiter'.w = arbiter.w
        /\ arbiter'.idx = arbiter.idx /\ Taken' = Taken
    BY <1>0, <2>1, IdleFacts, Zenon DEF Arbiter, Idle, Taken
  <2>5. arbiter.w \in Writers /\ next_id[arbiter.w] \in ChunkID
    BY <1>1, Zenon DEF Held, TypeOK
  <2> HIDE DEF IInv
  <2>6. TypeOK'
    BY <1>1, <2>1, <2>3, <2>4, <2>5, Zenon DEF IInv, TypeOK
  <2>13. /\ \A c \in Chunk : c # Taken => States'[c] = States[c]
         /\ States'[Taken] = "kChunkBeingWritten"
         /\ \A w \in Writers : cur[w] # Taken /\ old[w] # Taken
         /\ Taken \notin requests
         /\ service.at \in MovingAt \cup {"load", "cas"} => Target # Taken
         /\ service.at \in {"count", "writer_id", "chunk_id"} =>
              \A i \in service.used : <<service.page, i>> # Taken
    <3>1. \A w \in Writers : cur[w] # Taken /\ old[w] # Taken
      BY <1>0, <2>2, ChunkFacts, Zenon DEF IInv, Held
    <3>2. Taken \notin requests
          /\ (service.at \in MovingAt \cup {"load", "cas"} => Target # Taken)
      BY <2>2, Zenon DEF IInv, Held
    <3>3. service.at \in {"count", "writer_id", "chunk_id"} =>
            \A i \in service.used : <<service.page, i>> # Taken
      BY <2>2, Zenon DEF IInv, Scraping
    <3> QED BY <1>0, <2>3, <3>1, <3>2, <3>3, Zenon
  <2>14. /\ requests \subseteq Chunk /\ Target \in Chunk /\ Target' = Target
         /\ \A w \in Writers : cur[w] \in Chunk \cup {NoChunk}
                               /\ old[w] \in Chunk \cup {NoChunk}
    BY <1>1, ChunkFacts, Zenon DEF IInv, TypeOK, Service, Target
  <2>7. Held'
    <3>1. Held
      BY Zenon DEF IInv
    <3>2. \A w \in Writers :
            /\ cur[w] # NoChunk =>
                 States'[cur[w]] = "kChunkBeingWritten" /\ cur[w] # old[w]
            /\ old[w] # NoChunk => States'[old[w]] = "kChunkBeingWritten"
      BY <2>13, <2>14, <3>1 DEF Held
    <3>3. /\ \A c \in requests : States'[c] = "kChunkComplete"
          /\ service.at \in {"load", "cas"} =>
               States'[Target] = "kChunkComplete" /\ Target \notin requests
          /\ service.at \in MovingAt => States'[Target] = "kChunkBeingRead"
      BY <2>13, <2>14, <3>1, Zenon DEF Held
    <3>4. \A v, w \in Writers : v # w =>
            /\ cur[v] # NoChunk => cur[v] # cur[w] /\ cur[v] # old[w]
            /\ old[v] # NoChunk => old[v] # old[w]
      BY <3>1, Zenon DEF Held
    <3>5. arbiter'.at \notin Getting \ {"writer_id"} /\ old[arbiter.w] = NoChunk
      BY <1>1, <2>4, <3>1, Zenon DEF Held, Getting
    <3> QED BY <1>1, <2>4, <2>5, <2>13, <2>14, <3>2, <3>3, <3>4, <3>5 DEF Held, Getting
  <2>8. Accounted'
    <3>1. Accounted /\ arbiter'.at \in Storing /\ arbiter.at \notin Storing
      BY <1>1, <2>4, Zenon DEF IInv, Storing
    <3> SUFFICES ASSUME NEW c \in Chunk
                 PROVE  /\ States'[c] = "kChunkBeingWritten" =>
                             \/ arbiter'.at \in Storing /\ Taken' = c
                             \/ \E w \in Writers : cur'[w] = c \/ old'[w] = c
                        /\ States'[c] = "kChunkComplete" =>
                             \/ c \in requests'
                             \/ service'.at \in {"load", "cas"} /\ Target' = c
                        /\ States'[c] = "kChunkBeingRead" =>
                             service'.at \in MovingAt /\ Target' = c
      BY Zenon DEF Accounted
    <3>2. CASE c = Taken
      BY <2>4, <2>13, <3>1, <3>2, Zenon
    <3>3. CASE c # Taken
      BY <1>1, <2>13, <2>14, <3>1, <3>3, Zenon DEF Accounted
    <3> QED BY <3>2, <3>3, Zenon
  <2>9. Loaded'
    BY <1>1, <2>4, Zenon DEF IInv, Loaded
  <2>10. Headers'
    <3>1. owner'[Taken] = <<arbiter.w, next_id[arbiter.w]>>
          /\ \A c \in Chunk : c # Taken => owner'[c] = owner[c]
      BY <1>0, <2>1, Zenon DEF IInv, TypeOK
    <3>2. header[Taken].count = 0
      <4>1. header[Taken] = ClearHeader
        BY <1>0, <2>2, Zenon DEF IInv, Headers
      <4> QED BY <4>1 DEF ClearHeader
    <3> QED BY <1>1, <2>4, <2>13, <2>14, <3>1, <3>2, Zenon
          DEF IInv, Headers, Owned, Storing, MovingAt
  <2>11. Scraping'
    BY <1>0, <1>1, <2>1, <2>2, <2>3, <2>4, ChunkFacts
      DEF IInv, TypeOK, Service, Scraping, Owned, Storing, Target
  <2>12. Budget'
    <3>1. \A p \in Page : p # Taken[1] => layout'[p] = layout[p]
      BY <1>0, <2>1, Zenon DEF Taken
    <3> QED BY <1>0, <1>1, <2>2, <2>3, <2>4, <3>1, ProducerBudget, Zenon
          DEF Budget, ArbiterBudget
  <2> QED BY <1>1, <2>6, <2>7, <2>8, <2>9, <2>10, <2>11, <2>12, Zenon
        DEF IInv, RightfullyAttributed
<1> QED BY <1>2, <1>3, Zenon

(* A store to the header of a chunk that is being acquired.                *)
LEMMA StoreInv ==
  ASSUME IInv, arbiter.at \in {"writer_id", "chunk_id"},
         arbiter'.at = IF arbiter.at = "writer_id" THEN "chunk_id" ELSE "packets",
         arbiter' \in Arbiter, arbiter'.w = arbiter.w, arbiter'.idx = arbiter.idx,
         UNCHANGED <<layout, owner, page_idx, cur, old, next_id, requests, service,
                     copied>>,
         header' \in [Chunk -> Header], header'[Taken].count = header[Taken].count,
         \A c \in Chunk : c # Taken => header'[c] = header[c],
         header'[Taken].writer_id = arbiter.w,
         arbiter.at = "chunk_id" => header'[Taken].chunk_id = next_id[arbiter.w]
  PROVE  IInv'
<1> USE DEF IInv
<1>0. States' = States /\ Taken' = Taken /\ Target' = Target
  BY Zenon DEF States, Taken, Target
<1>1. TypeOK'
  BY Zenon DEF TypeOK
<1>2. Held'
  <2>1. Held
    BY Zenon
  <2> HIDE DEF IInv
  <2>2. arbiter.at \in Storing \cap Getting /\ arbiter'.at \in Storing \cap Getting
    BY Zenon DEF Getting, Storing
  <2>3. arbiter'.at # "idle" /\ arbiter'.at \notin {"release", "complete"}
    BY Zenon
  <2>4. arbiter.at # "idle" /\ arbiter.w \in Writers /\ old[arbiter.w] = NoChunk
    BY <2>1, <2>2, Zenon DEF Held
  <2> QED BY <1>0, <2>1, <2>2, <2>3, <2>4 DEF Held
<1>3. Accounted'
  BY <1>0, Zenon DEF Accounted, Storing
<1>4. Loaded'
  BY Zenon DEF Loaded
<1>5. /\ Taken \in Chunk /\ States[Taken] = "kChunkBeingWritten"
      /\ \A w \in Writers : cur[w] # Taken /\ old[w] # Taken
      /\ service.at \in MovingAt => Target # Taken
  BY PlaceFacts, Zenon DEF Held, Storing
<1>6. Headers'
  <2>1. Headers /\ TypeOK
    OBVIOUS
  <2> HIDE DEF IInv
  <2>2. \A c \in Chunk : c # Taken => (Owned(c)' <=> Owned(c)) /\ header'[c] = header[c]
    BY Zenon DEF Owned
  <2>3. /\ \A c \in Chunk : States[c] = "kChunkFree" => header'[c] = ClearHeader
        /\ \A c \in Chunk : States[c] = "kChunkComplete" => Owned(c)'
    BY <1>5, <2>1, <2>2 DEF Headers
  <2>4. \A w \in Writers : /\ cur[w] # NoChunk => Owned(cur[w])'
                           /\ old[w] # NoChunk => Owned(old[w])'
    <3>1. \A w \in Writers : /\ cur[w] # NoChunk => cur[w] \in Chunk /\ Owned(cur[w])
                             /\ old[w] # NoChunk => old[w] \in Chunk /\ Owned(old[w])
      BY <2>1, PlaceFacts, Zenon DEF Headers
    <3> QED BY <1>5, <3>1 DEF Owned
  <2>5. /\ owner'[Taken] = <<arbiter'.w, next_id'[arbiter'.w]>>
        /\ header'[Taken].count = 0 /\ header'[Taken].writer_id = arbiter'.w
        /\ arbiter'.at = "packets" => header'[Taken].chunk_id = next_id'[arbiter'.w]
    BY <2>1 DEF Headers, Storing
  <2>6. service.at \in MovingAt =>
          header'[Target] = header[Target] /\ (Owned(Target) => Owned(Target)')
    BY <1>0, <1>5, <2>1, PlaceFacts DEF Owned
  <2> QED BY <1>0, <2>1, <2>3, <2>4, <2>5, <2>6 DEF Headers, MovingAt
<1>7. Scraping'
  BY <1>0, <1>5, PlaceFacts, Zenon DEF Scraping, Owned, Storing
<1>8. Budget'
  BY <1>0, Zenon DEF Budget, ServiceBudget, ArbiterBudget
<1> QED BY <1>1, <1>2, <1>3, <1>4, <1>6, <1>7, <1>8, Zenon DEF RightfullyAttributed

LEMMA StoreWriterIDInv ==
  ASSUME IInv, StoreWriterID
  PROVE  IInv'
<1>0. TypeOK /\ Taken \in Chunk /\ header \in [Chunk -> Header] /\ arbiter \in Arbiter
  BY PlaceFacts, Zenon DEF IInv, TypeOK
<1>1. /\ arbiter.at = "writer_id"
      /\ header' = [header EXCEPT ![Taken].writer_id = arbiter.w]
      /\ arbiter' = [arbiter EXCEPT !.at = "chunk_id"]
      /\ UNCHANGED <<layout, owner, page_idx, cur, old, next_id, requests, service,
                     copied>>
  BY Zenon DEF StoreWriterID, InArbiter, writerVars
<1>2. /\ arbiter' \in Arbiter /\ arbiter'.w = arbiter.w /\ arbiter'.idx = arbiter.idx
      /\ arbiter'.at = "chunk_id"
  BY <1>0, <1>1, Zenon DEF Arbiter
<1>3. /\ header' \in [Chunk -> Header] /\ header'[Taken].count = header[Taken].count
      /\ header'[Taken].writer_id = arbiter.w
      /\ \A c \in Chunk : c # Taken => header'[c] = header[c]
  BY <1>0, <1>1, Zenon DEF Header, Arbiter
<1> QED BY <1>1, <1>2, <1>3, StoreInv, Zenon

LEMMA StoreChunkIDInv ==
  ASSUME IInv, StoreChunkID
  PROVE  IInv'
<1>0. /\ TypeOK /\ Taken \in Chunk /\ header \in [Chunk -> Header] /\ arbiter \in Arbiter
      /\ arbiter.at = "chunk_id"
      /\ next_id[arbiter.w] \in ChunkID /\ header[Taken].writer_id = arbiter.w
  BY PlaceFacts, Zenon DEF IInv, TypeOK, StoreChunkID, InArbiter, Held, Headers, Storing
<1>1. /\ header' = [header EXCEPT ![Taken].chunk_id = next_id[arbiter.w]]
      /\ arbiter' = [arbiter EXCEPT !.at = "packets"]
      /\ UNCHANGED <<layout, owner, page_idx, cur, old, next_id, requests, service,
                     copied>>
  BY Zenon DEF StoreChunkID, InArbiter, writerVars
<1>2. /\ arbiter' \in Arbiter /\ arbiter'.w = arbiter.w /\ arbiter'.idx = arbiter.idx
      /\ arbiter'.at = "packets"
  BY <1>0, <1>1, Zenon DEF Arbiter
<1>3. /\ header' \in [Chunk -> Header] /\ header'[Taken].count = header[Taken].count
      /\ header'[Taken].writer_id = header[Taken].writer_id
      /\ header'[Taken].chunk_id = next_id[arbiter.w]
      /\ \A c \in Chunk : c # Taken => header'[c] = header[c]
  BY <1>0, <1>1, Zenon DEF Header
<1> QED BY <1>0, <1>1, <1>2, <1>3, StoreInv, Zenon

LEMMA StorePacketsInv ==
  ASSUME IInv, StorePackets
  PROVE  IInv'
<1> DEFINE w == arbiter.w
<1>0. /\ TypeOK /\ Taken \in Chunk /\ header \in [Chunk -> Header] /\ arbiter \in Arbiter
      /\ arbiter.at = "packets" /\ w \in Writers /\ old[w] = NoChunk
      /\ cur \in [Writers -> Chunk \cup {NoChunk}]
      /\ old \in [Writers -> Chunk \cup {NoChunk}] /\ next_id \in [Writers -> ChunkID]
  BY PlaceFacts, Zenon DEF IInv, TypeOK, StorePackets, InArbiter, Held, Getting
<1>1. PICK count \in {0, 1} : header' = [header EXCEPT ![Taken].count = count]
  BY Zenon DEF StorePackets
<1>2. /\ arbiter' = Idle /\ cur' = [cur EXCEPT ![w] = Taken]
      /\ old' = [old EXCEPT ![w] = cur[w]]
      /\ next_id' = [next_id EXCEPT ![w] = IF @ = MaxChunkID THEN 0 ELSE @ + 1]
      /\ UNCHANGED <<layout, owner, page_idx, requests, service, copied>>
      /\ States' = States /\ Target' = Target
  BY Zenon DEF StorePackets, InArbiter, States, Target
<1>3. /\ header' \in [Chunk -> Header]
      /\ header'[Taken].writer_id = header[Taken].writer_id
      /\ header'[Taken].chunk_id = header[Taken].chunk_id
      /\ \A c \in Chunk : c # Taken => header'[c] = header[c]
  <2>1. count \in 0 .. MaxCount
    BY ABIAssumption
  <2> QED BY <1>0, <1>1, <2>1, Zenon DEF Header
<1>4. /\ arbiter' \in Arbiter /\ arbiter'.at = "idle"
      /\ next_id' \in [Writers -> ChunkID]
  <2>1. arbiter' \in Arbiter /\ arbiter'.at = "idle"
    BY <1>2, IdleFacts, Zenon
  <2>2. (IF next_id[w] = MaxChunkID THEN 0 ELSE next_id[w] + 1) \in ChunkID
    BY <1>0, ABIAssumption DEF ChunkID
  <2> QED BY <1>0, <1>2, <2>1, <2>2, Zenon
<1>5. /\ States[Taken] = "kChunkBeingWritten" /\ Owned(Taken)
      /\ \A v \in Writers : cur[v] # Taken /\ old[v] # Taken
      /\ service.at \in MovingAt => Target # Taken
  BY <1>0, Zenon DEF IInv, Held, Headers, Owned, Storing
<1>6. /\ cur'[w] = Taken /\ old'[w] = cur[w]
      /\ \A v \in Writers : v # w => cur'[v] = cur[v] /\ old'[v] = old[v]
  BY <1>0, <1>2, Zenon
<1>7. TypeOK'
  BY <1>0, <1>2, <1>3, <1>4, Zenon DEF TypeOK
<1>8. Held'
  <2>1. Held
    BY Zenon DEF IInv
  <2> DEFINE Holds(v) ==
        /\ cur'[v] # NoChunk =>
             States[cur'[v]] = "kChunkBeingWritten" /\ cur'[v] # old'[v]
        /\ old'[v] # NoChunk => States[old'[v]] = "kChunkBeingWritten"
  <2>2. ASSUME NEW v \in Writers
        PROVE  Holds(v)
    <3>1. CASE v = w
      BY <1>5, <1>6, <2>1, <3>1 DEF Held
    <3>2. CASE v # w
      BY <1>6, <2>1, <3>2 DEF Held
    <3> QED BY <3>1, <3>2, Zenon
  <2> DEFINE Apart(v, u) ==
        /\ cur'[v] # NoChunk => cur'[v] # cur'[u] /\ cur'[v] # old'[u]
        /\ old'[v] # NoChunk => old'[v] # old'[u]
  <2>3. ASSUME NEW v \in Writers, NEW u \in Writers, v # u
        PROVE  Apart(v, u)
    <3>1. CASE v = w
      BY <1>5, <1>6, <2>1, <2>3, <3>1 DEF Held
    <3>2. CASE u = w
      BY <1>5, <1>6, <2>1, <2>3, <3>2 DEF Held
    <3>3. CASE v # w /\ u # w
      BY <1>6, <2>1, <2>3, <3>3 DEF Held
    <3> QED BY <3>1, <3>2, <3>3, Zenon
  <2>4. /\ \A c \in requests : States[c] = "kChunkComplete"
        /\ service.at \in {"load", "cas"} =>
             States[Target] = "kChunkComplete" /\ Target \notin requests
        /\ service.at \in MovingAt => States[Target] = "kChunkBeingRead"
    BY <2>1, Zenon DEF Held
  <2> QED BY <1>2, <1>4, <2>2, <2>3, <2>4 DEF Held, Getting, Storing
<1>9. Accounted'
  BY <1>0, <1>2, <1>4, <1>6, ChunkFacts DEF IInv, Accounted, Storing
<1>10. Headers'
  <2>1. \A c \in Chunk : Owned(c) => Owned(c)'
    BY <1>2, <1>3, Zenon DEF Owned
  <2>2. \A c \in Chunk : /\ (States[c] = "kChunkFree")' => header'[c] = ClearHeader
                         /\ (States[c] = "kChunkComplete")' => Owned(c)'
    BY <1>2, <1>3, <1>5, <2>1, Zenon DEF IInv, Headers
  <2>3. \A v \in Writers : /\ cur'[v] # NoChunk => (Owned(cur[v]))'
                           /\ old'[v] # NoChunk => (Owned(old[v]))'
    <3>1. owner'[Taken] = <<header'[Taken].writer_id, header'[Taken].chunk_id>>
      BY <1>2, <1>3, <1>5, Zenon DEF Owned
    <3>2. \A v \in Writers : /\ cur[v] # NoChunk => cur[v] \in Chunk /\ Owned(cur[v])
                             /\ old[v] # NoChunk => old[v] \in Chunk /\ Owned(old[v])
      BY <1>0, Zenon DEF IInv, Headers
    <3>3. \A c \in Chunk : Owned(c) =>
            owner'[c] = <<header'[c].writer_id, header'[c].chunk_id>>
      BY <2>1, Zenon DEF Owned
    <3> SUFFICES ASSUME NEW v \in Writers
                 PROVE  /\ cur'[v] # NoChunk => (Owned(cur[v]))'
                        /\ old'[v] # NoChunk => (Owned(old[v]))'
      BY Zenon
    <3>4. CASE v = w
      BY <1>6, <3>1, <3>2, <3>3, <3>4, Zenon DEF Owned
    <3>5. CASE v # w
      BY <1>6, <3>2, <3>3, <3>5, Zenon DEF Owned
    <3> QED BY <3>4, <3>5, Zenon
  <2>4. service.at \in MovingAt => header'[Target] = header[Target] /\ Target \in Chunk
    BY <1>0, <1>3, <1>5, PlaceFacts, Zenon
  <2> QED BY <1>2, <1>4, <2>1, <2>2, <2>3, <2>4, Zenon DEF IInv, Headers, Storing, MovingAt
<1>11. Scraping'
  BY <1>0, <1>2, <1>3, <1>4, PlaceFacts, Zenon DEF IInv, Scraping, Owned, Storing
<1>12. Loaded' /\ Budget'
  BY <1>2, <1>4, Zenon DEF IInv, Loaded, Budget, ServiceBudget, ArbiterBudget
<1> QED BY <1>2, <1>7, <1>8, <1>9, <1>10, <1>11, <1>12, Zenon DEF IInv, RightfullyAttributed
-----------------------------------------------------------------------------
(* A writer, and the release of its chunk.                                 *)

LEMMA IncrementPacketCountInv ==
  ASSUME IInv, NEW w \in Writers, IncrementPacketCount(w)
  PROVE  IInv'
<1>0. /\ TypeOK /\ cur[w] \in Chunk /\ header \in [Chunk -> Header]
      /\ States[cur[w]] = "kChunkBeingWritten" /\ cur[w] # NoChunk
      /\ ~(arbiter.at \in Storing /\ Taken = cur[w])
  BY PlaceFacts, Zenon DEF IInv, TypeOK, IncrementPacketCount, Held
<1>1. /\ header' = [header EXCEPT ![cur[w]].count = @ + 1]
      /\ header[cur[w]].count < MaxCount
      /\ UNCHANGED <<layout, owner, arbiter, page_idx, cur, old, next_id, requests,
                     service, copied>>
      /\ States' = States /\ Target' = Target /\ Taken' = Taken
  BY Zenon DEF IncrementPacketCount, writerVars, States, Target, Taken
<1>2. /\ header' \in [Chunk -> Header]
      /\ \A c \in Chunk : /\ header'[c].writer_id = header[c].writer_id
                          /\ header'[c].chunk_id = header[c].chunk_id
                          /\ c # cur[w] => header'[c] = header[c]
  <2>1. header[cur[w]].count + 1 \in 0 .. MaxCount
    BY <1>0, <1>1, ABIAssumption DEF Header
  <2> QED BY <1>0, <1>1, <2>1, Zenon DEF Header
<1>3. TypeOK'
  BY <1>0, <1>1, <1>2, Zenon DEF TypeOK
<1>4. Held' /\ Accounted' /\ Loaded'
  BY <1>1 DEF IInv, Held, Accounted, Loaded
<1>5. Headers'
  <2>1. \A c \in Chunk : Owned(c) => Owned(c)'
    BY <1>1, <1>2, Zenon DEF Owned
  <2>2. \A c \in Chunk : /\ (States[c] = "kChunkFree")' => header'[c] = ClearHeader
                         /\ (States[c] = "kChunkComplete")' => Owned(c)'
    BY <1>0, <1>1, <1>2, <2>1, Zenon DEF IInv, Headers
  <2>3. \A v \in Writers : /\ cur'[v] # NoChunk => (Owned(cur[v]))'
                           /\ old'[v] # NoChunk => (Owned(old[v]))'
    BY <1>0, <1>1, <2>1, Zenon DEF IInv, TypeOK, Headers, Owned
  <2>4. /\ service.at \in MovingAt => header'[Target] = header[Target] /\ Target \in Chunk
        /\ arbiter.at \in Storing => header'[Taken] = header[Taken]
    BY <1>0, <1>2, PlaceFacts, Zenon DEF IInv, Held, MovingAt
  <2> QED BY <1>1, <2>1, <2>2, <2>3, <2>4, Zenon DEF IInv, Headers, Storing, MovingAt
<1>6. Scraping'
  BY <1>0, <1>1, <1>2, PlaceFacts, Zenon DEF IInv, Scraping, Owned
<1>7. Budget'
  BY <1>1, Zenon DEF IInv, Budget, ServiceBudget, ArbiterBudget, Returned
<1> QED BY <1>1, <1>3, <1>4, <1>5, <1>6, <1>7, Zenon DEF IInv, RightfullyAttributed

LEMMA FlushInv ==
  ASSUME IInv, NEW w \in Writers, Flush(w)
  PROVE  IInv'
<1>0. /\ TypeOK /\ cur[w] # NoChunk /\ old[w] = NoChunk /\ arbiter.w # w
      /\ cur \in [Writers -> Chunk \cup {NoChunk}]
      /\ old \in [Writers -> Chunk \cup {NoChunk}]
  BY Zenon DEF IInv, TypeOK, Flush
<1>1. /\ cur' = [cur EXCEPT ![w] = NoChunk] /\ old' = [old EXCEPT ![w] = cur[w]]
      /\ UNCHANGED <<layout, header, owner, arbiter, page_idx, next_id, requests,
                     service, copied>>
      /\ States' = States /\ Target' = Target /\ Taken' = Taken
  BY Zenon DEF Flush, States, Target, Taken
<1>2. /\ cur'[w] = NoChunk /\ old'[w] = cur[w]
      /\ \A v \in Writers : v # w => cur'[v] = cur[v] /\ old'[v] = old[v]
  BY <1>0, <1>1, Zenon
<1>3. TypeOK'
  BY <1>0, <1>1, Zenon DEF TypeOK
<1>4. Held'
  <2>1. Held
    BY Zenon DEF IInv
  <2>2. \A v \in Writers :
          /\ (cur[v] # NoChunk)' => (States[cur[v]] = "kChunkBeingWritten")'
                                    /\ (cur[v] # old[v])'
          /\ (old[v] # NoChunk)' => (States[old[v]] = "kChunkBeingWritten")'
    <3> TAKE v \in Writers
    <3>1. CASE v = w
      BY <1>0, <1>1, <1>2, <2>1, <3>1 DEF Held
    <3>2. CASE v # w
      BY <1>1, <1>2, <2>1, <3>2 DEF Held
    <3> QED BY <3>1, <3>2, Zenon
  <2>3. \A v, u \in Writers : v # u =>
          /\ (cur[v] # NoChunk)' => (cur[v] # cur[u] /\ cur[v] # old[u])'
          /\ (old[v] # NoChunk)' => (old[v] # old[u])'
    <3> TAKE v, u \in Writers
    <3>1. CASE v = w
      BY <1>0, <1>2, <2>1, <3>1 DEF Held
    <3>2. CASE u = w
      BY <1>0, <1>2, <2>1, <3>2 DEF Held
    <3>3. CASE v # w /\ u # w
      BY <1>2, <2>1, <3>3 DEF Held
    <3> QED BY <3>1, <3>2, <3>3, Zenon
  <2>4. arbiter.at \in Storing =>
          \A v \in Writers : cur'[v] # Taken /\ old'[v] # Taken
    BY <1>0, <1>2, <2>1, ChunkFacts, PlaceFacts DEF Held
  <2>5. /\ arbiter.at \in Getting => old'[arbiter.w] = NoChunk
        /\ arbiter.at \in {"release", "complete"} => old'[arbiter.w] # NoChunk
    BY <1>0, <1>2, <2>1, Zenon DEF Held, Getting
  <2> QED BY <1>1, <2>1, <2>2, <2>3, <2>4, <2>5 DEF Held
<1>5. Accounted'
  BY <1>0, <1>1, <1>2, ChunkFacts DEF IInv, Accounted
<1>6. Headers'
  BY <1>0, <1>1, <1>2, Zenon DEF IInv, Headers, Owned
<1>7. Loaded' /\ Scraping'
  BY <1>1, Zenon DEF IInv, Loaded, Scraping, Owned
<1>8. Budget'
  <2>1. arbiter.at \in {"release", "complete"} => Returned' = Returned
    BY <1>0, <1>1, <1>2 DEF IInv, Held, Returned
  <2> QED BY <1>1, <2>1, Zenon DEF IInv, Budget, ServiceBudget, ArbiterBudget
<1> QED BY <1>1, <1>3, <1>4, <1>5, <1>6, <1>7, <1>8, Zenon DEF IInv, RightfullyAttributed

(* The arbiter turns to a chunk that is to be released, or loads the word. *)
LEMMA ReleasingInv ==
  ASSUME IInv, arbiter' \in Arbiter, arbiter'.w \in Writers, old[arbiter'.w] # NoChunk,
         arbiter.at \in {"idle", "release"}, arbiter'.at \in {"release", "complete"},
         UNCHANGED <<layout, header, owner, page_idx, cur, old, next_id, requests,
                     service, copied>>,
         ArbiterBudget'
  PROVE  IInv'
<1> USE DEF IInv
<1>0. States' = States /\ Target' = Target
  BY Zenon DEF States, Target
<1>1. TypeOK'
  BY Zenon DEF TypeOK
<1>2. Held'
  BY <1>0, Zenon DEF Held, Getting, Storing
<1>3. Accounted' /\ Loaded'
  BY <1>0, Zenon DEF Accounted, Loaded, Storing
<1>4. Headers' /\ Scraping'
  BY <1>0, Zenon DEF Headers, Scraping, Owned, Storing
<1>5. Budget'
  BY <1>0, Zenon DEF Budget, ServiceBudget
<1> QED BY <1>1, <1>2, <1>3, <1>4, <1>5, Zenon DEF RightfullyAttributed

LEMMA ReturnCompletedChunkInv ==
  ASSUME IInv, NEW w \in Writers, ReturnCompletedChunk(w)
  PROVE  IInv'
<1>1. /\ arbiter = Idle /\ old[w] # NoChunk /\ States' = States
      /\ arbiter' = [Idle EXCEPT !.at = "release", !.w = w]
      /\ UNCHANGED <<layout, header, owner, page_idx, cur, old, next_id, requests,
                     service, copied>>
  BY Zenon DEF ReturnCompletedChunk, Start, writerVars, States
<1>2. /\ arbiter.at = "idle" /\ arbiter'.at = "release" /\ arbiter'.w = w
      /\ arbiter'.attempt = 0 /\ arbiter' \in Arbiter
  BY <1>1, IdleFacts, Zenon DEF Idle, Arbiter
<1>3. old[w] \in Chunk /\ old[w][1] \in Page /\ old[w][2] \in Idx
      /\ States \in [Chunk -> ChunkState]
  BY <1>1, PlaceFacts, ChunkFacts, StatesType, Zenon DEF IInv
<1>4. /\ Cardinality(ByService(States, old[w][1], old[w][2])) \in Nat
      /\ Cardinality(ByService(States, old[w][1], old[w][2])) <= Most
  BY <1>3, ByServiceFacts, Zenon
<1>5. ArbiterBudget'
  BY <1>1, <1>2, <1>4 DEF ArbiterBudget, Returned
<1> QED BY <1>1, <1>2, <1>5, ReleasingInv, Zenon

LEMMA LoadWrittenInv ==
  ASSUME IInv, LoadWritten
  PROVE  IInv'
<1>0. /\ TypeOK /\ arbiter \in Arbiter /\ arbiter.at = "release"
      /\ arbiter.w \in Writers /\ old[arbiter.w] # NoChunk
  BY Zenon DEF IInv, TypeOK, LoadWritten, InArbiter, Held
<1>1. /\ arbiter' = [arbiter EXCEPT !.at = "complete", !.seen = layout[Returned[1]]]
      /\ UNCHANGED <<layout, header, owner, page_idx, cur, old, next_id, requests,
                     service, copied>>
      /\ States' = States
  BY Zenon DEF LoadWritten, InArbiter, writerVars, States
<1>2. Returned \in Chunk /\ Returned[1] \in Page /\ layout[Returned[1]] \in Word
  BY <1>0, PlaceFacts, ChunkFacts, Zenon DEF Returned, TypeOK
<1>3. /\ arbiter' \in Arbiter /\ arbiter'.at = "complete" /\ arbiter'.w = arbiter.w
      /\ arbiter'.attempt = arbiter.attempt /\ arbiter'.seen = layout[Returned[1]]
      /\ Returned' = Returned
  BY <1>0, <1>1, <1>2, Zenon DEF Arbiter, Returned
<1>4. ArbiterBudget'
  BY <1>0, <1>1, <1>3, Zenon DEF IInv, Budget, ArbiterBudget
<1> QED BY <1>0, <1>1, <1>3, <1>4, ReleasingInv, Zenon

LEMMA ReleaseChunkAsCompleteInv ==
  ASSUME IInv, ReleaseChunkAsComplete
  PROVE  IInv'
<1> DEFINE w == arbiter.w
           c == Returned
<1>0. /\ TypeOK /\ arbiter \in Arbiter /\ arbiter.at = "complete"
      /\ w \in Writers /\ old[w] # NoChunk /\ arbiter.attempt \in Nat
      /\ old \in [Writers -> Chunk \cup {NoChunk}] /\ c = old[w]
  BY DEF IInv, TypeOK, ReleaseChunkAsComplete, InArbiter, Held, Arbiter, Returned
<1>1. /\ c \in Chunk /\ c[1] \in Page /\ c[2] \in Idx /\ c = <<c[1], c[2]>>
      /\ States[c] = "kChunkBeingWritten" /\ States \in [Chunk -> ChunkState]
  BY <1>0, PlaceFacts, ChunkFacts, StatesType, Zenon DEF IInv, Held
<1>2. UNCHANGED <<header, owner, page_idx, cur, next_id, service, copied>>
  BY Zenon DEF ReleaseChunkAsComplete, InArbiter
<1>3. CASE layout[c[1]] # arbiter.seen
  <2> DEFINE n == Cardinality(ByService(States, c[1], c[2]))
  <2>1. n \in Nat /\ arbiter.attempt + 1 + n <= Most
    BY <1>0, <1>1, <1>3, ByServiceFacts, Zenon DEF IInv, Budget, ArbiterBudget
  <2>2. arbiter.attempt + 1 < RetryAttempts
        /\ arbiter.attempt + 1 \in 0 .. RetryAttempts - 1
    <3> HIDE DEF n
    <3> QED BY <1>0, <2>1, ABIAssumption DEF Most
  <2>3. /\ arbiter' = [arbiter EXCEPT !.at = "release", !.attempt = @ + 1,
                                      !.seen = FreePage]
        /\ UNCHANGED <<layout, requests, old>> /\ States' = States
    BY <1>3, <2>2, Zenon DEF ReleaseChunkAsComplete, MoreAttempts, States
  <2>4. /\ arbiter' \in Arbiter /\ arbiter'.at = "release" /\ arbiter'.w = w
        /\ arbiter'.attempt = arbiter.attempt + 1 /\ Returned' = c
    BY <1>0, <2>2, <2>3, IdleFacts, Zenon DEF Arbiter, Returned
  <2>5. ArbiterBudget'
    BY <2>1, <2>3, <2>4, Zenon DEF ArbiterBudget
  <2>6. TypeOK'
    BY <1>2, <2>3, <2>4, Zenon DEF IInv, TypeOK
  <2>7. Target' = Target
    BY <1>2, Zenon DEF Target
  <2>8. Held'
    BY <1>0, <1>2, <2>3, <2>4, <2>7, Zenon DEF IInv, Held, Getting, Storing
  <2>9. Accounted' /\ Loaded'
    BY <1>0, <1>2, <2>3, <2>4, <2>7, Zenon DEF IInv, Accounted, Loaded, Storing
  <2>10. Headers' /\ Scraping'
    BY <1>0, <1>2, <2>3, <2>4, <2>7, Zenon DEF IInv, Headers, Scraping, Owned, Storing
  <2>11. Budget'
    BY <1>2, <2>3, <2>5, Zenon DEF IInv, Budget, ServiceBudget
  <2> QED BY <1>2, <2>6, <2>8, <2>9, <2>10, <2>11, Zenon DEF IInv, RightfullyAttributed
<1>4. CASE layout[c[1]] = arbiter.seen
  <2>1. /\ layout' = [layout EXCEPT ![c[1]] = Released(@, c[2], "kChunkComplete")]
        /\ requests' = requests \cup {c} /\ arbiter' = Idle
        /\ old' = [old EXCEPT ![w] = NoChunk]
    BY <1>4, Zenon DEF ReleaseChunkAsComplete
  <2>2. layout[c[1]].part
    BY <1>0, <1>1, InUse, Zenon DEF In
  <2>3. /\ layout' \in [Page -> Word]
        /\ States' = [States EXCEPT ![c] = "kChunkComplete"]
        /\ \A q \in Page : ~layout'[q].part => layout'[q] = FreePage
    <3>1. "kChunkComplete" \in ChunkState
      BY Zenon DEF ChunkState
    <3>2. /\ layout' \in [Page -> Word]
          /\ States' = [States EXCEPT ![<<c[1], c[2]>>] = "kChunkComplete"]
          /\ \A q \in Page : ~layout'[q].part => layout'[q] = FreePage
      <4> DEFINE p == c[1]
                 i == c[2]
      <4>1. /\ p \in Page /\ i \in Idx /\ layout[p].part
            /\ layout' = [layout EXCEPT ![p] = Released(@, i, "kChunkComplete")]
        BY <1>1, <2>1, <2>2, Zenon
      <4> HIDE DEF p, i
      <4>2. /\ layout' \in [Page -> Word]
            /\ States' = [States EXCEPT ![<<p, i>>] = "kChunkComplete"]
            /\ \A q \in Page : ~layout'[q].part => layout'[q] = FreePage
        BY <1>0, <4>1, <3>1, ReleaseStates, Zenon
      <4> QED BY <4>2, Zenon DEF p, i
    <3> HIDE DEF c
    <3> QED BY <1>1, <3>2, Zenon
  <2>4. /\ arbiter' \in Arbiter /\ arbiter'.at = "idle" /\ Target' = Target
    BY <1>2, <2>1, IdleFacts, Zenon DEF Target
  <2>5. /\ old'[w] = NoChunk /\ \A v \in Writers : v # w => old'[v] = old[v]
        /\ \A d \in Chunk : d # c => States'[d] = States[d]
        /\ States'[c] = "kChunkComplete"
    BY <1>0, <1>1, <2>1, <2>3, Zenon
  <2>6. /\ \A v \in Writers : cur[v] # c /\ (v # w => old[v] # c)
        /\ service.at \in MovingAt \cup {"load", "cas"} => Target # c
        /\ Owned(c)
    BY <1>0, <1>1, ChunkFacts, Zenon DEF IInv, Held, Headers
  <2>7. TypeOK'
    BY <1>0, <1>1, <1>2, <2>1, <2>3, <2>4, Zenon DEF IInv, TypeOK
  <2>8. Held'
    <3>1. Held /\ w \in Writers /\ c \in Chunk /\ requests' = requests \cup {c}
      BY <1>0, <1>1, <2>1, Zenon DEF IInv
    <3>2. arbiter' = Idle /\ arbiter'.at = "idle"
      BY <2>1, <2>4, Zenon
    <3>3. /\ \A v \in Writers : old'[v] # NoChunk => v # w /\ old'[v] = old[v]
          /\ cur' = cur /\ service' = service /\ Target' = Target
      BY <1>2, <2>4, <2>5, Zenon
    <3>4. /\ \A d \in Chunk : States[d] = "kChunkBeingWritten" /\ d # c =>
               States'[d] = "kChunkBeingWritten"
          /\ \A d \in Chunk : States[d] = "kChunkComplete" => States'[d] = "kChunkComplete"
          /\ \A d \in Chunk : States[d] = "kChunkBeingRead" => States'[d] = "kChunkBeingRead"
      BY <1>1, <2>5, Zenon
    <3>5. /\ \A v \in Writers : /\ cur[v] # NoChunk => cur[v] \in Chunk
                               /\ old[v] # NoChunk => old[v] \in Chunk
          /\ requests \subseteq Chunk /\ Target \in Chunk
      BY <1>0, PlaceFacts, Zenon
    <3> HIDE DEF c, w
    <3>6. /\ \A v \in Writers : cur'[v] # NoChunk =>
               States'[cur'[v]] = "kChunkBeingWritten" /\ cur'[v] # old'[v]
          /\ \A v \in Writers : old'[v] # NoChunk => States'[old'[v]] = "kChunkBeingWritten"
      <4>1. /\ \A v \in Writers : cur[v] # NoChunk =>
                 States[cur[v]] = "kChunkBeingWritten" /\ cur[v] # old[v]
            /\ \A v \in Writers : old[v] # NoChunk => States[old[v]] = "kChunkBeingWritten"
        BY <3>1, Zenon DEF Held
      <4>2. \A v \in Writers : cur[v] # c /\ (v # w => old[v] # c)
        BY <2>6, Zenon
      <4>3. \A v \in Writers : old'[v] = NoChunk \/ old'[v] = old[v]
        BY <3>3, Zenon
      <4>4. ASSUME NEW v \in Writers, cur[v] # NoChunk
            PROVE  States'[cur[v]] = "kChunkBeingWritten" /\ cur[v] # old'[v]
        <5> DEFINE d == cur[v]
        <5>1. d \in Chunk /\ States[d] = "kChunkBeingWritten" /\ d # c /\ d # old[v]
          <6>1. cur \in [Writers -> Chunk \cup {NoChunk}]
            BY <1>0, Zenon DEF TypeOK
          <6> QED BY <1>1, <3>5, <4>1, <4>2, <4>4, <6>1, Zenon
        <5> HIDE DEF d
        <5>2. States'[d] = "kChunkBeingWritten"
          BY <3>4, <5>1, Zenon
        <5>3. d # old'[v]
          BY <3>5, <4>3, <4>4, <5>1, Zenon DEF d
        <5> QED BY <5>2, <5>3, Zenon DEF d
      <4>5. ASSUME NEW v \in Writers, old'[v] # NoChunk
            PROVE  States'[old'[v]] = "kChunkBeingWritten"
        <5>1. v # w /\ old'[v] = old[v]
          BY <3>3, <4>5, Zenon
        <5> DEFINE d == old[v]
        <5>2. d \in Chunk /\ States[d] = "kChunkBeingWritten" /\ d # c
          BY <1>0, <1>1, <3>5, <4>1, <4>2, <4>5, <5>1, Zenon
        <5> HIDE DEF d
        <5>3. States'[d] = "kChunkBeingWritten"
          BY <3>4, <5>2, Zenon
        <5> QED BY <5>1, <5>3, Zenon DEF d
      <4> QED BY <3>3, <4>4, <4>5, Zenon
    <3>7. /\ \A v, u \in Writers : v # u /\ cur'[v] # NoChunk =>
               cur'[v] # cur'[u] /\ cur'[v] # old'[u]
          /\ \A v, u \in Writers : v # u /\ old'[v] # NoChunk => old'[v] # old'[u]
      <4>1. \A v, u \in Writers : v # u =>
              /\ cur[v] # NoChunk => cur[v] # cur[u] /\ cur[v] # old[u]
              /\ old[v] # NoChunk => old[v] # old[u]
        BY <3>1 DEF Held
      <4>2. \A v \in Writers : old'[v] = NoChunk \/ old'[v] = old[v]
        BY <3>3, Zenon
      <4> QED BY <3>3, <4>1, <4>2, Zenon
    <3>8. /\ \A d \in requests' : States'[d] = "kChunkComplete"
          /\ service'.at \in {"load", "cas"} =>
               States'[Target'] = "kChunkComplete" /\ Target' \notin requests'
          /\ service'.at \in MovingAt => States'[Target'] = "kChunkBeingRead"
      BY <2>5, <2>6, <3>1, <3>3, <3>4, <3>5 DEF Held
    <3> QED BY <3>2, <3>6, <3>7, <3>8, Zenon DEF Held, Getting, Storing
  <2>9. Accounted'
    <3>1. Accounted /\ arbiter.at \notin Storing /\ requests' = requests \cup {c}
      BY <1>0, <2>1, Zenon DEF IInv, Storing
    <3>4. \A v \in Writers : old[v] # c => old'[v] = old[v]
      BY <1>0, <2>5, Zenon
    <3> HIDE DEF c, w
    <3> SUFFICES ASSUME NEW d \in Chunk
                 PROVE  /\ States'[d] = "kChunkBeingWritten" =>
                             \/ arbiter'.at \in Storing /\ Taken' = d
                             \/ \E v \in Writers : cur'[v] = d \/ old'[v] = d
                        /\ States'[d] = "kChunkComplete" =>
                             \/ d \in requests'
                             \/ service'.at \in {"load", "cas"} /\ Target' = d
                        /\ States'[d] = "kChunkBeingRead" =>
                             service'.at \in MovingAt /\ Target' = d
      BY Zenon DEF Accounted
    <3>2. CASE d = c
      BY <2>5, <3>1, <3>2, Zenon
    <3>3. CASE d # c
      <4>1. States'[d] = States[d] /\ cur' = cur /\ service' = service
            /\ Target' = Target /\ (d \in requests => d \in requests')
        BY <1>1, <1>2, <2>4, <2>5, <3>1, <3>3
      <4>2. States[d] = "kChunkBeingWritten" =>
              \E v \in Writers : cur[v] = d \/ old[v] = d
        BY <3>1, Zenon DEF Accounted
      <4>3. States[d] = "kChunkBeingWritten" =>
              \E v \in Writers : cur[v] = d \/ old'[v] = d
        BY <3>3, <3>4, <4>2, Zenon
      <4> QED BY <3>1, <4>1, <4>3, Zenon DEF Accounted
    <3> QED BY <3>2, <3>3, Zenon
  <2>10. Headers'
    <3>1. Headers
      BY Zenon DEF IInv
    <3>2. /\ arbiter'.at \notin Storing /\ owner' = owner
          /\ header' = header /\ cur' = cur /\ service' = service /\ Target' = Target
          /\ \A v \in Writers : old'[v] # NoChunk => old'[v] = old[v]
      BY <1>2, <2>4, <2>5, Zenon DEF Storing
    <3>3. /\ \A v \in Writers : /\ cur[v] # NoChunk => cur[v] \in Chunk
                               /\ old[v] # NoChunk => old[v] \in Chunk
          /\ Target \in Chunk
      BY <1>0, PlaceFacts, Zenon
    <3>4. /\ \A d \in Chunk : States'[d] = "kChunkFree" => States[d] = "kChunkFree"
          /\ \A d \in Chunk : States'[d] = "kChunkComplete" =>
               States[d] = "kChunkComplete" \/ Owned(d)
      BY <1>1, <2>5, <2>6, Zenon
    <3>5. /\ \A d \in Chunk : States'[d] = "kChunkFree" => header'[d] = ClearHeader
          /\ \A d \in Chunk : States'[d] = "kChunkComplete" => Owned(d)
          /\ \A v \in Writers : cur'[v] # NoChunk => Owned(cur[v])
          /\ \A v \in Writers : old'[v] # NoChunk => Owned(old[v])
      BY <3>1, <3>2, <3>3, <3>4, Zenon DEF Headers
    <3> HIDE DEF c, w
    <3> QED BY <3>1, <3>2, <3>5, Zenon DEF Headers, Owned
  <2>11. Scraping'
    BY <1>0, <1>1, <1>2, <2>4, <2>5, PlaceFacts, Zenon DEF IInv, Scraping, Owned, Storing
  <2>12. Loaded'
    BY <1>2, <2>4, Zenon DEF IInv, Loaded
  <2>13. Budget'
    <3>1. \A p \in Page : p # c[1] => layout'[p] = layout[p]
      BY <1>0, <1>1, <2>1, Zenon DEF TypeOK
    <3>2. ServiceBudget'
      BY <1>1, <1>2, <2>3, <3>1, ProducerBudget, Zenon
    <3> QED BY <2>4, <3>2, Zenon DEF Budget, ArbiterBudget
  <2> QED BY <1>2, <2>7, <2>8, <2>9, <2>10, <2>11, <2>12, <2>13, Zenon
        DEF IInv, RightfullyAttributed
<1> QED BY <1>3, <1>4, Zenon
=============================================================================
