------------------------ MODULE SharedMemoryABIProofs -----------------------
(***************************************************************************)
(* The steps of the service, which moves chunks and scrapes the buffer,    *)
(* keep the inductive invariant of SharedMemoryABI.  With the steps of the *)
(* producer, it always holds, and with it the properties of the handshake. *)
(***************************************************************************)
EXTENDS SharedMemoryABILemmas

LEMMA AcquireForReadingInv ==
  ASSUME IInv, AcquireForReading
  PROVE  IInv'
<1>0. /\ TypeOK /\ service \in Service /\ service.at = "cas" /\ Target \in Chunk
      /\ service.page \in Page /\ service.idx \in Idx
      /\ States[Target] = "kChunkComplete" /\ Target \notin requests
      /\ States \in [Chunk -> ChunkState]
  BY PlaceFacts, StatesType, Zenon DEF IInv, TypeOK, AcquireForReading, Serve, Held
<1>1. /\ UNCHANGED <<header, owner, arbiter, page_idx, cur, old, next_id, requests>>
      /\ NothingCopied /\ Taken' = Taken
  BY Zenon DEF AcquireForReading, Serve, writerVars, Taken
<1>2. CASE layout[service.page] # service.seen
  <2>1. /\ service' = [service EXCEPT !.at = "load", !.attempt = @ + 1,
                                      !.seen = FreePage]
        /\ layout' = layout /\ States' = States
    BY <1>0, <1>2, AnotherAttempt, Zenon DEF AcquireForReading, MoreAttempts, States
  <2>2. /\ service' \in Service /\ service'.at = "load" /\ Target' = Target
        /\ service'.attempt = service.attempt + 1
        /\ service'.page = service.page /\ service'.idx = service.idx
    BY <1>0, <1>2, <2>1, AnotherAttempt, IdleFacts, Zenon DEF Service, Target
  <2>3. ServiceBudget'
    BY <1>0, <1>2, <2>1, <2>2, AnotherAttempt, Zenon DEF ServiceBudget
  <2> QED BY <1>0, <1>1, <2>1, <2>2, <2>3, NotCopied, MoveOnInv, Zenon
<1>3. CASE layout[service.page] = service.seen
  <2>1. /\ layout' = [layout EXCEPT ![service.page] =
                         Acquired(@, service.idx, "kChunkBeingRead")]
        /\ service' = [service EXCEPT !.at = "copy", !.seen = FreePage, !.attempt = 0]
    BY <1>3, Zenon DEF AcquireForReading
  <2>2. layout[service.page].part
    BY <1>0, InUse, Zenon DEF In, Target
  <2>3. /\ layout' \in [Page -> Word]
        /\ States' = [States EXCEPT ![Target] = "kChunkBeingRead"]
        /\ \A q \in Page : ~layout'[q].part => layout'[q] = FreePage
    BY <1>0, <2>1, <2>2, AcquireStates, Zenon DEF Target, ChunkState
  <2>4. service' \in Service /\ service'.at = "copy" /\ Target' = Target
    <3>1. 0 \in 0 .. RetryAttempts - 1
      BY ABIAssumption
    <3> QED BY <1>0, <2>1, <3>1, IdleFacts, Zenon DEF Service, Target
  <2>5. /\ \A c \in Chunk : c # Target => States'[c] = States[c]
        /\ States'[Target] = "kChunkBeingRead"
        /\ \A w \in Writers : cur[w] # Target /\ old[w] # Target
        /\ arbiter.at \in Storing => Taken # Target
        /\ Owned(Target)
    BY <1>0, <2>3, ChunkFacts, Zenon DEF IInv, Held, Headers
  <2>6. TypeOK'
    BY <1>0, <1>1, <2>3, <2>4, NotCopied, Zenon DEF TypeOK
  <2>7. Held'
    BY <1>0, <1>1, <2>4, <2>5, PlaceFacts DEF IInv, Held, MovingAt
  <2>8. Accounted'
    BY <1>0, <1>1, <2>4, <2>5, PlaceFacts, Zenon DEF IInv, Accounted, MovingAt
  <2>9. Headers'
    BY <1>0, <1>1, <2>4, <2>5, PlaceFacts, Zenon DEF IInv, Headers, Owned
  <2>10. Loaded' /\ Scraping'
    BY <1>1, <2>4, Zenon DEF IInv, Loaded, Scraping
  <2>11. Budget'
    <3>1. \A p \in Page : p # Target[1] => layout'[p] = layout[p]
      BY <1>0, <2>1, Zenon DEF Target, TypeOK
    <3>2. ArbiterBudget'
      BY <1>0, <1>1, <2>3, <3>1, ServiceUsesBudget, Zenon
    <3> QED BY <2>4, <3>2, Zenon DEF Budget, ServiceBudget
  <2> QED BY <1>0, <1>1, <2>6, <2>7, <2>8, <2>9, <2>10, <2>11, NotCopied, Zenon DEF IInv
<1> QED BY <1>2, <1>3, Zenon

LEMMA CopyChunkInv ==
  ASSUME IInv, CopyChunk
  PROVE  IInv'
<1>0. /\ TypeOK /\ service \in Service /\ service.at = "copy" /\ Target \in Chunk
      /\ header[Target] \in Header /\ Owned(Target)
  BY PlaceFacts, Zenon DEF IInv, TypeOK, CopyChunk, Serve, Headers
<1>1. /\ copied' = Copied(header[Target].writer_id, header[Target].chunk_id)
      /\ service' = [service EXCEPT !.at = "clear_writer"]
      /\ UNCHANGED <<layout, header, owner, arbiter, page_idx, cur, old, next_id,
                     requests>>
  BY Zenon DEF CopyChunk, Serve, writerVars
<1>2. service' \in Service /\ service'.at = "clear_writer" /\ Target' = Target
  BY <1>0, <1>1, Zenon DEF Service, Target
<1>3. header[Target].chunk_id \in ChunkID
      /\ header[Target].writer_id \in Writers \cup {NoWriter}
  BY <1>0, Zenon DEF Header
<1>4. /\ copied' \in [writer_id : Writers \cup {NoWriter}, chunk_id : ChunkID,
                      owner : (Writers \cup {NoWriter}) \X ChunkID]
      /\ RightfullyAttributed'
  BY <1>0, <1>1, <1>3, CopyType, Zenon DEF RightfullyAttributed, Owned
<1>5. ServiceBudget'
  BY <1>2, Zenon DEF ServiceBudget
<1> QED BY <1>0, <1>1, <1>2, <1>4, <1>5, MoveOnInv, Zenon

(* A store to the header of a chunk that is being freed.                   *)
LEMMA ClearInv ==
  ASSUME IInv, service' \in Service, Target' = Target,
         \/ /\ service.at = "clear_writer" /\ service'.at = "clear_chunk"
            /\ header'[Target].writer_id = NoWriter
         \/ /\ service.at = "clear_chunk" /\ service'.at = "clear_packets"
            /\ header'[Target].writer_id = header[Target].writer_id
            /\ header'[Target].chunk_id = 0
         \/ /\ service.at = "clear_packets" /\ service'.at = "release"
            /\ header'[Target].writer_id = header[Target].writer_id
            /\ header'[Target].chunk_id = header[Target].chunk_id
            /\ header'[Target].count = 0 /\ service'.attempt = 0,
         header' \in [Chunk -> Header],
         \A c \in Chunk : c # Target => header'[c] = header[c],
         UNCHANGED <<layout, owner, arbiter, page_idx, cur, old, next_id, requests>>,
         NothingCopied
  PROVE  IInv'
<1> USE DEF IInv
<1>0. States' = States /\ Taken' = Taken
  BY Zenon DEF States, Taken
<1>1. TypeOK'
  BY NotCopied, Zenon DEF TypeOK
<1>2. Held'
  BY <1>0 DEF Held, MovingAt
<1>3. Accounted'
  BY <1>0, Zenon DEF Accounted, MovingAt
<1>4. Loaded' /\ Scraping'
  BY Zenon DEF Loaded, Scraping
<1>5. /\ Target \in Chunk /\ States[Target] = "kChunkBeingRead"
      /\ \A w \in Writers : cur[w] # Target /\ old[w] # Target
      /\ arbiter.at \in Storing => Taken # Target
  BY PlaceFacts, ChunkFacts DEF Held, MovingAt
<1>6. Headers'
  BY <1>0, <1>5, PlaceFacts, Zenon DEF Headers, Owned
<1>7. Budget'
  BY <1>0, <1>1, FreshBudget, Zenon DEF Budget, ServiceBudget, ArbiterBudget, Returned
<1> QED BY <1>1, <1>2, <1>3, <1>4, <1>6, <1>7, NotCopied, Zenon

LEMMA ClearWriterIDInv ==
  ASSUME IInv, ClearWriterID
  PROVE  IInv'
<1>0. /\ TypeOK /\ service \in Service /\ service.at = "clear_writer"
      /\ Target \in Chunk /\ header \in [Chunk -> Header]
  BY PlaceFacts, Zenon DEF IInv, TypeOK, ClearWriterID, Serve
<1>1. /\ header' = [header EXCEPT ![Target].writer_id = NoWriter]
      /\ service' = [service EXCEPT !.at = "clear_chunk"]
      /\ UNCHANGED <<layout, owner, arbiter, page_idx, cur, old, next_id, requests>>
      /\ NothingCopied
  BY Zenon DEF ClearWriterID, Serve, writerVars
<1>2. service' \in Service /\ service'.at = "clear_chunk" /\ Target' = Target
  BY <1>0, <1>1, Zenon DEF Service, Target
<1>3. /\ header' \in [Chunk -> Header] /\ header'[Target].writer_id = NoWriter
      /\ \A c \in Chunk : c # Target => header'[c] = header[c]
  BY <1>0, <1>1, Zenon DEF Header
<1> QED BY <1>0, <1>1, <1>2, <1>3, ClearInv, Zenon

LEMMA ClearChunkIDInv ==
  ASSUME IInv, ClearChunkID
  PROVE  IInv'
<1>0. /\ TypeOK /\ service \in Service /\ service.at = "clear_chunk"
      /\ Target \in Chunk /\ header \in [Chunk -> Header]
  BY PlaceFacts, Zenon DEF IInv, TypeOK, ClearChunkID, Serve
<1>1. /\ header' = [header EXCEPT ![Target].chunk_id = 0]
      /\ service' = [service EXCEPT !.at = "clear_packets"]
      /\ UNCHANGED <<layout, owner, arbiter, page_idx, cur, old, next_id, requests>>
      /\ NothingCopied
  BY Zenon DEF ClearChunkID, Serve, writerVars
<1>2. service' \in Service /\ service'.at = "clear_packets" /\ Target' = Target
  BY <1>0, <1>1, Zenon DEF Service, Target
<1>3. /\ header' \in [Chunk -> Header] /\ header'[Target].chunk_id = 0
      /\ header'[Target].writer_id = header[Target].writer_id
      /\ \A c \in Chunk : c # Target => header'[c] = header[c]
  <2>1. 0 \in ChunkID
    BY ABIAssumption DEF ChunkID
  <2> QED BY <1>0, <1>1, <2>1, Zenon DEF Header
<1> QED BY <1>0, <1>1, <1>2, <1>3, ClearInv, Zenon

LEMMA ClearPacketsInv ==
  ASSUME IInv, ClearPackets
  PROVE  IInv'
<1>0. /\ TypeOK /\ service \in Service /\ service.at = "clear_packets"
      /\ Target \in Chunk /\ header \in [Chunk -> Header]
  BY PlaceFacts, Zenon DEF IInv, TypeOK, ClearPackets, Serve
<1>1. /\ header' = [header EXCEPT ![Target].count = 0]
      /\ service' = [service EXCEPT !.at = "release", !.attempt = 0]
      /\ UNCHANGED <<layout, owner, arbiter, page_idx, cur, old, next_id, requests>>
      /\ NothingCopied
  BY Zenon DEF ClearPackets, Serve, writerVars
<1>2. /\ service' \in Service /\ service'.at = "release" /\ Target' = Target
      /\ service'.attempt = 0
  <2>1. 0 \in 0 .. RetryAttempts - 1
    BY ABIAssumption
  <2> QED BY <1>0, <1>1, <2>1, Zenon DEF Service, Target
<1>3. /\ header' \in [Chunk -> Header] /\ header'[Target].count = 0
      /\ header'[Target].writer_id = header[Target].writer_id
      /\ header'[Target].chunk_id = header[Target].chunk_id
      /\ \A c \in Chunk : c # Target => header'[c] = header[c]
  <2>1. 0 \in 0 .. MaxCount
    BY ABIAssumption
  <2> QED BY <1>0, <1>1, <2>1, Zenon DEF Header
<1> QED BY <1>0, <1>1, <1>2, <1>3, ClearInv, Zenon

LEMMA LoadReadInv ==
  ASSUME IInv, LoadRead
  PROVE  IInv'
<1>0. /\ TypeOK /\ service \in Service /\ service.at = "release"
      /\ layout[service.page] \in Word /\ service.page \in Page
  BY PlaceFacts, Zenon DEF IInv, TypeOK, LoadRead, Serve
<1>1. /\ service' = [service EXCEPT !.at = "free", !.seen = layout[service.page]]
      /\ UNCHANGED <<layout, header, owner, arbiter, page_idx, cur, old, next_id,
                     requests>>
      /\ NothingCopied /\ States' = States
  BY Zenon DEF LoadRead, Serve, writerVars, States
<1>2. /\ service' \in Service /\ service'.at = "free" /\ service'.page = service.page
      /\ service'.idx = service.idx /\ service'.attempt = service.attempt
      /\ service'.seen = layout[service.page] /\ Target' = Target
  BY <1>0, <1>1, Zenon DEF Service, Target
<1>3. ServiceBudget'
  BY <1>0, <1>1, <1>2, Zenon DEF IInv, Budget, ServiceBudget
<1> QED BY <1>0, <1>1, <1>2, <1>3, NotCopied, MoveOnInv, Zenon

LEMMA ReleaseChunkAsFreeInv ==
  ASSUME IInv, ReleaseChunkAsFree
  PROVE  IInv'
<1>0. /\ TypeOK /\ service \in Service /\ service.at = "free" /\ Target \in Chunk
      /\ service.page \in Page /\ service.idx \in Idx
      /\ States[Target] = "kChunkBeingRead"
      /\ States \in [Chunk -> ChunkState]
  BY PlaceFacts, StatesType, Zenon DEF IInv, TypeOK, ReleaseChunkAsFree, Serve, Held, MovingAt
<1>1. /\ UNCHANGED <<header, owner, arbiter, page_idx, cur, old, next_id, requests>>
      /\ NothingCopied /\ Taken' = Taken
  BY Zenon DEF ReleaseChunkAsFree, Serve, writerVars, Taken
<1>2. CASE layout[service.page] # service.seen
  <2>1. /\ service' = [service EXCEPT !.at = "release", !.attempt = @ + 1,
                                      !.seen = FreePage]
        /\ layout' = layout /\ States' = States
    BY <1>0, <1>2, AnotherAttempt, Zenon DEF ReleaseChunkAsFree, MoreAttempts, States
  <2>2. /\ service' \in Service /\ service'.at = "release" /\ Target' = Target
        /\ service'.attempt = service.attempt + 1
        /\ service'.page = service.page /\ service'.idx = service.idx
    BY <1>0, <1>2, <2>1, AnotherAttempt, IdleFacts, Zenon DEF Service, Target
  <2>3. ServiceBudget'
    BY <1>0, <1>2, <2>1, <2>2, AnotherAttempt, Zenon DEF ServiceBudget
  <2> QED BY <1>0, <1>1, <2>1, <2>2, <2>3, NotCopied, MoveOnInv, Zenon
<1>3. CASE layout[service.page] = service.seen
  <2>1. /\ layout' = [layout EXCEPT ![service.page] =
                         Released(@, service.idx, "kChunkFree")]
        /\ service' = Rest
    BY <1>3, Zenon DEF ReleaseChunkAsFree
  <2>2. layout[service.page].part
    BY <1>0, InUse, Zenon DEF In, Target
  <2>3. /\ layout' \in [Page -> Word]
        /\ States' = [States EXCEPT ![Target] = "kChunkFree"]
        /\ \A q \in Page : ~layout'[q].part => layout'[q] = FreePage
    BY <1>0, <2>1, <2>2, ReleaseStates, Zenon DEF Target, ChunkState
  <2>4. service' \in Service /\ service'.at = "idle"
    BY <2>1, IdleFacts, Zenon
  <2>5. /\ \A c \in Chunk : c # Target => States'[c] = States[c]
        /\ States'[Target] = "kChunkFree"
        /\ \A w \in Writers : cur[w] # Target /\ old[w] # Target
        /\ arbiter.at \in Storing => Taken # Target
        /\ Target \notin requests
    BY <1>0, <2>3, ChunkFacts, Zenon DEF IInv, Held
  <2>6. header[Target] = ClearHeader
    <3>1. /\ header[Target] \in Header /\ header[Target].writer_id = NoWriter
          /\ header[Target].chunk_id = 0 /\ header[Target].count = 0
      BY <1>0, Zenon DEF IInv, TypeOK, Headers
    <3> QED BY <3>1, Zenon DEF Header, ClearHeader
  <2>7. TypeOK'
    BY <1>0, <1>1, <2>3, <2>4, NotCopied, Zenon DEF TypeOK
  <2>8. Held'
    BY <1>0, <1>1, <2>4, <2>5, PlaceFacts DEF IInv, Held, MovingAt
  <2>9. Accounted'
    BY <1>0, <1>1, <2>4, <2>5, PlaceFacts, Zenon DEF IInv, Accounted, MovingAt
  <2>10. Headers'
    BY <1>0, <1>1, <2>4, <2>5, <2>6, PlaceFacts, Zenon DEF IInv, Headers, Owned
  <2>11. Loaded' /\ Scraping'
    BY <1>1, <2>4, Zenon DEF IInv, Loaded, Scraping
  <2>12. Budget'
    <3>1. \A p \in Page : p # Target[1] => layout'[p] = layout[p]
      BY <1>0, <2>1, Zenon DEF Target, TypeOK
    <3>2. ArbiterBudget'
      BY <1>0, <1>1, <2>3, <3>1, ServiceUsesBudget, Zenon
    <3> QED BY <2>4, <3>2, Zenon DEF Budget, ServiceBudget
  <2> QED BY <1>0, <1>1, <2>7, <2>8, <2>9, <2>10, <2>11, <2>12, NotCopied, Zenon DEF IInv
<1> QED BY <1>2, <1>3, Zenon
-----------------------------------------------------------------------------
(* ScrapeSharedMemoryBuffers.                                              *)

LEMMA ScrapeOnFacts ==
  ASSUME NEW s \in Service, NEW used \in SUBSET Idx, NEW t, t = ScrapeOn(s, used)
  PROVE  /\ t \in Service /\ t.at \in {"idle", "scrape", "count"}
         /\ t.at = "count" => /\ t.idx \in used /\ t.used = used
                              /\ t.page = s.page /\ t.seen = s.seen
<1> DEFINE first == {i \in used : \A j \in used : i <= j}
<1>1. CASE first # {}
  <2> DEFINE i == CHOOSE i \in first : TRUE
  <2>1. i \in used /\ i \in Idx
    BY <1>1, Zenon
  <2>2. t = [s EXCEPT !.at = "count", !.used = used, !.writer_id = NoWriter, !.idx = i]
    BY <1>1, Zenon DEF ScrapeOn
  <2> HIDE DEF i
  <2> QED BY <2>1, <2>2, Zenon DEF Service
<1>2. CASE first = {} /\ s.page + 1 < NumPages
  <2>1. t = [Rest EXCEPT !.at = "scrape", !.page = s.page + 1]
    BY <1>2, Zenon DEF ScrapeOn
  <2>2. s.page + 1 \in Page
    BY <1>2, ABIAssumption DEF Service, Page
  <2>3. t \in Service /\ t.at = "scrape"
    BY <2>1, <2>2, IdleFacts, Zenon DEF Service, Rest
  <2> QED BY <2>3, Zenon
<1>3. CASE first = {} /\ ~(s.page + 1 < NumPages)
  BY <1>3, IdleFacts, Zenon DEF ScrapeOn
<1> QED BY <1>1, <1>2, <1>3, Zenon

(* On with a page whose used chunks are still a writer's or complete.      *)
LEMMA ScrapeOnInv ==
  ASSUME IInv, NEW s \in Service, NEW used \in SUBSET Idx, service' = ScrapeOn(s, used),
         service.at \in {"idle", "scrape", "count", "writer_id", "chunk_id"},
         \A i \in used :
            /\ States[<<s.page, i>>] \in {"kChunkBeingWritten", "kChunkComplete"}
            /\ s.seen.state[i] = "kChunkComplete" =>
                 States[<<s.page, i>>] = "kChunkComplete",
         UNCHANGED <<layout, header, owner, arbiter, page_idx, cur, old, next_id,
                     requests>>,
         copied' \in [writer_id : Writers \cup {NoWriter}, chunk_id : ChunkID,
                      owner : (Writers \cup {NoWriter}) \X ChunkID],
         RightfullyAttributed'
  PROVE  IInv'
<1>1. /\ service' \in Service /\ service'.at \in {"idle", "scrape", "count"}
      /\ service'.at = "count" =>
           /\ service'.idx \in used /\ service'.used = used
           /\ service'.page = s.page /\ service'.seen = s.seen
  BY ScrapeOnFacts
<1>2. States' = States
  BY Zenon DEF States
<1>3. Scraping'
  BY <1>1, <1>2 DEF Scraping
<1> QED BY <1>1, <1>3, ScrapeInv, Zenon DEF MovingAt

LEMMA BeginScrapeInv ==
  ASSUME IInv, BeginScrape
  PROVE  IInv'
<1>1. /\ service.at = "idle" /\ service' = [Rest EXCEPT !.at = "scrape"]
      /\ UNCHANGED <<layout, header, owner, arbiter, page_idx, cur, old, next_id,
                     requests>>
      /\ NothingCopied
  BY Zenon DEF BeginScrape, Serve, writerVars
<1>2. service' \in Service /\ service'.at = "scrape"
  BY <1>1, IdleFacts, Zenon DEF Service, Rest
<1>3. Scraping'
  BY <1>2, Zenon DEF Scraping
<1>4. TypeOK
  BY Zenon DEF IInv
<1> QED BY <1>1, <1>2, <1>3, <1>4, NotCopied, ScrapeInv, Zenon DEF MovingAt

LEMMA GetPageLayoutInv ==
  ASSUME IInv, GetPageLayout
  PROVE  IInv'
<1> DEFINE word == layout[service.page]
           used == IF word.part THEN {i \in Idx : word.state[i] # "kChunkFree"} ELSE {}
           s == [service EXCEPT !.seen = word]
<1>0. /\ TypeOK /\ service \in Service /\ service.at = "scrape" /\ service.page \in Page
      /\ word \in Word
  BY PlaceFacts, Zenon DEF IInv, TypeOK, GetPageLayout, Serve
<1>1. /\ service' = ScrapeOn(s, used)
      /\ UNCHANGED <<layout, header, owner, arbiter, page_idx, cur, old, next_id,
                     requests>>
      /\ NothingCopied
  BY Zenon DEF GetPageLayout, Serve, writerVars
<1>2. s \in Service /\ s.page = service.page /\ s.seen = word
  BY <1>0, Zenon DEF Service
<1>3. \A i \in used :
        /\ States[<<service.page, i>>] \in {"kChunkBeingWritten", "kChunkComplete"}
        /\ word.state[i] = States[<<service.page, i>>]
  <2> TAKE i \in used
  <2>1. i \in Idx /\ word.state[i] # "kChunkFree"
    BY Zenon
  <2>2. word.state[i] = States[<<service.page, i>>] /\ <<service.page, i>> \in Chunk
    BY <1>0, <2>1, InUse, ChunkFacts, Zenon
  <2>3. States[<<service.page, i>>] \in ChunkState
    BY <1>0, <2>2, StatesType, Zenon
  <2>4. States[<<service.page, i>>] # "kChunkBeingRead"
    BY <1>0, <2>2, Zenon DEF IInv, Accounted, MovingAt
  <2> QED BY <2>1, <2>2, <2>3, <2>4, Zenon DEF ChunkState
<1>4. used \in SUBSET Idx
  BY Zenon
<1> HIDE DEF used, s, word
<1> QED BY <1>0, <1>1, <1>2, <1>3, <1>4, NotCopied, ScrapeOnInv

LEMMA SkipInv ==
  ASSUME IInv, service.at \in {"count", "writer_id", "chunk_id"}, service' = Skip,
         UNCHANGED <<layout, header, owner, arbiter, page_idx, cur, old, next_id,
                     requests>>,
         copied' \in [writer_id : Writers \cup {NoWriter}, chunk_id : ChunkID,
                      owner : (Writers \cup {NoWriter}) \X ChunkID],
         RightfullyAttributed'
  PROVE  IInv'
<1>1. /\ service \in Service /\ service.used \ {service.idx} \in SUBSET Idx
  BY Zenon DEF IInv, TypeOK, Service
<1>2. \A i \in service.used \ {service.idx} :
        /\ States[<<service.page, i>>] \in {"kChunkBeingWritten", "kChunkComplete"}
        /\ service.seen.state[i] = "kChunkComplete" =>
             States[<<service.page, i>>] = "kChunkComplete"
  BY Zenon DEF IInv, Scraping
<1> QED BY <1>1, <1>2, ScrapeOnInv, Zenon DEF Skip

LEMMA GetPacketCountInv ==
  ASSUME IInv, GetPacketCount
  PROVE  IInv'
<1>0. /\ TypeOK /\ service \in Service /\ service.at = "count" /\ Target \in Chunk
      /\ service.idx \in service.used /\ header[Target] \in Header
  BY PlaceFacts, Zenon DEF IInv, TypeOK, GetPacketCount, Serve, Scraping
<1>1. /\ UNCHANGED <<layout, header, owner, arbiter, page_idx, cur, old, next_id,
                     requests>>
      /\ NothingCopied /\ States' = States /\ Taken' = Taken
  BY Zenon DEF GetPacketCount, Serve, writerVars, States, Taken
<1>2. CASE /\ service.seen.state[service.idx] # "kChunkComplete"
           /\ header[Target].count < 2
  BY <1>0, <1>1, <1>2, NotCopied, SkipInv, Zenon DEF GetPacketCount
<1>3. CASE ~(/\ service.seen.state[service.idx] # "kChunkComplete"
             /\ header[Target].count < 2)
  <2>1. service' = [service EXCEPT !.at = "writer_id"]
    BY <1>3, Zenon DEF GetPacketCount
  <2>2. /\ service' \in Service /\ service'.at = "writer_id" /\ Target' = Target
        /\ service'.page = service.page /\ service'.idx = service.idx
        /\ service'.used = service.used /\ service'.seen = service.seen
    BY <1>0, <2>1, Zenon DEF Service, Target
  <2>3. States[Target] \in {"kChunkBeingWritten", "kChunkComplete"}
        /\ (service.seen.state[service.idx] = "kChunkComplete"
            => States[Target] = "kChunkComplete")
    BY <1>0, Zenon DEF IInv, Scraping, Target
  <2>4. ~(arbiter.at \in Storing /\ Taken = Target)
    <3>1. SUFFICES ASSUME arbiter.at \in Storing, Taken = Target PROVE FALSE
      BY Zenon
    <3>2. States[Target] = "kChunkBeingWritten" /\ header[Target].count = 0
      BY <3>1, Zenon DEF IInv, Held, Headers
    <3> QED BY <1>3, <2>3, <3>2
  <2>5. Owned(Target)
    <3>1. CASE States[Target] = "kChunkComplete"
      BY <1>0, <3>1, Zenon DEF IInv, Headers
    <3>2. CASE States[Target] = "kChunkBeingWritten"
      <4>1. PICK w \in Writers : cur[w] = Target \/ old[w] = Target
        BY <1>0, <2>4, <3>2, Zenon DEF IInv, Accounted
      <4> QED BY <1>0, <4>1, ChunkFacts, Zenon DEF IInv, Headers
    <3> QED BY <2>3, <3>1, <3>2, Zenon
  <2>6. Scraping'
    BY <1>0, <1>1, <2>2, <2>4, <2>5, Zenon DEF IInv, Scraping, Owned
  <2> QED BY <1>0, <1>1, <2>2, <2>6, NotCopied, ScrapeInv, Zenon DEF MovingAt
<1> QED BY <1>2, <1>3, Zenon

LEMMA GetWriterIDInv ==
  ASSUME IInv, GetWriterID
  PROVE  IInv'
<1>0. /\ TypeOK /\ service \in Service /\ service.at = "writer_id" /\ Target \in Chunk
      /\ header[Target].writer_id \in Writers \cup {NoWriter}
  BY PlaceFacts, Zenon DEF IInv, TypeOK, GetWriterID, Serve, Header
<1>1. /\ UNCHANGED <<layout, header, owner, arbiter, page_idx, cur, old, next_id,
                     requests>>
      /\ NothingCopied /\ States' = States /\ Taken' = Taken
  BY Zenon DEF GetWriterID, Serve, writerVars, States, Taken
<1>2. CASE service' = Skip
  BY <1>0, <1>1, <1>2, NotCopied, SkipInv, Zenon
<1>3. CASE service' = [service EXCEPT !.at = "chunk_id",
                                      !.writer_id = header[Target].writer_id]
  <2>1. /\ service' \in Service /\ service'.at = "chunk_id" /\ Target' = Target
        /\ service'.page = service.page /\ service'.idx = service.idx
        /\ service'.used = service.used /\ service'.seen = service.seen
        /\ service'.writer_id = header[Target].writer_id
    BY <1>0, <1>3, Zenon DEF Service, Target
  <2>2. Scraping'
    BY <1>0, <1>1, <2>1, Zenon DEF IInv, Scraping, Owned
  <2> QED BY <1>0, <1>1, <2>1, <2>2, NotCopied, ScrapeInv, Zenon DEF MovingAt
<1> QED BY <1>2, <1>3, Zenon DEF GetWriterID

LEMMA CopyScrapedInv ==
  ASSUME IInv, CopyScraped
  PROVE  IInv'
<1>0. /\ TypeOK /\ service.at = "chunk_id" /\ Target \in Chunk
      /\ header[Target] \in Header /\ Owned(Target)
      /\ service.writer_id = header[Target].writer_id
  BY PlaceFacts, Zenon DEF IInv, TypeOK, CopyScraped, Serve, Scraping
<1>1. /\ copied' = Copied(service.writer_id, header[Target].chunk_id)
      /\ service' = Skip
      /\ UNCHANGED <<layout, header, owner, arbiter, page_idx, cur, old, next_id,
                     requests>>
  BY Zenon DEF CopyScraped, Serve, writerVars
<1>2. header[Target].chunk_id \in ChunkID
      /\ header[Target].writer_id \in Writers \cup {NoWriter}
  BY <1>0, Zenon DEF Header
<1>3. copied' \in [writer_id : Writers \cup {NoWriter}, chunk_id : ChunkID,
                   owner : (Writers \cup {NoWriter}) \X ChunkID]
  BY <1>0, <1>1, <1>2, CopyType, Zenon
<1>4. /\ copied'.owner = owner[Target]
      /\ copied'.writer_id = service.writer_id
      /\ copied'.chunk_id = header[Target].chunk_id
  BY <1>0, <1>1, <1>2, CopyType, Zenon
<1>5. RightfullyAttributed'
  BY <1>0, <1>4, Zenon DEF RightfullyAttributed, Owned
<1> QED BY <1>0, <1>1, <1>3, <1>5, SkipInv, Zenon

-----------------------------------------------------------------------------
LEMMA InitInv == Init => IInv
<1> SUFFICES ASSUME Init PROVE IInv
  BY Zenon
<1>1. TypeOK
  <2>1. 0 \in ChunkID /\ 0 \in Page /\ 0 \in 0 .. MaxCount
    BY ABIAssumption DEF ChunkID, Page
  <2>2. ClearHeader \in Header
    BY <2>1, Zenon DEF ClearHeader, Header
  <2> QED BY <2>1, <2>2, IdleFacts, Zenon DEF Init, TypeOK, NoCopy
<1>2. /\ arbiter = Idle /\ arbiter.at = "idle" /\ service.at = "idle"
      /\ cur = [w \in Writers |-> NoChunk] /\ old = [w \in Writers |-> NoChunk]
      /\ requests = {} /\ header = [c \in Chunk |-> ClearHeader] /\ copied = NoCopy
  BY IdleFacts, Zenon DEF Init
<1>3. \A c \in Chunk : States[c] = "kChunkFree"
  BY ChunkFacts, Zenon DEF Init, States, FreePage, AllFree
<1>4. Held
  BY <1>2, Zenon DEF Held, Getting, Storing, MovingAt
<1>5. Accounted /\ Loaded /\ Scraping /\ Budget
  BY <1>2, <1>3, Zenon DEF Accounted, Loaded, Scraping, Budget, ServiceBudget, ArbiterBudget
<1>6. Headers
  BY <1>2, <1>3, Zenon DEF Headers, Storing
<1>7. RightfullyAttributed
  BY <1>2, Zenon DEF RightfullyAttributed, NoCopy
<1> QED BY <1>1, <1>4, <1>5, <1>6, <1>7, Zenon DEF IInv

LEMMA StutterInv ==
  ASSUME IInv, UNCHANGED vars
  PROVE  IInv'
<1>1. /\ UNCHANGED <<layout, header, owner, arbiter, page_idx, cur, old, next_id,
                     requests, service, copied>>
      /\ States' = States /\ Taken' = Taken /\ Target' = Target /\ Returned' = Returned
  BY Zenon DEF vars, States, Taken, Target, Returned
<1>2. TypeOK'
  BY <1>1, Zenon DEF IInv, TypeOK
<1>3. Held'
  BY <1>1, Zenon DEF IInv, Held
<1>4. Accounted' /\ Loaded'
  BY <1>1, Zenon DEF IInv, Accounted, Loaded
<1>5. Headers' /\ Scraping'
  BY <1>1, Zenon DEF IInv, Headers, Owned, Scraping
<1>6. Budget' /\ RightfullyAttributed'
  BY <1>1, Zenon DEF IInv, Budget, ServiceBudget, ArbiterBudget, RightfullyAttributed
<1> QED BY <1>2, <1>3, <1>4, <1>5, <1>6, Zenon DEF IInv

LEMMA NextInv ==
  ASSUME IInv, [Next]_vars
  PROVE  IInv'
<1>1. ASSUME NEW w \in Writers,
             GetNewChunk(w) \/ IncrementPacketCount(w) \/ Flush(w) \/ ReturnCompletedChunk(w)
      PROVE  IInv'
  BY <1>1, GetNewChunkInv, IncrementPacketCountInv, FlushInv, ReturnCompletedChunkInv, Zenon
<1>2. CASE ArbiterStep
  BY <1>2, ProbePageInv, TryPartitionPageInv, GetFreeChunksInv, LoadFreeInv,
     AcquireForWritingInv, StoreWriterIDInv, StoreChunkIDInv, StorePacketsInv,
     LoadWrittenInv, ReleaseChunkAsCompleteInv, Zenon DEF ArbiterStep
<1>3. CASE CommitData \/ MoveStep
  BY <1>3, CommitDataInv, LoadCompleteInv, AcquireForReadingInv, CopyChunkInv,
     ClearWriterIDInv, ClearChunkIDInv, ClearPacketsInv, LoadReadInv,
     ReleaseChunkAsFreeInv, Zenon DEF MoveStep
<1>4. CASE BeginScrape \/ ScrapeStep
  BY <1>4, BeginScrapeInv, GetPageLayoutInv, GetPacketCountInv, GetWriterIDInv,
     CopyScrapedInv, Zenon DEF ScrapeStep
<1> QED BY <1>1, <1>2, <1>3, <1>4, StutterInv, Zenon DEF Next

LEMMA Invariance == Spec => []IInv
BY InitInv, NextInv, PTL DEF Spec

(* Every run of the SMB keeps the types of its words, headers and places.  *)
THEOREM ABITypeCorrect == Spec => []TypeOK
<1>1. IInv => TypeOK
  BY Zenon DEF IInv
<1> QED BY <1>1, Invariance, PTL

(* The CHECKs of ReleaseChunk never fail, for any number of writers, pages *)
(* and chunks.                                                             *)
THEOREM ChecksAlwaysHold == Spec => []ChecksHold
<1>1. IInv => ChecksHold
  <2> SUFFICES ASSUME IInv PROVE ChecksHold
    BY Zenon
  <2>0. TypeOK
    BY Zenon DEF IInv
  <2>1. arbiter.at = "release" =>
          In(layout[Returned[1]], Returned[2], "kChunkBeingWritten")
    <3> SUFFICES ASSUME arbiter.at = "release"
                 PROVE  In(layout[Returned[1]], Returned[2], "kChunkBeingWritten")
      BY Zenon
    <3>1. Returned \in Chunk /\ States[Returned] = "kChunkBeingWritten"
      BY <2>0, PlaceFacts, Zenon DEF IInv, Held, Returned
    <3> DEFINE p == Returned[1]
               i == Returned[2]
    <3>2. p \in Page /\ i \in Idx /\ States[<<p, i>>] = "kChunkBeingWritten"
      BY <3>1, ChunkFacts, Zenon
    <3> HIDE DEF p, i
    <3>3. In(layout[p], i, "kChunkBeingWritten")
      BY <2>0, <3>2, InUse, Zenon
    <3> QED BY <3>3, Zenon DEF p, i
  <2>2. service.at = "release" =>
          In(layout[service.page], service.idx, "kChunkBeingRead")
    BY <2>0, PlaceFacts, InUse, Zenon DEF IInv, Held, MovingAt, Target
  <2> QED BY <2>1, <2>2, Zenon DEF ChecksHold
<1> QED BY <1>1, Invariance, PTL

(* What the service copies, by a commit or a scrape, it attributes to the  *)
(* writer and the chunk id it belongs to.                                  *)
THEOREM AlwaysRightfullyAttributed == Spec => []RightfullyAttributed
<1>1. IInv => RightfullyAttributed
  BY Zenon DEF IInv
<1> QED BY <1>1, Invariance, PTL

(* No two parties hold a chunk at a time.                                  *)
THEOREM AlwaysOneHolder == Spec => []OneHolder
<1>1. IInv => OneHolder
  <2> SUFFICES ASSUME IInv PROVE OneHolder
    BY Zenon
  <2>1. /\ \A w \in Writers : cur[w] # NoChunk => cur[w] # old[w]
        /\ \A v, w \in Writers : v # w =>
             {cur[v], old[v]} \cap {cur[w], old[w]} \subseteq {NoChunk}
    BY DEF IInv, Held
  <2>2. \A w \in Writers : \A c \in {cur[w], old[w]} \ {NoChunk} :
          ~Moving(c) /\ c \notin requests
    BY DEF IInv, Held, Moving, MovingAt
  <2> QED BY <2>1, <2>2, Zenon DEF OneHolder
<1> QED BY <1>1, Invariance, PTL

(* kRetryAttempts are enough if they are more than twice the other chunks  *)
(* of a page: no chunk is ever left behind in a state nobody gets it out   *)
(* of.                                                                     *)
THEOREM NeverLosesChunks == Spec => []NoChunkIsLost
<1>1. IInv => NoChunkIsLost
  <2> SUFFICES ASSUME IInv, NEW c \in Chunk
               PROVE  LET state == layout[c[1]].state[c[2]]
                      IN  /\ state = "kChunkBeingWritten" =>
                               Acquiring(c) \/ \E w \in Writers : c \in {cur[w], old[w]}
                          /\ state = "kChunkComplete" => Requested(c)
                          /\ state = "kChunkBeingRead" => Moving(c)
    BY Zenon DEF NoChunkIsLost
  <2>1. States[c] = layout[c[1]].state[c[2]]
    BY Zenon DEF States
  <2> QED BY <2>1, Zenon DEF IInv, Accounted, Acquiring, Requested, Moving, Storing, MovingAt
<1> QED BY <1>1, Invariance, PTL
=============================================================================
