--------------------------- MODULE SharedMemoryABI ---------------------------
(***************************************************************************)
(* The shared memory buffer (SMB) of a producer, at the grain of its       *)
(* atomic accesses (shared_memory_abi.cc).  Trace writers acquire and      *)
(* release chunks under the arbiter's lock_ and count packets without it;  *)
(* the service, in another process, acquires complete chunks, clears their *)
(* headers and frees them, and reads chunks out of turn when it scrapes.   *)
(* The two sides meet in the layout word of a page, which each changes by  *)
(* compare_exchange, and in the chunk headers.                             *)
(*                                                                         *)
(* Every load, store and compare_exchange of a word that the other side    *)
(* may access is a step; accesses are sequentially consistent.  Each page  *)
(* that is partitioned has NumChunks chunks (default_page_layout).         *)
(***************************************************************************)
EXTENDS Integers

CONSTANTS
  Writers,        \* the writer ids of the producer
  NumPages,
  NumChunks,
  MaxChunkID,     \* chunk ids wrap after it
  MaxCount,       \* bound on the packets of a chunk
  RetryAttempts   \* kRetryAttempts

NoWriter == 0
NoChunk == <<>>

ASSUME ABIAssumption ==
  /\ NoWriter \notin Writers
  /\ NumPages \in Nat \ {0} /\ NumChunks \in Nat \ {0}
  /\ MaxChunkID \in Nat /\ MaxCount \in Nat \ {0}
  /\ RetryAttempts \in Nat /\ RetryAttempts > 2 * (NumChunks - 1)

Page == 0 .. NumPages - 1
Idx == 0 .. NumChunks - 1
Chunk == Page \X Idx
ChunkID == 0 .. MaxChunkID
ChunkState == {"kChunkFree", "kChunkBeingWritten", "kChunkBeingRead",
               "kChunkComplete"}
Word == [part : BOOLEAN, state : [Idx -> ChunkState]]
Header == [writer_id : Writers \cup {NoWriter}, chunk_id : ChunkID,
           count : 0 .. MaxCount]

AllFree == [i \in Idx |-> "kChunkFree"]
FreePage == [part |-> FALSE, state |-> AllFree]
ClearHeader == [writer_id |-> NoWriter, chunk_id |-> 0, count |-> 0]

VARIABLES
  layout,     \* by page: the layout word
  header,     \* by chunk: its header
  owner,      \* by chunk: the writer and chunk id whose packets are in it
  arbiter,    \* what the holder of lock_ is doing
  page_idx,   \* page_idx_ of the arbiter
  cur,        \* by writer: the chunk it writes into
  old,        \* by writer: the chunk it is about to return
  next_id,    \* by writer: next_chunk_id_
  requests,   \* the chunks that the service has been, or will be, asked to move
  service,    \* what the service is doing
  copied      \* what the service's last step copied, if it did: what the header
              \* of the chunk said, and whose packets it was

vars == <<layout, header, owner, arbiter, page_idx, cur, old, next_id, requests,
          service, copied>>
writerVars == <<cur, old, next_id>>

Idle == [at |-> "idle", w |-> NoWriter, left |-> 0, free |-> {},
         idx |-> 0, seen |-> FreePage, attempt |-> 0]
Rest == [at |-> "idle", page |-> 0, idx |-> 0, used |-> {}, seen |-> FreePage,
         attempt |-> 0, writer_id |-> NoWriter]
NoCopy == [writer_id |-> NoWriter, chunk_id |-> 0, owner |-> <<NoWriter, 0>>]

Init ==
  /\ layout = [p \in Page |-> FreePage]
  /\ header = [c \in Chunk |-> ClearHeader]
  /\ owner = [c \in Chunk |-> <<NoWriter, 0>>]
  /\ arbiter = Idle
  /\ page_idx = 0
  /\ cur = [w \in Writers |-> NoChunk]
  /\ old = [w \in Writers |-> NoChunk]
  /\ next_id = [w \in Writers |-> 0]
  /\ requests = {}
  /\ service = Rest
  /\ copied = NoCopy

(* The loops of TryAcquireChunk and ReleaseChunk.                          *)
MoreAttemptsButOne(attempt) ==  \* mutant: gives up one attempt early
  attempt + 2 < RetryAttempts
MoreAttempts(attempt) == attempt + 1 < RetryAttempts

(* The chunk is in `from`, which a chunk of a page that is free never is.  *)
InPartitioned(word, idx, from) ==  \* mutant: the state of the chunk is not looked at
  word.part
In(word, idx, from) == word.part /\ word.state[idx] = from
(* The word after a chunk has gone to `to`; a page all of whose chunks are *)
(* free is not partitioned any more.                                       *)
Acquired(word, idx, to) == [word EXCEPT !.state = [@ EXCEPT ![idx] = to]]
ReleasedAlone(word, idx, to) ==  \* mutant: other chunks of the page are not looked at
  IF to = "kChunkFree" THEN FreePage ELSE Acquired(word, idx, to)
Released(word, idx, to) ==
  IF [word.state EXCEPT ![idx] = to] = AllFree THEN FreePage
  ELSE Acquired(word, idx, to)

-----------------------------------------------------------------------------
(* The arbiter: GetNewChunk for a writer, with lock_ held.  It goes through*)
(* the pages from page_idx_ on and through the chunks that are free there. *)

Start == arbiter = Idle /\ UNCHANGED <<layout, header, owner, requests, service, copied>>

GetNewChunk(w) ==
  /\ Start /\ old[w] = NoChunk
  /\ arbiter' = [Idle EXCEPT !.at = "probe", !.w = w, !.left = NumPages - 1]
  /\ UNCHANGED <<page_idx, writerVars>>

InArbiter(at) == arbiter.at = at /\ UNCHANGED <<service, copied>>

(* is_page_free, TryPartitionPage and GetFreeChunks.                       *)
ProbePage ==
  /\ InArbiter("probe")
  /\ arbiter' = [arbiter EXCEPT !.at = IF layout[page_idx] = FreePage
                                       THEN "partition" ELSE "list"]
  /\ UNCHANGED <<layout, header, owner, page_idx, writerVars, requests>>

(* The next free chunk to try; then the next page; then GetNewChunk fails  *)
(* and gives lock_ back.                                                   *)
TryFreeForever(a, free) ==  \* mutant: goes round the pages for ever
  LET first == {i \in free : \A j \in free : i <= j}
  IN  /\ arbiter' = IF first # {}
                    THEN [Idle EXCEPT !.at = "load", !.w = a.w, !.left = a.left,
                                      !.free = free, !.idx = CHOOSE i \in first : TRUE]
                    ELSE [Idle EXCEPT !.at = "probe", !.w = a.w]
      /\ page_idx' = IF first # {} THEN page_idx ELSE (page_idx + 1) % NumPages
TryFree(a, free) ==
  LET first == {i \in free : \A j \in free : i <= j}
  IN  /\ IF first # {}
         THEN /\ arbiter' = [Idle EXCEPT !.at = "load", !.w = a.w, !.left = a.left,
                                         !.free = free,
                                         !.idx = CHOOSE i \in first : TRUE]
              /\ UNCHANGED page_idx
         ELSE IF a.left > 0
         THEN /\ arbiter' = [Idle EXCEPT !.at = "probe", !.w = a.w,
                                         !.left = a.left - 1]
              /\ page_idx' = (page_idx + 1) % NumPages
         ELSE arbiter' = Idle /\ UNCHANGED page_idx

TryPartitionPage ==
  /\ InArbiter("partition")
  /\ IF layout[page_idx] = FreePage
     THEN /\ layout' = [layout EXCEPT ![page_idx].part = TRUE]
          /\ TryFree(arbiter, Idx)
     ELSE /\ arbiter' = [arbiter EXCEPT !.at = "list"]
          /\ UNCHANGED <<layout, page_idx>>
  /\ UNCHANGED <<header, owner, writerVars, requests>>

GetFreeChunks ==
  /\ InArbiter("list")
  /\ TryFree(arbiter, {i \in Idx : In(layout[page_idx], i, "kChunkFree")})
  /\ UNCHANGED <<layout, header, owner, writerVars, requests>>

(* TryAcquireChunk for writing: the load, the compare_exchange and, once   *)
(* the chunk is the writer's, the three stores to its header.              *)
LoadFree ==
  /\ InArbiter("load")
  /\ IF In(layout[page_idx], arbiter.idx, "kChunkFree")
     THEN /\ arbiter' = [arbiter EXCEPT !.at = "cas", !.seen = layout[page_idx]]
          /\ UNCHANGED page_idx
     ELSE TryFree(arbiter, arbiter.free \ {arbiter.idx})
  /\ UNCHANGED <<layout, header, owner, writerVars, requests>>

Taken == <<page_idx, arbiter.idx>>
AcquireForWriting ==
  /\ InArbiter("cas")
  /\ IF layout[page_idx] = arbiter.seen
     THEN /\ layout' = [layout EXCEPT ![page_idx] =
                          Acquired(@, arbiter.idx, "kChunkBeingWritten")]
          /\ owner' = [owner EXCEPT ![Taken] = <<arbiter.w, next_id[arbiter.w]>>]
          /\ arbiter' = [Idle EXCEPT !.at = "writer_id", !.w = arbiter.w,
                                     !.idx = arbiter.idx]
          /\ UNCHANGED page_idx
     ELSE /\ IF MoreAttempts(arbiter.attempt)
             THEN /\ arbiter' = [arbiter EXCEPT !.at = "load", !.attempt = @ + 1,
                                               !.seen = FreePage]
                  /\ UNCHANGED page_idx
             ELSE TryFree(arbiter, arbiter.free \ {arbiter.idx})
          /\ UNCHANGED <<layout, owner>>
  /\ UNCHANGED <<header, writerVars, requests>>

StoreWriterID ==
  /\ InArbiter("writer_id")
  /\ header' = [header EXCEPT ![Taken].writer_id = arbiter.w]
  /\ arbiter' = [arbiter EXCEPT !.at = "chunk_id"]
  /\ UNCHANGED <<layout, owner, page_idx, writerVars, requests>>

StoreChunkID ==
  /\ InArbiter("chunk_id")
  /\ header' = [header EXCEPT ![Taken].chunk_id = next_id[arbiter.w]]
  /\ arbiter' = [arbiter EXCEPT !.at = "packets"]
  /\ UNCHANGED <<layout, owner, page_idx, writerVars, requests>>

(* The writer has its new chunk and will return the one it had.  The count *)
(* in its header is 1 if a packet goes on in the new chunk.                *)
StorePackets ==
  /\ InArbiter("packets")
  /\ \E count \in {0, 1} : header' = [header EXCEPT ![Taken].count = count]
  /\ arbiter' = Idle
  /\ cur' = [cur EXCEPT ![arbiter.w] = Taken]
  /\ old' = [old EXCEPT ![arbiter.w] = cur[arbiter.w]]
  /\ next_id' = [next_id EXCEPT ![arbiter.w] = IF @ = MaxChunkID THEN 0 ELSE @ + 1]
  /\ UNCHANGED <<layout, owner, page_idx, requests>>

-----------------------------------------------------------------------------
(* A writer, without the lock.                                             *)

IncrementPacketCount(w) ==
  /\ cur[w] # NoChunk /\ old[w] = NoChunk /\ arbiter.w # w
  /\ header[cur[w]].count < MaxCount
  /\ header' = [header EXCEPT ![cur[w]].count = @ + 1]
  /\ UNCHANGED <<layout, owner, arbiter, page_idx, writerVars, requests, service,
                 copied>>

(* Flush returns the current chunk.                                        *)
Flush(w) ==
  /\ cur[w] # NoChunk /\ old[w] = NoChunk /\ arbiter.w # w
  /\ cur' = [cur EXCEPT ![w] = NoChunk]
  /\ old' = [old EXCEPT ![w] = cur[w]]
  /\ UNCHANGED <<layout, header, owner, arbiter, page_idx, next_id, requests, service,
                 copied>>

(* ReturnCompletedChunk takes lock_ and calls ReleaseChunkAsComplete.      *)
ReturnCompletedChunk(w) ==
  /\ Start /\ old[w] # NoChunk
  /\ arbiter' = [Idle EXCEPT !.at = "release", !.w = w]
  /\ UNCHANGED <<page_idx, writerVars>>

Returned == old[arbiter.w]
LoadWritten ==
  /\ InArbiter("release")
  /\ arbiter' = [arbiter EXCEPT !.at = "complete", !.seen = layout[Returned[1]]]
  /\ UNCHANGED <<layout, header, owner, page_idx, writerVars, requests>>

(* After too many attempts the chunk is left as it is, and the request has *)
(* kInvalidPageIdx for it, which the service skips.                        *)
ReleaseChunkAsComplete ==
  /\ InArbiter("complete")
  /\ LET p == Returned[1]
         done == layout[p] = arbiter.seen
         again == ~done /\ MoreAttempts(arbiter.attempt)
     IN  /\ layout' = IF ~done THEN layout
                      ELSE [layout EXCEPT ![p] = Released(@, Returned[2],
                                                          "kChunkComplete")]
         /\ requests' = IF done THEN requests \cup {Returned} ELSE requests
         /\ arbiter' = IF again
                       THEN [arbiter EXCEPT !.at = "release", !.attempt = @ + 1,
                                            !.seen = FreePage]
                       ELSE Idle
         /\ old' = IF again THEN old ELSE [old EXCEPT ![arbiter.w] = NoChunk]
  /\ UNCHANGED <<header, owner, page_idx, cur, next_id>>

-----------------------------------------------------------------------------
(* The service.  CommitData moves one chunk after the other; which one is  *)
(* next is the business of TracePath.                                      *)

Serve(at) ==
  /\ service.at = at
  /\ UNCHANGED <<owner, arbiter, page_idx, writerVars>>
NothingCopied == copied' = NoCopy
Target == <<service.page, service.idx>>

CommitData ==
  /\ Serve("idle")
  /\ \E c \in requests :
       /\ service' = [Rest EXCEPT !.at = "load", !.page = c[1], !.idx = c[2]]
       /\ requests' = requests \ {c}
  /\ UNCHANGED <<layout, header>> /\ NothingCopied

(* TryAcquireChunk for reading; a chunk that cannot be had is passed over. *)
LoadComplete ==
  /\ Serve("load")
  /\ service' = IF In(layout[service.page], service.idx, "kChunkComplete")
                THEN [service EXCEPT !.at = "cas", !.seen = layout[service.page]]
                ELSE Rest
  /\ UNCHANGED <<layout, header, requests>> /\ NothingCopied

AcquireForReading ==
  /\ Serve("cas")
  /\ IF layout[service.page] = service.seen
     THEN /\ layout' = [layout EXCEPT ![service.page] =
                          Acquired(@, service.idx, "kChunkBeingRead")]
          /\ service' = [service EXCEPT !.at = "copy", !.seen = FreePage, !.attempt = 0]
     ELSE /\ service' = IF MoreAttempts(service.attempt)
                        THEN [service EXCEPT !.at = "load", !.attempt = @ + 1,
                                               !.seen = FreePage]
                        ELSE Rest
          /\ UNCHANGED layout
  /\ UNCHANGED <<header, requests>> /\ NothingCopied

Copied(writer_id, chunk_id) ==
  [writer_id |-> writer_id, chunk_id |-> chunk_id, owner |-> owner[Target]]

CopyChunk ==
  /\ Serve("copy")
  /\ copied' = Copied(header[Target].writer_id, header[Target].chunk_id)
  /\ service' = [service EXCEPT !.at = "clear_writer"]
  /\ UNCHANGED <<layout, header, requests>>

(* ClearChunkHeader, then the load and the compare_exchange of             *)
(* ReleaseChunkAsFree.                                                     *)
ClearWriterID ==
  /\ Serve("clear_writer")
  /\ header' = [header EXCEPT ![Target].writer_id = NoWriter]
  /\ service' = [service EXCEPT !.at = "clear_chunk"]
  /\ UNCHANGED <<layout, requests>> /\ NothingCopied

ClearChunkID ==
  /\ Serve("clear_chunk")
  /\ header' = [header EXCEPT ![Target].chunk_id = 0]
  /\ service' = [service EXCEPT !.at = "clear_packets"]
  /\ UNCHANGED <<layout, requests>> /\ NothingCopied

ClearPacketsNot ==  \* mutant: the packet count is not cleared
  /\ Serve("clear_packets")
  /\ service' = [service EXCEPT !.at = "release", !.attempt = 0]
  /\ UNCHANGED <<layout, header, requests>> /\ NothingCopied
ClearPackets ==
  /\ Serve("clear_packets")
  /\ header' = [header EXCEPT ![Target].count = 0]
  /\ service' = [service EXCEPT !.at = "release", !.attempt = 0]
  /\ UNCHANGED <<layout, requests>> /\ NothingCopied

LoadRead ==
  /\ Serve("release")
  /\ service' = [service EXCEPT !.at = "free", !.seen = layout[service.page]]
  /\ UNCHANGED <<layout, header, requests>> /\ NothingCopied

ReleaseChunkAsFree ==
  /\ Serve("free")
  /\ IF layout[service.page] = service.seen
     THEN /\ layout' = [layout EXCEPT ![service.page] =
                          Released(@, service.idx, "kChunkFree")]
          /\ service' = Rest
     ELSE /\ service' = IF MoreAttempts(service.attempt)
                        THEN [service EXCEPT !.at = "release", !.attempt = @ + 1,
                                               !.seen = FreePage]
                        ELSE Rest
          /\ UNCHANGED layout
  /\ UNCHANGED <<header, requests>> /\ NothingCopied

(* ScrapeSharedMemoryBuffers: page by page, the chunks that were not free  *)
(* when the layout was read.                                               *)
BeginScrape ==
  /\ Serve("idle")
  /\ service' = [Rest EXCEPT !.at = "scrape"]
  /\ UNCHANGED <<layout, header, requests>> /\ NothingCopied

(* The next chunk of the page, the next page or the end.                   *)
ScrapeOnBeyond(s, used) ==  \* mutant: one page too many
  LET first == {i \in used : \A j \in used : i <= j}
  IN  IF first # {}
      THEN [s EXCEPT !.at = "count", !.used = used, !.writer_id = NoWriter,
                     !.idx = CHOOSE i \in first : TRUE]
      ELSE IF s.page < NumPages
      THEN [Rest EXCEPT !.at = "scrape", !.page = s.page + 1]
      ELSE Rest
ScrapeOn(s, used) ==
  LET first == {i \in used : \A j \in used : i <= j}
  IN  IF first # {}
      THEN [s EXCEPT !.at = "count", !.used = used, !.writer_id = NoWriter,
                     !.idx = CHOOSE i \in first : TRUE]
      ELSE IF s.page + 1 < NumPages
      THEN [Rest EXCEPT !.at = "scrape", !.page = s.page + 1]
      ELSE Rest

GetPageLayout ==
  /\ Serve("scrape")
  /\ LET word == layout[service.page]
         used == IF word.part THEN {i \in Idx : word.state[i] # "kChunkFree"} ELSE {}
     IN  service' = ScrapeOn([service EXCEPT !.seen = word], used)
  /\ UNCHANGED <<layout, header, requests>> /\ NothingCopied

Skip == ScrapeOn(service, service.used \ {service.idx})
GetPacketCount ==
  /\ Serve("count")
  /\ service' = IF /\ service.seen.state[service.idx] # "kChunkComplete"
                   /\ header[Target].count < 2
                THEN Skip ELSE [service EXCEPT !.at = "writer_id"]
  /\ UNCHANGED <<layout, header, requests>> /\ NothingCopied

(* buffer_id_for_writer knows the writers that have been registered.       *)
GetWriterID ==
  /\ Serve("writer_id")
  /\ \/ header[Target].writer_id # NoWriter
        /\ service' = [service EXCEPT !.at = "chunk_id",
                                      !.writer_id = header[Target].writer_id]
     \/ service' = Skip
  /\ UNCHANGED <<layout, header, requests>> /\ NothingCopied

CopyScraped ==
  /\ Serve("chunk_id")
  /\ copied' = Copied(service.writer_id, header[Target].chunk_id)
  /\ service' = Skip
  /\ UNCHANGED <<layout, header, requests>>

-----------------------------------------------------------------------------
ArbiterStep ==
  \/ ProbePage \/ TryPartitionPage \/ GetFreeChunks \/ LoadFree \/ AcquireForWriting
  \/ StoreWriterID \/ StoreChunkID \/ StorePackets
  \/ LoadWritten \/ ReleaseChunkAsComplete

MoveStep ==
  \/ LoadComplete \/ AcquireForReading \/ CopyChunk \/ ClearWriterID \/ ClearChunkID
  \/ ClearPackets \/ LoadRead \/ ReleaseChunkAsFree

ScrapeStep == GetPageLayout \/ GetPacketCount \/ GetWriterID \/ CopyScraped

Next ==
  \/ \E w \in Writers : \/ GetNewChunk(w) \/ IncrementPacketCount(w) \/ Flush(w)
                        \/ ReturnCompletedChunk(w)
  \/ ArbiterStep
  \/ CommitData \/ MoveStep
  \/ BeginScrape \/ ScrapeStep

Spec == Init /\ [][Next]_vars
(* The holder of lock_ and the service go on running.                      *)
FairSpec ==
  Spec /\ WF_vars(ArbiterStep) /\ WF_vars(CommitData \/ MoveStep \/ ScrapeStep)

-----------------------------------------------------------------------------
(* Properties.                                                             *)

Arbiter ==
  [at : {"idle", "probe", "partition", "list", "load", "cas", "writer_id", "chunk_id",
         "packets", "release", "complete"},
   w : Writers \cup {NoWriter}, left : 0 .. NumPages - 1, free : SUBSET Idx, idx : Idx,
   seen : Word, attempt : 0 .. RetryAttempts - 1]
Service ==
  [at : {"idle", "load", "cas", "copy", "clear_writer", "clear_chunk",
         "clear_packets", "release", "free", "scrape", "count", "writer_id", "chunk_id"},
   page : Page, idx : Idx, used : SUBSET Idx, seen : Word,
   attempt : 0 .. RetryAttempts - 1, writer_id : Writers \cup {NoWriter}]

(* Words, headers and positions have their types, and a page that is not   *)
(* partitioned has no chunk in use.                                        *)
TypeOK ==
  /\ layout \in [Page -> Word]
  /\ \A p \in Page : ~layout[p].part => layout[p] = FreePage
  /\ header \in [Chunk -> Header]
  /\ owner \in [Chunk -> (Writers \cup {NoWriter}) \X ChunkID]
  /\ arbiter \in Arbiter
  /\ page_idx \in Page
  /\ cur \in [Writers -> Chunk \cup {NoChunk}]
  /\ old \in [Writers -> Chunk \cup {NoChunk}]
  /\ next_id \in [Writers -> ChunkID]
  /\ requests \subseteq Chunk
  /\ service \in Service
  /\ copied \in [writer_id : Writers \cup {NoWriter}, chunk_id : ChunkID,
                 owner : (Writers \cup {NoWriter}) \X ChunkID]

(* The DEJAVIEW_CHECKs of ReleaseChunk hold: a chunk that is released is   *)
(* still in a partitioned page and in the state that its holder put it in, *)
(* whatever the other side did to the word of its page in between.         *)
ChecksHold ==
  /\ arbiter.at = "release" =>
       In(layout[Returned[1]], Returned[2], "kChunkBeingWritten")
  /\ service.at = "release" =>
       In(layout[service.page], service.idx, "kChunkBeingRead")

(* What the service copies goes to the writer and the chunk id whose       *)
(* packets are in the chunk, also when it scrapes: "the header should be   *)
(* written completely once the packet count increased above 1 (it was      *)
(* reset to 0 by the service when the chunk was freed)".                   *)
RightfullyAttributed == copied.owner = <<copied.writer_id, copied.chunk_id>>

(* A chunk has one holder: writers hold distinct chunks, and neither a     *)
(* chunk that is being moved nor one whose move is requested is a writer's.*)
Moving(c) == service.at \in {"copy", "clear_writer", "clear_chunk", "clear_packets",
                             "release", "free"} /\ Target = c
OneHolder ==
  /\ \A w \in Writers : cur[w] # NoChunk => cur[w] # old[w]
  /\ \A v, w \in Writers : v # w =>
       {cur[v], old[v]} \cap {cur[w], old[w]} \subseteq {NoChunk}
  /\ \A w \in Writers : \A c \in {cur[w], old[w]} \ {NoChunk} :
       ~Moving(c) /\ c \notin requests

(* No chunk is lost to contention: one that is not free is a writer's, or  *)
(* its move is asked for or going on.  While one side tries to change the  *)
(* word of a page, the other can change it only twice for each other chunk *)
(* of the page, so kRetryAttempts are enough and "Too much contention on   *)
(* page" is never reached.                                                 *)
Acquiring(c) == arbiter.at \in {"writer_id", "chunk_id", "packets"} /\ Taken = c
Requested(c) == c \in requests \/ (service.at \in {"load", "cas"} /\ Target = c)
NoChunkIsLost ==
  \A c \in Chunk :
    LET state == layout[c[1]].state[c[2]]
    IN  /\ state = "kChunkBeingWritten" =>
             Acquiring(c) \/ \E w \in Writers : c \in {cur[w], old[w]}
        /\ state = "kChunkComplete" => Requested(c)
        /\ state = "kChunkBeingRead" => Moving(c)

(* Whoever holds lock_ gives it back, and the service comes back to its    *)
(* task runner, however the other side competes for the layout words. It   *)
(* says nothing of the writers of kStall, which wait with lock_ released.  *)
NobodyHangs ==
  /\ arbiter.at # "idle" ~> arbiter.at = "idle"
  /\ service.at # "idle" ~> service.at = "idle"
=============================================================================
