------------------------------ MODULE TracePath ------------------------------
(***************************************************************************)
(* The way of a packet from a trace writer to the consumer: writers of one *)
(* producer (TraceWriter) fill chunks of the SMB, the arbiter              *)
(* (SharedMemoryArbiter) batches them and their patches into commits, the  *)
(* service copies them into a trace buffer (TraceBuffer) on a commit, or   *)
(* scrapes them out of the SMB before they are committed, and the consumer *)
(* reads the buffer.  Another producer's chunks share the buffer.          *)
(*                                                                         *)
(* Writers run on threads of their own, the arbiter's tasks on the         *)
(* producer's task runner, commits travel in order over the IPC channel    *)
(* and the service has one thread; it looks at one chunk after the other   *)
(* when it scrapes, while the producer goes on writing.                    *)
(***************************************************************************)
EXTENDS TraceWriter, TraceBuffer

CONSTANTS
  Writers,        \* the writers of the producer
  Thresholds,     \* packets that ReadBuffers may stop after
  Modes           \* what a session may be like, see Mode

(* direct: direct_patching_enabled_; policy: the OverwritePolicy of the    *)
(* buffer; scrapes: how often the service scrapes the SMB, 0 without       *)
(* smb_scraping_enabled_; others: chunks that the other producer commits;  *)
(* first: the next_chunk_id_ of the writers; written, parts, nested and    *)
(* flushes bound the packets of a writer, the chunks of a packet, the      *)
(* depth of nested messages and the flushes of a writer.                   *)
Mode == [direct : BOOLEAN, policy : {"kOverwrite", "kDiscard"}, scrapes : Nat,
         others : Nat, first : 0 .. LastChunkID, written : Nat, parts : Nat,
         nested : Nat, flushes : Nat]

Foreign == Min(Sequence)

ASSUME PathAssumption ==
  /\ Sequence = Writers \cup {Foreign} /\ Foreign \notin Writers
  /\ NoWriter \notin Writers /\ LastChunkID = MaxChunkID
  /\ Modes \subseteq Mode

VARIABLES
  mode,      \* the session
  arb,       \* the arbiter, with the SMB
  writer,    \* the trace writers
  channel,   \* the commits on their way to the service
  tb,        \* the trace buffer
  scraping,  \* the page to scrape next, NoPage if the service is not scraping
  flushes,   \* by writer: flushes so far
  acked,     \* by writer: packets finished before a flush that was confirmed
  asked,     \* by writer: packets finished at each flush not yet confirmed
  received,  \* by writer: packets whose end is in a chunk the service copied
  foreign,   \* chunks of the other producer so far
  scrapes,   \* scrapes so far
  batch,     \* what the last step read: ReadBuffers' packets, if it was one
  read       \* by sequence: the last packet that the consumer has read

vars == <<mode, arb, writer, channel, tb, scraping, flushes, acked, asked, received,
          foreign, scrapes, batch, read>>

(* Chunk `n` of the other producer, with one packet.                       *)
CopyForeign(b, n) ==
  CopyChunkUntrusted(b, <<Foreign, n % (MaxChunkID + 1)>>, 1, {}, TRUE,
    [holes |-> {}, frags |-> <<[kind |-> "data", p |-> n + 1, k |-> 1, end |-> TRUE,
                                flagged |-> FALSE, holes |-> {}]>>])

(* A session that has gone on for long: the writers' chunks have been read *)
(* and overwritten by two of the other producer, which were read as well.  *)
LongAfter(b, first) ==
  [ReadPackets(CopyForeign(CopyForeign(b, 0), 1), BeginRead, 2, <<>>).b
   EXCEPT !.last = [s \in Sequence |-> IF s = Foreign THEN @[s] ELSE first - 1]]

Init ==
  /\ mode \in Modes
  /\ arb = NewArbiter(mode.direct)
  /\ IF mode.first = 0
     THEN tb = Initialize(mode.policy) /\ foreign = 0
     ELSE tb = LongAfter(Initialize(mode.policy), mode.first) /\ foreign = 2
  /\ writer = [w \in Writers |-> [NewTraceWriter(w) EXCEPT !.next_id = mode.first]]
  /\ channel = <<>>
  /\ scraping = NoPage
  /\ flushes = [w \in Writers |-> 0]
  /\ acked = [w \in Writers |-> 0]
  /\ asked = [w \in Writers |-> <<>>]
  /\ received = [w \in Writers |-> {}]
  /\ scrapes = 0
  /\ batch = <<>>
  /\ read = [s \in Sequence |-> IF s = Foreign THEN foreign ELSE 0]

Writes(w, r) == arb' = r.a /\ writer' = [writer EXCEPT ![w] = r.x]
NothingRead == batch' = <<>> /\ UNCHANGED <<mode, read>>
ServiceUnchanged ==
  /\ UNCHANGED <<channel, tb, scraping, acked, received, foreign, scrapes>>
  /\ NothingRead

StartPacket(w) ==
  /\ ~writer[w].busy /\ writer[w].p < mode.written
  /\ \E full \in BOOLEAN :
       /\ full \/ HasRoom(writer[w])
       /\ Writes(w, NewTracePacket(writer[w], arb, full))
  /\ UNCHANGED <<flushes, asked>> /\ ServiceUnchanged

(* A message does not fit in the buffer.                                   *)
GrowPacket(w) ==
  /\ writer[w].busy /\ writer[w].k < mode.parts /\ ~writer[w].retry
  /\ Writes(w, GetNewBuffer(writer[w], arb, TRUE))
  /\ UNCHANGED <<flushes, asked>> /\ ServiceUnchanged

OpenNested(w) ==
  /\ writer[w].busy /\ Len(writer[w].nested) < mode.nested
  /\ writer' = [writer EXCEPT ![w] = BeginNested(@)]
  /\ UNCHANGED <<arb, flushes, asked>> /\ ServiceUnchanged

CloseNested(w) ==
  /\ writer[w].busy /\ writer[w].nested # <<>>
  /\ writer' = [writer EXCEPT ![w] = FinalizeNested(@, Len(@.nested))]
  /\ UNCHANGED <<arb, flushes, asked>> /\ ServiceUnchanged

FinishPacket(w) ==
  /\ writer[w].busy
  /\ \E no_room \in BOOLEAN :
       /\ no_room => writer[w].page # NoPage
       /\ Writes(w, FinishTracePacket(writer[w], arb, no_room))
  /\ UNCHANGED <<flushes, asked>> /\ ServiceUnchanged

FlushWriter(w) ==
  /\ ~writer[w].busy /\ flushes[w] < mode.flushes
  /\ Writes(w, Flush(writer[w], arb))
  /\ flushes' = [flushes EXCEPT ![w] = @ + 1]
  /\ asked' = [asked EXCEPT ![w] = Append(@, writer[w].p)]
  /\ ServiceUnchanged

RunProducerTask ==
  /\ arb.tasks # <<>>
  /\ LET r == RunTask(arb)
     IN  /\ arb' = r.a
         /\ channel' = IF r.req.set THEN Append(channel, r.req) ELSE channel
  /\ UNCHANGED <<writer, tb, scraping, flushes, acked, asked, received, foreign,
                 scrapes>> /\ NothingRead

-----------------------------------------------------------------------------
(* The service.                                                            *)

CopyChunk(b, c, complete) ==
  CopyChunkUntrusted(b, <<c.w, c.id>>, c.count, c.flags, complete, c.src)

(* CommitData: the chunks of the request that are complete, then patches.  *)
MoveChunks(b, pages, smb) ==
  FoldLeft(LAMBDA acc, p : IF smb[p].state = "kChunkComplete"
                           THEN CopyChunk(acc, smb[p], TRUE) ELSE acc, b, pages)
ApplyChunkPatches(b, patches) ==
  FoldLeft(LAMBDA acc, q : TryPatchChunkContents(acc, <<q.w, q.id>>, q.offsets,
                                                 q.more), b, patches)

Ended(c) == {f.p : f \in {f \in Range(c.src.frags) : f.kind = "data" /\ f.end}}

CommitData ==
  /\ channel # <<>> /\ scraping = NoPage
  /\ LET req == Head(channel)
         done == {p \in Range(req.move) : arb.smb[p].state = "kChunkComplete"}
     IN  /\ tb' = ApplyChunkPatches(MoveChunks(tb, req.move, arb.smb), req.patch)
         /\ arb' = [arb EXCEPT !.smb = [p \in Page |-> IF p \in done THEN FreeChunk
                                                       ELSE @[p]]]
         /\ received' = [w \in Writers |-> received[w] \cup
                UNION {Ended(arb.smb[p]) : p \in {p \in done : arb.smb[p].w = w}}]
         /\ IF req.callback = NoWriter THEN UNCHANGED <<acked, asked>>
            ELSE /\ acked' = [acked EXCEPT ![req.callback] = Head(asked[req.callback])]
                 /\ asked' = [asked EXCEPT ![req.callback] = Tail(@)]
  /\ channel' = Tail(channel)
  /\ UNCHANGED <<writer, scraping, flushes, foreign, scrapes>> /\ NothingRead

(* ScrapeSharedMemoryBuffers, one page at a time.                          *)
BeginScrape ==
  /\ scraping = NoPage /\ scrapes < mode.scrapes
  /\ scraping' = 0 /\ scrapes' = scrapes + 1
  /\ UNCHANGED <<arb, writer, channel, tb, flushes, acked, asked, received,
                 foreign>> /\ NothingRead

ScrapePage ==
  /\ scraping # NoPage
  /\ LET c == arb.smb[scraping]
         complete == c.state = "kChunkComplete"
     IN  tb' = IF c.state = "kChunkFree" \/ (~complete /\ c.count < 2) THEN tb
               ELSE CopyChunk(tb, c, complete)
  /\ scraping' = IF scraping + 1 \in Page THEN scraping + 1 ELSE NoPage
  /\ UNCHANGED <<arb, writer, channel, flushes, acked, asked, received, foreign,
                 scrapes>> /\ NothingRead

(* A commit of the other producer: a chunk with one packet.                *)
ForeignCommit ==
  /\ scraping = NoPage /\ foreign < mode.others
  /\ foreign' = foreign + 1
  /\ tb' = CopyForeign(tb, foreign)
  /\ UNCHANGED <<arb, writer, channel, scraping, flushes, acked, asked, received,
                 scrapes>> /\ NothingRead

Numbers(packets, s) ==
  LET mine == SelectSeq(packets, LAMBDA q : q.seq = s)
  IN  [i \in DOMAIN mine |-> mine[i].frags[1].p]

(* ReadBuffers, up to its threshold.                                       *)
ReadBuffers(max) ==
  /\ scraping = NoPage
  /\ LET r == ReadPackets(tb, BeginRead, max, <<>>)
     IN  /\ tb' = r.b
         /\ batch' = r.packets
         /\ read' = [s \in Sequence |-> Last(<<read[s]>> \o Numbers(r.packets, s))]
  /\ UNCHANGED <<mode, arb, writer, channel, scraping, flushes, acked, asked,
                 received, foreign, scrapes>>

WriterStep(w) ==
  \/ StartPacket(w) \/ GrowPacket(w) \/ OpenNested(w) \/ CloseNested(w)
  \/ FinishPacket(w) \/ FlushWriter(w)

Next ==
  \/ \E w \in Writers : WriterStep(w)
  \/ RunProducerTask \/ CommitData
  \/ BeginScrape \/ ScrapePage
  \/ ForeignCommit
  \/ \E max \in Thresholds : ReadBuffers(max)

Spec == Init /\ [][Next]_vars

-----------------------------------------------------------------------------
(* Properties.                                                             *)

(* Every part of the way has its type: pages, chunk states, flags and the  *)
(* offsets that patches fill in, and what the index says of each record.   *)
Flag == {"kFirstContinues", "kLastContinues", "kNeedsPatching"}
TypeOK ==
  /\ mode \in Modes
  /\ \A p \in Page :
       /\ arb.smb[p].state \in {"kChunkFree", "kChunkBeingWritten", "kChunkComplete"}
       /\ arb.smb[p].count \in 0 .. MaxPackets + 1 /\ arb.smb[p].flags \subseteq Flag
  /\ \A w \in Writers : writer[w].page \in Page \cup {NoPage}
                         /\ writer[w].next_id \in 0 .. LastChunkID
  /\ tb.wptr \in 0 .. Size - 1 /\ DOMAIN tb.data \subseteq 0 .. Size - 1
  /\ \A key \in DOMAIN tb.index : key \in Sequence \X (0 .. MaxChunkID)
                                  /\ tb.index[key].flags \subseteq Flag
  /\ scraping \in Page \cup {NoPage}

Scraped == mode.scrapes > 0

(* ReadNextPacketInChunk is only called for a chunk with fragments left,   *)
(* as its first DCHECK demands, and a chunk that was copied when it was    *)
(* complete is not copied again with other fragments.                      *)
DchecksHold == ~tb.dcheck

(* A packet that ReadNextTracePacket returns is one packet, all of it: its *)
(* fragments are those of one packet in their order, to the last, and the  *)
(* sizes of nested messages that were open when it was cut are patched.    *)
(* Every fragment was there to read (DchecksHold).  The SMB is not scraped.*)
Whole(q) ==
  \A i \in DOMAIN q.frags :
    /\ q.frags[i].p = q.frags[1].p /\ q.frags[i].k = i
    /\ q.frags[i].holes = {} /\ q.frags[i].end <=> i = Len(q.frags)
PacketsAreWhole ==
  Scraped \/ (DchecksHold /\ \A i \in DOMAIN batch : Whole(batch[i]))

(* Over all its ReadBuffers a consumer reads the packets of a sequence in  *)
(* the order they were written in and none of them twice, though chunks of *)
(* a sequence are committed, patched, overwritten and read in between and  *)
(* their ids wrap.  With the kDiscard policy, where what is in the buffer  *)
(* stays until it is read, nothing is missing but what did not fit in the  *)
(* SMB.                                                                    *)
InOrder ==
  [][Scraped \/ \A s \in Sequence :
       LET ns == <<read[s]>> \o Numbers(batch', s)
       IN  \A i \in 2 .. Len(ns) :
             /\ ns[i - 1] < ns[i]
             /\ mode.policy = "kDiscard" /\ s \in Writers =>
                  ns[i - 1] + 1 .. ns[i] - 1 \subseteq writer[s].lost]_vars

(* When packets of a sequence are missing between two that are read, the   *)
(* second one says so: either previous_packet_on_sequence_dropped was set  *)
(* by the buffer, or its writer put previous_packet_dropped into it.       *)
Flagged(q) == q.dropped \/ q.frags[1].flagged
LossIsFlagged ==
  [][\A s \in Sequence :
       LET mine == SelectSeq(batch', LAMBDA q : q.seq = s)
           ns == <<read[s]>> \o Numbers(batch', s)
       IN  \A i \in DOMAIN mine : ns[i + 1] = ns[i] + 1 \/ Flagged(mine[i])]_vars

(* The same of the packets of one ReadBuffers.                             *)
LossIsFlaggedInPass ==
  \A s \in Sequence :
    LET mine == SelectSeq(batch, LAMBDA q : q.seq = s)
    IN  \A i \in 2 .. Len(mine) :
          mine[i].frags[1].p = mine[i - 1].frags[1].p + 1 \/ Flagged(mine[i])

(* Once the callback of a Flush has run, every packet that was finished    *)
(* before the Flush is copied to the service, or was dropped by its writer *)
(* for want of a chunk.                                                    *)
FlushCommits ==
  \A w \in Writers : 1 .. acked[w] \subseteq received[w] \cup writer[w].lost

(* A producer that goes by the protocol never makes the trace buffer count *)
(* an ABI violation: a chunk that is copied again, scraped before or not,  *)
(* only grows, and not behind a successor that is being read.              *)
NoAbiViolation == ~tb.abi

(* The records of the ring follow each other without gap or overlap up to  *)
(* the write pointer and from there on, and the index has exactly the      *)
(* records that are not padding.                                           *)
RingIsConsistent ==
  /\ \A o \in DOMAIN tb.data :
       o + tb.data[o].size \in DOMAIN tb.data \cup {tb.wptr, Size}
  /\ \A o1, o2 \in DOMAIN tb.data : o1 < o2 => o1 + tb.data[o1].size <= o2
  /\ {<<tb.data[o].key, o>> : o \in {o \in DOMAIN tb.data : ~tb.data[o].is_padding}}
       = {<<key, tb.index[key].off>> : key \in DOMAIN tb.index}

(* Nothing waits for ever: a chunk that is not free is held by a writer,   *)
(* or in a request on its way to the service or in one that a posted task  *)
(* will send, and so is each Flush that is not confirmed.                  *)
NothingIsForgotten ==
  /\ \A p \in Page : arb.smb[p].state # "kChunkFree" =>
       \/ \E w \in Writers : writer[w].page = p
       \/ p \in Range(arb.req.move) /\ arb.tasks # <<>>
       \/ \E i \in DOMAIN channel : p \in Range(channel[i].move)
  /\ arb.req.set => arb.tasks # <<>>
  /\ \A w \in Writers : Len(asked[w]) =
       Len(SelectSeq(arb.tasks, LAMBDA t : t.callback = w))
       + Len(SelectSeq(channel, LAMBDA r : r.callback = w))
=============================================================================
