----------------------------- MODULE TraceWriter -----------------------------
(***************************************************************************)
(* Class TraceWriterImpl (trace_writer_impl.cc): cuts the packets of one   *)
(* sequence into chunks.  A writer is a record `x`:                        *)
(*   id         id_                                                        *)
(*   page       the page of cur_chunk_, NoPage if it is not valid          *)
(*   buf        where protobuf_stream_writer_ points: no buffer, a chunk   *)
(*              or the garbage chunk                                       *)
(*   next_id    next_chunk_id_                                             *)
(*   busy       cur_packet_ is not finalized                               *)
(*   nested     where the size fields of the open nested messages are, the *)
(*              outermost first: InChunk, Nowhere, or the place of a patch *)
(*   patches    patch_list_                                                *)
(*   drop, inflated, retry, max    drop_packets_,                          *)
(*              cur_chunk_packet_count_inflated_,                          *)
(*              retry_new_chunk_after_packet_,                             *)
(*              reached_max_packets_per_chunk_                             *)
(* and, for the properties, p, the packets started so far, k, the part of  *)
(* the last one that is being written, and lost, the packets that did not  *)
(* fit in the SMB.  An operator takes the writer and the arbiter `a`, or   *)
(* the pair `o` of both, and returns both.  Bytes are not counted: whether *)
(* a chunk has room is a parameter.                                        *)
(***************************************************************************)
EXTENDS SharedMemoryArbiter

CONSTANTS
  MaxPackets,   \* kMaxPacketsPerChunk
  LastChunkID   \* kMaxChunkID

InChunk == [id |-> -1, offset |-> 0]
Nowhere == [id |-> -2, offset |-> 0]

NewTraceWriter(w) ==
  [id |-> w, page |-> NoPage, buf |-> "none", next_id |-> 0, busy |-> FALSE,
   nested |-> <<>>, patches |-> <<>>, drop |-> FALSE, inflated |-> FALSE,
   retry |-> FALSE, max |-> FALSE, p |-> 0, k |-> 0, lost |-> {}]

FragUnflagged(x, flagged) ==  \* mutant: previous_packet_dropped is not set
  [kind |-> "data", p |-> x.p, k |-> x.k, end |-> FALSE, flagged |-> FALSE,
   holes |-> {}]
Frag(x, flagged) == [kind |-> "data", p |-> x.p, k |-> x.k, end |-> FALSE,
                     flagged |-> flagged, holes |-> {}]
ZeroSize == [kind |-> "empty", p |-> 0, k |-> 0, end |-> TRUE, flagged |-> FALSE,
             holes |-> {}]

AppendFragment(a, page, frag) ==
  [a EXCEPT !.smb[page].src.frags = Append(@, frag)]
LastFragment(a, page) == Last(a.smb[page].src.frags)
SetLastFragment(a, page, frag) ==
  [a EXCEPT !.smb[page].src.frags = Append(Front(@), frag)]

Both(x, a) == [x |-> x, a |-> a]

(* ReturnCompletedChunk: an inflated packet count is made true.            *)
Returned(x, r) ==
  Both([x EXCEPT !.page = NoPage, !.inflated = FALSE, !.patches = r.patches], r.a)
ReturnChunk(o) ==
  Returned(o.x, ReturnCompletedChunk(
    IF o.x.inflated THEN AppendFragment(o.a, o.x.page, ZeroSize) ELSE o.a,
    o.x.page, o.x.id, o.x.patches))
ReturnCurrent(o) == IF o.x.page = NoPage THEN o ELSE ReturnChunk(o)

PatchesSent(x, r) == Both([x EXCEPT !.patches = r.patches], r.a)
SendPatchedPatches(o) ==
  IF o.x.patches = <<>> \/ ~o.x.patches[1].patched THEN o
  ELSE PatchesSent(o.x, SendPatches(o.a, o.x.id, o.x.patches))

(* GetNewBuffer, when the SMB is exhausted: the packet is given up and the *)
(* garbage chunk takes what is written until there is a chunk again.       *)
EnterDropping(o, fragmenting) ==
  Both([o.x EXCEPT !.drop = TRUE, !.buf = "garbage", !.inflated = FALSE,
                   !.max = FALSE, !.retry = FALSE,
                   !.lost = IF fragmenting THEN @ \cup {o.x.p} ELSE @,
                   !.nested = [i \in DOMAIN @ |->
                                 IF @[i] = InChunk THEN Nowhere ELSE @[i]]], o.a)
StartDropping(x, a, fragmenting) ==
  EnterDropping(
    ReturnCurrent(Both(x,
      IF fragmenting
      THEN SetLastFragment(a, x.page, [LastFragment(a, x.page) EXCEPT !.kind = "drop"])
      ELSE a)), fragmenting)

(* GetNewBuffer, when there is a new chunk: what is open in the current    *)
(* one moves to the patch list.                                            *)
AnnotatePatches(x, a) ==
  LET here == {i \in DOMAIN x.nested : x.nested[i] = InChunk}
      id == a.smb[x.page].id
      patch == [i \in here |-> [id |-> id, offset |-> i, patched |-> FALSE]]
  IN  [x |-> [x EXCEPT !.nested = [i \in DOMAIN @ |-> IF i \in here
                                    THEN [id |-> id, offset |-> i] ELSE @[i]],
                       !.patches = @ \o [j \in 1 .. Cardinality(here) |->
                                    patch[Len(x.nested) - Cardinality(here) + j]]],
       a |-> [a EXCEPT !.smb[x.page].src.holes = here,
                       !.smb[x.page].flags = @ \cup {"kLastContinues"} \cup
                          (IF here = {} THEN {} ELSE {"kNeedsPatching"})]]

NextChunkID(id) == (id + 1) % (LastChunkID + 1)

EnterChunk(o, page) ==
  Both([o.x EXCEPT !.drop = FALSE, !.max = FALSE, !.retry = FALSE,
                   !.inflated = FALSE, !.page = page, !.buf = "chunk",
                   !.next_id = NextChunkID(@)], o.a)
SwitchChunk(x, new, fragmenting) ==
  EnterChunk(ReturnCurrent(IF fragmenting
                           THEN AnnotatePatches([x EXCEPT !.k = @ + 1], new.a)
                           ELSE Both(x, new.a)), new.page)

NewHeader(x, fragmenting) ==
  [state |-> "kChunkBeingWritten", w |-> x.id, id |-> x.next_id,
   count |-> IF fragmenting THEN 1 ELSE 0,
   flags |-> IF fragmenting THEN {"kFirstContinues"} ELSE {},
   src |-> [frags |-> IF fragmenting THEN <<Frag([x EXCEPT !.k = @ + 1], FALSE)>>
                      ELSE <<>>, holes |-> {}]]

(* The next chunk is taken before the current one is returned.             *)
UseNewChunk(x, new, fragmenting) ==
  IF new.page = NoPage THEN StartDropping(x, new.a, fragmenting)
  ELSE SwitchChunk(x, new, fragmenting)
GetNewBuffer(x, a, fragmenting) ==
  IF fragmenting /\ x.drop THEN Both([x EXCEPT !.retry = TRUE], a)
  ELSE UseNewChunk(x, GetNewChunk(a, NewHeader(x, fragmenting)), fragmenting)

(* A buffer that is gone has no room.                                      *)
HasRoom(x) == x.buf = "garbage" \/ x.page # NoPage

(* The packet's first fragment, unless packets are being dropped.          *)
WriteFirst(o, count, flagged) ==
  Both([o.x EXCEPT !.inflated = FALSE, !.max = count = MaxPackets],
       AppendFragment([o.a EXCEPT !.smb[o.x.page].count = count], o.x.page,
                      Frag(o.x, flagged)))
BeginPacket(o, flagged) ==
  IF o.x.drop THEN Both([o.x EXCEPT !.lost = @ \cup {o.x.p}], o.a)
  ELSE WriteFirst(o, o.a.smb[o.x.page].count + (IF o.x.inflated THEN 0 ELSE 1),
                  flagged)

StartNumbered(x, a, renew, flagged) ==
  BeginPacket(SendPatchedPatches(IF renew THEN GetNewBuffer(x, a, FALSE)
                                 ELSE Both(x, a)), flagged)
NewTracePacket(x, a, chunk_too_full) ==
  StartNumbered([x EXCEPT !.p = @ + 1, !.k = 1, !.busy = TRUE], a,
                chunk_too_full \/ x.max \/ x.retry, x.drop)

(* Finalizing a nested message writes its size where its size field is.    *)
FinalizeNested(x, i) ==
  [x EXCEPT !.nested = SubSeq(@, 1, i - 1),
            !.patches = [j \in DOMAIN @ |->
               IF \E m \in i .. Len(x.nested) : x.nested[m].id = @[j].id
                                                /\ x.nested[m].offset = @[j].offset
               THEN [@[j] EXCEPT !.patched = TRUE] ELSE @[j]]]

BeginNested(x) ==
  [x EXCEPT !.nested = Append(@, IF x.drop THEN Nowhere ELSE InChunk)]

(* The packet ends; the count of its chunk is inflated by the next one.    *)
EndFragment(x, a) ==
  IF x.page = NoPage THEN a
  ELSE SetLastFragment(a, x.page, [LastFragment(a, x.page) EXCEPT !.end = TRUE])
InflateCount(o) ==
  Both([o.x EXCEPT !.inflated = TRUE], [o.a EXCEPT !.smb[o.x.page].count = @ + 1])
CloseFragment(o, no_room) ==
  IF o.x.page = NoPage THEN o
  ELSE IF no_room THEN ReturnChunk(o) ELSE InflateCount(o)
FinishTracePacket(x, a, no_room) ==
  SendPatchedPatches(
    CloseFragment(Both([FinalizeNested(x, 1) EXCEPT !.busy = FALSE], EndFragment(x, a)),
                  no_room))

FlushKeepsChunk(x, a) ==  \* mutant: the chunk is not returned
  [x |-> [x EXCEPT !.buf = "none"], a |-> PostFlush(a, x.id)]
Flushed(o) == Both([o.x EXCEPT !.buf = "none"], PostFlush(o.a, o.x.id))
Flush(x, a) == Flushed(ReturnCurrent(Both(x, a)))
=============================================================================
