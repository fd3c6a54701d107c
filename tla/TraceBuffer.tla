----------------------------- MODULE TraceBuffer -----------------------------
(***************************************************************************)
(* Class TraceBuffer of the tracing service (trace_buffer.cc): the ring of *)
(* chunk records that every writer's chunks are copied into, the index     *)
(* over it, patching, and reading packets back in the order of each        *)
(* writer's chunks.                                                        *)
(*                                                                         *)
(* A buffer is a record `b` and every method is an operator from buffers   *)
(* to buffers, so that the service can call several of them in one task:   *)
(*   data      the records of data_, each under the offset it starts at    *)
(*   wptr      wptr_                                                       *)
(*   index     index_, from <<sequence, chunk id>> to the chunk's metadata *)
(*   last      last_chunk_id_written_                                      *)
(*   discard   discard_writes_                                             *)
(*   abi       stats_.abi_violations() > 0                                 *)
(* Sizes and offsets are counted in units of sizeof(ChunkRecord).  What is *)
(* in a chunk is a record `src`: frags, the sequence of its fragments, and *)
(* holes, the offsets that a patch still has to fill in.                   *)
(***************************************************************************)
EXTENDS Integers, Sequences, FiniteSets, FiniteSetsExt, Functions

CONSTANTS
  Size,         \* size_
  RecordSize,   \* the size of a record of each {ProducerID, WriterID} sequence
  MaxChunkID    \* kMaxChunkID

ASSUME BufferAssumption ==
  /\ Size \in Nat /\ MaxChunkID \in Nat
  /\ \A s \in DOMAIN RecordSize : RecordSize[s] \in 1 .. Size
  /\ DOMAIN RecordSize \subseteq Nat

Sequence == DOMAIN RecordSize
NextID(c) == (c + 1) % (MaxChunkID + 1)

Initialize(policy) ==
  [policy |-> policy, data |-> <<>>, wptr |-> 0, index |-> <<>>,
   last |-> [s \in Sequence |-> 0], discard |-> FALSE, abi |-> FALSE,
   dcheck |-> FALSE]

Without(f, gone) == [x \in DOMAIN f \ gone |-> f[x]]
With(f, x, v) == [y \in DOMAIN f \cup {x} |-> IF y = x THEN v ELSE f[y]]

-----------------------------------------------------------------------------
(* Writing.                                                                *)

WriteChunkRecord(b, record) == [b EXCEPT !.data = With(@, b.wptr, record)]

AddPaddingRecordNot(b, size) ==  \* mutant: the gap is not padded
  b
AddPaddingRecord(b, size) ==
  WriteChunkRecord(b, [size |-> size, is_padding |-> TRUE])

(* The records that start in the range make way.  `pad` is the gap that is *)
(* left before the next record; an untouched buffer has none.              *)
DeleteNextChunksFor(b, size) ==
  LET scanned == {o \in DOMAIN b.data : b.wptr <= o /\ o < b.wptr + size}
      keys == {b.data[o].key : o \in {o \in scanned : ~b.data[o].is_padding}}
      unread == \E k \in keys : b.index[k].read < b.index[k].n
      next == Max({o + b.data[o].size : o \in scanned})
  IN  IF b.wptr \notin DOMAIN b.data THEN [ok |-> TRUE, b |-> b, pad |-> 0]
      ELSE IF unread /\ b.policy = "kDiscard"
      THEN [ok |-> FALSE, b |-> b, pad |-> 0]
      ELSE [ok |-> TRUE, pad |-> next - (b.wptr + size),
            b |-> [b EXCEPT !.data = Without(@, scanned),
                            !.index = Without(@, keys)]]

DiscardWrite(b) == [b EXCEPT !.discard = TRUE]

(* The write pointer behind a record of `size`.                            *)
Advance(wptr, size) == IF wptr + size >= Size THEN 0 ELSE wptr + size

(* Chunk ids wrap: c is later than `last` if it is less than half the way  *)
(* round from it.                                                          *)
LaterNoWrap(c, last) ==  \* mutant: chunk ids do not wrap
  c > last
Later(c, last) == (c - last) % (MaxChunkID + 1) < MaxChunkID \div 2

InsertChunk(b, key, n, flags, complete, src) ==
  LET size == RecordSize[key[1]]
      room == DeleteNextChunksFor(b, Size - b.wptr)
      b1 == IF size <= Size - b.wptr THEN b
            ELSE [AddPaddingRecord(room.b, Size - b.wptr) EXCEPT !.wptr = 0]
      del == DeleteNextChunksFor(b1, size)
      b2 == [WriteChunkRecord(del.b, [size |-> size, is_padding |-> FALSE,
                                      key |-> key, flags |-> flags, src |-> src])
             EXCEPT !.index = With(@, key, [off |-> b1.wptr, n |-> n,
                                 flags |-> flags, complete |-> complete,
                                 read |-> 0, skipped |-> FALSE]),
                    !.wptr = Advance(@, size),
                    !.last[key[1]] = IF Later(key[2], @) THEN key[2] ELSE @]
  IN  IF b.discard THEN DiscardWrite(b)
      ELSE IF size > Size - b.wptr /\ ~room.ok THEN DiscardWrite(b)
      ELSE IF ~del.ok THEN DiscardWrite(b1)
      ELSE IF del.pad > 0 THEN AddPaddingRecord(b2, del.pad) ELSE b2

(* A chunk that was scraped before: it may only grow, and not once its     *)
(* successor is being read.                                                *)
OverrideChunk(b, key, n, flags, complete, src) ==
  LET prev == b.index[key]
      next == <<key[1], NextID(key[2])>>
      b1 == [b EXCEPT !.dcheck = @ \/ (prev.complete /\ ~(complete /\ prev.n = n))]
  IN  IF prev.n > n \/ ~(b.data[prev.off].flags \subseteq flags)
      THEN [b EXCEPT !.abi = TRUE]
      ELSE IF prev.n = n THEN b1
      ELSE IF next \in DOMAIN b.index /\ b.index[next].read > 0
      THEN [b1 EXCEPT !.abi = TRUE]
      ELSE IF prev.read > prev.n THEN [b1 EXCEPT !.dcheck = TRUE]
      ELSE [b1 EXCEPT !.index[key].n = n, !.index[key].flags = flags,
                      !.index[key].complete = complete,
                      !.data[prev.off].flags = flags, !.data[prev.off].src = src]

(* The last fragment of a chunk that is being written does not count, nor  *)
(* do the flags that are about it.                                         *)
CutFlagsLast(flags) ==  \* mutant: kNeedsPatching is kept
  flags \ {"kLastContinues"}
CutFlags(flags) == flags \ {"kLastContinues", "kNeedsPatching"}

CopyChunkUntrusted(b, key, num_fragments, chunk_flags, complete, src) ==
  LET cut == ~complete /\ num_fragments > 0
      n == IF cut THEN num_fragments - 1 ELSE num_fragments
      flags == IF cut THEN CutFlags(chunk_flags) ELSE chunk_flags
  IN  IF key \in DOMAIN b.index THEN OverrideChunk(b, key, n, flags, complete, src)
      ELSE InsertChunk(b, key, n, flags, complete, src)

TryPatchChunkContents(b, key, offsets, other_patches_pending) ==
  LET off == b.index[key].off
      flags == b.index[key].flags \ {"kNeedsPatching"}
      b1 == [b EXCEPT !.data[off].src.holes = @ \ offsets]
  IN  IF key \notin DOMAIN b.index THEN b
      ELSE IF other_patches_pending THEN b1
      ELSE [b1 EXCEPT !.index[key].flags = flags, !.data[off].flags = flags]

-----------------------------------------------------------------------------
(* Reading.  An iterator is over one sequence; cur = End is seq_end.       *)

End == -1
Chunks(b, s) == {k[2] : k \in {k \in DOMAIN b.index : k[1] = s}}

GetReadIterForSequence(b, s) ==
  LET after == {c \in Chunks(b, s) : c > b.last[s]}
  IN  [seq |-> s, wrapping_id |-> b.last[s],
       cur |-> IF after = {} THEN Min(Chunks(b, s)) ELSE Min(after)]

(* The sequences of the index after s, in the order of their ids.          *)
Following(b, s) == {t \in Sequence : t > s /\ Chunks(b, t) # {}}

MoveNext(b, it) ==
  LET above == {c \in Chunks(b, it.seq) : c > it.cur}
      next == IF above = {} THEN Min(Chunks(b, it.seq)) ELSE Min(above)
  IN  IF \/ it.cur = End \/ it.cur = it.wrapping_id
         \/ ~b.index[<<it.seq, it.cur>>].complete
         \/ next # NextID(it.cur)
      THEN [it EXCEPT !.cur = End] ELSE [it EXCEPT !.cur = next]

(* A fragment: part `k` of packet `p`, with end if it is the last one.     *)
(* flagged is the packet's own previous_packet_dropped.  The holes of a    *)
(* chunk are all in its last fragment, which was cut where they are.       *)
Fragments == [kind : {"data", "empty", "drop"}, p : Nat, k : Nat, end : BOOLEAN,
              flagged : BOOLEAN, holes : {{}}]
Empty == [kind |-> "empty", p |-> 0, k |-> 0, end |-> TRUE, flagged |-> FALSE,
          holes |-> {}]

(* ReadNextPacketInChunk, of a chunk whose fragments are not all read: the *)
(* DCHECK on that is `dcheck`.  A fragment that its writer gave up on ends *)
(* the chunk.                                                              *)
Fragment(b, key) ==
  LET frags == b.data[b.index[key].off].src.frags
      next == b.index[key].read + 1
      holes == IF next = Len(frags) THEN b.data[b.index[key].off].src.holes ELSE {}
  IN  IF next <= Len(frags) THEN [frags[next] EXCEPT !.holes = holes] ELSE Empty

ReadNextPacketInChunk(b, key) ==
  LET b1 == [b EXCEPT !.dcheck = @ \/ b.index[key].read >= b.index[key].n]
  IN  IF Fragment(b, key).kind = "drop"
      THEN [b1 EXCEPT !.index[key].read = b.index[key].n]
      ELSE [b1 EXCEPT !.index[key].read = @ + 1, !.index[key].skipped = FALSE]

(* A chunk with holes that await a patch is not read.                      *)
NeedsPatching(chunk) == "kNeedsPatching" \in chunk.flags

(* Whether the next fragment of a chunk goes on in the chunk after it.     *)
ContinuesAnywhere(chunk) ==  \* mutant: of any fragment, not the last
  "kLastContinues" \in chunk.flags
Continues(chunk) == "kLastContinues" \in chunk.flags /\ chunk.read = chunk.n - 1

SetSkipped(b, key) == [b EXCEPT !.index[key].skipped = TRUE]

(* The chunk that holds the end of the packet that starts in the chunk     *)
(* before `it`, End if some chunk of it is missing or not patched.         *)
RECURSIVE LastChunkOfPacket(_, _)
LastChunkOfPacket(b, it) ==
  LET chunk == b.index[<<it.seq, it.cur>>]
  IN  IF it.cur = End THEN End
      ELSE IF chunk.n = 0 THEN LastChunkOfPacket(b, MoveNext(b, it))
      ELSE IF "kFirstContinues" \notin chunk.flags \/ NeedsPatching(chunk) THEN End
      ELSE IF chunk.n = 1 /\ "kLastContinues" \in chunk.flags
      THEN LastChunkOfPacket(b, MoveNext(b, it))
      ELSE it.cur

(* Reads a fragment of every chunk from `it` to the chunk `to`.            *)
RECURSIVE Stitch(_, _, _, _)
Stitch(b, it, to, packet) ==
  LET key == <<it.seq, it.cur>>
      some == b.index[key].n > 0
      b1 == IF some THEN ReadNextPacketInChunk(b, key) ELSE b
      frags == IF some /\ Fragment(b, key).kind # "empty"
               THEN Append(packet, Fragment(b, key)) ELSE packet
  IN  IF it.cur = to THEN [b |-> b1, it |-> it, packet |-> frags]
      ELSE Stitch(b1, MoveNext(b, it), to, frags)

(* ReadNextTracePacket: the loop over chunks and, in it, over the          *)
(* fragments of one.  `prev` is previous_packet_dropped.                   *)
RECURSIVE ReadNext(_, _, _)
RECURSIVE ReadInChunk(_, _, _)
ReadNext(b, it, prev) ==
  IF it.cur = End
  THEN IF Following(b, it.seq) = {}
       THEN [ok |-> FALSE, b |-> b, it |-> it]
       ELSE ReadNext(b, GetReadIterForSequence(b, Min(Following(b, it.seq))), TRUE)
  ELSE LET chunk == b.index[<<it.seq, it.cur>>]
       IN  IF NeedsPatching(chunk)
           THEN ReadNext(b, [it EXCEPT !.cur = End], prev)
           ELSE ReadInChunk(b, it, IF chunk.read > 0 THEN chunk.skipped ELSE prev)

ReadInChunk(b, it, prev) ==
  LET key == <<it.seq, it.cur>>
      chunk == b.index[key]
      b1 == ReadNextPacketInChunk(b, key)
      frag == Fragment(b, key)
      to == LastChunkOfPacket(b, MoveNext(b, it))
      st == Stitch(b, it, to, <<>>)
      last == <<it.seq, to>>
  IN  IF chunk.read >= chunk.n THEN ReadNext(b, MoveNext(b, it), prev)
      ELSE IF chunk.read = 0 /\ "kFirstContinues" \in chunk.flags
      THEN ReadInChunk(SetSkipped(b1, key), it, TRUE)
      ELSE IF ~Continues(chunk) THEN
        CASE frag.kind = "data" ->
               [ok |-> TRUE, b |-> b1, it |-> it, packet |-> <<frag>>, dropped |-> prev]
          [] frag.kind = "empty" -> ReadInChunk(b1, it, prev)
          [] frag.kind = "drop" -> ReadNext(SetSkipped(b1, key), MoveNext(b1, it), TRUE)
      ELSE IF to = End THEN ReadNext(b, [it EXCEPT !.cur = End], prev)
      ELSE IF \E i \in DOMAIN st.packet : st.packet[i].kind = "drop"
      THEN ReadInChunk(SetSkipped(st.b, last), st.it, TRUE)
      ELSE [ok |-> TRUE, b |-> st.b, it |-> st.it, packet |-> st.packet,
            dropped |-> prev]

BeginRead == [seq |-> Min(Sequence) - 1, wrapping_id |-> 0, cur |-> End]

(* Reads up to `max` packets: ReadBuffers stops at a threshold of bytes.   *)
RECURSIVE ReadPackets(_, _, _, _)
ReadPackets(b, it, max, packets) ==
  LET r == ReadNext(b, it, TRUE)
  IN  IF max = 0 \/ ~r.ok THEN [b |-> IF max = 0 THEN b ELSE r.b, packets |-> packets]
      ELSE ReadPackets(r.b, r.it, max - 1,
             Append(packets, [seq |-> r.it.seq, frags |-> r.packet,
                              dropped |-> r.dropped]))
=============================================================================
