------------------------- MODULE SharedMemoryArbiter -------------------------
(***************************************************************************)
(* Class SharedMemoryArbiterImpl (shared_memory_arbiter_impl.cc) of a      *)
(* producer, with the shared memory buffer (SMB) it hands out in chunks.   *)
(* Every method runs under lock_: it is an operator from arbiters to       *)
(* arbiters.  An arbiter is a record `a`:                                  *)
(*   smb       the chunks; default_page_layout puts one in each page       *)
(*   page_idx  page_idx_                                                   *)
(*   req       commit_data_req_, NoReq if null                             *)
(*   delayed   delayed_flush_scheduled_                                    *)
(*   tasks     the tasks it has posted: `update` for the one that          *)
(*             UpdateCommitDataRequest posts, callback for a writer's Flush*)
(*   direct    direct_patching_enabled_                                    *)
(* The arbiter is bound to its endpoint from the start.                    *)
(***************************************************************************)
EXTENDS Integers, Sequences, FiniteSets, SequencesExt

CONSTANT NumPages

ASSUME ArbiterAssumption == NumPages \in Nat \ {0}

Page == 0 .. NumPages - 1
NoPage == -1
NoWriter == 0

FreeChunk == [state |-> "kChunkFree", w |-> NoWriter, id |-> 0, count |-> 0,
              flags |-> {}, src |-> [frags |-> <<>>, holes |-> {}]]
NoReq == [set |-> FALSE, move |-> <<>>, patch |-> <<>>, callback |-> NoWriter]
NewReq == [NoReq EXCEPT !.set = TRUE]

NewArbiter(direct) ==
  [smb |-> [p \in Page |-> FreeChunk], page_idx |-> 0, req |-> NoReq,
   delayed |-> FALSE, tasks |-> <<>>, direct |-> direct]

(* The first free chunk from page_idx_ on, NoPage if there is none.        *)
GetNewChunk(a, header) ==
  LET at(i) == (a.page_idx + i) % NumPages
      free == {i \in Page : a.smb[at(i)].state = "kChunkFree"}
      i == CHOOSE i \in free : \A j \in free : i <= j
  IN  IF free = {}
      THEN [page |-> NoPage, a |-> [a EXCEPT !.page_idx = at(NumPages - 1)]]
      ELSE [page |-> at(i),
            a |-> [a EXCEPT !.page_idx = at(i), !.smb[at(i)] = header]]

(* The chunk of the request that the patch is for, if the producer has     *)
(* still got it.                                                           *)
Patchable(a, w, patch) ==
  {p \in Range(a.req.move) : a.smb[p].state = "kChunkBeingWritten"
                             /\ a.smb[p].w = w /\ a.smb[p].id = patch.id}

TryDirectPatchLocked(a, p, patch, more) ==
  LET a1 == [a EXCEPT !.smb[p].src.holes = @ \ {patch.offset}]
  IN  IF more THEN a1
      ELSE [a1 EXCEPT !.smb[p].flags = @ \ {"kNeedsPatching"},
                      !.smb[p].state = "kChunkComplete"]

(* last_patch_req is local to a call: entries up to `old` are of others.   *)
AddPatch(req, old, w, patch) ==
  LET n == Len(req.patch)
  IN  IF n > old /\ req.patch[n].id = patch.id
      THEN [req EXCEPT !.patch[n].offsets = @ \cup {patch.offset}]
      ELSE [req EXCEPT !.patch = Append(@, [w |-> w, id |-> patch.id,
                            offsets |-> {patch.offset}, more |-> FALSE])]

(* Takes the patched entries off the front of a writer's patch list.       *)
RECURSIVE ConsumePatches(_, _, _, _)
ConsumePatches(a, old, w, patches) ==
  LET patch == Head(patches)
      more == Len(patches) > 1 /\ patches[2].id = patch.id
      direct == IF a.direct THEN Patchable(a, w, patch) ELSE {}
      a1 == IF direct # {}
            THEN TryDirectPatchLocked(a, CHOOSE p \in direct : TRUE, patch, more)
            ELSE [a EXCEPT !.req = AddPatch(@, old, w, patch)]
  IN  IF patches = <<>> \/ ~patch.patched THEN [a |-> a, patches |-> patches]
      ELSE ConsumePatches(a1, old, w, Tail(patches))

(* UpdateCommitDataRequest, in its steps.  It makes a request if there is  *)
(* none, ...                                                               *)
EnsureRequest(a) == IF a.req.set THEN a ELSE [a EXCEPT !.req = NewReq]

(* ... adds the chunk that is returned (NoPage if only patches are sent),  *)
(* which is kept back if it can be patched here, ...                       *)
AddChunk(a, page) ==
  LET keep == a.direct /\ "kNeedsPatching" \in a.smb[page].flags
  IN  IF page = NoPage THEN a
      ELSE [a EXCEPT !.req.move = Append(@, page),
                     !.smb[page].state = IF keep THEN @ ELSE "kChunkComplete"]

(* ... says of the last patch it added if there are more for its chunk ... *)
SetHasMorePatches(a, old, patches) ==
  LET n == Len(a.req.patch)
  IN  IF n > old /\ patches # <<>> /\ patches[1].id = a.req.patch[n].id
      THEN [a EXCEPT !.req.patch[n].more = TRUE] ELSE a

(* ... and posts the task that flushes: delayed for a new request, at once *)
(* for new patches or if half of the SMB waits.                            *)
ScheduleFlush(a, before) ==
  LET schedule == ~before.req.set /\ ~before.delayed
      new == Len(a.req.patch) > Len(before.req.patch)
      half == 2 * Len(a.req.move) > NumPages
  IN  [a EXCEPT !.delayed = @ \/ schedule,
                !.tasks = IF schedule \/ new \/ half
                          THEN Append(@, [update |-> TRUE, callback |-> NoWriter])
                          ELSE @]

EndUpdate(c, before) ==
  [patches |-> c.patches,
   a |-> ScheduleFlush(SetHasMorePatches(c.a, Len(before.req.patch), c.patches),
                       before)]
UpdateCommitDataRequest(a, page, w, patches) ==
  EndUpdate(ConsumePatches(AddChunk(EnsureRequest(a), page), Len(a.req.patch), w,
                           patches), a)

ReturnCompletedChunk(a, page, w, patches) ==
  UpdateCommitDataRequest(a, page, w, patches)
SendPatches(a, w, patches) == UpdateCommitDataRequest(a, NoPage, w, patches)

(* FlushPendingCommitDataRequests on another thread than the task runner's.*)
PostFlush(a, w) ==
  [a EXCEPT !.tasks = Append(@, [update |-> FALSE, callback |-> w])]

(* And on it: the request goes to the service, and the chunks that were    *)
(* held back for patching with it.                                         *)
FlushPendingCommitDataRequests(a, callback) ==
  LET moved == Range(a.req.move)
  IN  [req |-> IF a.req.set \/ callback # NoWriter
               THEN [a.req EXCEPT !.set = TRUE, !.callback = callback] ELSE NoReq,
       a |-> [a EXCEPT !.req = NoReq,
                       !.smb = [p \in Page |->
                          IF p \in moved /\ @[p].state = "kChunkBeingWritten"
                          THEN [@[p] EXCEPT !.state = "kChunkComplete"] ELSE @[p]]]]

(* The task of UpdateCommitDataRequest opens another batching period.      *)
RunTaskStillDelayed(a) ==  \* mutant: delayed_flush_scheduled_ is not reset
  FlushPendingCommitDataRequests([a EXCEPT !.tasks = Tail(@)], Head(a.tasks).callback)
RunTask(a) ==
  FlushPendingCommitDataRequests(
    [a EXCEPT !.tasks = Tail(@),
              !.delayed = IF Head(a.tasks).update THEN FALSE ELSE @],
    Head(a.tasks).callback)
=============================================================================
