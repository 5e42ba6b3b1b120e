------------------------------ MODULE EventBuffer ------------------------------
(***************************************************************************)
(* EventBufferService (modules/event/services/event-buffer.service.ts):    *)
(* the in-memory queue between the HTTP handlers and the batch worker.     *)
(*                                                                         *)
(* The service keeps one array and the index of its first unconsumed cell. *)
(* Draining moves the index; the consumed prefix is cut off only when it   *)
(* is more than half of the array.  enqueue, drain and the size queries    *)
(* have no await, so each of them is one action.  BufferInit is the state  *)
(* after onModuleInit: the array holds what a checkpoint had.              *)
(* The checkpoint files and their races are the subject of Checkpoint.     *)
(***************************************************************************)
EXTENDS Naturals, Sequences

CONSTANTS
  Enriched,     (* enriched events                                         *)
  MaxSize,      (* bufferConfig.maxSize                                    *)
  BatchSizes,   (* the arguments drain() may be called with                *)
  Checkpoints,  (* the valid events of the checkpoints that may be loaded  *)
  MaxAttempts   (* bound: enqueue() is called this many times at most      *)

ASSUME BufferAssumption ==
  /\ MaxSize \in Nat \ {0}
  /\ BatchSizes \subseteq Nat
  /\ Checkpoints \subseteq Seq(Enriched)
  /\ MaxAttempts \in Nat

VARIABLES
  buffer,        (* the array, consumed cells included                     *)
  bufferHead,    (* number of consumed cells at its front                  *)
  totalEnqueued, (* this buffer's share of the collector's totalEnqueued   *)
  totalDropped,  (* this buffer's share of the collector's totalDropped    *)
  accepted,      (* history: the events pushed to the array, in order      *)
  delivered      (* history: the events drain() returned, in order         *)

bufferVars ==
  <<buffer, bufferHead, totalEnqueued, totalDropped, accepted, delivered>>

Least(a, b) == IF a <= b THEN a ELSE b

--------------------------------------------------------------------------------
(* The service's helpers.  Cell i of the array is element i + 1 here.      *)

GetSize == Len(buffer) - bufferHead

IsFull == GetSize >= MaxSize

(* The active events: buffer.slice(bufferHead).                            *)
Active == SubSeq(buffer, bufferHead + 1, Len(buffer))

(* Faulty variant: the prefix is cut off but the index is not reset.       *)
CompactedKeepingHead(arr, head) ==
  IF 2 * head > Len(arr)
  THEN [buffer |-> SubSeq(arr, head + 1, Len(arr)), head |-> head]
  ELSE [buffer |-> arr, head |-> head]

(* Faulty variant: the prefix is only cut off once nothing is active.      *)
CompactedWhenEmpty(arr, head) ==
  IF head = Len(arr)
  THEN [buffer |-> << >>, head |-> 0]
  ELSE [buffer |-> arr, head |-> head]

(* compactBufferIfNeeded(): the array and the index it leaves.             *)
Compacted(arr, head) ==
  IF 2 * head > Len(arr)
  THEN [buffer |-> SubSeq(arr, head + 1, Len(arr)), head |-> 0]
  ELSE [buffer |-> arr, head |-> head]

(* validateAndFixBufferHead(); the index is never negative here.           *)
HeadIsDesynchronized == bufferHead >= Len(buffer)

FixedHead == IF HeadIsDesynchronized THEN 0 ELSE bufferHead

(* Faulty variant: the request is not capped by what is in the buffer.     *)
UncappedCount(n) == Least(n, MaxSize)

(* How many events drain(n) consumes.                                      *)
DrainCount(n) == Least(Least(n, MaxSize), GetSize)

(* Faulty variant: extraction starts one cell late.                        *)
ExtractedLate(head, count) ==
  SubSeq(buffer, head + 2, Least(head + 1 + count, Len(buffer)))

(* The cells the extraction loop copies; it stops at the array's end.      *)
Extracted(head, count) ==
  SubSeq(buffer, head + 1, Least(head + count, Len(buffer)))

--------------------------------------------------------------------------------

(* loadCheckpoint() stops when the buffer is full and counts what it       *)
(* pushed as enqueued.                                                     *)
Loaded(events) == SubSeq(events, 1, Least(Len(events), MaxSize))

BufferInit ==
  \E events \in Checkpoints :
    /\ buffer = Loaded(events)
    /\ bufferHead = 0
    /\ totalEnqueued = Len(Loaded(events))
    /\ totalDropped = 0
    /\ accepted = Loaded(events)
    /\ delivered = << >>

MayAttempt == Len(accepted) + totalDropped < MaxAttempts

(* Faulty variant: one event more than the capacity is let in.             *)
EnqueueBeyond(e) ==
  /\ MayAttempt
  /\ GetSize <= MaxSize
  /\ buffer' = Append(buffer, e)
  /\ accepted' = Append(accepted, e)
  /\ totalEnqueued' = totalEnqueued + 1
  /\ UNCHANGED <<bufferHead, totalDropped, delivered>>

(* enqueue(event) when there is room.                                      *)
Enqueue(e) ==
  /\ MayAttempt
  /\ ~ IsFull
  /\ buffer' = Append(buffer, e)
  /\ accepted' = Append(accepted, e)
  /\ totalEnqueued' = totalEnqueued + 1
  /\ UNCHANGED <<bufferHead, totalDropped, delivered>>

(* enqueue(event) when the buffer is full: the event is discarded and the  *)
(* caller is told.                                                         *)
EnqueueRejected ==
  /\ MayAttempt
  /\ IsFull
  /\ totalDropped' = totalDropped + 1
  /\ UNCHANGED <<buffer, bufferHead, totalEnqueued, accepted, delivered>>

(* drain(n).  A request that is not positive, or an empty buffer, returns  *)
(* an empty batch and changes nothing.                                     *)
Drain(n) ==
  /\ n > 0
  /\ GetSize # 0
  /\ LET count == DrainCount(n)
         after == Compacted(buffer, FixedHead + count)
     IN /\ delivered' = delivered \o Extracted(FixedHead, count)
        /\ buffer' = after.buffer
        /\ bufferHead' = after.head
  /\ UNCHANGED <<totalEnqueued, totalDropped, accepted>>

BufferNext ==
  \/ \E e \in Enriched : Enqueue(e)
  \/ EnqueueRejected
  \/ \E n \in BatchSizes : Drain(n)

BufferSpec == BufferInit /\ [][BufferNext]_bufferVars

--------------------------------------------------------------------------------

(* Every variable has its type and the index stays inside the array.       *)
BufferTypeOK ==
  /\ buffer \in Seq(Enriched)
  /\ bufferHead \in 0 .. Len(buffer)
  /\ totalEnqueued \in Nat
  /\ totalDropped \in Nat
  /\ accepted \in Seq(Enriched)
  /\ delivered \in Seq(Enriched)

(* The repair branch of validateAndFixBufferHead() is dead code: as long   *)
(* as something is active, the index points at it.  If it were not, drain  *)
(* would hand out consumed events a second time.                           *)
HeadInSync == GetSize # 0 => ~ HeadIsDesynchronized

(* The array never holds more than twice the configured capacity, however  *)
(* enqueue and drain alternate: what compactBufferIfNeeded() is for.       *)
MemoryBounded == Len(buffer) <= 2 * MaxSize

(* No event is lost, handed out twice or reordered between push and drain: *)
(* what was accepted is what was delivered followed by what is active.     *)
ExactDelivery == accepted = delivered \o Active

(* The collector's counter agrees with the buffer: every event counted as  *)
(* enqueued was handed out or is still there.                              *)
CountersAgree == totalEnqueued = Len(delivered) + GetSize

(* The array with its moving index is a bounded first-in first-out         *)
(* channel: enqueue accepts, drain delivers, a full buffer stutters.       *)
Fifo == INSTANCE BoundedFifo
          WITH Event <- Enriched,
               Capacity <- MaxSize,
               Restored <- {Loaded(events) : events \in Checkpoints}

ImplementsFifo == Fifo!Spec

================================================================================
