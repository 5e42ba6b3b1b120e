--------------------------- MODULE EventBufferProofs ---------------------------
(***************************************************************************)
(* What the runs of EventBuffer check on a buffer of three events, proved  *)
(* for every capacity, every batch size and every set of events.           *)
(***************************************************************************)
EXTENDS EventBuffer, SequenceTheorems, TLAPS

(***************************************************************************)
(* The inductive invariant.  The consumed prefix is never more than half   *)
(* of the array: that is what keeps the index in range and the memory      *)
(* bounded, and it is true because drain compacts after every move.        *)
(***************************************************************************)
HalfActive == 2 * bufferHead <= Len(buffer)

WithinCapacity == GetSize <= MaxSize

IndInv ==
  /\ BufferTypeOK
  /\ HalfActive
  /\ WithinCapacity
  /\ ExactDelivery
  /\ CountersAgree

--------------------------------------------------------------------------------
(* Lemmas on sequences                                                     *)

(* A sequence is the front of its concatenation with another.              *)
LEMMA FrontOfConcat ==
  ASSUME NEW S, NEW s \in Seq(S), NEW t \in Seq(S)
  PROVE  SubSeq(s \o t, 1, Len(s)) = s
<1>1. CASE Len(s) = 0
  BY <1>1, EmptySeq, SubSeqEmpty
<1>2. CASE Len(s) # 0
  <2>1. Len(s) \in Nat /\ 1 \in 1 .. Len(s) /\ Len(s) \in 1 .. Len(s)
    BY <1>2, LenProperties
  <2>2. SubSeq(s \o t, 1, Len(s)) = SubSeq(s, 1, Len(s))
    BY <2>1, SubSeqOfConcat1
  <2>3. QED
    BY <2>2, SubSeqFull
<1>3. QED
  BY <1>1, <1>2

(* Any segment of a sequence whose bounds are in range is a sequence of    *)
(* the same type, as long as the bounds say.                               *)
LEMMA SegmentType ==
  ASSUME NEW S, NEW s \in Seq(S), NEW m \in 1 .. Len(s) + 1, NEW n \in 0 .. Len(s),
         m <= n + 1
  PROVE  /\ SubSeq(s, m, n) \in Seq(S)
         /\ Len(SubSeq(s, m, n)) = n - m + 1
<1>1. Len(s) \in Nat /\ m \in Int /\ n \in Int
  BY LenProperties
<1>2. \A i \in m .. n : s[i] \in S
  BY <1>1, ElementOfSeq
<1>3. QED
  BY <1>1, <1>2, SubSeqProperties

(* Pushing an element extends every segment that reaches the end.          *)
LEMMA SegmentOfAppend ==
  ASSUME NEW S, NEW s \in Seq(S), NEW e \in S, NEW h \in 0 .. Len(s)
  PROVE  SubSeq(Append(s, e), h + 1, Len(Append(s, e)))
           = Append(SubSeq(s, h + 1, Len(s)), e)
<1> DEFINE p == Append(s, e)
           l == SubSeq(p, h + 1, Len(p))
           t == SubSeq(s, h + 1, Len(s))
           r == Append(t, e)
<1>1. Len(s) \in Nat /\ h \in Nat
  BY LenProperties
<1>2. /\ p \in Seq(S) /\ Len(p) = Len(s) + 1
      /\ \A i \in 1 .. Len(s) : p[i] = s[i]
      /\ p[Len(s) + 1] = e
  BY AppendProperties
<1>3. t \in Seq(S) /\ Len(t) = Len(s) - h
  BY <1>1, SegmentType
<1>4. /\ r \in Seq(S) /\ Len(r) = Len(s) - h + 1
      /\ \A i \in 1 .. Len(s) - h : r[i] = t[i]
      /\ r[Len(s) - h + 1] = e
  BY <1>3, AppendProperties
<1>5. l \in Seq(S) /\ Len(l) = Len(s) - h + 1
  <2> HIDE DEF p
  <2>1. h + 1 \in 1 .. Len(p) + 1 /\ Len(p) \in 0 .. Len(p) /\ h + 1 <= Len(p) + 1
    BY <1>1, <1>2
  <2>2. l \in Seq(S) /\ Len(l) = Len(p) - (h + 1) + 1
    BY <1>2, <2>1, SegmentType
  <2>3. QED
    BY <1>1, <1>2, <2>2
<1>6. \A i \in 1 .. Len(s) - h + 1 : l[i] = p[h + i]
  <2>1. \A i \in h + 1 .. Len(p) : p[i] \in S
    BY <1>1, <1>2, ElementOfSeq
  <2>2. \A i \in 1 .. Len(p) - (h + 1) + 1 : l[i] = p[(h + 1) + i - 1]
    BY <1>1, <1>2, <2>1, SubSeqProperties
  <2>3. QED
    BY <1>1, <1>2, <2>2
<1>7. \A i \in 1 .. Len(s) - h : t[i] = s[h + i]
  <2>1. \A i \in h + 1 .. Len(s) : s[i] \in S
    BY <1>1, ElementOfSeq
  <2>2. \A i \in 1 .. Len(s) - (h + 1) + 1 : t[i] = s[(h + 1) + i - 1]
    BY <1>1, <2>1, SubSeqProperties
  <2>3. QED
    BY <1>1, <2>2
<1>8. \A i \in 1 .. Len(l) : l[i] = r[i]
  <2> SUFFICES ASSUME NEW i \in 1 .. Len(s) - h + 1
               PROVE  l[i] = r[i]
    BY <1>5
  <2>1. CASE i = Len(s) - h + 1
    BY <2>1, <1>1, <1>2, <1>4, <1>6
  <2>2. CASE i \in 1 .. Len(s) - h
    BY <2>2, <1>1, <1>2, <1>4, <1>6, <1>7
  <2>3. QED
    BY <1>1, <2>1, <2>2
<1>9. QED
  BY <1>4, <1>5, <1>8, SeqEqual

--------------------------------------------------------------------------------
(* The initial states                                                      *)

(* Whatever checkpoint is loaded, at most MaxSize events come of it.       *)
LEMMA LoadedFits ==
  ASSUME NEW events \in Checkpoints
  PROVE  Loaded(events) \in Seq(Enriched) /\ Len(Loaded(events)) <= MaxSize
<1>1. events \in Seq(Enriched) /\ Len(events) \in Nat /\ MaxSize \in Nat \ {0}
  BY BufferAssumption, LenProperties
<1>2. Least(Len(events), MaxSize) \in 0 .. Len(events)
  BY <1>1 DEF Least
<1>3. /\ Loaded(events) \in Seq(Enriched)
      /\ Len(Loaded(events)) = Least(Len(events), MaxSize)
  BY <1>1, <1>2, SegmentType DEF Loaded
<1>4. QED
  BY <1>1, <1>3 DEF Least

(* A buffer that has just loaded a checkpoint, or found none, satisfies    *)
(* the invariant.                                                          *)
LEMMA InitIndInv == BufferInit => IndInv
<1> SUFFICES ASSUME BufferInit PROVE IndInv
  OBVIOUS
<1>1. PICK events \in Checkpoints :
        /\ buffer = Loaded(events)
        /\ bufferHead = 0
        /\ totalEnqueued = Len(Loaded(events))
        /\ totalDropped = 0
        /\ accepted = Loaded(events)
        /\ delivered = << >>
  BY DEF BufferInit
<1>2. buffer \in Seq(Enriched) /\ Len(buffer) <= MaxSize /\ Len(buffer) \in Nat
  BY <1>1, LoadedFits, LenProperties
<1>3. delivered \in Seq(Enriched) /\ Len(delivered) = 0
  BY <1>1, EmptySeq
<1>4. Active = buffer
  BY <1>1, <1>2, SubSeqFull DEF Active
<1>5. ExactDelivery
  BY <1>1, <1>2, <1>4, ConcatEmptySeq DEF ExactDelivery
<1>6. QED
  BY <1>1, <1>2, <1>3, <1>5
  DEF IndInv, BufferTypeOK, HalfActive, WithinCapacity, GetSize, CountersAgree

--------------------------------------------------------------------------------
(* The steps                                                               *)

(* Facts about a state of the invariant that every step below needs.       *)
LEMMA StateFacts ==
  ASSUME IndInv
  PROVE  /\ Len(buffer) \in Nat /\ bufferHead \in Nat /\ bufferHead <= Len(buffer)
         /\ GetSize \in Nat
         /\ Active \in Seq(Enriched) /\ Len(Active) = GetSize
         /\ HeadInSync
         /\ Len(accepted) = Len(delivered) + GetSize
         /\ Len(delivered) \in Nat
<1>1. Len(buffer) \in Nat /\ bufferHead \in Nat /\ bufferHead <= Len(buffer)
  BY LenProperties DEF IndInv, BufferTypeOK
<1>2. GetSize \in Nat
  BY <1>1 DEF GetSize
<1>3. Active \in Seq(Enriched) /\ Len(Active) = GetSize
  BY <1>1, SegmentType DEF IndInv, BufferTypeOK, Active, GetSize
<1>4. HeadInSync
  BY <1>1 DEF IndInv, HalfActive, HeadInSync, HeadIsDesynchronized, GetSize
<1>5. Len(accepted) = Len(delivered) + GetSize
  BY <1>3, ConcatProperties DEF IndInv, BufferTypeOK, ExactDelivery
<1>6. Len(delivered) \in Nat
  BY LenProperties DEF IndInv, BufferTypeOK
<1>7. QED
  BY <1>1, <1>2, <1>3, <1>4, <1>5, <1>6

(* enqueue() of one event keeps the invariant and is a Fifo Accept.        *)
LEMMA EnqueueStep ==
  ASSUME IndInv, NEW e \in Enriched, Enqueue(e)
  PROVE  IndInv' /\ Fifo!Accept(e)
<1>1. /\ GetSize < MaxSize
      /\ buffer' = Append(buffer, e) /\ accepted' = Append(accepted, e)
      /\ totalEnqueued' = totalEnqueued + 1
      /\ bufferHead' = bufferHead /\ totalDropped' = totalDropped
      /\ delivered' = delivered
  BY StateFacts, BufferAssumption DEF Enqueue, IsFull
<1>2. /\ buffer' \in Seq(Enriched) /\ Len(buffer') = Len(buffer) + 1
      /\ accepted' \in Seq(Enriched)
  BY <1>1, AppendProperties DEF IndInv, BufferTypeOK
<1>3. GetSize' = GetSize + 1
  BY <1>1, <1>2, StateFacts DEF GetSize
<1>4. BufferTypeOK'
  BY <1>1, <1>2, StateFacts DEF IndInv, BufferTypeOK
<1>5. HalfActive' /\ WithinCapacity'
  BY <1>1, <1>2, <1>3, StateFacts, BufferAssumption
  DEF IndInv, HalfActive, WithinCapacity
<1>6. ExactDelivery'
  <2>1. Active' = Append(Active, e)
    BY <1>1, StateFacts, SegmentOfAppend DEF IndInv, BufferTypeOK, Active
  <2>2. Active \in Seq(Enriched) /\ delivered \in Seq(Enriched)
    BY StateFacts DEF IndInv, BufferTypeOK
  <2>3. <<e>> \in Seq(Enriched)
    OBVIOUS
  <2>4. delivered \o Append(Active, e) = delivered \o (Active \o <<e>>)
    BY <2>2, AppendIsConcat
  <2>5. delivered \o (Active \o <<e>>) = (delivered \o Active) \o <<e>>
    BY <2>2, <2>3, ConcatAssociative
  <2>6. (delivered \o Active) \o <<e>> = Append(accepted, e)
    BY AppendIsConcat DEF IndInv, BufferTypeOK, ExactDelivery
  <2>7. QED
    BY <1>1, <2>1, <2>4, <2>5, <2>6 DEF ExactDelivery
<1>7. CountersAgree'
  BY <1>1, <1>3, StateFacts DEF IndInv, BufferTypeOK, CountersAgree
<1>8. Fifo!Accept(e)
  BY <1>1, StateFacts DEF Fifo!Accept, Fifo!Waiting
<1>9. QED
  BY <1>4, <1>5, <1>6, <1>7, <1>8 DEF IndInv

(* A rejected enqueue() only counts.                                       *)
LEMMA RejectStep ==
  ASSUME IndInv, EnqueueRejected
  PROVE  IndInv' /\ UNCHANGED <<accepted, delivered>>
BY DEF EnqueueRejected, IndInv, BufferTypeOK, HalfActive, WithinCapacity, ExactDelivery,
       CountersAgree, GetSize, Active

(* Compaction never changes what is active: with the index at h, both of   *)
(* its outcomes leave the segment that starts behind h.                    *)
LEMMA CompactionKeepsActive ==
  ASSUME NEW arr \in Seq(Enriched), NEW h \in 0 .. Len(arr)
  PROVE  LET after == Compacted(arr, h)
         IN /\ after.buffer \in Seq(Enriched)
            /\ after.head \in 0 .. Len(after.buffer)
            /\ 2 * after.head <= Len(after.buffer)
            /\ Len(after.buffer) - after.head = Len(arr) - h
            /\ SubSeq(after.buffer, after.head + 1, Len(after.buffer))
                 = SubSeq(arr, h + 1, Len(arr))
<1> DEFINE cut == SubSeq(arr, h + 1, Len(arr))
<1>1. Len(arr) \in Nat /\ h \in Nat
  BY LenProperties
<1>2. cut \in Seq(Enriched) /\ Len(cut) = Len(arr) - h
  BY <1>1, SegmentType
<1>3. CASE 2 * h > Len(arr)
  <2>1. Compacted(arr, h) = [buffer |-> cut, head |-> 0]
    BY <1>3 DEF Compacted
  <2>2. SubSeq(cut, 0 + 1, Len(cut)) = cut
    BY <1>2, SubSeqFull
  <2>3. QED
    BY <1>1, <1>2, <2>1, <2>2
<1>4. CASE ~ (2 * h > Len(arr))
  <2>1. Compacted(arr, h) = [buffer |-> arr, head |-> h]
    BY <1>4 DEF Compacted
  <2>2. QED
    BY <1>1, <1>4, <2>1
<1>5. QED
  BY <1>3, <1>4

(* drain() keeps the invariant and is a Fifo Deliver of as many events.    *)
LEMMA DrainStep ==
  ASSUME IndInv, NEW n \in BatchSizes, Drain(n)
  PROVE  IndInv' /\ \E k \in 1 .. Fifo!Waiting : Fifo!Deliver(k)
<1> DEFINE count == DrainCount(n)
           h == bufferHead + count
           batch == SubSeq(buffer, bufferHead + 1, h)
           rest == SubSeq(buffer, h + 1, Len(buffer))
<1>1. n \in Nat /\ n > 0 /\ GetSize > 0 /\ MaxSize \in Nat \ {0}
  BY StateFacts, BufferAssumption DEF Drain
<1>2. count \in 1 .. GetSize
  BY <1>1, StateFacts DEF DrainCount, Least
<1>3. h \in 0 .. Len(buffer) /\ h = bufferHead + count /\ bufferHead + 1 \in 1 .. Len(buffer)
  BY <1>2, StateFacts DEF GetSize
<1>4. FixedHead = bufferHead
  BY <1>1, StateFacts DEF HeadInSync, FixedHead
<1>5. Extracted(FixedHead, count) = batch
  BY <1>3, <1>4, StateFacts DEF Extracted, Least
<1>6. /\ delivered' = delivered \o batch
      /\ buffer' = Compacted(buffer, h).buffer
      /\ bufferHead' = Compacted(buffer, h).head
      /\ totalEnqueued' = totalEnqueued /\ totalDropped' = totalDropped
      /\ accepted' = accepted
  BY <1>4, <1>5 DEF Drain
<1>7. /\ buffer' \in Seq(Enriched) /\ bufferHead' \in 0 .. Len(buffer')
      /\ 2 * bufferHead' <= Len(buffer')
      /\ Len(buffer') - bufferHead' = Len(buffer) - h
      /\ Active' = rest
  BY <1>3, <1>6, CompactionKeepsActive DEF IndInv, BufferTypeOK, Active
<1>8. /\ batch \in Seq(Enriched) /\ Len(batch) = count
      /\ rest \in Seq(Enriched)
  BY <1>2, <1>3, StateFacts, SegmentType DEF IndInv, BufferTypeOK
<1>9. GetSize' = GetSize - count
  <2> HIDE DEF count, h
  <2>1. Len(buffer') - bufferHead' = Len(buffer) - (bufferHead + count)
    BY <1>3, <1>7
  <2>2. count \in Nat /\ Len(buffer) \in Nat /\ bufferHead \in Nat
    BY <1>2, StateFacts
  <2>3. QED
    BY <2>1, <2>2 DEF GetSize
<1>10. /\ delivered' \in Seq(Enriched)
       /\ Len(delivered') = Len(delivered) + count
  BY <1>6, <1>8, ConcatProperties DEF IndInv, BufferTypeOK
<1>11. accepted = delivered' \o rest
  <2>1. batch \o rest = Active
    <3>1. bufferHead + 1 \in 1 .. Len(buffer) + 1 /\ h \in (bufferHead + 1) - 1 .. Len(buffer)
      BY <1>2, <1>3, StateFacts
    <3>2. Len(buffer) \in h .. Len(buffer)
      BY <1>3, StateFacts
    <3>3. QED
      BY <3>1, <3>2, ConcatAdjacentSubSeq DEF IndInv, BufferTypeOK, Active
  <2>2. delivered \in Seq(Enriched)
    BY DEF IndInv, BufferTypeOK
  <2>3. (delivered \o batch) \o rest = delivered \o (batch \o rest)
    <3> HIDE DEF batch, rest
    <3>1. QED
      BY <1>8, <2>2, ConcatAssociative
  <2>4. QED
    BY <1>6, <2>1, <2>3 DEF IndInv, ExactDelivery
<1>12. BufferTypeOK'
  BY <1>6, <1>7, <1>10 DEF IndInv, BufferTypeOK
<1>13. HalfActive' /\ WithinCapacity'
  <2> HIDE DEF count
  <2>1. HalfActive'
    BY <1>7 DEF HalfActive
  <2>2. GetSize - count <= GetSize
    BY <1>2, StateFacts
  <2>3. WithinCapacity'
    BY <1>1, <1>2, <1>9, <2>2, StateFacts DEF IndInv, WithinCapacity
  <2>4. QED
    BY <2>1, <2>3
<1>14. ExactDelivery'
  BY <1>6, <1>7, <1>11 DEF ExactDelivery
<1>15. CountersAgree'
  BY <1>2, <1>6, <1>9, <1>10, StateFacts DEF IndInv, CountersAgree
<1>16. Fifo!Deliver(count)
  <2>1. SubSeq(delivered' \o rest, 1, Len(delivered')) = delivered'
    BY <1>8, <1>10, FrontOfConcat
  <2>2. QED
    BY <1>6, <1>10, <1>11, <2>1 DEF Fifo!Deliver
<1>17. count \in 1 .. Fifo!Waiting
  BY <1>2, StateFacts DEF Fifo!Waiting
<1>18. QED
  BY <1>12, <1>13, <1>14, <1>15, <1>16, <1>17 DEF IndInv

(* enqueue in both outcomes and drain with its compaction keep it.         *)
LEMMA StepIndInv == IndInv /\ [BufferNext]_bufferVars => IndInv'
<1> SUFFICES ASSUME IndInv, [BufferNext]_bufferVars PROVE IndInv'
  OBVIOUS
<1>1. CASE \E e \in Enriched : Enqueue(e)
  BY <1>1, EnqueueStep
<1>2. CASE EnqueueRejected
  BY <1>2, RejectStep
<1>3. CASE \E n \in BatchSizes : Drain(n)
  BY <1>3, DrainStep
<1>4. CASE UNCHANGED bufferVars
  BY <1>4 DEF bufferVars, IndInv, BufferTypeOK, HalfActive, WithinCapacity, ExactDelivery,
              CountersAgree, GetSize, Active
<1>5. QED
  BY <1>1, <1>2, <1>3, <1>4 DEF BufferNext

(* So it holds throughout.                                                 *)
LEMMA IndInvHolds == BufferSpec => []IndInv
BY InitIndInv, StepIndInv, PTL DEF BufferSpec

--------------------------------------------------------------------------------
(* The theorems                                                            *)

(* The array, its index and the counters keep their types: the index is    *)
(* never outside the array, whatever the callers of enqueue and drain do.  *)
THEOREM TypeCorrect == BufferSpec => []BufferTypeOK
<1>1. IndInv => BufferTypeOK
  BY DEF IndInv
<1>2. QED
  BY <1>1, IndInvHolds, PTL

(* The repair branch of validateAndFixBufferHead() is never taken.         *)
THEOREM HeadStaysInSync == BufferSpec => []HeadInSync
<1>1. IndInv => HeadInSync
  BY StateFacts
<1>2. QED
  BY <1>1, IndInvHolds, PTL

(* The array holds at most twice the configured capacity.                  *)
THEOREM MemoryStaysBounded == BufferSpec => []MemoryBounded
<1>1. IndInv => MemoryBounded
  <2> SUFFICES ASSUME IndInv PROVE MemoryBounded
    OBVIOUS
  <2>1. 2 * bufferHead <= Len(buffer) /\ Len(buffer) - bufferHead <= MaxSize
    BY DEF IndInv, HalfActive, WithinCapacity, GetSize
  <2>2. QED
    BY <2>1, StateFacts, BufferAssumption DEF MemoryBounded
<1>2. QED
  BY <1>1, IndInvHolds, PTL

(* Nothing is lost, repeated or reordered between enqueue and drain.       *)
THEOREM DeliveryIsExact == BufferSpec => []ExactDelivery
<1>1. IndInv => ExactDelivery
  BY DEF IndInv
<1>2. QED
  BY <1>1, IndInvHolds, PTL

(* The enqueue counter agrees with what was handed out and what is left.   *)
THEOREM CountersStayInAgreement == BufferSpec => []CountersAgree
<1>1. IndInv => CountersAgree
  BY DEF IndInv
<1>2. QED
  BY <1>1, IndInvHolds, PTL

(* The array with its moving index implements the bounded first-in         *)
(* first-out channel.                                                      *)
THEOREM BufferImplementsFifo == BufferSpec => ImplementsFifo
<1>1. BufferInit => Fifo!Init
  <2> SUFFICES ASSUME BufferInit PROVE Fifo!Init
    OBVIOUS
  <2>1. PICK events \in Checkpoints : accepted = Loaded(events) /\ delivered = << >>
    BY DEF BufferInit
  <2>2. QED
    BY <2>1 DEF Fifo!Init
<1>2. IndInv /\ [BufferNext]_bufferVars => [Fifo!Next]_(Fifo!vars)
  <2> SUFFICES ASSUME IndInv, [BufferNext]_bufferVars PROVE [Fifo!Next]_(Fifo!vars)
    OBVIOUS
  <2>1. CASE \E e \in Enriched : Enqueue(e)
    BY <2>1, EnqueueStep DEF Fifo!Next
  <2>2. CASE EnqueueRejected
    BY <2>2, RejectStep DEF Fifo!vars
  <2>3. CASE \E n \in BatchSizes : Drain(n)
    BY <2>3, DrainStep DEF Fifo!Next
  <2>4. CASE UNCHANGED bufferVars
    BY <2>4 DEF bufferVars, Fifo!vars
  <2>5. QED
    BY <2>1, <2>2, <2>3, <2>4 DEF BufferNext
<1>3. QED
  BY <1>1, <1>2, IndInvHolds, PTL DEF BufferSpec, ImplementsFifo, Fifo!Spec

================================================================================
