-------------------------- MODULE RingBufferProofs --------------------------
(***************************************************************************)
(* The safety of RingBuffer for every size of ring and every length of     *)
(* slice.  The arithmetic comes first: a copy that starts at any index and *)
(* wraps once visits the slots of its indices modulo the ring's size, and  *)
(* indices less than a ring apart have different slots.  Then each action  *)
(* keeps IInv, whose two central parts say that what one side has reserved *)
(* stays its own however far the other side goes meanwhile.                *)
(***************************************************************************)
EXTENDS RingBuffer, SequenceTheorems, TLAPS

USE BufferFramesAssumption

\* Division with remainder by the number of slots.
LEMMA DivMod ==
    ASSUME NEW a \in Nat
    PROVE  /\ a % BufferFrames \in 0..(BufferFrames - 1)
           /\ a \div BufferFrames \in Nat
           /\ a = BufferFrames * (a \div BufferFrames) + (a % BufferFrames)
  BY SMT

\* A positive multiple of the number of slots is at least that number.
LEMMA MultipleLarge ==
    ASSUME NEW q \in Int, q >= 1
    PROVE  BufferFrames * q >= BufferFrames
  BY SMT

\* The remainder is unique.
LEMMA ModUnique ==
    ASSUME NEW a \in Nat, NEW q \in Int, NEW r \in 0..(BufferFrames - 1),
           a = BufferFrames * q + r
    PROVE  a % BufferFrames = r
  <1> DEFINE p == a \div BufferFrames
             s == a % BufferFrames
  <1>1. /\ s \in 0..(BufferFrames - 1) /\ p \in Nat /\ a = BufferFrames * p + s
    BY DivMod
  <1> HIDE DEF p, s
  <1>2. BufferFrames * (p - q) = r - s /\ BufferFrames * (q - p) = s - r
    BY <1>1, SMT
  <1>3. ~(p - q >= 1)
    BY <1>1, <1>2, MultipleLarge, SMT
  <1>4. ~(q - p >= 1)
    BY <1>1, <1>2, MultipleLarge, SMT
  <1>5. p = q
    BY <1>1, <1>3, <1>4, SMT
  <1>6. s = r
    BY <1>1, <1>5, SMT
  <1> QED BY <1>6 DEF s

\* The two chunks of a copy, the second starting again at the first slot, are
\* indices modulo the number of slots.
LEMMA SlotIsMod ==
    ASSUME NEW idx \in Nat, NEW k \in 0..(BufferFrames - 1)
    PROVE  Slot(idx, k) = (idx + k) % BufferFrames /\ Slot(idx, k) \in Slots
  <1> DEFINE o == idx % BufferFrames
             q == idx \div BufferFrames
  <1>1. o \in 0..(BufferFrames - 1) /\ q \in Nat /\ idx = BufferFrames * q + o
    BY DivMod
  <1>2. Slot(idx, k) = IF o + k < BufferFrames THEN o + k ELSE o + k - BufferFrames
    BY DEF Slot
  <1> HIDE DEF o, q
  <1>3. CASE o + k < BufferFrames
    <2>1. idx + k = BufferFrames * q + (o + k)
      BY <1>1, SMT
    <2>2. o + k \in 0..(BufferFrames - 1)
      BY <1>1, <1>3, SMT
    <2>3. (idx + k) % BufferFrames = o + k
      BY <1>1, <2>1, <2>2, ModUnique, SMT
    <2> QED BY <1>2, <1>3, <2>2, <2>3 DEF Slots
  <1>4. CASE ~(o + k < BufferFrames)
    <2> DEFINE n == q + 1
               r == o + k - BufferFrames
    <2>1. n \in Nat /\ idx + k = BufferFrames * n + r
      BY <1>1, SMT
    <2>2. r \in 0..(BufferFrames - 1)
      BY <1>1, <1>4, SMT
    <2>3. idx + k \in Nat
      BY SMT
    <2>4. (idx + k) % BufferFrames = r
      <3> DEFINE a == idx + k
      <3>1. n \in Int /\ a \in Nat /\ a = BufferFrames * n + r
        BY <2>1, <2>3
      <3> HIDE DEF n, r, a
      <3>2. a % BufferFrames = r
        BY <2>2, <3>1, ModUnique, Zenon
      <3> QED BY <3>2 DEF a
    <2> QED BY <1>2, <1>4, <2>2, <2>4 DEF Slots
  <1> QED BY <1>3, <1>4

\* Indices less than a whole ring apart lie in different slots.
LEMMA WindowDistinct ==
    ASSUME NEW i \in Nat, NEW j \in Nat, i < j, j < i + BufferFrames
    PROVE  i % BufferFrames # j % BufferFrames
  <1> DEFINE p == i \div BufferFrames
             q == j \div BufferFrames
             r == i % BufferFrames
  <1>1. r \in 0..(BufferFrames - 1) /\ p \in Nat /\ i = BufferFrames * p + r
    BY DivMod
  <1> SUFFICES ASSUME j % BufferFrames = r PROVE FALSE
    OBVIOUS
  <1>2. q \in Nat /\ j = BufferFrames * q + r
    BY DivMod
  <1> HIDE DEF p, q, r
  <1>3. BufferFrames * (q - p) = j - i
    BY <1>1, <1>2, SMT
  <1>4. ~(q - p >= 1)
    BY <1>1, <1>2, <1>3, MultipleLarge, SMT
  <1>5. CASE q = p
    BY <1>1, <1>3, <1>5, SMT
  <1>6. CASE p - q >= 1
    <2>1. BufferFrames * (p - q) = i - j
      BY <1>1, <1>2, SMT
    <2> QED BY <1>1, <1>2, <1>6, <2>1, MultipleLarge, SMT
  <1> QED BY <1>1, <1>2, <1>4, <1>5, <1>6, SMT
-----------------------------------------------------------------------------
\* A new ring satisfies the invariant.
THEOREM InitIInv == Init => IInv
  <1> SUFFICES ASSUME Init PROVE IInv
    OBVIOUS
  <1>1. TypeOK
    BY DEF Init, TypeOK, Slots, Calls
  <1>2. IndicesOrdered
    BY DEF Init, IndicesOrdered
  <1>3. ProducerInv /\ ConsumerInv
    BY DEF Init, ProducerInv, ConsumerInv
  <1>4. UnreadIntact /\ ReservedFilled /\ CopiedOut /\ DeliveredInOrder
    BY DEF Init, UnreadIntact, ReservedFilled, CopiedOut, DeliveredInOrder
  <1> QED BY <1>1, <1>2, <1>3, <1>4 DEF IInv

\* A call that goes past its early returns moves at least one frame.
LEMMA CountsInNat ==
    WriteCounts \subseteq Nat \ {0} /\ ReadCounts \subseteq Nat \ {0}
  BY FrameBytesAssumption, LensAssumption, SMT DEF WriteCounts, ReadCounts, FrameCount

\* Loading write_index keeps the invariant: only the producer changes it.
LEMMA WriteCallStep ==
    ASSUME IInv, NEW count \in WriteCounts, WriteCall(count)
    PROVE  IInv'
  <1> USE DEF WriteCall, header, producer, consumer, history
  <1>0. count \in Nat \ {0}
    BY CountsInNat
  <1>1. TypeOK'
    BY <1>0 DEF IInv, TypeOK, Calls
  <1>2. IndicesOrdered'
    BY DEF IInv, IndicesOrdered
  <1>3. ProducerInv'
    BY <1>0 DEF IInv, TypeOK, ProducerInv
  <1>4. ConsumerInv'
    BY DEF IInv, ConsumerInv
  <1>5. UnreadIntact'
    BY DEF IInv, UnreadIntact
  <1>6. ReservedFilled'
    BY DEF IInv, ProducerInv, ReservedFilled
  <1>7. CopiedOut' /\ DeliveredInOrder'
    BY DEF IInv, CopiedOut, DeliveredInOrder
  <1> QED BY <1>1, <1>2, <1>3, <1>4, <1>5, <1>6, <1>7 DEF IInv

\* What write reserves stays free, since the reader can only make more room.
LEMMA WriteReserveStep ==
    ASSUME IInv, WriteReserve
    PROVE  IInv'
  <1> USE DEF WriteReserve, header, producer, consumer, history
  <1>1. TypeOK'
    BY DEF IInv, TypeOK, Calls, Least, Free, Used, IndicesOrdered, ProducerInv
  <1>2. IndicesOrdered'
    BY DEF IInv, IndicesOrdered
  <1>3. ProducerInv'
    BY DEF IInv, TypeOK, ProducerInv, IndicesOrdered, Least, Free, Used
  <1>4. ConsumerInv'
    BY DEF IInv, ConsumerInv
  <1>5. UnreadIntact'
    BY DEF IInv, UnreadIntact
  <1>6. ReservedFilled'
    BY DEF IInv, ProducerInv, ReservedFilled
  <1>7. CopiedOut' /\ DeliveredInOrder'
    BY DEF IInv, CopiedOut, DeliveredInOrder
  <1> QED BY <1>1, <1>2, <1>3, <1>4, <1>5, <1>6, <1>7 DEF IInv

\* A frame is copied into a reserved slot, which holds no unread frame.
LEMMA WriteCopyStep ==
    ASSUME IInv, WriteCopy
    PROVE  IInv'
  <1> DEFINE s == Slot(p_write_idx, p_done)
             v == offered + p_done + 1
  <1>0. /\ p_pc = "copying" /\ p_done < p_n /\ p_done' = p_done + 1
        /\ data' = [data EXCEPT ![s] = v]
        /\ UNCHANGED <<write_index, read_index, p_pc, p_write_idx, p_count, p_n,
                       c_pc, c_write_idx, c_read_idx, c_max, c_n, c_buf,
                       offered, log, delivered>>
    BY DEF WriteCopy, header, consumer, history
  <1>1. s = (p_write_idx + p_done) % BufferFrames /\ s \in Slots
    <2>1. p_done \in 0..(BufferFrames - 1)
      BY <1>0 DEF IInv, TypeOK, ProducerInv, IndicesOrdered
    <2> QED BY <2>1, SlotIsMod DEF IInv, TypeOK
  <1>2. v \in Nat
    BY DEF IInv, TypeOK
  <1>3. ASSUME NEW t \in Slots
        PROVE  data'[t] = IF t = s THEN v ELSE data[t]
    BY <1>0, <1>3 DEF IInv, TypeOK
  <1> HIDE DEF s, v
  <1>4. TypeOK'
    <2>1. data' \in [Slots -> Nat]
      BY <1>0, <1>1, <1>2 DEF IInv, TypeOK
    <2> QED BY <1>0, <2>1 DEF IInv, TypeOK, Calls
  <1>5. IndicesOrdered'
    BY <1>0 DEF IInv, IndicesOrdered
  <1>6. ProducerInv'
    BY <1>0 DEF IInv, TypeOK, ProducerInv
  <1>7. ConsumerInv'
    BY <1>0 DEF IInv, ConsumerInv
  <1>8. UnreadIntact'
    <2> SUFFICES ASSUME NEW i \in read_index..(write_index - 1)
                 PROVE  data'[i % BufferFrames] = log[i + 1]
      BY <1>0 DEF IInv, UnreadIntact
    <2>1. i \in Nat /\ p_write_idx + p_done \in Nat
          /\ i < p_write_idx + p_done /\ p_write_idx + p_done < i + BufferFrames
      BY <1>0 DEF IInv, TypeOK, ProducerInv, IndicesOrdered
    <2>2. i % BufferFrames # s
      BY <1>1, <2>1, WindowDistinct
    <2>3. i % BufferFrames \in Slots
      BY <2>1, DivMod DEF Slots
    <2>4. data'[i % BufferFrames] = data[i % BufferFrames]
      BY <1>3, <2>2, <2>3, Zenon
    <2> QED BY <2>4 DEF IInv, UnreadIntact
  <1>9. ReservedFilled'
    <2> SUFFICES ASSUME NEW k \in 0..(p_done' - 1)
                 PROVE  data'[(p_write_idx + k) % BufferFrames] = offered + k + 1
      BY <1>0 DEF ReservedFilled
    <2>0. k \in 0..p_done
      BY <1>0 DEF IInv, TypeOK
    <2>1. CASE k = p_done
      BY <1>1, <1>3, <2>1 DEF v
    <2>2. CASE k < p_done
      <3> DEFINE i == p_write_idx + k
                 j == p_write_idx + p_done
      <3>1. i \in Nat /\ j \in Nat /\ i < j /\ j < i + BufferFrames
        BY <1>0, <2>0, <2>2 DEF IInv, TypeOK, ProducerInv, IndicesOrdered
      <3>2. s = j % BufferFrames
        BY <1>1
      <3> HIDE DEF i, j
      <3>3. i % BufferFrames # s
        BY <3>1, <3>2, WindowDistinct
      <3>4. i % BufferFrames \in Slots
        BY <3>1, DivMod DEF Slots
      <3>5. data'[i % BufferFrames] = data[i % BufferFrames]
        BY <1>3, <3>3, <3>4, Zenon
      <3>6. k \in 0..(p_done - 1)
        BY <2>0, <2>2 DEF IInv, TypeOK
      <3> QED BY <3>5, <3>6 DEF IInv, ReservedFilled, i
    <2> QED BY <2>0, <2>1, <2>2 DEF IInv, TypeOK
  <1>10. CopiedOut' /\ DeliveredInOrder'
    BY <1>0 DEF IInv, CopiedOut, DeliveredInOrder
  <1> QED BY <1>4, <1>5, <1>6, <1>7, <1>8, <1>9, <1>10 DEF IInv

\* The frames a call of write publishes, as a sequence.
LEMMA BatchIsSeq ==
    ASSUME NEW n \in Nat, NEW base \in Nat
    PROVE  LET batch == [k \in 1..n |-> base + k]
           IN  /\ batch \in Seq(Nat)
               /\ Len(batch) = n
               /\ \A k \in 1..n : batch[k] = base + k
  <1>1. [k \in 1..n |-> base + k] \in [1..n -> Nat]
    BY SMT
  <1> QED BY <1>1, SMT

\* The slots published with write_index hold the frames just copied.
LEMMA WritePublishStep ==
    ASSUME IInv, WritePublish
    PROVE  IInv'
  <1> DEFINE batch == [k \in 1..p_n |-> offered + k]
  <1>0. /\ p_pc = "copying" /\ p_done = p_n
        /\ write_index' = p_write_idx + p_n
        /\ log' = log \o batch
        /\ offered' = offered + p_count
        /\ p_pc' = "idle" /\ p_count' = 0 /\ p_n' = 0 /\ p_done' = 0
        /\ UNCHANGED <<read_index, data, p_write_idx,
                       c_pc, c_write_idx, c_read_idx, c_max, c_n, c_buf, delivered>>
    BY DEF WritePublish, Copied, consumer
  <1>1. batch \in Seq(Nat) /\ Len(batch) = p_n
        /\ \A k \in 1..p_n : batch[k] = offered + k
    BY BatchIsSeq DEF IInv, TypeOK
  <1> HIDE DEF batch
  <1>2. /\ log' \in Seq(Nat)
        /\ Len(log') = write_index + p_n
        /\ \A i \in 1..write_index : log'[i] = log[i]
        /\ \A k \in 1..p_n : log'[write_index + k] = offered + k
    <2>1. log \in Seq(Nat) /\ Len(log) = write_index /\ write_index \in Nat /\ p_n \in Nat
      BY DEF IInv, TypeOK, UnreadIntact
    <2>2. /\ log' \in Seq(Nat)
          /\ Len(log') = Len(log) + Len(batch)
          /\ \A i \in 1..(Len(log) + Len(batch)) :
                log'[i] = IF i <= Len(log) THEN log[i] ELSE batch[i - Len(log)]
      BY <1>0, <1>1, <2>1, ConcatProperties
    <2> QED BY <1>1, <2>1, <2>2
  <1>3. p_write_idx = write_index
    BY <1>0 DEF IInv, ProducerInv
  <1>4. TypeOK'
    BY <1>0, <1>2 DEF IInv, TypeOK, Calls
  <1>5. IndicesOrdered'
    BY <1>0 DEF IInv, TypeOK, ProducerInv, IndicesOrdered
  <1>6. ProducerInv'
    BY <1>0 DEF ProducerInv
  <1>7. ConsumerInv'
    BY <1>0, <1>3 DEF IInv, TypeOK, ConsumerInv
  <1>8. UnreadIntact'
    <2> SUFFICES ASSUME NEW i \in read_index..(write_index' - 1)
                 PROVE  data[i % BufferFrames] = log'[i + 1]
      <3>1. Len(log') = write_index'
        BY <1>0, <1>2, <1>3
      <3> QED BY <1>0, <3>1 DEF UnreadIntact
    <2>0. i \in read_index..(write_index + p_n - 1) /\ i \in Nat
      BY <1>0, <1>3 DEF IInv, TypeOK
    <2>1. CASE i < write_index
      <3>1. i \in read_index..(write_index - 1) /\ i + 1 \in 1..write_index
        BY <2>0, <2>1 DEF IInv, TypeOK
      <3> QED BY <1>2, <3>1 DEF IInv, UnreadIntact
    <2>2. CASE i >= write_index
      <3> DEFINE k == i - write_index
      <3>1. /\ k \in 0..(p_done - 1) /\ k + 1 \in 1..p_n
            /\ i = p_write_idx + k /\ i + 1 = write_index + (k + 1)
        BY <1>0, <1>3, <2>0, <2>2 DEF IInv, TypeOK
      <3> HIDE DEF k
      <3>2. data[i % BufferFrames] = offered + k + 1
        BY <3>1 DEF IInv, ReservedFilled
      <3>3. log'[i + 1] = offered + (k + 1)
        BY <1>2, <3>1
      <3> QED BY <3>1, <3>2, <3>3 DEF IInv, TypeOK
    <2> QED BY <2>0, <2>1, <2>2 DEF IInv, TypeOK
  <1>9. ReservedFilled'
    BY <1>0 DEF ReservedFilled
  <1>10. CopiedOut'
    <2> SUFFICES ASSUME NEW i \in 1..Len(c_buf)
                 PROVE  c_buf[i] = log'[read_index + i]
      BY <1>0 DEF CopiedOut
    <2>1. read_index + i \in 1..write_index
      BY DEF IInv, TypeOK, ConsumerInv
    <2> QED BY <1>2, <2>1 DEF IInv, CopiedOut
  <1>11. DeliveredInOrder'
    <2>1. \A i \in 1..read_index : i \in 1..write_index
      BY DEF IInv, TypeOK, IndicesOrdered
    <2> QED BY <1>0, <1>2, <2>1 DEF IInv, DeliveredInOrder
  <1> QED BY <1>4, <1>5, <1>6, <1>7, <1>8, <1>9, <1>10, <1>11 DEF IInv

\* Loading write_index keeps the invariant, though the value may grow old.
LEMMA ReadCallStep ==
    ASSUME IInv, NEW max \in ReadCounts, ReadCall(max)
    PROVE  IInv'
  <1> USE DEF ReadCall, header, producer, history
  <1>0. max \in Nat \ {0}
    BY CountsInNat
  <1>1. TypeOK'
    BY <1>0 DEF IInv, TypeOK, Calls
  <1>2. IndicesOrdered' /\ ProducerInv'
    BY DEF IInv, IndicesOrdered, ProducerInv
  <1>3. ConsumerInv'
    BY <1>0 DEF IInv, TypeOK, IndicesOrdered, ConsumerInv
  <1>4. UnreadIntact' /\ ReservedFilled'
    BY DEF IInv, UnreadIntact, ReservedFilled
  <1>5. CopiedOut' /\ DeliveredInOrder'
    BY DEF IInv, CopiedOut, DeliveredInOrder
  <1> QED BY <1>1, <1>2, <1>3, <1>4, <1>5 DEF IInv

\* What read reserves has been published and is not overwritten.
LEMMA ReadReserveStep ==
    ASSUME IInv, ReadReserve
    PROVE  IInv'
  <1> USE DEF ReadReserve, header, producer, history
  <1>1. TypeOK'
    BY DEF IInv, TypeOK, Calls, Least, Used, ConsumerInv
  <1>2. IndicesOrdered' /\ ProducerInv'
    BY DEF IInv, IndicesOrdered, ProducerInv
  <1>3. ConsumerInv'
    BY DEF IInv, TypeOK, ConsumerInv, Least, Used
  <1>4. UnreadIntact' /\ ReservedFilled'
    BY DEF IInv, UnreadIntact, ReservedFilled
  <1>5. CopiedOut' /\ DeliveredInOrder'
    BY DEF IInv, CopiedOut, DeliveredInOrder
  <1> QED BY <1>1, <1>2, <1>3, <1>4, <1>5 DEF IInv

\* The frame copied out is the next one of the log.
LEMMA ReadCopyStep ==
    ASSUME IInv, ReadCopy
    PROVE  IInv'
  <1> DEFINE len == Len(c_buf)
             frame == data[Slot(c_read_idx, len)]
  <1>0. /\ c_pc = "copying" /\ len < c_n
        /\ c_buf' = Append(c_buf, frame)
        /\ UNCHANGED <<write_index, read_index, data, p_pc, p_write_idx, p_count,
                       p_n, p_done, c_pc, c_write_idx, c_read_idx, c_max, c_n,
                       offered, log, delivered>>
    BY DEF ReadCopy, header, producer, history
  <1>1. /\ len \in 0..(BufferFrames - 1)
        /\ read_index + len \in read_index..(write_index - 1)
        /\ c_read_idx = read_index /\ read_index \in Nat
    BY <1>0 DEF IInv, TypeOK, ConsumerInv, IndicesOrdered
  <1>2. Slot(c_read_idx, len) = (read_index + len) % BufferFrames
        /\ Slot(c_read_idx, len) \in Slots
    BY <1>1, SlotIsMod
  <1>3. frame \in Nat
    BY <1>2 DEF IInv, TypeOK
  <1>4. frame = log[read_index + len + 1]
    BY <1>1, <1>2 DEF IInv, UnreadIntact
  <1> HIDE DEF frame
  <1>5. /\ c_buf' \in Seq(Nat)
        /\ Len(c_buf') = len + 1
        /\ \A i \in 1..len : c_buf'[i] = c_buf[i]
        /\ c_buf'[len + 1] = frame
    BY <1>0, <1>3, AppendProperties DEF IInv, TypeOK
  <1> HIDE DEF len
  <1>6. TypeOK'
    BY <1>0, <1>5 DEF IInv, TypeOK
  <1>7. IndicesOrdered' /\ ProducerInv'
    BY <1>0 DEF IInv, IndicesOrdered, ProducerInv
  <1>8. ConsumerInv'
    BY <1>0, <1>1, <1>5 DEF IInv, TypeOK, ConsumerInv
  <1>9. UnreadIntact' /\ ReservedFilled' /\ DeliveredInOrder'
    BY <1>0 DEF IInv, UnreadIntact, ReservedFilled, DeliveredInOrder
  <1>10. CopiedOut'
    <2> SUFFICES ASSUME NEW i \in 1..Len(c_buf')
                 PROVE  c_buf'[i] = log[read_index + i]
      BY <1>0 DEF CopiedOut
    <2>1. CASE i = len + 1
      BY <1>1, <1>4, <1>5, <2>1
    <2>2. CASE i \in 1..len
      BY <1>5, <2>2 DEF IInv, CopiedOut, len
    <2> QED BY <1>1, <1>5, <2>1, <2>2
  <1> QED BY <1>6, <1>7, <1>8, <1>9, <1>10 DEF IInv

\* Moving read_index over the frames copied out delivers them.
LEMMA ReadPublishStep ==
    ASSUME IInv, ReadPublish
    PROVE  IInv'
  <1>0. /\ c_pc = "copying" /\ Len(c_buf) = c_n
        /\ read_index' = c_read_idx + c_n
        /\ delivered' = delivered \o c_buf
        /\ c_pc' = "idle" /\ c_max' = 0 /\ c_n' = 0 /\ c_buf' = <<>>
        /\ UNCHANGED <<write_index, data, p_pc, p_write_idx, p_count, p_n, p_done,
                       c_write_idx, c_read_idx, offered, log>>
    BY DEF ReadPublish, NextRead, producer
  <1>1. /\ c_read_idx = read_index
        /\ read_index \in Nat /\ c_n \in Nat \ {0} /\ read_index + c_n <= write_index
    BY <1>0 DEF IInv, TypeOK, ConsumerInv
  <1>2. /\ delivered' \in Seq(Nat)
        /\ Len(delivered') = read_index + c_n
        /\ \A i \in 1..(read_index + c_n) :
              delivered'[i] = IF i <= read_index THEN delivered[i]
                              ELSE c_buf[i - read_index]
    <2>1. delivered \in Seq(Nat) /\ c_buf \in Seq(Nat) /\ Len(delivered) = read_index
      BY DEF IInv, TypeOK, DeliveredInOrder
    <2>2. Len(c_buf) = c_n
      BY <1>0
    <2>3. /\ delivered' \in Seq(Nat)
          /\ Len(delivered') = Len(delivered) + Len(c_buf)
          /\ \A i \in 1..(Len(delivered) + Len(c_buf)) :
                delivered'[i] = IF i <= Len(delivered) THEN delivered[i]
                                ELSE c_buf[i - Len(delivered)]
      BY <1>0, <2>1, ConcatProperties
    <2> QED BY <2>1, <2>2, <2>3
  <1>3. TypeOK'
    BY <1>0, <1>1, <1>2 DEF IInv, TypeOK, Calls
  <1>4. IndicesOrdered'
    BY <1>0, <1>1 DEF IInv, TypeOK, IndicesOrdered
  <1>5. ProducerInv'
    BY <1>0, <1>1 DEF IInv, TypeOK, ProducerInv
  <1>6. ConsumerInv'
    BY <1>0 DEF ConsumerInv
  <1>7. UnreadIntact'
    <2>1. Len(log) = write_index
      BY DEF IInv, UnreadIntact
    <2>2. \A i \in read_index'..(write_index - 1) : i \in read_index..(write_index - 1)
      BY <1>0, <1>1 DEF IInv, TypeOK
    <2> QED BY <1>0, <2>1, <2>2 DEF IInv, UnreadIntact
  <1>8. ReservedFilled' /\ CopiedOut'
    BY <1>0 DEF IInv, ReservedFilled, CopiedOut
  <1>9. DeliveredInOrder'
    <2> SUFFICES ASSUME NEW i \in 1..(read_index + c_n)
                 PROVE  delivered'[i] = log[i]
      BY <1>0, <1>1, <1>2 DEF DeliveredInOrder
    <2>1. CASE i <= read_index
      BY <1>1, <1>2, <2>1 DEF IInv, DeliveredInOrder
    <2>2. CASE i > read_index
      <3>1. i - read_index \in 1..Len(c_buf) /\ i = read_index + (i - read_index)
        BY <1>0, <1>1, <2>2
      <3>2. c_buf[i - read_index] = log[read_index + (i - read_index)]
        BY <3>1 DEF IInv, CopiedOut
      <3> QED BY <1>1, <1>2, <2>2, <3>1, <3>2
    <2> QED BY <1>1, <2>1, <2>2
  <1> QED BY <1>3, <1>4, <1>5, <1>6, <1>7, <1>8, <1>9 DEF IInv

\* A reset between calls empties the ring.
LEMMA ResetStep ==
    ASSUME IInv, Reset
    PROVE  IInv'
  <1> USE DEF Reset, producer, consumer
  <1>1. TypeOK'
    BY DEF IInv, TypeOK
  <1>2. IndicesOrdered'
    BY DEF IndicesOrdered
  <1>3. ProducerInv' /\ ConsumerInv'
    BY DEF IInv, ProducerInv, ConsumerInv
  <1>4. UnreadIntact' /\ DeliveredInOrder'
    BY DEF UnreadIntact, DeliveredInOrder
  <1>5. ReservedFilled' /\ CopiedOut'
    BY DEF IInv, ProducerInv, ConsumerInv, ReservedFilled, CopiedOut
  <1> QED BY <1>1, <1>2, <1>3, <1>4, <1>5 DEF IInv

\* Every step of the producer, of the consumer and of a reset keeps the
\* invariant.
THEOREM NextIInv == IInv /\ [Next]_vars => IInv'
  <1> SUFFICES ASSUME IInv, [Next]_vars PROVE IInv'
    OBVIOUS
  <1>1. CASE \E count \in WriteCounts : WriteCall(count)
    BY <1>1, WriteCallStep
  <1>2. CASE WriteReserve
    BY <1>2, WriteReserveStep
  <1>3. CASE WriteCopy
    BY <1>3, WriteCopyStep
  <1>4. CASE WritePublish
    BY <1>4, WritePublishStep
  <1>5. CASE \E max \in ReadCounts : ReadCall(max)
    BY <1>5, ReadCallStep
  <1>6. CASE ReadReserve
    BY <1>6, ReadReserveStep
  <1>7. CASE ReadCopy
    BY <1>7, ReadCopyStep
  <1>8. CASE ReadPublish
    BY <1>8, ReadPublishStep
  <1>9. CASE Reset
    BY <1>9, ResetStep
  <1>10. CASE UNCHANGED vars
    BY <1>10 DEF vars, header, producer, consumer, history, IInv, TypeOK,
                 IndicesOrdered, ProducerInv, ConsumerInv, UnreadIntact,
                 ReservedFilled, CopiedOut, DeliveredInOrder
  <1> QED
    BY <1>1, <1>2, <1>3, <1>4, <1>5, <1>6, <1>7, <1>8, <1>9, <1>10 DEF Next

\* The inductive invariant holds of every reachable state, for rings of any
\* size and slices of any lengths.
THEOREM Invariance == Spec => []IInv
  <1>1. Init => IInv
    BY InitIInv
  <1>2. IInv /\ [Next]_vars => IInv'
    BY NextIInv
  <1> QED BY <1>1, <1>2, PTL DEF Spec

\* Type correctness.
THEOREM TypeCorrect == Spec => []TypeOK
  <1>1. IInv => TypeOK
    BY DEF IInv
  <1> QED BY <1>1, Invariance, PTL

\* The reader never overtakes the writer, and the writer never laps the reader.
THEOREM Ordered == Spec => []IndicesOrdered
  <1>1. IInv => IndicesOrdered
    BY DEF IInv
  <1> QED BY <1>1, Invariance, PTL

\* read returns exactly the frames write has published, in their order.
THEOREM FirstInFirstOut == Spec => []DeliveredInOrder
  <1>1. IInv => DeliveredInOrder
    BY DEF IInv
  <1> QED BY <1>1, Invariance, PTL

\* The slots one side copies are never among those the other side copies.
THEOREM NoDataRace == Spec => []NoSlotShared
  <1>1. IInv => NoSlotShared
    <2> SUFFICES ASSUME IInv, p_pc = "copying", c_pc = "copying",
                        NEW i \in 0..(p_n - 1), NEW j \in 0..(c_n - 1)
                 PROVE  Slot(p_write_idx, i) # Slot(c_read_idx, j)
      BY DEF NoSlotShared
    <2> DEFINE w == p_write_idx + i
               r == c_read_idx + j
    <2>1. /\ i \in 0..(BufferFrames - 1) /\ j \in 0..(BufferFrames - 1)
          /\ p_write_idx \in Nat /\ c_read_idx \in Nat
      BY DEF IInv, TypeOK, IndicesOrdered, ProducerInv, ConsumerInv
    <2>2. /\ w \in Nat /\ r \in Nat /\ r < w /\ w < r + BufferFrames
      BY DEF IInv, TypeOK, IndicesOrdered, ProducerInv, ConsumerInv
    <2>3. Slot(p_write_idx, i) = w % BufferFrames /\ Slot(c_read_idx, j) = r % BufferFrames
      BY <2>1, SlotIsMod
    <2> HIDE DEF w, r
    <2>4. r % BufferFrames # w % BufferFrames
      BY <2>2, WindowDistinct
    <2> QED BY <2>3, <2>4
  <1> QED BY <1>1, Invariance, PTL
=============================================================================
