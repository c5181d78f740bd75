----------------------------- MODULE RingBuffer -----------------------------
(***************************************************************************)
(* RingBuffer of src/ring_buffer.rs: one channel's audio ring in shared    *)
(* memory, written by one thread and read by another without a lock.       *)
(*                                                                         *)
(* A call of write or read is split at its accesses to shared memory: the  *)
(* atomic load of each index, the copy of each frame, and the atomic store *)
(* that publishes the result.  Every index has one writing thread, every   *)
(* store is a Release and every load an Acquire, so interleaving these     *)
(* steps is what the hardware can show.                                    *)
(*                                                                         *)
(* A frame is represented by its number in the order the producer offers   *)
(* frames; 0 stands for what the mapping holds before the first write.     *)
(***************************************************************************)
EXTENDS Integers, Sequences

CONSTANTS
    BufferFrames,   \* buffer_frames: slots in the data ring
    FrameBytes,     \* frame_bytes: bytes per frame
    WriteLens,      \* byte lengths of the slices handed to write
    ReadLens,       \* byte lengths of the buffers handed to read
    MaxOffered      \* bound: frames offered over a behaviour

ASSUME BufferFramesAssumption == BufferFrames \in Nat \ {0}
ASSUME FrameBytesAssumption == FrameBytes \in Nat \ {0}
ASSUME LensAssumption == WriteLens \subseteq Nat /\ ReadLens \subseteq Nat
ASSUME MaxOfferedAssumption == MaxOffered \in Nat

VARIABLES
    write_index,    \* header: frames ever published
    read_index,     \* header: frames ever consumed
    data,           \* the data ring, one entry per slot
    p_pc,           \* producer: where its call of write stands
    p_write_idx,    \* producer: write_idx, its load of write_index
    p_count,        \* producer: frame_count of the slice
    p_n,            \* producer: frames_to_write
    p_done,         \* producer: frames of the slice copied so far
    c_pc,           \* consumer: where its call of read stands
    c_write_idx,    \* consumer: write_idx, its load of write_index
    c_read_idx,     \* consumer: read_idx, its load of read_index
    c_max,          \* consumer: max_frames, the room in its buffer
    c_n,            \* consumer: frames_to_read
    c_buf,          \* consumer: the frames copied out so far
    offered,        \* history: frames offered by the finished calls of write
    log,            \* history: every frame published since the last reset
    delivered       \* history: every frame read returned since the last reset

header == <<write_index, read_index>>
producer == <<p_pc, p_write_idx, p_count, p_n, p_done>>
consumer == <<c_pc, c_write_idx, c_read_idx, c_max, c_n, c_buf>>
history == <<offered, log, delivered>>
vars == <<header, data, producer, consumer, history>>

Slots == 0..(BufferFrames - 1)

Least(a, b) == IF a <= b THEN a ELSE b

\* data.len() / self.frame_bytes: a trailing partial frame is cut off.
FrameCount(len) == len \div FrameBytes

WriteCounts == {FrameCount(len) : len \in WriteLens} \ {0}
ReadCounts == {FrameCount(len) : len \in ReadLens} \ {0}
-----------------------------------------------------------------------------
(* Index arithmetic. *)

\* An operator with an underscore in its name is a faulty variant of the
\* definition that follows it; the runs refute it.
Used_Exclusive(w, r) ==
    IF w > r THEN w - r - 1 ELSE IF w = r THEN 0 ELSE (BufferFrames - r) + w

\* Frames between the two indices, as write, read and available_frames compute
\* it.  usize subtraction: the second branch underflows when r > BufferFrames.
Used(w, r) == IF w >= r THEN w - r ELSE (BufferFrames - r) + w

Free_NoGap(used) == IF used <= BufferFrames THEN BufferFrames - used ELSE 0
Free_IgnoresReader(used) == BufferFrames - 1

\* buf_frames.saturating_sub(used + 1): one slot always stays empty.
Free(used) == IF used + 1 <= BufferFrames THEN BufferFrames - (used + 1) ELSE 0

Slot_WrapOffByOne(idx, k) ==
    LET offset == idx % BufferFrames
    IN  IF offset + k < BufferFrames
        THEN offset + k
        ELSE Least(offset + k - BufferFrames + 1, BufferFrames - 1)

\* Where frame k of a copy that starts at index idx lies: the copy runs to the
\* end of the ring and its second chunk starts again at the first slot.
Slot(idx, k) ==
    LET offset == idx % BufferFrames
    IN  IF offset + k < BufferFrames THEN offset + k
        ELSE offset + k - BufferFrames
-----------------------------------------------------------------------------
(* write: producer side. *)

\* An empty slice, or one shorter than a frame, returns at once and is no step.
WriteCall(count) ==
    /\ p_pc = "idle"
    /\ offered + count <= MaxOffered
    /\ p_write_idx' = write_index
    /\ p_count' = count
    /\ p_pc' = "loaded"
    /\ UNCHANGED <<header, data, p_n, p_done, consumer, history>>

\* Loads read_index and sizes the copy.
WriteReserve ==
    /\ p_pc = "loaded"
    /\ LET n == Least(p_count, Free(Used(p_write_idx, read_index)))
       IN  \/ /\ n = 0
              /\ p_pc' = "idle"
              /\ p_count' = 0
              /\ offered' = offered + p_count
              /\ UNCHANGED p_n
           \/ /\ n > 0
              /\ p_pc' = "copying"
              /\ p_n' = n
              /\ UNCHANGED <<p_count, offered>>
    /\ UNCHANGED <<header, data, p_write_idx, p_done, consumer, log, delivered>>

WriteCopy ==
    /\ p_pc = "copying"
    /\ p_done < p_n
    /\ data' = [data EXCEPT ![Slot(p_write_idx, p_done)] = offered + p_done + 1]
    /\ p_done' = p_done + 1
    /\ UNCHANGED <<header, p_pc, p_write_idx, p_count, p_n, consumer, history>>

Copied_TooEarly == p_done + 1 >= p_n

\* The copies come before the store in program order, and Release keeps them so.
Copied == p_done = p_n

WritePublish ==
    /\ p_pc = "copying"
    /\ Copied
    /\ write_index' = p_write_idx + p_n
    /\ log' = log \o [k \in 1..p_n |-> offered + k]
    /\ offered' = offered + p_count
    /\ p_pc' = "idle"
    /\ p_count' = 0
    /\ p_n' = 0
    /\ p_done' = 0
    /\ UNCHANGED <<read_index, data, p_write_idx, consumer, delivered>>
-----------------------------------------------------------------------------
(* read: consumer side. *)

ReadCall(max) ==
    /\ c_pc = "idle"
    /\ c_write_idx' = write_index
    /\ c_max' = max
    /\ c_pc' = "loaded"
    /\ UNCHANGED <<header, data, producer, c_read_idx, c_n, c_buf, history>>

\* Loads read_index and sizes the copy.
ReadReserve ==
    /\ c_pc = "loaded"
    /\ c_read_idx' = read_index
    /\ LET n == Least(c_max, Used(c_write_idx, read_index))
       IN  \/ /\ n = 0
              /\ c_pc' = "idle"
              /\ c_max' = 0
              /\ UNCHANGED c_n
           \/ /\ n > 0
              /\ c_pc' = "copying"
              /\ c_n' = n
              /\ UNCHANGED c_max
    /\ UNCHANGED <<header, data, producer, c_write_idx, c_buf, history>>

ReadCopy ==
    /\ c_pc = "copying"
    /\ Len(c_buf) < c_n
    /\ c_buf' = Append(c_buf, data[Slot(c_read_idx, Len(c_buf))])
    /\ UNCHANGED <<header, data, producer, c_pc, c_write_idx, c_read_idx,
                   c_max, c_n, history>>

\* Skipping to the newest frames, as a reader that wants low latency might.
NextRead_KeepNewest == c_write_idx - c_max

NextRead_WholeBuffer == c_read_idx + c_max

\* What read stores in read_index.
NextRead == c_read_idx + c_n

ReadPublish ==
    /\ c_pc = "copying"
    /\ Len(c_buf) = c_n
    /\ read_index' = NextRead
    /\ delivered' = delivered \o c_buf
    /\ c_pc' = "idle"
    /\ c_max' = 0
    /\ c_n' = 0
    /\ c_buf' = <<>>
    /\ UNCHANGED <<write_index, data, producer, c_write_idx, c_read_idx,
                   offered, log>>
-----------------------------------------------------------------------------
\* reset is two stores.  Its callers (the unit test and DoubleRingBuffer.reset,
\* which nothing calls) own both sides, so no call is in progress between them.
Reset ==
    /\ p_pc = "idle"
    /\ c_pc = "idle"
    /\ write_index' = 0
    /\ read_index' = 0
    /\ log' = <<>>
    /\ delivered' = <<>>
    /\ UNCHANGED <<data, producer, consumer, offered>>

\* A new region: RingBufHeader::new zeroes the indices, ftruncate the data.
Init ==
    /\ write_index = 0
    /\ read_index = 0
    /\ data = [s \in Slots |-> 0]
    /\ p_pc = "idle" /\ p_write_idx = 0 /\ p_count = 0 /\ p_n = 0 /\ p_done = 0
    /\ c_pc = "idle" /\ c_write_idx = 0 /\ c_read_idx = 0 /\ c_max = 0
    /\ c_n = 0 /\ c_buf = <<>>
    /\ offered = 0 /\ log = <<>> /\ delivered = <<>>

Write == WriteReserve \/ WriteCopy \/ WritePublish
Read == ReadReserve \/ ReadCopy \/ ReadPublish

Next ==
    \/ \E count \in WriteCounts : WriteCall(count)
    \/ WriteReserve
    \/ WriteCopy
    \/ WritePublish
    \/ \E max \in ReadCounts : ReadCall(max)
    \/ ReadReserve
    \/ ReadCopy
    \/ ReadPublish
    \/ Reset

Spec == Init /\ [][Next]_vars

\* Both bridge threads loop for as long as the daemon runs: a call once started
\* runs to its end, and the consumer keeps calling read.  Nothing obliges the
\* producer to call write.
Fairness ==
    /\ WF_vars(Write)
    /\ WF_vars(Read)
    /\ WF_vars(\E max \in ReadCounts : ReadCall(max))

FairSpec == Spec /\ Fairness
-----------------------------------------------------------------------------
(* Properties. *)

Calls == {"idle", "loaded", "copying"}

\* The type of every variable.
TypeOK ==
    /\ write_index \in Nat
    /\ read_index \in Nat
    /\ data \in [Slots -> Nat]
    /\ p_pc \in Calls
    /\ p_write_idx \in Nat
    /\ p_count \in Nat
    /\ p_n \in Nat
    /\ p_done \in Nat
    /\ c_pc \in Calls
    /\ c_write_idx \in Nat
    /\ c_read_idx \in Nat
    /\ c_max \in Nat
    /\ c_n \in Nat
    /\ c_buf \in Seq(Nat)
    /\ offered \in Nat
    /\ log \in Seq(Nat)
    /\ delivered \in Seq(Nat)

\* The reader never overtakes the writer and the writer never laps the reader:
\* one slot stays empty, so equal indices always mean an empty ring, and the
\* second branch of Used, whose subtraction would underflow, is never taken.
IndicesOrdered ==
    /\ read_index <= write_index
    /\ write_index <= read_index + BufferFrames - 1

\* While both sides copy, no slot the producer has reserved is one the consumer
\* is reading: the two copy_nonoverlapping of write and read are no data race.
NoSlotShared ==
    p_pc = "copying" /\ c_pc = "copying" =>
        \A i \in 0..(p_n - 1) : \A j \in 0..(c_n - 1) :
            Slot(p_write_idx, i) # Slot(c_read_idx, j)

\* What read has returned so far is, frame for frame, what write has published:
\* nothing lost in the middle, repeated, reordered or torn.
DeliveredInOrder ==
    /\ Len(delivered) = read_index
    /\ \A i \in 1..read_index : delivered[i] = log[i]

\* Every frame write has published is read in the end, whatever the producer
\* does next (only reset, which lowers write_index, may drop it).
PublishedIsRead ==
    \A k \in 1..MaxOffered :
        write_index >= k ~> (read_index >= k \/ write_index < k)
-----------------------------------------------------------------------------
(* The inductive invariant.  Each conjunct is about one side's call or about *)
(* what the data ring holds; both sides rely only on what the other promises.*)

\* A call of write in progress still has the current write_index, and what it
\* reserved stays free however far the consumer goes.
ProducerInv ==
    /\ p_pc # "idle" => p_write_idx = write_index /\ p_count \in WriteCounts
    /\ p_pc = "idle" => p_count = 0
    /\ p_pc = "copying" =>
        /\ p_n \in 1..p_count
        /\ p_done <= p_n
        /\ p_write_idx + p_n <= read_index + BufferFrames - 1
    /\ p_pc # "copying" => p_n = 0 /\ p_done = 0

\* A call of read in progress may have an old write_index, never too new a one.
ConsumerInv ==
    /\ IF c_pc = "idle" THEN c_max = 0 ELSE c_max \in ReadCounts
    /\ c_pc = "loaded" =>
        /\ read_index <= c_write_idx
        /\ c_write_idx <= write_index
    /\ c_pc = "copying" =>
        /\ c_read_idx = read_index
        /\ c_n \in 1..c_max
        /\ c_n <= c_write_idx - read_index
        /\ c_write_idx <= write_index
        /\ Len(c_buf) <= c_n
    /\ c_pc # "copying" => c_n = 0 /\ c_buf = <<>>

\* The slots between the indices hold the published frames not yet read.
UnreadIntact ==
    /\ Len(log) = write_index
    /\ \A i \in read_index..(write_index - 1) : data[i % BufferFrames] = log[i + 1]

\* The slots the producer has filled hold the frames it is about to publish.
ReservedFilled ==
    \A k \in 0..(p_done - 1) :
        data[(p_write_idx + k) % BufferFrames] = offered + k + 1

\* The consumer's buffer holds the next frames of the log.
CopiedOut ==
    \A i \in 1..Len(c_buf) : c_buf[i] = log[read_index + i]

IInv ==
    /\ TypeOK
    /\ IndicesOrdered
    /\ ProducerInv
    /\ ConsumerInv
    /\ UnreadIntact
    /\ ReservedFilled
    /\ CopiedOut
    /\ DeliveredInOrder
-----------------------------------------------------------------------------
(* The ring implements a bounded queue of BufferFrames - 1 frames.           *)

Unread == [i \in 1..(write_index - read_index) |->
              data[(read_index + i - 1) % BufferFrames]]

\* What the call of read in progress will return.
Promised ==
    CASE c_pc = "idle" -> 0
      [] c_pc = "loaded" -> Least(c_max, c_write_idx - read_index)
      [] c_pc = "copying" -> c_n

Queue == INSTANCE AudioQueue WITH
    Capacity <- BufferFrames - 1,
    PutSizes <- WriteCounts,
    TakeSizes <- ReadCounts,
    queue <- Unread,
    asked <- IF p_pc = "copying" THEN p_count ELSE 0,
    grant <- p_n,
    take <- Promised

\* The two lock-free calls, interleaved at every access to shared memory, are
\* the puts and takes of the queue: a put accepts what there was room for when
\* it looked, and a take gets what it saw.
RefinesQueue == Queue!QueueSpec
=============================================================================
