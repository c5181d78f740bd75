------------------------ MODULE RingBufferRefinement ------------------------
(***************************************************************************)
(* The lock-free ring implements AudioQueue, whatever the ring's size and  *)
(* the lengths of the slices: every step of an interleaved write or read   *)
(* is a step of the queue or leaves it as it is.                           *)
(***************************************************************************)
EXTENDS RingBufferProofs

USE BufferFramesAssumption

\* The elements of s after its first a and up to its b-th.
Window(s, a, b) == [i \in 1..(b - a) |-> s[a + i]]

\* A window of a sequence is a sequence of the expected length and elements.
LEMMA WindowIsSeq ==
    ASSUME NEW s \in Seq(Nat), NEW a \in Nat, NEW b \in Nat, a <= b, b <= Len(s)
    PROVE  /\ Window(s, a, b) \in Seq(Nat)
           /\ Len(Window(s, a, b)) = b - a
           /\ \A i \in 1..(b - a) : Window(s, a, b)[i] = s[a + i]
  <1> DEFINE n == b - a
  <1>1. n \in Nat
    OBVIOUS
  <1>2. \A i \in 1..n : s[a + i] \in Nat
    OBVIOUS
  <1>3. Window(s, a, b) \in [1..n -> Nat] /\ \A i \in 1..n : Window(s, a, b)[i] = s[a + i]
    BY <1>2 DEF Window
  <1> HIDE DEF n
  <1>4. Window(s, a, b) \in Seq(Nat) /\ Len(Window(s, a, b)) = n
    BY <1>1, <1>3
  <1> QED BY <1>3, <1>4 DEF n

\* A window that reaches the end grows with what is appended.
LEMMA WindowGrows ==
    ASSUME NEW s \in Seq(Nat), NEW t \in Seq(Nat), NEW a \in Nat, a <= Len(s)
    PROVE  Window(s \o t, a, Len(s) + Len(t)) = Window(s, a, Len(s)) \o t
  <1> DEFINE st == s \o t
             u == Window(s, a, Len(s))
             len == Len(s) + Len(t)
             v == Window(st, a, len)
  <1>1. /\ Len(s) \in Nat /\ Len(t) \in Nat /\ len \in Nat
        /\ Len(s) <= Len(s) /\ a <= len /\ len <= len
    OBVIOUS
  <1>2. /\ st \in Seq(Nat) /\ Len(st) = Len(s) + Len(t)
        /\ \A i \in 1..(Len(s) + Len(t)) :
              st[i] = IF i <= Len(s) THEN s[i] ELSE t[i - Len(s)]
    BY ConcatProperties
  <1> HIDE DEF st, len
  <1>3. /\ u \in Seq(Nat) /\ Len(u) = Len(s) - a
        /\ \A i \in 1..(Len(s) - a) : u[i] = s[a + i]
    BY <1>1, WindowIsSeq, Zenon
  <1>4. /\ v \in Seq(Nat) /\ Len(v) = len - a
        /\ \A i \in 1..(len - a) : v[i] = st[a + i]
    <2>1. len <= Len(st)
      BY <1>1, <1>2 DEF len
    <2>2. st \in Seq(Nat)
      BY <1>2
    <2> QED BY <1>1, <2>1, <2>2, WindowIsSeq, Zenon
  <1> HIDE DEF u, v
  <1>5. /\ u \o t \in Seq(Nat) /\ Len(u \o t) = Len(u) + Len(t)
        /\ \A i \in 1..(Len(u) + Len(t)) :
              (u \o t)[i] = IF i <= Len(u) THEN u[i] ELSE t[i - Len(u)]
    BY <1>3, ConcatProperties
  <1>6. ASSUME NEW i \in 1..Len(v)
        PROVE  v[i] = (u \o t)[i]
    <2>1. i \in 1..(len - a) /\ a + i \in 1..(Len(s) + Len(t))
      BY <1>1, <1>4 DEF len
    <2>2. v[i] = st[a + i]
      BY <1>4, <2>1
    <2>3. CASE i <= Len(s) - a
      <3>1. /\ i \in 1..(Len(s) - a) /\ i \in 1..(Len(u) + Len(t))
            /\ i <= Len(u) /\ a + i <= Len(s)
        BY <1>1, <1>3, <2>1, <2>3
      <3>2. st[a + i] = s[a + i]
        BY <1>2, <2>1, <3>1
      <3>3. (u \o t)[i] = s[a + i]
        BY <1>3, <1>5, <3>1
      <3> QED BY <2>2, <3>2, <3>3
    <2>4. CASE i > Len(s) - a
      <3>1. a + i - Len(s) = i - Len(u) /\ a + i > Len(s) /\ i > Len(u)
            /\ i \in 1..(Len(u) + Len(t))
        BY <1>1, <1>3, <2>1, <2>4
      <3>2. ~(a + i <= Len(s)) /\ ~(i <= Len(u))
        BY <1>1, <1>3, <2>1, <3>1
      <3>3. st[a + i] = t[a + i - Len(s)]
        BY <1>2, <2>1, <3>2
      <3>4. (u \o t)[i] = t[i - Len(u)]
        BY <1>5, <3>1, <3>2
      <3> QED BY <2>2, <3>1, <3>3, <3>4
    <2>5. i <= Len(s) - a \/ i > Len(s) - a
      BY <1>1, <2>1
    <2> QED BY <2>3, <2>4, <2>5
  <1>7. Len(v) = Len(u \o t)
    BY <1>1, <1>3, <1>4, <1>5 DEF len
  <1>8. v = u \o t
    BY <1>4, <1>5, <1>6, <1>7, SeqEqual
  <1> QED BY <1>8 DEF u, v, st, len

\* Dropping the first n elements of a window moves its left edge by n.
LEMMA WindowShrinks ==
    ASSUME NEW s \in Seq(Nat), NEW a \in Nat, NEW b \in Nat, NEW n \in Nat,
           a + n <= b, b <= Len(s)
    PROVE  SubSeq(Window(s, a, b), n + 1, b - a) = Window(s, a + n, b)
  <1> DEFINE c == a + n
             u == Window(s, a, b)
             v == Window(s, c, b)
             t == SubSeq(u, n + 1, b - a)
  <1>1. c \in Nat /\ c <= b /\ a <= b
    OBVIOUS
  <1> HIDE DEF c
  <1>2. /\ u \in Seq(Nat) /\ Len(u) = b - a
        /\ \A i \in 1..(b - a) : u[i] = s[a + i]
    BY <1>1, WindowIsSeq, Zenon
  <1>3. /\ v \in Seq(Nat) /\ Len(v) = b - c
        /\ \A i \in 1..(b - c) : v[i] = s[c + i]
    BY <1>1, WindowIsSeq, Zenon
  <1> HIDE DEF u, v
  <1>4. /\ t \in Seq(Nat)
        /\ Len(t) = b - c
        /\ \A i \in 1..(b - c) : t[i] = u[n + i]
    BY <1>1, <1>2 DEF c
  <1> HIDE DEF t
  <1>5. ASSUME NEW i \in 1..(b - c) PROVE t[i] = v[i]
    <2>1. n + i \in 1..(b - a) /\ a + (n + i) = c + i
      BY <1>1 DEF c
    <2>2. u[n + i] = s[a + (n + i)]
      BY <1>2, <2>1, Zenon
    <2> QED BY <1>3, <1>4, <2>1, <2>2
  <1>6. t = v
    BY <1>3, <1>4, <1>5, SeqEqual
  <1> QED BY <1>6 DEF t, u, v, c

\* What the refinement needs of the invariant, seen through Unread.
UnreadOK ==
    /\ Unread = Window(log, read_index, write_index)
    /\ read_index \in Nat /\ write_index \in Nat /\ read_index <= write_index
    /\ log \in Seq(Nat) /\ Len(log) = write_index

\* Under the invariant the unread slots are the unread tail of the log.
LEMMA UnreadIsLog == IInv => UnreadOK
  <1> SUFFICES ASSUME IInv PROVE UnreadOK
    OBVIOUS
  <1>1. /\ read_index \in Nat /\ write_index \in Nat /\ read_index <= write_index
        /\ log \in Seq(Nat) /\ Len(log) = write_index
    BY DEF IInv, TypeOK, IndicesOrdered, UnreadIntact
  <1>2. ASSUME NEW i \in 1..(write_index - read_index)
        PROVE  data[(read_index + i - 1) % BufferFrames] = log[read_index + i]
    <2> DEFINE k == read_index + i - 1
    <2>1. k \in read_index..(write_index - 1) /\ k + 1 = read_index + i
      BY <1>1
    <2> HIDE DEF k
    <2>2. data[k % BufferFrames] = log[k + 1]
      BY <2>1 DEF IInv, UnreadIntact
    <2> QED BY <2>1, <2>2 DEF k
  <1>3. Unread = Window(log, read_index, write_index)
    BY <1>2 DEF Unread, Window
  <1> QED BY <1>1, <1>3 DEF UnreadOK

\* The unread frames are a sequence with as many frames as the indices say.
LEMMA UnreadLength ==
    ASSUME UnreadOK
    PROVE  /\ Unread \in Seq(Nat)
           /\ Len(Unread) = write_index - read_index
           /\ \A i \in 1..(write_index - read_index) : Unread[i] = log[read_index + i]
  <1>1. write_index <= Len(log)
    BY DEF UnreadOK
  <1> QED BY <1>1, WindowIsSeq, Zenon DEF UnreadOK

\* A new ring is an empty queue.
THEOREM InitRefines == Init => Queue!QueueInit
  <1> SUFFICES ASSUME Init PROVE Queue!QueueInit
    OBVIOUS
  <1>1. Unread = <<>>
    BY DEF Init, Unread
  <1>2. Promised = 0
    BY DEF Init, Promised
  <1> QED BY <1>1, <1>2 DEF Init, Queue!QueueInit

\* Loading write_index is no step of the queue.
LEMMA WriteCallRefines ==
    ASSUME IInv, NEW count \in WriteCounts, WriteCall(count)
    PROVE  UNCHANGED Queue!queueVars
  <1>1. Unread' = Unread /\ Promised' = Promised
    BY DEF WriteCall, header, consumer, Unread, Promised
  <1> QED BY <1>1 DEF WriteCall, header, history, Queue!queueVars, IInv, ProducerInv

\* Loading read_index decides the put: it is granted the room seen, or refused
\* by a full queue.
LEMMA WriteReserveRefines ==
    ASSUME IInv, WriteReserve
    PROVE  \E count \in WriteCounts : Queue!StartPut(count) \/ Queue!RefusePut(count)
  <1> DEFINE n == Least(p_count, Free(Used(p_write_idx, read_index)))
             room == (BufferFrames - 1) - (write_index - read_index)
  <1>1. Unread' = Unread /\ Promised' = Promised
    BY DEF WriteReserve, header, consumer, Unread, Promised
  <1>2. p_count \in WriteCounts /\ p_count \in Nat /\ p_count > 0 /\ p_write_idx = write_index
    <2>1. p_count \in WriteCounts /\ p_write_idx = write_index
      BY DEF WriteReserve, IInv, ProducerInv
    <2> QED BY <2>1, CountsInNat
  <1>3. Queue!Room = room
    BY UnreadIsLog, UnreadLength DEF Queue!Room
  <1>4. room \in Nat /\ n = Queue!Lesser(p_count, room)
    <2>1. room \in Nat /\ Used(p_write_idx, read_index) = write_index - read_index
      BY <1>2 DEF IInv, TypeOK, IndicesOrdered, Used
    <2>2. Free(write_index - read_index) = room
      BY <2>1 DEF IInv, TypeOK, IndicesOrdered, Free
    <2> QED BY <2>1, <2>2 DEF Least, Queue!Lesser
  <1>5. p_n = 0
    BY DEF WriteReserve, IInv, ProducerInv
  <1>6. CASE n = 0
    <2>1. room = 0
      BY <1>2, <1>4, <1>6 DEF Queue!Lesser
    <2>2. Queue!RefusePut(p_count)
      BY <1>1, <1>2, <1>3, <1>5, <1>6, <2>1
         DEF WriteReserve, Queue!RefusePut
    <2> QED BY <1>2, <2>2
  <1>7. CASE n > 0
    <2>1. room > 0
      BY <1>2, <1>4, <1>7 DEF Queue!Lesser
    <2>2. Queue!StartPut(p_count)
      BY <1>1, <1>2, <1>3, <1>4, <1>5, <1>7, <2>1
         DEF WriteReserve, Queue!StartPut
    <2> QED BY <1>2, <2>2
  <1> QED BY <1>2, <1>4, <1>6, <1>7 DEF Queue!Lesser

\* Copying into reserved slots is no step of the queue.
LEMMA WriteCopyRefines ==
    ASSUME IInv, WriteCopy
    PROVE  UNCHANGED Queue!queueVars
  <1>1. IInv'
    BY WriteCopyStep
  <1>2. UNCHANGED <<write_index, read_index, log>>
    BY DEF WriteCopy, header, history
  <1>3. UnreadOK /\ UnreadOK'
    BY <1>1, UnreadIsLog, PTL
  <1>4. Unread' = Unread
    BY <1>2, <1>3 DEF UnreadOK
  <1>5. Promised' = Promised
    BY DEF WriteCopy, header, consumer, Promised
  <1> QED BY <1>4, <1>5 DEF WriteCopy, history, Queue!queueVars

\* The store of write_index puts the whole granted batch into the queue.
LEMMA WritePublishRefines ==
    ASSUME IInv, WritePublish
    PROVE  Queue!FinishPut
  <1> DEFINE batch == [k \in 1..p_n |-> offered + k]
  <1>0. /\ p_pc = "copying" /\ p_pc' = "idle" /\ p_n' = 0
        /\ write_index' = p_write_idx + p_n
        /\ log' = log \o batch
        /\ offered' = offered + p_count
        /\ UNCHANGED <<read_index, c_pc, c_write_idx, c_max, c_n, delivered>>
    BY DEF WritePublish, consumer
  <1>1. /\ p_count > 0 /\ p_n \in Nat /\ p_write_idx = write_index
        /\ read_index \in Nat /\ write_index \in Nat /\ read_index <= write_index
        /\ log \in Seq(Nat) /\ Len(log) = write_index
    BY <1>0, CountsInNat DEF IInv, TypeOK, ProducerInv, IndicesOrdered, UnreadIntact
  <1>2. UnreadOK /\ UnreadOK'
    BY WritePublishStep, UnreadIsLog, PTL
  <1>3. batch \in Seq(Nat) /\ Len(batch) = p_n
    BY BatchIsSeq DEF IInv, TypeOK
  <1>4. Unread' = Unread \o batch
    <2> HIDE DEF batch
    <2>1. Unread' = Window(log \o batch, read_index, Len(log) + Len(batch))
      BY <1>0, <1>1, <1>2, <1>3 DEF UnreadOK
    <2>2. Unread = Window(log, read_index, Len(log))
      BY <1>1, <1>2 DEF UnreadOK
    <2> QED BY <1>1, <1>3, <2>1, <2>2, WindowGrows
  <1>5. Promised' = Promised
    BY <1>0 DEF Promised
  <1> QED BY <1>0, <1>1, <1>4, <1>5 DEF Queue!FinishPut

\* Loading write_index decides the take, unless the queue is empty.
LEMMA ReadCallRefines ==
    ASSUME IInv, NEW max \in ReadCounts, ReadCall(max)
    PROVE  Queue!StartTake(max) \/ UNCHANGED Queue!queueVars
  <1>0. /\ c_pc = "idle" /\ c_pc' = "loaded" /\ c_max' = max /\ c_write_idx' = write_index
        /\ UNCHANGED <<write_index, read_index, data, p_pc, p_count, p_n, offered, delivered>>
    BY DEF ReadCall, header, producer, history
  <1>1. Unread' = Unread
    BY <1>0 DEF Unread
  <1>2. max \in Nat /\ max > 0
    BY CountsInNat
  <1>3. /\ Unread \in Seq(Nat) /\ Len(Unread) = write_index - read_index
        /\ Len(Unread) \in Nat
    BY UnreadIsLog, UnreadLength DEF UnreadOK
  <1>4. Promised = 0 /\ Promised' = Least(max, Len(Unread))
    BY <1>0, <1>3 DEF Promised
  <1>5. CASE Unread = <<>>
    <2>1. Promised' = 0
      BY <1>2, <1>4, <1>5 DEF Least
    <2> QED BY <1>0, <1>1, <1>4, <2>1 DEF Queue!queueVars
  <1>6. CASE Unread # <<>>
    BY <1>0, <1>1, <1>2, <1>4, <1>6 DEF Queue!StartTake, Queue!Lesser, Least
  <1> QED BY <1>5, <1>6

\* Loading read_index is no step of the queue: only the consumer moves it.
LEMMA ReadReserveRefines ==
    ASSUME IInv, ReadReserve
    PROVE  UNCHANGED Queue!queueVars
  <1>1. Unread' = Unread
    BY DEF ReadReserve, header, Unread
  <1>2. Used(c_write_idx, read_index) = c_write_idx - read_index
    BY DEF ReadReserve, IInv, ConsumerInv, Used
  <1>3. Promised' = Promised
    BY <1>2 DEF ReadReserve, Promised
  <1> QED BY <1>1, <1>3 DEF ReadReserve, producer, history, Queue!queueVars

\* Copying out is no step of the queue.
LEMMA ReadCopyRefines ==
    ASSUME IInv, ReadCopy
    PROVE  UNCHANGED Queue!queueVars
  <1>1. Unread' = Unread
    BY DEF ReadCopy, header, Unread
  <1>2. Promised' = Promised
    BY DEF ReadCopy, header, Promised
  <1> QED BY <1>1, <1>2 DEF ReadCopy, producer, history, Queue!queueVars

\* The store of read_index takes exactly the promised frames from the queue.
LEMMA ReadPublishRefines ==
    ASSUME IInv, ReadPublish
    PROVE  Queue!FinishTake
  <1>0. /\ c_pc = "copying" /\ c_pc' = "idle" /\ Len(c_buf) = c_n
        /\ read_index' = c_read_idx + c_n
        /\ delivered' = delivered \o c_buf
        /\ UNCHANGED <<write_index, p_pc, p_count, p_n, offered, log>>
    BY DEF ReadPublish, NextRead, producer
  <1>1. /\ c_read_idx = read_index /\ c_n \in Nat /\ c_n > 0 /\ c_buf \in Seq(Nat)
        /\ read_index \in Nat /\ write_index \in Nat /\ read_index + c_n <= write_index
    BY <1>0 DEF IInv, TypeOK, ConsumerInv
  <1>2. UnreadOK /\ UnreadOK'
    BY ReadPublishStep, UnreadIsLog, PTL
  <1>3. SubSeq(Unread, 1, c_n) = c_buf
    <2>0. /\ Unread \in Seq(Nat) /\ Len(Unread) = write_index - read_index
          /\ \A i \in 1..(write_index - read_index) : Unread[i] = log[read_index + i]
      BY <1>2, UnreadLength
    <2>1. \A i \in 1..c_n : Unread[i] \in Nat
      BY <1>1, <2>0
    <2>2. /\ SubSeq(Unread, 1, c_n) \in Seq(Nat)
          /\ Len(SubSeq(Unread, 1, c_n)) = c_n
          /\ \A i \in 1..c_n : SubSeq(Unread, 1, c_n)[i] = Unread[i]
      BY <1>1, <2>1, SubSeqProperties
    <2>3. \A i \in 1..c_n : Unread[i] = c_buf[i]
      <3>1. \A i \in 1..c_n : i \in 1..(write_index - read_index)
        BY <1>1
      <3> QED BY <1>0, <2>0, <3>1 DEF IInv, CopiedOut
    <2> QED BY <1>0, <1>1, <2>2, <2>3, SeqEqual
  <1>4. SubSeq(Unread, c_n + 1, Len(Unread)) = Unread'
    <2>1. Len(Unread) = write_index - read_index
      BY <1>2, UnreadLength
    <2>2. Unread = Window(log, read_index, write_index) /\ write_index = Len(log)
          /\ log \in Seq(Nat)
      BY <1>2 DEF UnreadOK
    <2>3. Unread' = Window(log, read_index + c_n, write_index)
      BY <1>0, <1>1, <1>2 DEF UnreadOK
    <2>4. write_index <= Len(log)
      BY <1>1, <2>2
    <2>5. SubSeq(Window(log, read_index, write_index), c_n + 1, write_index - read_index)
            = Window(log, read_index + c_n, write_index)
      <3>1. log \in Seq(Nat)
        BY <2>2
      <3> QED BY <1>1, <2>4, <3>1, WindowShrinks, Zenon
    <2> QED BY <2>1, <2>2, <2>3, <2>5
  <1>5. Promised = c_n /\ Promised' = 0
    BY <1>0 DEF Promised
  <1> QED BY <1>0, <1>1, <1>3, <1>4, <1>5 DEF Queue!FinishTake

\* A reset clears the queue.
LEMMA ResetRefines ==
    ASSUME IInv, Reset
    PROVE  Queue!Clear
  <1>1. Unread' = <<>>
    BY DEF Reset, Unread
  <1>2. Promised = 0 /\ Promised' = 0
    BY DEF Reset, consumer, Promised
  <1> QED BY <1>1, <1>2 DEF Reset, producer, Queue!Clear

\* Every step of the ring is a step of the queue or leaves it unchanged.
THEOREM StepRefines == IInv /\ [Next]_vars => [Queue!QueueNext]_Queue!queueVars
  <1> SUFFICES ASSUME IInv, [Next]_vars
               PROVE  Queue!QueueNext \/ UNCHANGED Queue!queueVars
    OBVIOUS
  <1>1. CASE \E count \in WriteCounts : WriteCall(count)
    BY <1>1, WriteCallRefines
  <1>2. CASE WriteReserve
    BY <1>2, WriteReserveRefines DEF Queue!QueueNext
  <1>3. CASE WriteCopy
    BY <1>3, WriteCopyRefines
  <1>4. CASE WritePublish
    BY <1>4, WritePublishRefines DEF Queue!QueueNext
  <1>5. CASE \E max \in ReadCounts : ReadCall(max)
    BY <1>5, ReadCallRefines DEF Queue!QueueNext
  <1>6. CASE ReadReserve
    BY <1>6, ReadReserveRefines
  <1>7. CASE ReadCopy
    BY <1>7, ReadCopyRefines
  <1>8. CASE ReadPublish
    BY <1>8, ReadPublishRefines DEF Queue!QueueNext
  <1>9. CASE Reset
    BY <1>9, ResetRefines DEF Queue!QueueNext
  <1>10. CASE UNCHANGED vars
    BY <1>10 DEF vars, header, producer, consumer, history, Unread, Promised,
                 Queue!queueVars
  <1> QED
    BY <1>1, <1>2, <1>3, <1>4, <1>5, <1>6, <1>7, <1>8, <1>9, <1>10 DEF Next

\* Every behaviour of the ring is, through the mapping, one of the queue.
THEOREM Refinement == Spec => RefinesQueue
  <1>1. Init => Queue!QueueInit
    BY InitRefines
  <1>2. IInv /\ [Next]_vars => [Queue!QueueNext]_Queue!queueVars
    BY StepRefines
  <1> QED BY <1>1, <1>2, Invariance, PTL DEF Spec, RefinesQueue, Queue!QueueSpec
=============================================================================
