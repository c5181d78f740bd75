----------------------------- MODULE AudioQueue -----------------------------
(***************************************************************************)
(* What one channel's ring buffer promises to the two bridge threads: a    *)
(* bounded first-in first-out queue of audio frames with one producer and  *)
(* one consumer.                                                           *)
(*                                                                         *)
(* A put is judged when it starts: it is granted as many leading frames of *)
(* its batch as there is room for at that moment, and the rest of the      *)
(* batch is lost.  The granted frames become visible together when the put *)
(* finishes.  A take is judged when it starts too, and removes exactly the *)
(* frames it was promised when it finishes.                                *)
(*                                                                         *)
(* Frames are numbered in the order the producer offers them.              *)
(***************************************************************************)
EXTENDS Integers, Sequences

CONSTANTS
    Capacity,   \* frames the queue can hold
    PutSizes,   \* sizes, in frames, of the batches the producer offers
    TakeSizes   \* sizes, in frames, of the buffers the consumer brings

VARIABLES
    queue,      \* frames accepted and not yet delivered, oldest first
    offered,    \* number of frames offered by the puts that have finished
    asked,      \* size of the batch of the put in progress, 0 when there is none
    grant,      \* how many of its frames that put was granted
    take,       \* frames promised to the take in progress, 0 when there is none
    delivered   \* every frame handed to the consumer, in order

queueVars == <<queue, offered, asked, grant, take, delivered>>

Lesser(a, b) == IF a <= b THEN a ELSE b

Room == Capacity - Len(queue)

QueueInit ==
    /\ queue = <<>>
    /\ offered = 0
    /\ asked = 0
    /\ grant = 0
    /\ take = 0
    /\ delivered = <<>>

StartPut(count) ==
    /\ asked = 0
    /\ count > 0
    /\ Room > 0
    /\ asked' = count
    /\ grant' = Lesser(count, Room)
    /\ UNCHANGED <<queue, offered, take, delivered>>

\* Only a full queue refuses a whole batch.
RefusePut(count) ==
    /\ asked = 0
    /\ Room = 0
    /\ offered' = offered + count
    /\ UNCHANGED <<queue, asked, grant, take, delivered>>

FinishPut ==
    /\ asked > 0
    /\ queue' = queue \o [k \in 1..grant |-> offered + k]
    /\ offered' = offered + asked
    /\ asked' = 0
    /\ grant' = 0
    /\ UNCHANGED <<take, delivered>>

StartTake(max) ==
    /\ take = 0
    /\ max > 0
    /\ queue # <<>>
    /\ take' = Lesser(max, Len(queue))
    /\ UNCHANGED <<queue, offered, asked, grant, delivered>>

FinishTake ==
    /\ take > 0
    /\ delivered' = delivered \o SubSeq(queue, 1, take)
    /\ queue' = SubSeq(queue, take + 1, Len(queue))
    /\ take' = 0
    /\ UNCHANGED <<offered, asked, grant>>

\* Forgets the contents and the history; nothing is in progress.
Clear ==
    /\ asked = 0
    /\ take = 0
    /\ queue' = <<>>
    /\ delivered' = <<>>
    /\ UNCHANGED <<offered, asked, grant, take>>

QueueNext ==
    \/ \E count \in PutSizes : StartPut(count) \/ RefusePut(count)
    \/ FinishPut
    \/ \E max \in TakeSizes : StartTake(max)
    \/ FinishTake
    \/ Clear

QueueSpec == QueueInit /\ [][QueueNext]_queueVars
=============================================================================
