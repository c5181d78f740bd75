---------------------------- MODULE SharedMemory ----------------------------
(***************************************************************************)
(* The shared memory regions of the rings, src/shm.rs with RingBuffer.create*)
(* and RingBufferSet.new of src/ring_buffer.rs, over several runs of the   *)
(* daemon.  The regions are POSIX objects with a name; names and objects   *)
(* outlive a process that dies without dropping them.                      *)
(*                                                                         *)
(* Every system call is a step of its own, and a daemon may die between    *)
(* any two of them.  A daemon makes at most one object per ring, so an     *)
(* object is named by its creator and the ring.                            *)
(***************************************************************************)
EXTENDS Integers

CONSTANTS
    NDaemons,       \* bound: runs of the daemon
    NCapture,       \* capture channels configured
    NPlayback,      \* playback channels configured
    Sizes           \* total_frames of the configurations the runs read

ASSUME RunsAssumption == NDaemons \in Nat \ {0}
ASSUME RingsAssumption == NCapture \in Nat /\ NPlayback \in Nat \ {0}
ASSUME SizesAssumption == Sizes \subseteq Nat \ {0}

VARIABLES
    pc,             \* where each daemon stands
    at,             \* the ring its RingBufferSet.new is at
    frames,         \* total_frames of its configuration
    fd,             \* the object its owned_fd refers to
    mapped,         \* the object each of its rings maps
    doomed,         \* the ring it has unmapped and not yet unlinked, 0 for none
    dir,            \* names: the object each leads to
    size,           \* objects: frames of data an object has room for
    header          \* objects: their RingBufHeader

process == <<pc, at, frames, fd, mapped, doomed>>
kernel == <<dir, size, header>>
vars == <<process, kernel>>

Daemons == 1..NDaemons
NRings == NCapture + NPlayback
Rings == 1..NRings
Objects == Daemons \X Rings
None == <<0, 0>>

Creator(o) == o[1]

\* An operator with an underscore in its name is a faulty variant of the
\* definition that follows it; the runs refute it.
ShmName_NoDirection(r) == IF r <= NCapture THEN <<"ch", r>> ELSE <<"ch", r - NCapture>>

\* rodecaster_vad_cap_<alsa_id> and rodecaster_vad_pb_<alsa_id>.  An alsa_id is
\* unique in its direction only: System is the first of both.
ShmName(r) == IF r <= NCapture THEN <<"cap", r>> ELSE <<"pb", r - NCapture>>

Names == {ShmName(r) : r \in Rings}

\* A RingBufHeader: buffer_frames, whether the indices differ, the running flag.
Zeroed == [frames |-> 0, unread |-> FALSE, running |-> FALSE]
Headers == [frames : Nat, unread : BOOLEAN, running : BOOLEAN]

Pcs == {"off", "creating", "opening", "sizing", "mapping", "heading", "serving",
        "dropping", "failing", "over", "crashed"}

Goto(d, to) == pc' = [pc EXCEPT ![d] = to]

Gone(d) == pc[d] \in {"over", "crashed"}

Holds(d) == \E r \in Rings : mapped[d][r] # None

Here(d) == ShmName(at[d])
-----------------------------------------------------------------------------
\* load_config, up to RingBufferSet.new.
Start(d) ==
    /\ pc[d] = "off"
    /\ Goto(d, "creating")
    /\ \E n \in Sizes : frames' = [frames EXCEPT ![d] = n]
    /\ UNCHANGED <<at, fd, mapped, doomed, kernel>>

\* shm_open with O_EXCL: a new object, of size zero.
CreateNew(d) ==
    /\ pc[d] = "creating"
    /\ dir[Here(d)] = None
    /\ fd' = [fd EXCEPT ![d] = <<d, at[d]>>]
    /\ dir' = [dir EXCEPT ![Here(d)] = <<d, at[d]>>]
    /\ Goto(d, "sizing")
    /\ UNCHANGED <<at, frames, mapped, doomed, size, header>>

\* Any error of it, that the name exists or another.
CreateRefused(d) ==
    /\ pc[d] = "creating"
    /\ Goto(d, "opening")
    /\ UNCHANGED <<at, frames, fd, mapped, doomed, kernel>>

\* The second shm_open, without O_CREAT.
OpenOld(d) ==
    /\ pc[d] = "opening"
    /\ dir[Here(d)] # None
    /\ fd' = [fd EXCEPT ![d] = dir[Here(d)]]
    /\ Goto(d, "sizing")
    /\ UNCHANGED <<at, frames, mapped, doomed, kernel>>

SetSize_OnlyNew(d) ==
    /\ pc[d] = "sizing"
    /\ size' = IF Creator(fd[d]) = d THEN [size EXCEPT ![fd[d]] = frames[d]] ELSE size
    /\ Goto(d, "mapping")
    /\ UNCHANGED <<at, frames, fd, mapped, doomed, dir, header>>

SetSize_OnlyGrows(d) ==
    /\ pc[d] = "sizing"
    /\ size' = IF size[fd[d]] < frames[d] THEN [size EXCEPT ![fd[d]] = frames[d]] ELSE size
    /\ Goto(d, "mapping")
    /\ UNCHANGED <<at, frames, fd, mapped, doomed, dir, header>>

\* ftruncate, which grows or cuts an object that was there.
SetSize(d) ==
    /\ pc[d] = "sizing"
    /\ size' = [size EXCEPT ![fd[d]] = frames[d]]
    /\ Goto(d, "mapping")
    /\ UNCHANGED <<at, frames, fd, mapped, doomed, dir, header>>

\* mmap, which takes the fd.
Map(d) ==
    /\ pc[d] = "mapping"
    /\ mapped' = [mapped EXCEPT ![d][at[d]] = fd[d]]
    /\ fd' = [fd EXCEPT ![d] = None]
    /\ Goto(d, "heading")
    /\ UNCHANGED <<at, frames, doomed, kernel>>

WriteHeader_KeepsValid(d) ==
    /\ pc[d] = "heading"
    /\ LET o == mapped[d][at[d]]
       IN  header' = IF header[o] = Zeroed
                     THEN [header EXCEPT ![o] = [Zeroed EXCEPT !.frames = frames[d]]]
                     ELSE header
    /\ IF at[d] < NRings
       THEN at' = [at EXCEPT ![d] = @ + 1] /\ Goto(d, "creating")
       ELSE UNCHANGED at /\ Goto(d, "serving")
    /\ UNCHANGED <<frames, fd, mapped, doomed, dir, size>>

WriteHeader_OneMore(d) ==
    /\ pc[d] = "heading"
    /\ header' = [header EXCEPT ![mapped[d][at[d]]] = [Zeroed EXCEPT !.frames = frames[d]]]
    /\ IF at[d] <= NRings
       THEN at' = [at EXCEPT ![d] = @ + 1] /\ Goto(d, "creating")
       ELSE UNCHANGED at /\ Goto(d, "serving")
    /\ UNCHANGED <<frames, fd, mapped, doomed, dir, size>>

\* RingBuffer.create writes a new header over whatever is there, and the next
\* ring's turn comes; after the last, main starts the threads.
WriteHeader(d) ==
    /\ pc[d] = "heading"
    /\ header' = [header EXCEPT ![mapped[d][at[d]]] = [Zeroed EXCEPT !.frames = frames[d]]]
    /\ IF at[d] < NRings
       THEN at' = [at EXCEPT ![d] = @ + 1] /\ Goto(d, "creating")
       ELSE UNCHANGED at /\ Goto(d, "serving")
    /\ UNCHANGED <<frames, fd, mapped, doomed, dir, size>>

\* An error of a system call: owned_fd is closed, the rings made so far are
\* dropped, and the name of this one stays if it exists.
CreateFails(d) ==
    /\ pc[d] \in {"opening", "sizing", "mapping"}
    /\ fd' = [fd EXCEPT ![d] = None]
    /\ Goto(d, "failing")
    /\ UNCHANGED <<at, frames, mapped, doomed, kernel>>
-----------------------------------------------------------------------------
\* The bridges move frames and set the flags.
Serve(d) ==
    /\ pc[d] = "serving"
    /\ \E r \in Rings, unread \in BOOLEAN, running \in BOOLEAN :
        header' = [header EXCEPT ![mapped[d][r]] =
                      [@ EXCEPT !.unread = unread, !.running = running]]
    /\ UNCHANGED <<process, dir, size>>

\* main returns after the joins, and drops the last reference to the rings.
Exit(d) ==
    /\ pc[d] = "serving"
    /\ Goto(d, "dropping")
    /\ UNCHANGED <<at, frames, fd, mapped, doomed, kernel>>

\* ShmRegion.drop is munmap, then shm_unlink of the name.  The order of the
\* rings differs between the end of main and an error of new, and is left open.
Unmap(d) ==
    /\ pc[d] \in {"dropping", "failing"}
    /\ doomed[d] = 0
    /\ \E r \in Rings :
        /\ mapped[d][r] # None
        /\ mapped' = [mapped EXCEPT ![d][r] = None]
        /\ doomed' = [doomed EXCEPT ![d] = r]
    /\ UNCHANGED <<pc, at, frames, fd, kernel>>

\* An object whose name is taken away while no process holds it is gone.
Unused(o) == \A d \in Daemons : fd[d] # o /\ \A r \in Rings : mapped[d][r] # o

FreeObject(o) ==
    IF o # None /\ Unused(o)
    THEN size' = [size EXCEPT ![o] = 0] /\ header' = [header EXCEPT ![o] = Zeroed]
    ELSE UNCHANGED <<size, header>>

Unlink_OnlyOwn(d) ==
    /\ pc[d] \in {"dropping", "failing"}
    /\ doomed[d] # 0
    /\ LET name == ShmName(doomed[d])
       IN  dir' = IF Creator(dir[name]) = d THEN [dir EXCEPT ![name] = None] ELSE dir
    /\ doomed' = [doomed EXCEPT ![d] = 0]
    /\ UNCHANGED <<pc, at, frames, fd, mapped, size, header>>

\* create has kept the name whether it made the object or opened an old one; what
\* the name leads to by now is not looked at.
Unlink(d) ==
    /\ pc[d] \in {"dropping", "failing"}
    /\ doomed[d] # 0
    /\ dir' = [dir EXCEPT ![ShmName(doomed[d])] = None]
    /\ doomed' = [doomed EXCEPT ![d] = 0]
    /\ FreeObject(dir[ShmName(doomed[d])])
    /\ UNCHANGED <<pc, at, frames, fd, mapped>>

\* What a process knows is gone with it.
Forget(d) == at' = [at EXCEPT ![d] = 1] /\ frames' = [frames EXCEPT ![d] = 0]

End(d) ==
    /\ pc[d] \in {"dropping", "failing"}
    /\ doomed[d] = 0
    /\ ~Holds(d)
    /\ Goto(d, "over")
    /\ Forget(d)
    /\ UNCHANGED <<fd, mapped, doomed, kernel>>

\* The process ends with its rings not dropped: it is killed, it aborts, or main
\* returns while another thread still has its reference to the rings.
Crash(d) ==
    /\ pc[d] # "off"
    /\ ~Gone(d)
    /\ Goto(d, "crashed")
    /\ fd' = [fd EXCEPT ![d] = None]
    /\ mapped' = [mapped EXCEPT ![d] = [r \in Rings |-> None]]
    /\ doomed' = [doomed EXCEPT ![d] = 0]
    /\ Forget(d)
    /\ UNCHANGED kernel
-----------------------------------------------------------------------------
Init ==
    /\ pc = [d \in Daemons |-> "off"]
    /\ at = [d \in Daemons |-> 1]
    /\ frames = [d \in Daemons |-> 0]
    /\ fd = [d \in Daemons |-> None]
    /\ mapped = [d \in Daemons |-> [r \in Rings |-> None]]
    /\ doomed = [d \in Daemons |-> 0]
    /\ dir = [n \in Names |-> None]
    /\ size = [o \in Objects |-> 0]
    /\ header = [o \in Objects |-> Zeroed]

\* systemd starts the daemon again when it is over, and runs one at a time.
Supervised(d) == \A e \in 1..(d - 1) : Gone(e)

Act(d) ==
    \/ CreateNew(d)
    \/ CreateRefused(d)
    \/ OpenOld(d)
    \/ SetSize(d)
    \/ Map(d)
    \/ WriteHeader(d)
    \/ CreateFails(d)
    \/ Serve(d)
    \/ Exit(d)
    \/ Unmap(d)
    \/ Unlink(d)
    \/ End(d)
    \/ Crash(d)

Next == \E d \in Daemons : (Supervised(d) /\ Start(d)) \/ Act(d)

Spec == Init /\ [][Next]_vars

\* Nothing in the daemon keeps a second one from being started by hand.
OverlapSpec == Init /\ [][\E d \in Daemons : Start(d) \/ Act(d)]_vars
-----------------------------------------------------------------------------
(* Properties, of one daemon at a time. *)

\* The type of every variable.
TypeOK ==
    /\ pc \in [Daemons -> Pcs]
    /\ at \in [Daemons -> Rings]
    /\ frames \in [Daemons -> Nat]
    /\ fd \in [Daemons -> Objects \cup {None}]
    /\ mapped \in [Daemons -> [Rings -> Objects \cup {None}]]
    /\ doomed \in [Daemons -> 0..NRings]
    /\ dir \in [Names -> Objects \cup {None}]
    /\ size \in [Objects -> Nat]
    /\ header \in [Objects -> Headers]

\* A daemon starts with empty, stopped rings, whatever one that crashed before it
\* has left under their names.
FreshStart ==
    [][\A d \in Daemons : pc[d] # "serving" /\ pc'[d] = "serving" =>
        \A r \in Rings :
            LET h == header'[mapped'[d][r]] IN ~h.unread /\ ~h.running]_vars

\* Every frame of a ring in use is backed by its object, although the object may
\* be older than the daemon and of another configuration's size.
MappingBacked ==
    \A d \in Daemons, r \in Rings :
        mapped[d][r] # None => size[mapped[d][r]] >= frames[d]

\* Two rings of a daemon are two regions.
RegionsDistinct ==
    \A d \in Daemons : \A r, s \in Rings :
        mapped[d][r] # None /\ mapped[d][r] = mapped[d][s] => r = s

\* Whoever opens the name of a ring in use gets the region the daemon uses, and
\* finds in its header the number of frames the region has.
FoundByName ==
    \A d \in Daemons, r \in Rings :
        pc[d] = "serving" =>
            LET o == dir[ShmName(r)]
            IN  o = mapped[d][r] /\ header[o].frames = size[o]

\* A daemon that ends in order leaves no name behind, not even one it found, and
\* one whose start fails part way none of the rings it had made.
NothingLeft ==
    [][\A d \in Daemons : pc'[d] = "over" =>
        /\ pc[d] = "dropping" => \A n \in Names : dir'[n] = None
        /\ pc[d] = "failing" => \A r \in 1..(at[d] - 1) : dir'[ShmName(r)] = None]_vars
-----------------------------------------------------------------------------
(* The inductive invariant. *)

Live(d) == pc[d] \notin {"off", "over", "crashed"}

OneAtATime == \A d, e \in Daemons : d < e /\ pc[e] # "off" => Gone(d)

\* A name leads to an object that was made for its ring.
NamesInv == \A r \in Rings : dir[ShmName(r)] # None => dir[ShmName(r)][2] = r

\* What a process holds at each step; one that is not alive holds nothing.
Holding(d) ==
    /\ pc[d] = "off" => at[d] = 1
    /\ fd[d] # None <=> pc[d] \in {"sizing", "mapping"}
    /\ fd[d] # None => fd[d] = dir[Here(d)]
    /\ pc[d] = "mapping" => size[fd[d]] = frames[d]
    /\ doomed[d] # 0 =>
        pc[d] \in {"dropping", "failing"} /\ mapped[d][doomed[d]] = None
    /\ \A r \in Rings :
        /\ mapped[d][r] # None => Live(d)
        /\ pc[d] \in {"creating", "opening", "sizing", "mapping"} =>
            (mapped[d][r] # None <=> r < at[d])
        /\ pc[d] = "heading" => (mapped[d][r] # None <=> r <= at[d])
        /\ pc[d] = "serving" => mapped[d][r] # None
        /\ pc[d] = "dropping" \/ (pc[d] = "failing" /\ r < at[d]) =>
            mapped[d][r] # None \/ doomed[d] = r \/ dir[ShmName(r)] = None

Headed(d, r) == ~(pc[d] = "heading" /\ r = at[d])

\* A region in use is the one its name leads to, of the size of the daemon's
\* configuration; from the time its header is written it says so, and until the
\* daemon serves it is empty and stopped.
InUse(d, r) ==
    /\ dir[ShmName(r)] = mapped[d][r]
    /\ size[mapped[d][r]] = frames[d]
    /\ Headed(d, r) => header[mapped[d][r]].frames = frames[d]
    /\ Headed(d, r) /\ pc[d] \notin {"serving", "dropping", "failing"} =>
        ~header[mapped[d][r]].unread /\ ~header[mapped[d][r]].running

ProcessInv == \A d \in Daemons : Holding(d)

RegionInv == \A d \in Daemons, r \in Rings : mapped[d][r] # None => InUse(d, r)

IInv ==
    /\ TypeOK
    /\ OneAtATime
    /\ NamesInv
    /\ ProcessInv
    /\ RegionInv
-----------------------------------------------------------------------------
(* A claim of the sources that the code does not keep. *)

\* shm.rs:138, "Only the creating process unlinks the shm object": the name of a
\* region in use by the daemon that made it is not taken away.
OnlyCreatorUnlinks ==
    [][\A d \in Daemons, r \in Rings :
        pc[d] = "serving" /\ pc'[d] = "serving" /\ dir[ShmName(r)] = <<d, r>>
            => dir'[ShmName(r)] # None]_vars
=============================================================================
