------------------------------- MODULE RingSet -------------------------------
(***************************************************************************)
(* What the daemon's threads share: the RingBufferSet of src/ring_buffer.rs*)
(* and the SHUTDOWN flag of src/main.rs.                                   *)
(*                                                                         *)
(* A ring is the number of frames waiting in it and the running flag of    *)
(* its header.  RingBuffer models the two calls on a ring access by access *)
(* and shows that they are puts and takes of a bounded queue; here each is *)
(* one step.  The rings are numbered in the order set_all_running and      *)
(* stop_all visit them: the capture rings, then the playback rings.        *)
(***************************************************************************)
EXTENDS Integers

CONSTANTS
    NCapture,       \* capture channels configured
    NPlayback,      \* playback channels configured
    PeriodFrames,   \* period_frames
    NumPeriods      \* num_periods

ASSUME ChannelsAssumption == NCapture \in Nat /\ NPlayback \in Nat
ASSUME PeriodAssumption == PeriodFrames \in Nat \ {0} /\ NumPeriods \in Nat \ {0}

VARIABLES
    shutdown,       \* SHUTDOWN
    running,        \* flags of each ring's header
    fill            \* frames waiting in each ring

shared == <<shutdown, running, fill>>

Capture == 1..NCapture
Playback == (NCapture + 1)..(NCapture + NPlayback)
Rings == Capture \cup Playback
NRings == NCapture + NPlayback

Lesser(a, b) == IF a <= b THEN a ELSE b

\* total_frames less the slot a ring always keeps empty.
RingFrames == PeriodFrames * NumPeriods - 1

SharedInit ==
    /\ shutdown = FALSE
    /\ running = [r \in Rings |-> FALSE]
    /\ fill = [r \in Rings |-> 0]

SetRunning(r, on) == running' = [running EXCEPT ![r] = on]

\* An operator with an underscore in its name is a faulty variant of the
\* definition that follows it; the runs refute it.
Put_Unbounded(r, n) == fill' = [fill EXCEPT ![r] = @ + n]

Put(r, n) == fill' = [fill EXCEPT ![r] = Lesser(@ + n, RingFrames)]

Take(r, n) == fill' = [fill EXCEPT ![r] = @ - Lesser(@, n)]

SharedTypeOK ==
    /\ shutdown \in BOOLEAN
    /\ running \in [Rings -> BOOLEAN]
    /\ fill \in [Rings -> 0..RingFrames]
=============================================================================
