----------------------------- MODULE AlsaBridge -----------------------------
(***************************************************************************)
(* The alsa-bridge thread, src/alsa_bridge.rs: it opens a PCM for each     *)
(* channel, marks the rings running, and moves audio between the PCMs and  *)
(* the rings period by period until shutdown.                              *)
(*                                                                         *)
(* The PCMs are opened in blocking mode: a transfer or a drain is a step   *)
(* that may stay enabled for as long as ALSA likes.                        *)
(***************************************************************************)
EXTENDS RingSet

VARIABLES
    a_pc,           \* where the thread stands
    a_i,            \* the ring its current loop is at
    pcms            \* rings whose PCM is open and started

alsa == <<a_pc, a_i, pcms>>

AlsaPcs == {"unborn", "opening", "starting", "top", "checking", "transferring",
            "stopping", "draining", "failed", "aborted", "ended"}

AlsaInit == a_pc = "unborn" /\ a_i = 1 /\ pcms = {}

AlsaGoto(pc) == a_pc' = pc /\ a_i' = 1
AlsaNext(pc) == a_pc' = pc /\ a_i' = a_i + 1
-----------------------------------------------------------------------------
\* A PCM that cannot be opened or configured is skipped.
OpenPcm ==
    /\ a_pc = "opening"
    /\ IF a_i <= NRings
       THEN \E opened \in BOOLEAN :
                /\ pcms' = IF opened THEN pcms \cup {a_i} ELSE pcms
                /\ AlsaNext("opening")
       ELSE AlsaGoto("starting") /\ UNCHANGED pcms
    /\ UNCHANGED shared

\* An operator with an underscore in its name is a faulty variant of the
\* definition that follows it; the runs refute it.
OpenFails_StopsFirst ==
    /\ a_pc = "opening"
    /\ a_i <= NRings
    /\ AlsaGoto("failed")
    /\ pcms' = {}
    /\ running' = [r \in Rings |-> FALSE]
    /\ UNCHANGED <<shutdown, fill>>

\* apply_sw_params or start fails: run_alsa_bridge returns the error, without a
\* stop_all.
OpenFails ==
    /\ a_pc = "opening"
    /\ a_i <= NRings
    /\ AlsaGoto("failed")
    /\ pcms' = {}
    /\ UNCHANGED shared

ReportFailure_Silent ==
    /\ a_pc = "failed"
    /\ AlsaGoto("aborted")
    /\ UNCHANGED <<shared, pcms>>

\* The closure main.rs spawns stores SHUTDOWN when the bridge returns an error.
ReportFailure ==
    /\ a_pc = "failed"
    /\ shutdown' = TRUE
    /\ AlsaGoto("aborted")
    /\ UNCHANGED <<running, fill, pcms>>

AlsaSetRunning ==
    /\ a_pc = "starting"
    /\ IF a_i <= NRings
       THEN SetRunning(a_i, TRUE) /\ AlsaNext("starting")
       ELSE AlsaGoto("top") /\ UNCHANGED running
    /\ UNCHANGED <<shutdown, fill, pcms>>

AlsaTop ==
    /\ a_pc = "top"
    /\ AlsaGoto(IF shutdown THEN "stopping" ELSE "checking")
    /\ UNCHANGED <<shared, pcms>>

\* Where the pass goes on after the ring it is at.
AlsaPassOn == IF a_i < NRings THEN AlsaNext("checking") ELSE AlsaGoto("top")

CheckPcm ==
    /\ a_pc = "checking"
    /\ IF a_i \in pcms /\ running[a_i]
       THEN a_pc' = "transferring" /\ UNCHANGED a_i
       ELSE AlsaPassOn
    /\ UNCHANGED <<shared, pcms>>

\* Takes a period from the ring (the mixer is applied to it) and writes it, or
\* silence when there is none, to the PCM; what writei refuses is lost.
WritePcm ==
    /\ a_pc = "transferring"
    /\ a_i \in Capture
    /\ Take(a_i, PeriodFrames)
    /\ AlsaPassOn
    /\ UNCHANGED <<shutdown, running, pcms>>

\* readi returns up to a period, or an error, which counts as no frames.
ReadPcm ==
    /\ a_pc = "transferring"
    /\ a_i \in Playback
    /\ \E n \in 0..PeriodFrames : Put(a_i, n)
    /\ AlsaPassOn
    /\ UNCHANGED <<shutdown, running, pcms>>

AlsaStop ==
    /\ a_pc = "stopping"
    /\ IF a_i <= NRings
       THEN SetRunning(a_i, FALSE) /\ AlsaNext("stopping")
       ELSE AlsaGoto("draining") /\ UNCHANGED running
    /\ UNCHANGED <<shutdown, fill, pcms>>

DrainPcm ==
    /\ a_pc = "draining"
    /\ a_i \in pcms
    /\ pcms' = pcms \ {a_i}
    /\ AlsaNext("draining")
    /\ UNCHANGED shared

DrainSkip ==
    /\ a_pc = "draining"
    /\ a_i \notin pcms
    /\ IF a_i <= NRings THEN AlsaNext("draining") ELSE AlsaGoto("ended")
    /\ UNCHANGED <<shared, pcms>>
-----------------------------------------------------------------------------
\* The calls that wait for ALSA, and the rest of the thread.
PcmCall == WritePcm \/ ReadPcm \/ DrainPcm

AlsaOwn ==
    \/ OpenPcm
    \/ OpenFails
    \/ ReportFailure
    \/ AlsaSetRunning
    \/ AlsaTop
    \/ CheckPcm
    \/ AlsaStop
    \/ DrainSkip

AlsaTypeOK ==
    /\ a_pc \in AlsaPcs
    /\ a_i \in Nat \ {0}
    /\ pcms \subseteq Rings
=============================================================================
