------------------------------ MODULE Streams ------------------------------
(***************************************************************************)
(* The two ends of a ring: the usb-bridge thread's side of it, Topology,   *)
(* and what the alsa-bridge thread does with the samples, Samples.  The    *)
(* threads share the rings only, which RingBuffer is about, so a step of   *)
(* the one is none of the other.                                           *)
(*                                                                         *)
(* Bound: the conversions are explored beside a device without channels    *)
(* only; with another device nothing in them would differ.                 *)
(***************************************************************************)
EXTENDS Topology, Samples

StreamsInit == Init /\ ConversionInit

UsbSide == Next /\ UNCHANGED conversion

AlsaSide == t_pc = "passed" /\ ConversionNext /\ UNCHANGED vars

StreamsNext == UsbSide \/ AlsaSide

\* The connection is one thread's straight line: it runs on.
StreamsSpec ==
    /\ StreamsInit /\ [][StreamsNext]_<<vars, conversion>>
    /\ WF_<<vars, conversion>>(Connect /\ UNCHANGED conversion)
=============================================================================
