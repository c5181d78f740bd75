------------------------------ MODULE UsbBridge ------------------------------
(***************************************************************************)
(* The usb-bridge thread, src/usb_bridge.rs: it scans for a RODE device,   *)
(* takes its audio interfaces from the kernel, streams between the device  *)
(* and the rings until shutdown, and keeps the rings moving while there is *)
(* no device.                                                              *)
(*                                                                         *)
(* Every call into libusb is a step of its own, and the device may be      *)
(* plugged or unplugged between any two of them.                           *)
(***************************************************************************)
EXTENDS RingSet

CONSTANTS
    NIfaces,        \* audio streaming interfaces of the device
    DevCapture,     \* IN endpoints parse_audio_topology finds
    DevPlayback,    \* OUT endpoints it finds
    DevFrames,      \* ring frames in one transfer of a device channel: a period
                    \* of its samples, cut into frames of the ring's format
    MaxPlugs        \* bound: times a device is plugged in

ASSUME DeviceAssumption ==
    /\ NIfaces \in Nat \ {0}
    /\ DevCapture \in Nat
    /\ DevPlayback \in Nat
    /\ DevFrames \in Nat
    /\ MaxPlugs \in Nat

VARIABLES
    u_pc,           \* where the thread stands
    u_i,            \* the ring or interface its current loop is at
    plugged,        \* a device is connected
    plugs,          \* devices connected so far; the number of the present one
    handle,         \* the device the open DeviceHandle belongs to, 0 for none
    kernel,         \* interfaces of the present device a kernel driver holds
    claimed         \* interfaces of the present device the daemon has claimed

device == <<plugged, plugs, handle, kernel, claimed>>
usb == <<u_pc, u_i, device>>

Ifaces == 1..NIfaces

\* The channel lists of the device and of the configuration are matched by
\* position: idx >= ring_buffers.capture.len() ends the pass.
Served ==
    {r \in Capture : r <= DevCapture} \cup
    {r \in Playback : r - NCapture <= DevPlayback}

\* libusb calls reach a device only through a handle to the one connected.
Reachable == plugged /\ handle = plugs

UsbPcs == {"unborn", "starting", "top", "scanning", "parsing", "detaching",
           "claiming", "setting", "streaming", "checking", "transferring",
           "releasing", "idle", "feeding", "polled",
           "stopping", "ended", "panicked"}

UsbInit ==
    /\ u_pc = "unborn"
    /\ u_i = 1
    /\ plugged = FALSE
    /\ plugs = 0
    /\ handle = 0
    /\ kernel = {}
    /\ claimed = {}

UsbGoto(pc) == u_pc' = pc /\ u_i' = 1
UsbNext(pc) == u_pc' = pc /\ u_i' = u_i + 1
-----------------------------------------------------------------------------
(* The device, as libusb and the kernel present it. *)

Plug ==
    /\ ~plugged
    /\ plugs < MaxPlugs
    /\ plugged' = TRUE
    /\ plugs' = plugs + 1
    /\ kernel' = Ifaces
    /\ claimed' = {}
    /\ UNCHANGED <<handle, u_pc, u_i, shared>>

Unplug ==
    /\ plugged
    /\ plugged' = FALSE
    /\ kernel' = {}
    /\ claimed' = {}
    /\ UNCHANGED <<plugs, handle, u_pc, u_i, shared>>
-----------------------------------------------------------------------------
(* run_usb_bridge. *)

UsbSetRunning ==
    /\ u_pc = "starting"
    /\ IF u_i <= NRings
       THEN SetRunning(u_i, TRUE) /\ UsbNext("starting")
       ELSE UsbGoto("top") /\ UNCHANGED running
    /\ UNCHANGED <<shutdown, fill, device>>

UsbTop ==
    /\ u_pc = "top"
    /\ UsbGoto(IF shutdown THEN "stopping" ELSE "scanning")
    /\ UNCHANGED <<shared, device>>

\* stop_all, at the end of the thread and on the way out of the idle loop.
UsbStop ==
    /\ u_pc = "stopping"
    /\ IF u_i <= NRings
       THEN SetRunning(u_i, FALSE) /\ UsbNext("stopping")
       ELSE UsbGoto("ended") /\ UNCHANGED running
    /\ UNCHANGED <<shutdown, fill, device>>
-----------------------------------------------------------------------------
(* connect_rode_device.  An error on the way drops the handle: libusb gives  *)
(* up the claims, nothing re-attaches the drivers already detached.          *)

ConnectFails_StopsRings ==
    /\ u_pc \in {"scanning", "parsing", "detaching", "claiming", "setting"}
    /\ UsbGoto("idle")
    /\ handle' = 0
    /\ claimed' = IF Reachable THEN {} ELSE claimed
    /\ running' = [r \in Rings |-> FALSE]
    /\ UNCHANGED <<plugged, plugs, kernel, shutdown, fill>>

ConnectFails ==
    /\ u_pc \in {"scanning", "parsing", "detaching", "claiming", "setting"}
    /\ UsbGoto("idle")
    /\ handle' = 0
    /\ claimed' = IF Reachable THEN {} ELSE claimed
    /\ UNCHANGED <<plugged, plugs, kernel, shared>>

OpenDevice ==
    /\ u_pc = "scanning"
    /\ plugged
    /\ handle' = plugs
    /\ UsbGoto("parsing")
    /\ UNCHANGED <<plugged, plugs, kernel, claimed, shared>>

\* A device without streaming endpoints is passed over (ConnectFails).
ParseTopology ==
    /\ u_pc = "parsing"
    /\ Reachable
    /\ UsbGoto("detaching")
    /\ UNCHANGED <<device, shared>>

\* parse_format_descriptor panics on some descriptors (FormatDescriptor).
ParsePanics ==
    /\ u_pc = "parsing"
    /\ Reachable
    /\ UsbGoto("panicked")
    /\ handle' = 0
    /\ UNCHANGED <<plugged, plugs, kernel, claimed, shared>>

\* An error of kernel_driver_active counts as no driver, also where there is one.
DetachDriver ==
    /\ u_pc = "detaching"
    /\ kernel' \in IF Reachable THEN {kernel, kernel \ {u_i}} ELSE {kernel}
    /\ u_pc' = "claiming"
    /\ UNCHANGED <<u_i, plugged, plugs, handle, claimed, shared>>

\* An interface that its driver still holds is not claimed (ConnectFails).
ClaimIface ==
    /\ u_pc = "claiming"
    /\ Reachable
    /\ u_i \notin kernel
    /\ claimed' = claimed \cup {u_i}
    /\ u_pc' = "setting"
    /\ UNCHANGED <<u_i, plugged, plugs, handle, kernel, shared>>

SetAltSetting_LastSkipped ==
    /\ u_pc = "setting"
    /\ Reachable
    /\ IF u_i < NIfaces - 1 THEN UsbNext("detaching") ELSE UsbGoto("streaming")
    /\ UNCHANGED <<device, shared>>

\* set_alternate_setting; after the last interface the device is connected.
SetAltSetting ==
    /\ u_pc = "setting"
    /\ Reachable
    /\ IF u_i < NIfaces THEN UsbNext("detaching") ELSE UsbGoto("streaming")
    /\ UNCHANGED <<device, shared>>
-----------------------------------------------------------------------------
(* run_streaming. *)

\* Where the pass goes on after the ring it is at.
PassOn == IF u_i < NRings THEN UsbNext("checking") ELSE UsbGoto("streaming")

StreamTop ==
    /\ u_pc = "streaming"
    /\ UsbGoto(IF shutdown THEN "releasing" ELSE "checking")
    /\ UNCHANGED <<shared, device>>

CheckRing ==
    /\ u_pc = "checking"
    /\ IF u_i \in Served /\ running[u_i]
       THEN u_pc' = "transferring" /\ UNCHANGED u_i
       ELSE PassOn
    /\ UNCHANGED <<shared, device>>

\* read_interrupt: at most a transfer of data, or a timeout or an error, which is
\* only logged.
CaptureTransfer ==
    /\ u_pc = "transferring"
    /\ u_i \in Capture
    /\ \E n \in 0..DevFrames :
        /\ n > 0 => Reachable
        /\ Put(u_i, n)
    /\ PassOn
    /\ UNCHANGED <<shutdown, running, device>>

\* Frames taken from the ring are gone whether or not write_interrupt succeeds.
PlaybackTransfer ==
    /\ u_pc = "transferring"
    /\ u_i \in Playback
    /\ Take(u_i, DevFrames)
    /\ PassOn
    /\ UNCHANGED <<shutdown, running, device>>

ReleaseIface_NoAttach ==
    /\ u_pc = "releasing"
    /\ claimed' = IF Reachable THEN claimed \ {u_i} ELSE claimed
    /\ IF u_i < NIfaces
       THEN UsbNext("releasing") /\ UNCHANGED handle
       ELSE UsbGoto("top") /\ handle' = 0
    /\ UNCHANGED <<kernel, plugged, plugs, shared>>

\* The cleanup after run_streaming: release_iface ignores errors.  After the
\* last interface the handle is dropped.
ReleaseIface ==
    /\ u_pc = "releasing"
    /\ IF Reachable
       THEN kernel' = kernel \cup {u_i} /\ claimed' = claimed \ {u_i}
       ELSE UNCHANGED <<kernel, claimed>>
    /\ IF u_i < NIfaces
       THEN UsbNext("releasing") /\ UNCHANGED handle
       ELSE UsbGoto("top") /\ handle' = 0
    /\ UNCHANGED <<plugged, plugs, shared>>
-----------------------------------------------------------------------------
(* The idle loop: two seconds of polling without a device. *)

IdleTop_NoStop ==
    /\ u_pc = "idle"
    /\ UsbGoto(IF shutdown THEN "ended" ELSE "feeding")
    /\ UNCHANGED <<shared, device>>

IdleTop ==
    /\ u_pc = "idle"
    /\ UsbGoto(IF shutdown THEN "stopping" ELSE "feeding")
    /\ UNCHANGED <<shared, device>>

IdleFeed_NoDiscard ==
    /\ u_pc = "feeding"
    /\ IF u_i > NRings
       THEN UsbGoto("polled") /\ UNCHANGED fill
       ELSE /\ UsbNext("feeding")
            /\ IF u_i \in Capture /\ fill[u_i] = 0 THEN Put(u_i, PeriodFrames)
               ELSE UNCHANGED fill
    /\ UNCHANGED <<shutdown, running, device>>

\* Silence for an empty capture ring, a period thrown away from a playback ring;
\* the running flags are not looked at.
IdleFeed ==
    /\ u_pc = "feeding"
    /\ IF u_i > NRings
       THEN UsbGoto("polled") /\ UNCHANGED fill
       ELSE /\ UsbNext("feeding")
            /\ IF u_i \in Playback THEN Take(u_i, PeriodFrames)
               ELSE IF fill[u_i] = 0 THEN Put(u_i, PeriodFrames)
               ELSE UNCHANGED fill
    /\ UNCHANGED <<shutdown, running, device>>

PollAgain ==
    /\ u_pc = "polled"
    /\ UsbGoto("idle")
    /\ UNCHANGED <<shared, device>>

PollOver_NoScan ==
    /\ u_pc = "polled"
    /\ UsbGoto("idle")
    /\ UNCHANGED <<shared, device>>

\* DEVICE_POLL_INTERVAL is over, never before the first feed.
PollOver ==
    /\ u_pc = "polled"
    /\ UsbGoto("top")
    /\ UNCHANGED <<shared, device>>
-----------------------------------------------------------------------------
UsbStep ==
    \/ UsbSetRunning
    \/ UsbTop
    \/ UsbStop
    \/ ConnectFails
    \/ OpenDevice
    \/ ParseTopology
    \/ ParsePanics
    \/ DetachDriver
    \/ ClaimIface
    \/ SetAltSetting
    \/ StreamTop
    \/ CheckRing
    \/ CaptureTransfer
    \/ PlaybackTransfer
    \/ ReleaseIface
    \/ IdleTop
    \/ IdleFeed
    \/ PollAgain
    \/ PollOver

UsbTypeOK ==
    /\ u_pc \in UsbPcs
    /\ u_i \in Nat \ {0}
    /\ plugged \in BOOLEAN
    /\ plugs \in Nat
    /\ handle \in 0..plugs
    /\ kernel \subseteq Ifaces
    /\ claimed \subseteq Ifaces
=============================================================================
