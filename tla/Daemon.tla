------------------------------- MODULE Daemon -------------------------------
(***************************************************************************)
(* The daemon, src/main.rs: the main thread, the two bridge threads, the   *)
(* signal handler and the device, interleaved.                             *)
(***************************************************************************)
EXTENDS UsbBridge, AlsaBridge

VARIABLE m_pc       \* where the main thread stands

vars == <<m_pc, usb, alsa, shared>>

MainPcs == {"spawning_alsa", "spawning_usb", "waiting", "joining_alsa",
            "joining_usb", "exited", "failed"}

\* The process is up: when main returns, every thread left dies with it.
Alive == m_pc \notin {"exited", "failed"}
-----------------------------------------------------------------------------
SpawnAlsa ==
    /\ m_pc = "spawning_alsa"
    /\ m_pc' = "spawning_usb"
    /\ a_pc' = "opening"
    /\ UNCHANGED <<a_i, pcms, usb, shared>>

SpawnUsb ==
    /\ m_pc = "spawning_usb"
    /\ m_pc' = "waiting"
    /\ u_pc' = "starting"
    /\ UNCHANGED <<u_i, device, alsa, shared>>

\* spawn returns an error, and main returns it.
SpawnFails ==
    /\ m_pc \in {"spawning_alsa", "spawning_usb"}
    /\ m_pc' = "failed"
    /\ UNCHANGED <<usb, alsa, shared>>

\* The loop that pets the watchdog; SHUTDOWN is stored again on the way out.
SeeShutdown ==
    /\ m_pc = "waiting"
    /\ shutdown
    /\ m_pc' = "joining_alsa"
    /\ UNCHANGED <<usb, alsa, shared>>

JoinAlsa ==
    /\ m_pc = "joining_alsa"
    /\ a_pc \in {"ended", "aborted"}
    /\ m_pc' = "joining_usb"
    /\ UNCHANGED <<usb, alsa, shared>>

\* join returns for a thread that panicked too; its Err is dropped.
JoinUsb ==
    /\ m_pc = "joining_usb"
    /\ u_pc \in {"ended", "panicked"}
    /\ m_pc' = "exited"
    /\ UNCHANGED <<usb, alsa, shared>>

Main == SpawnAlsa \/ SpawnUsb \/ SpawnFails \/ SeeShutdown \/ JoinAlsa \/ JoinUsb

\* handle_signal, on SIGTERM, SIGINT or SIGQUIT.
Signal ==
    /\ Alive
    /\ ~shutdown
    /\ shutdown' = TRUE
    /\ UNCHANGED <<m_pc, usb, alsa, running, fill>>

Usb == Alive /\ UsbStep /\ UNCHANGED <<m_pc, alsa>>

AlsaWork == Alive /\ AlsaOwn /\ UNCHANGED <<m_pc, usb>>

AlsaPcm == Alive /\ PcmCall /\ UNCHANGED <<m_pc, usb>>

Environment == (Plug \/ Unplug) /\ UNCHANGED <<m_pc, alsa>>

\* main up to the first thread it models: the rings are new.
Init ==
    /\ m_pc = "spawning_alsa"
    /\ SharedInit
    /\ UsbInit
    /\ AlsaInit

Terminated == ~Alive /\ UNCHANGED vars

Next == Main \/ Signal \/ Usb \/ AlsaWork \/ AlsaPcm \/ Environment \/ Terminated

Spec == Init /\ [][Next]_vars
-----------------------------------------------------------------------------
UsbDoes(A) == Alive /\ A /\ UNCHANGED <<m_pc, alsa>>

\* The scheduler runs every thread that can run.  libusb calls time out after
\* 50 ms, and the idle loop lasts two seconds.
Scheduling ==
    /\ WF_vars(Main)
    /\ WF_vars(Usb)
    /\ SF_vars(UsbDoes(PollOver))
    /\ WF_vars(AlsaWork)

\* Every call on a PCM returns.
PcmsReturn == WF_vars(AlsaPcm)

FairSpec == Spec /\ Scheduling /\ PcmsReturn

\* ALSA may leave a call on a PCM waiting for ever.
BlockingSpec == Spec /\ Scheduling
-----------------------------------------------------------------------------
(* Properties. *)

\* The type of every variable.
TypeOK ==
    /\ m_pc \in MainPcs
    /\ SharedTypeOK
    /\ UsbTypeOK
    /\ AlsaTypeOK

UsbOver == u_pc \in {"ended", "panicked"}
AlsaOver == a_pc \in {"ended", "aborted"}
UsbStreaming == u_pc \in {"streaming", "checking", "transferring"}

\* When both bridges are over no ring is left marked running, although either
\* may mark all rings running after the other has stopped them.  Only a panic of
\* one together with an abort of the other skips both stop_alls.
StoppedAtEnd ==
    /\ UsbOver /\ AlsaOver
    /\ ~(u_pc = "panicked" /\ a_pc = "aborted")
    => \A r \in Rings : ~running[r]

\* A bridge that moves frames on a ring found it running, and only a shutdown
\* can have stopped the ring since: the flag read by is_running goes stale
\* between the check and the transfer at no other time.
StaleOnlyInShutdown ==
    /\ u_pc = "transferring" /\ ~running[u_i] => shutdown
    /\ a_pc = "transferring" /\ ~running[a_i] => shutdown

\* While the bridge streams to a device that is there, it holds every audio
\* interface and no kernel driver is bound to one.
StreamsOnClaimed ==
    UsbStreaming /\ Reachable => claimed = Ifaces /\ kernel = {}

\* A running ring is stopped only in a shutdown: neither a lost device, a failed
\* connect nor an abort of ALSA silences a channel.
StopsOnlyInShutdown ==
    [][\A r \in Rings : running[r] /\ ~running'[r] => shutdown]_vars

\* When the bridge leaves a device it streamed to, and one is connected then,
\* every audio interface of that device is back with its kernel driver.
DriversRestored ==
    [][u_pc = "releasing" /\ u_pc' # "releasing" /\ plugged
        => kernel' = Ifaces /\ claimed' = {}]_vars

\* A signal, or a fatal error of the ALSA bridge, ends the process.
ShutdownExits == shutdown \/ a_pc = "failed" ~> ~Alive

\* Assumed of a device: connecting to it while it is there fails only finitely
\* often.
DeviceWorks == <>[][ConnectFails => ~plugged \/ handle \notin {0, plugs}]_vars

DeviceStreams(n) ==
    plugged /\ plugs = n ~>
        \/ UsbStreaming /\ handle = n
        \/ ~(plugged /\ plugs = n)
        \/ u_pc = "panicked"
        \/ shutdown
        \/ ~Alive

\* The first device connected, if it works, is found and streamed to.
FirstDeviceStreams == DeviceWorks => DeviceStreams(1)

\* A full ring gets room again: the PCM that was opened for a capture ring, the
\* device or the idle loop for a playback ring, keeps draining it.
RingsDrain ==
    /\ \A r \in Capture :
        fill[r] = RingFrames /\ r \in pcms ~> fill[r] < RingFrames \/ shutdown \/ ~Alive
            \/ a_pc = "failed"
    /\ \A r \in Playback \cap Served :
        fill[r] = RingFrames ~>
            fill[r] < RingFrames \/ shutdown \/ u_pc = "panicked" \/ ~Alive
-----------------------------------------------------------------------------
(* The inductive invariant behind the safety properties. *)

\* The order in which main starts the bridges, what each has seen of SHUTDOWN by
\* the time it stops, and that an index names what a transfer or a claim is at.
ThreadsInv ==
    /\ m_pc = "spawning_alsa" => a_pc = "unborn"
    /\ m_pc \in {"spawning_alsa", "spawning_usb"} => u_pc = "unborn"
    /\ u_pc \in {"releasing", "stopping", "ended"} => shutdown
    /\ a_pc \in {"stopping", "draining", "ended", "aborted"} => shutdown
    /\ u_pc = "transferring" => u_i \in Rings
    /\ a_pc = "transferring" => a_i \in Rings
    /\ u_pc \in {"detaching", "claiming", "setting", "releasing"} => u_i \in Ifaces

\* The bridge's own stop_all has yet to reach ring r.
UsbStops(r) ==
    /\ u_pc \notin {"panicked", "ended"}
    /\ u_pc = "stopping" => u_i <= r

AlsaStops(r) ==
    /\ a_pc \notin {"failed", "aborted", "draining", "ended"}
    /\ a_pc = "stopping" => a_i <= r

\* A running ring has a bridge that will still stop it.  An ALSA bridge that may
\* yet fail has marked no ring itself; a USB bridge past its set_all_running
\* began to scan before the shutdown, so the ALSA bridge stops after it.
RunningInv ==
    \A r \in Rings : running[r] =>
        /\ AlsaStops(r) \/ UsbStops(r) \/ u_pc = "panicked"
        /\ a_pc \in {"unborn", "opening", "failed", "aborted"} =>
            UsbStops(r) \/ u_pc = "panicked"
        /\ u_pc \notin {"unborn", "starting", "top", "stopping", "ended"} =>
            AlsaStops(r) \/ a_pc \in {"failed", "aborted"}

Connected == {"parsing", "detaching", "claiming", "setting", "streaming",
              "checking", "transferring", "releasing"}

\* Whose interfaces are whose, at each step of the connection and its cleanup.
DeviceInv ==
    /\ plugged => plugs > 0
    /\ ~plugged => kernel = {} /\ claimed = {}
    /\ handle # 0 <=> u_pc \in Connected
    /\ plugged /\ handle # plugs => claimed = {}
    /\ plugged /\ handle \notin {0, plugs} => kernel = Ifaces
    /\ Reachable =>
        /\ u_pc = "parsing" => claimed = {}
        /\ u_pc \in {"detaching", "claiming"} => claimed = 1..(u_i - 1)
        /\ u_pc = "setting" => claimed = 1..u_i
        /\ u_pc \in {"detaching", "claiming"} => kernel \cap 1..(u_i - 1) = {}
        /\ u_pc = "setting" => kernel \cap 1..u_i = {}
        /\ u_pc = "releasing" => claimed = u_i..NIfaces /\ kernel = 1..(u_i - 1)
    /\ StreamsOnClaimed

IInv ==
    /\ TypeOK
    /\ ThreadsInv
    /\ StaleOnlyInShutdown
    /\ RunningInv
    /\ DeviceInv
-----------------------------------------------------------------------------
(* Claims of the sources that the code does not keep. *)

\* usb_bridge.rs:249, "USB device disconnected, will re-scan...": a device that
\* is connected after another one was taken away is found and streamed to.
ReconnectedDeviceStreams == DeviceWorks => \A n \in 2..MaxPlugs : DeviceStreams(n)

\* main.rs:177, "Wait for threads to finish (with timeout)": main does not wait
\* for ever for the bridges.
JoinsTimeOut == m_pc = "joining_alsa" ~> ~Alive
=============================================================================
