---------------------------- MODULE DaemonProofs ----------------------------
(***************************************************************************)
(* The safety properties of Daemon, for any number of channels, interfaces *)
(* and times the device is plugged in.                                     *)
(*                                                                         *)
(* The parts of IInv are proved in the order in which they lean on each    *)
(* other: the types, then what each thread has seen of SHUTDOWN, then the  *)
(* running flags and the device, which both rest on those two.             *)
(***************************************************************************)
EXTENDS Daemon, TLAPS

\* A ring has room for some frames, or for none, but never for fewer than none.
LEMMA RingFramesInNat == RingFrames \in Nat
  <1>1. PeriodFrames * NumPeriods \in Nat /\ PeriodFrames * NumPeriods >= 1
    <2>1. \A a, b \in Nat \ {0} : a * b \in Nat /\ a * b >= 1
      BY SMT
    <2> QED BY <2>1, PeriodAssumption
  <1> QED BY <1>1 DEF RingFrames

\* A put or a take of any size leaves the rings within their capacity.
LEMMA FillBounded ==
    ASSUME SharedTypeOK, NEW r \in Rings, NEW n \in Nat, Put(r, n) \/ Take(r, n)
    PROVE  fill' \in [Rings -> 0..RingFrames]
  BY RingFramesInNat DEF SharedTypeOK, Put, Take, Lesser

\* The rings, in the order set_all_running and stop_all visit them.
LEMMA RingsAreInterval == Rings = 1..NRings
  BY ChannelsAssumption DEF Rings, Capture, Playback, NRings

\* Every ring the device serves is a configured one.
LEMMA ServedAreRings == Served \subseteq Rings
  BY DEF Served, Rings
-----------------------------------------------------------------------------
\* A new daemon satisfies the invariant.
THEOREM InitIInv == Init => IInv
  <1> SUFFICES ASSUME Init PROVE IInv
    OBVIOUS
  <1> USE DEF Init, SharedInit, UsbInit, AlsaInit
  <1>1. SharedTypeOK
    <2>1. shutdown \in BOOLEAN
      OBVIOUS
    <2>2. running \in [Rings -> BOOLEAN]
      OBVIOUS
    <2>3. fill \in [Rings -> 0..RingFrames]
      BY RingFramesInNat
    <2> QED BY <2>1, <2>2, <2>3 DEF SharedTypeOK
  <1>2. UsbTypeOK
    <2>1. u_pc \in UsbPcs
      BY DEF UsbPcs
    <2>2. u_i \in Nat \ {0} /\ plugs \in Nat /\ handle \in 0..plugs
      OBVIOUS
    <2>3. plugged \in BOOLEAN
      OBVIOUS
    <2>4. kernel \subseteq Ifaces /\ claimed \subseteq Ifaces
      OBVIOUS
    <2> QED BY <2>1, <2>2, <2>3, <2>4 DEF UsbTypeOK
  <1>3. AlsaTypeOK
    BY DEF AlsaTypeOK, AlsaPcs
  <1>4. m_pc \in MainPcs
    BY DEF MainPcs
  <1>5. ThreadsInv /\ StaleOnlyInShutdown /\ RunningInv
    BY DEF ThreadsInv, StaleOnlyInShutdown, RunningInv
  <1>6. DeviceInv
    BY DEF DeviceInv, Connected, Reachable, StreamsOnClaimed, UsbStreaming
  <1> QED BY <1>1, <1>2, <1>3, <1>4, <1>5, <1>6 DEF IInv, TypeOK
-----------------------------------------------------------------------------
(* The types. *)

\* What one step of the USB bridge can do to each variable.
LEMMA UsbEffects ==
    ASSUME UsbStep, u_i \in Nat \ {0}
    PROVE  /\ UNCHANGED <<shutdown, plugged, plugs>>
           /\ u_pc \in UsbPcs => u_pc' \in UsbPcs
           /\ u_i' = u_i \/ u_i' = u_i + 1 \/ u_i' = 1
           /\ handle' = handle \/ handle' = 0 \/ handle' = plugs
           /\ \/ UNCHANGED kernel
              \/ kernel' = kernel \ {u_i}
              \/ u_pc = "releasing" /\ kernel' = kernel \cup {u_i}
           /\ \/ UNCHANGED claimed
              \/ claimed' = {}
              \/ claimed' = claimed \ {u_i}
              \/ u_pc = "claiming" /\ claimed' = claimed \cup {u_i}
           /\ \/ UNCHANGED running
              \/ SetRunning(u_i, TRUE)
              \/ u_pc = "stopping" /\ SetRunning(u_i, FALSE)
           /\ \/ UNCHANGED fill
              \/ \E r \in Rings, n \in Nat : Put(r, n) \/ Take(r, n)
  <1> USE DEF UsbStep, UsbSetRunning, UsbTop, UsbStop, ConnectFails, OpenDevice,
              ParseTopology, ParsePanics, DetachDriver, ClaimIface, SetAltSetting,
              StreamTop, CheckRing, CaptureTransfer, PlaybackTransfer,
              ReleaseIface, IdleTop, IdleFeed, PollAgain, PollOver
  <1>1. UNCHANGED shutdown
    BY Zenon DEF shared
  <1>2. UNCHANGED plugged /\ UNCHANGED plugs
    BY Zenon DEF device
  <1>3. u_pc \in UsbPcs => u_pc' \in UsbPcs
    BY Zenon DEF UsbPcs, UsbGoto, UsbNext, PassOn
  <1>4. u_i' = u_i \/ u_i' = u_i + 1 \/ u_i' = 1
    BY Zenon DEF UsbGoto, UsbNext, PassOn
  <1>5. handle' = handle \/ handle' = 0 \/ handle' = plugs
    BY Zenon DEF device
  <1>6. \/ UNCHANGED kernel
        \/ kernel' = kernel \ {u_i}
        \/ u_pc = "releasing" /\ kernel' = kernel \cup {u_i}
    BY Zenon DEF device
  <1>7. \/ UNCHANGED claimed
        \/ claimed' = {}
        \/ claimed' = claimed \ {u_i}
        \/ u_pc = "claiming" /\ claimed' = claimed \cup {u_i}
    BY Zenon DEF device
  <1>8. \/ UNCHANGED running
        \/ SetRunning(u_i, TRUE)
        \/ u_pc = "stopping" /\ SetRunning(u_i, FALSE)
    BY Zenon DEF shared
  <1>9. \/ UNCHANGED fill
        \/ \E r \in Rings, n \in Nat : Put(r, n) \/ Take(r, n)
    <2>1. PeriodFrames \in Nat /\ DevFrames \in Nat /\ \A n \in 0..DevFrames : n \in Nat
      BY PeriodAssumption, DeviceAssumption
    <2>2. Capture \subseteq Rings /\ Playback \subseteq Rings
      BY DEF Rings
    <2>3. u_i \in Rings \/ u_i > NRings
      BY RingsAreInterval, ChannelsAssumption DEF NRings
    <2> QED BY <2>1, <2>2, <2>3, Zenon DEF shared
  <1> QED BY <1>1, <1>2, <1>3, <1>4, <1>5, <1>6, <1>7, <1>8, <1>9, Zenon

\* A step of the USB bridge keeps the types.
LEMMA UsbTypeStep ==
    ASSUME TypeOK, ThreadsInv, Usb
    PROVE  TypeOK'
  <1>0. UsbStep /\ UNCHANGED <<m_pc, a_pc, a_i, pcms>> /\ u_i \in Nat \ {0}
    BY DEF Usb, alsa, TypeOK, UsbTypeOK
  <1>1. SharedTypeOK'
    <2>1. (shutdown \in BOOLEAN)'
      BY <1>0, UsbEffects DEF TypeOK, SharedTypeOK
    <2>2. (running \in [Rings -> BOOLEAN])'
      BY <1>0, UsbEffects DEF TypeOK, SharedTypeOK, SetRunning
    <2>3. (fill \in [Rings -> 0..RingFrames])'
      BY <1>0, UsbEffects, FillBounded DEF TypeOK, SharedTypeOK
    <2> QED BY <2>1, <2>2, <2>3 DEF SharedTypeOK
  <1>2. UsbTypeOK'
    <2>1. (u_pc \in UsbPcs)'
      BY <1>0, UsbEffects DEF TypeOK, UsbTypeOK
    <2>2. (u_i \in Nat \ {0} /\ plugs \in Nat /\ handle \in 0..plugs)'
      BY <1>0, UsbEffects DEF TypeOK, UsbTypeOK
    <2>3. (plugged \in BOOLEAN)'
      BY <1>0, UsbEffects DEF TypeOK, UsbTypeOK
    <2>4. (kernel \subseteq Ifaces)'
      BY <1>0, UsbEffects DEF TypeOK, UsbTypeOK, ThreadsInv
    <2>5. (claimed \subseteq Ifaces)'
      BY <1>0, UsbEffects DEF TypeOK, UsbTypeOK, ThreadsInv
    <2> QED BY <2>1, <2>2, <2>3, <2>4, <2>5 DEF UsbTypeOK
  <1> QED BY <1>0, <1>1, <1>2 DEF TypeOK, AlsaTypeOK

\* What one step of the ALSA bridge can do to each variable.
LEMMA AlsaEffects ==
    ASSUME AlsaOwn \/ PcmCall
    PROVE  /\ UNCHANGED shutdown \/ shutdown' = TRUE
           /\ a_pc \in AlsaPcs => a_pc' \in AlsaPcs
           /\ a_i' = a_i \/ a_i' = a_i + 1 \/ a_i' = 1
           /\ pcms' \subseteq pcms \/ (a_i <= NRings /\ pcms' = pcms \cup {a_i})
           /\ \/ UNCHANGED running
              \/ SetRunning(a_i, TRUE)
              \/ a_pc = "stopping" /\ SetRunning(a_i, FALSE)
           /\ \/ UNCHANGED fill
              \/ \E r \in Rings, n \in Nat : Put(r, n) \/ Take(r, n)
  <1> USE DEF AlsaOwn, OpenPcm, OpenFails, ReportFailure, AlsaSetRunning, AlsaTop,
              CheckPcm, AlsaStop, DrainSkip, PcmCall, WritePcm, ReadPcm, DrainPcm
  <1>1. UNCHANGED shutdown \/ shutdown' = TRUE
    BY Zenon DEF shared
  <1>2. a_pc \in AlsaPcs => a_pc' \in AlsaPcs
    BY Zenon DEF AlsaPcs, AlsaGoto, AlsaNext, AlsaPassOn
  <1>3. a_i' = a_i \/ a_i' = a_i + 1 \/ a_i' = 1
    BY Zenon DEF AlsaGoto, AlsaNext, AlsaPassOn
  <1>4. pcms' \subseteq pcms \/ (a_i <= NRings /\ pcms' = pcms \cup {a_i})
    BY Zenon
  <1>5. \/ UNCHANGED running
        \/ SetRunning(a_i, TRUE)
        \/ a_pc = "stopping" /\ SetRunning(a_i, FALSE)
    BY Zenon DEF shared
  <1>6. \/ UNCHANGED fill
        \/ \E r \in Rings, n \in Nat : Put(r, n) \/ Take(r, n)
    <2>1. PeriodFrames \in Nat /\ \A n \in 0..PeriodFrames : n \in Nat
      BY PeriodAssumption
    <2>2. Capture \subseteq Rings /\ Playback \subseteq Rings
      BY DEF Rings
    <2> QED BY <2>1, <2>2, Zenon DEF shared
  <1> QED BY <1>1, <1>2, <1>3, <1>4, <1>5, <1>6, Zenon

\* A step of the ALSA bridge keeps the types.
LEMMA AlsaTypeStep ==
    ASSUME TypeOK, AlsaWork \/ AlsaPcm
    PROVE  TypeOK'
  <1>0. /\ AlsaOwn \/ PcmCall
        /\ UNCHANGED <<m_pc, u_pc, u_i, plugged, plugs, handle, kernel, claimed>>
    BY DEF AlsaWork, AlsaPcm, usb, device
  <1>1. SharedTypeOK'
    <2>1. (shutdown \in BOOLEAN)'
      BY <1>0, AlsaEffects DEF TypeOK, SharedTypeOK
    <2>2. (running \in [Rings -> BOOLEAN])'
      BY <1>0, AlsaEffects DEF TypeOK, SharedTypeOK, SetRunning
    <2>3. (fill \in [Rings -> 0..RingFrames])'
      BY <1>0, AlsaEffects, FillBounded DEF TypeOK, SharedTypeOK
    <2> QED BY <2>1, <2>2, <2>3 DEF SharedTypeOK
  <1>2. AlsaTypeOK'
    <2>1. (a_pc \in AlsaPcs)'
      BY <1>0, AlsaEffects, Zenon DEF TypeOK, AlsaTypeOK
    <2>2. (a_i \in Nat \ {0})'
      <3>1. a_i' = a_i \/ a_i' = a_i + 1 \/ a_i' = 1
        BY <1>0, AlsaEffects, Zenon
      <3> QED BY <3>1 DEF TypeOK, AlsaTypeOK
    <2>3. a_i <= NRings => a_i \in Rings
      BY RingsAreInterval, ChannelsAssumption DEF TypeOK, AlsaTypeOK, NRings
    <2>4. (pcms \subseteq Rings)'
      BY <1>0, <2>3, AlsaEffects DEF TypeOK, AlsaTypeOK
    <2> QED BY <2>1, <2>2, <2>4 DEF AlsaTypeOK
  <1> QED BY <1>0, <1>1, <1>2 DEF TypeOK, UsbTypeOK
-----------------------------------------------------------------------------
(* What each thread has seen of SHUTDOWN. *)

\* The USB bridge starts to stop, or to release, only after it saw SHUTDOWN.
LEMMA UsbThreadsStep ==
    ASSUME TypeOK, ThreadsInv, Usb
    PROVE  ThreadsInv'
  <1>0. UsbStep /\ UNCHANGED <<m_pc, a_pc, a_i, pcms>>
    BY DEF Usb, alsa
  <1> USE DEF TypeOK, UsbTypeOK, ThreadsInv, UsbGoto, UsbNext, PassOn, shared, Ifaces
  <1>1. CASE UsbSetRunning
    BY <1>0, <1>1 DEF UsbSetRunning
  <1>2. CASE UsbTop
    BY <1>0, <1>2 DEF UsbTop
  <1>3. CASE UsbStop
    BY <1>0, <1>3 DEF UsbStop
  <1>4. CASE ConnectFails
    BY <1>0, <1>4 DEF ConnectFails
  <1>5. CASE OpenDevice
    BY <1>0, <1>5 DEF OpenDevice
  <1>6. CASE ParseTopology
    BY <1>0, <1>6, DeviceAssumption DEF ParseTopology
  <1>7. CASE ParsePanics
    BY <1>0, <1>7 DEF ParsePanics
  <1>8. CASE DetachDriver
    BY <1>0, <1>8 DEF DetachDriver
  <1>9. CASE ClaimIface
    BY <1>0, <1>9 DEF ClaimIface
  <1>10. CASE SetAltSetting
    BY <1>0, <1>10, DeviceAssumption DEF SetAltSetting
  <1>11. CASE StreamTop
    BY <1>0, <1>11, DeviceAssumption DEF StreamTop
  <1>12. CASE CheckRing
    BY <1>0, <1>12, ServedAreRings DEF CheckRing
  <1>13. CASE CaptureTransfer
    BY <1>0, <1>13 DEF CaptureTransfer
  <1>14. CASE PlaybackTransfer
    BY <1>0, <1>14 DEF PlaybackTransfer
  <1>15. CASE ReleaseIface
    BY <1>0, <1>15, DeviceAssumption DEF ReleaseIface
  <1>16. CASE IdleTop
    BY <1>0, <1>16 DEF IdleTop
  <1>17. CASE IdleFeed
    BY <1>0, <1>17 DEF IdleFeed
  <1>18. CASE PollAgain
    BY <1>0, <1>18 DEF PollAgain
  <1>19. CASE PollOver
    BY <1>0, <1>19 DEF PollOver
  <1> QED
    BY <1>0, <1>1, <1>2, <1>3, <1>4, <1>5, <1>6, <1>7, <1>8, <1>9, <1>10,
       <1>11, <1>12, <1>13, <1>14, <1>15, <1>16, <1>17, <1>18, <1>19 DEF UsbStep

\* The ALSA bridge stops only after it saw SHUTDOWN, and aborts by setting it.
LEMMA AlsaThreadsStep ==
    ASSUME TypeOK, ThreadsInv, AlsaWork \/ AlsaPcm
    PROVE  ThreadsInv'
  <1>0. /\ AlsaOwn \/ PcmCall
        /\ UNCHANGED <<m_pc, u_pc, u_i, plugged, plugs, handle, kernel, claimed>>
    BY DEF AlsaWork, AlsaPcm, usb, device
  <1> USE DEF TypeOK, AlsaTypeOK, ThreadsInv, AlsaGoto, AlsaNext, AlsaPassOn, shared
  <1>1. CASE OpenPcm
    BY <1>0, <1>1 DEF OpenPcm
  <1>2. CASE OpenFails
    BY <1>0, <1>2 DEF OpenFails
  <1>3. CASE ReportFailure
    BY <1>0, <1>3 DEF ReportFailure
  <1>4. CASE AlsaSetRunning
    BY <1>0, <1>4 DEF AlsaSetRunning
  <1>5. CASE AlsaTop
    BY <1>0, <1>5 DEF AlsaTop
  <1>6. CASE CheckPcm
    BY <1>0, <1>6 DEF CheckPcm
  <1>7. CASE AlsaStop
    BY <1>0, <1>7 DEF AlsaStop
  <1>8. CASE DrainSkip
    BY <1>0, <1>8 DEF DrainSkip
  <1>9. CASE WritePcm
    BY <1>0, <1>9 DEF WritePcm
  <1>10. CASE ReadPcm
    BY <1>0, <1>10 DEF ReadPcm
  <1>11. CASE DrainPcm
    BY <1>0, <1>11 DEF DrainPcm
  <1> QED
    BY <1>0, <1>1, <1>2, <1>3, <1>4, <1>5, <1>6, <1>7, <1>8, <1>9, <1>10,
       <1>11 DEF AlsaOwn, PcmCall

(* The flag a transfer relies on. *)

\* The USB bridge transfers only on rings it found running, and stops none
\* before a shutdown.
LEMMA UsbStaleStep ==
    ASSUME TypeOK, ThreadsInv, StaleOnlyInShutdown, Usb
    PROVE  StaleOnlyInShutdown'
  <1>0. UsbStep /\ UNCHANGED <<m_pc, a_pc, a_i, pcms>>
    BY DEF Usb, alsa
  <1> USE DEF TypeOK, SharedTypeOK, UsbTypeOK, ThreadsInv, StaleOnlyInShutdown,
              UsbGoto, UsbNext, PassOn, SetRunning, shared
  <1>1. CASE UsbSetRunning
    BY <1>0, <1>1 DEF UsbSetRunning
  <1>2. CASE UsbTop
    BY <1>0, <1>2 DEF UsbTop
  <1>3. CASE UsbStop
    BY <1>0, <1>3 DEF UsbStop
  <1>4. CASE ConnectFails
    BY <1>0, <1>4 DEF ConnectFails
  <1>5. CASE OpenDevice
    BY <1>0, <1>5 DEF OpenDevice
  <1>6. CASE ParseTopology
    BY <1>0, <1>6 DEF ParseTopology
  <1>7. CASE ParsePanics
    BY <1>0, <1>7 DEF ParsePanics
  <1>8. CASE DetachDriver
    BY <1>0, <1>8 DEF DetachDriver
  <1>9. CASE ClaimIface
    BY <1>0, <1>9 DEF ClaimIface
  <1>10. CASE SetAltSetting
    BY <1>0, <1>10 DEF SetAltSetting
  <1>11. CASE StreamTop
    BY <1>0, <1>11 DEF StreamTop
  <1>12. CASE CheckRing
    BY <1>0, <1>12 DEF CheckRing
  <1>13. CASE CaptureTransfer
    BY <1>0, <1>13 DEF CaptureTransfer
  <1>14. CASE PlaybackTransfer
    BY <1>0, <1>14 DEF PlaybackTransfer
  <1>15. CASE ReleaseIface
    BY <1>0, <1>15 DEF ReleaseIface
  <1>16. CASE IdleTop
    BY <1>0, <1>16 DEF IdleTop
  <1>17. CASE IdleFeed
    BY <1>0, <1>17 DEF IdleFeed
  <1>18. CASE PollAgain
    BY <1>0, <1>18 DEF PollAgain
  <1>19. CASE PollOver
    BY <1>0, <1>19 DEF PollOver
  <1> QED
    BY <1>0, <1>1, <1>2, <1>3, <1>4, <1>5, <1>6, <1>7, <1>8, <1>9, <1>10,
       <1>11, <1>12, <1>13, <1>14, <1>15, <1>16, <1>17, <1>18, <1>19 DEF UsbStep

\* So does the ALSA bridge.
LEMMA AlsaStaleStep ==
    ASSUME TypeOK, ThreadsInv, StaleOnlyInShutdown, AlsaWork \/ AlsaPcm
    PROVE  StaleOnlyInShutdown'
  <1>0. /\ AlsaOwn \/ PcmCall
        /\ UNCHANGED <<m_pc, u_pc, u_i, plugged, plugs, handle, kernel, claimed>>
    BY DEF AlsaWork, AlsaPcm, usb, device
  <1> USE DEF TypeOK, SharedTypeOK, AlsaTypeOK, ThreadsInv, StaleOnlyInShutdown,
              AlsaGoto, AlsaNext, AlsaPassOn, SetRunning, shared
  <1>1. CASE OpenPcm
    BY <1>0, <1>1 DEF OpenPcm
  <1>2. CASE OpenFails
    BY <1>0, <1>2 DEF OpenFails
  <1>3. CASE ReportFailure
    BY <1>0, <1>3 DEF ReportFailure
  <1>4. CASE AlsaSetRunning
    BY <1>0, <1>4 DEF AlsaSetRunning
  <1>5. CASE AlsaTop
    BY <1>0, <1>5 DEF AlsaTop
  <1>6. CASE CheckPcm
    BY <1>0, <1>6 DEF CheckPcm
  <1>7. CASE AlsaStop
    BY <1>0, <1>7 DEF AlsaStop
  <1>8. CASE DrainSkip
    BY <1>0, <1>8 DEF DrainSkip
  <1>9. CASE WritePcm
    BY <1>0, <1>9 DEF WritePcm
  <1>10. CASE ReadPcm
    BY <1>0, <1>10 DEF ReadPcm
  <1>11. CASE DrainPcm
    BY <1>0, <1>11 DEF DrainPcm
  <1> QED
    BY <1>0, <1>1, <1>2, <1>3, <1>4, <1>5, <1>6, <1>7, <1>8, <1>9, <1>10,
       <1>11 DEF AlsaOwn, PcmCall
-----------------------------------------------------------------------------
(* Which bridge will still stop a running ring. *)

\* After a step of the USB bridge every running ring still has its stopper.
LEMMA UsbRunningStep ==
    ASSUME TypeOK, ThreadsInv, RunningInv, Usb
    PROVE  RunningInv'
  <1>0. UsbStep /\ UNCHANGED <<m_pc, a_pc, a_i, pcms>>
    BY DEF Usb, alsa
  <1> USE DEF TypeOK, SharedTypeOK, UsbTypeOK, ThreadsInv, RunningInv, UsbStops,
              AlsaStops, UsbGoto, UsbNext, PassOn, SetRunning, shared
  <1>1. CASE UsbSetRunning
    BY <1>0, <1>1 DEF UsbSetRunning
  <1>2. CASE UsbTop
    BY <1>0, <1>2, RingsAreInterval DEF UsbTop
  <1>3. CASE UsbStop
    <2>1. CASE u_i <= NRings
      BY <1>0, <1>3, <2>1, RingsAreInterval, ChannelsAssumption DEF UsbStop, NRings
    <2>2. CASE ~(u_i <= NRings)
      <3>1. \A r \in Rings : ~(u_i <= r)
        BY <2>2, RingsAreInterval, ChannelsAssumption DEF NRings
      <3> QED BY <1>0, <1>3, <2>2, <3>1 DEF UsbStop
    <2> QED BY <2>1, <2>2
  <1>4. CASE ConnectFails
    BY <1>0, <1>4 DEF ConnectFails
  <1>5. CASE OpenDevice
    BY <1>0, <1>5 DEF OpenDevice
  <1>6. CASE ParseTopology
    BY <1>0, <1>6 DEF ParseTopology
  <1>7. CASE ParsePanics
    BY <1>0, <1>7 DEF ParsePanics
  <1>8. CASE DetachDriver
    BY <1>0, <1>8 DEF DetachDriver
  <1>9. CASE ClaimIface
    BY <1>0, <1>9 DEF ClaimIface
  <1>10. CASE SetAltSetting
    BY <1>0, <1>10 DEF SetAltSetting
  <1>11. CASE StreamTop
    BY <1>0, <1>11 DEF StreamTop
  <1>12. CASE CheckRing
    BY <1>0, <1>12 DEF CheckRing
  <1>13. CASE CaptureTransfer
    BY <1>0, <1>13 DEF CaptureTransfer
  <1>14. CASE PlaybackTransfer
    BY <1>0, <1>14 DEF PlaybackTransfer
  <1>15. CASE ReleaseIface
    BY <1>0, <1>15 DEF ReleaseIface
  <1>16. CASE IdleTop
    BY <1>0, <1>16, RingsAreInterval DEF IdleTop
  <1>17. CASE IdleFeed
    BY <1>0, <1>17 DEF IdleFeed
  <1>18. CASE PollAgain
    BY <1>0, <1>18 DEF PollAgain
  <1>19. CASE PollOver
    BY <1>0, <1>19 DEF PollOver
  <1> QED
    BY <1>0, <1>1, <1>2, <1>3, <1>4, <1>5, <1>6, <1>7, <1>8, <1>9, <1>10,
       <1>11, <1>12, <1>13, <1>14, <1>15, <1>16, <1>17, <1>18, <1>19 DEF UsbStep

\* So it has after a step of the ALSA bridge.
LEMMA AlsaRunningStep ==
    ASSUME TypeOK, ThreadsInv, RunningInv, AlsaWork \/ AlsaPcm
    PROVE  RunningInv'
  <1>0. /\ AlsaOwn \/ PcmCall
        /\ UNCHANGED <<m_pc, u_pc, u_i, plugged, plugs, handle, kernel, claimed>>
    BY DEF AlsaWork, AlsaPcm, usb, device
  <1> USE DEF TypeOK, SharedTypeOK, AlsaTypeOK, ThreadsInv, RunningInv, UsbStops,
              AlsaStops, AlsaGoto, AlsaNext, AlsaPassOn, SetRunning, shared
  <1>1. CASE OpenPcm
    BY <1>0, <1>1 DEF OpenPcm
  <1>2. CASE OpenFails
    BY <1>0, <1>2 DEF OpenFails
  <1>3. CASE ReportFailure
    BY <1>0, <1>3 DEF ReportFailure
  <1>4. CASE AlsaSetRunning
    BY <1>0, <1>4 DEF AlsaSetRunning
  <1>5. CASE AlsaTop
    BY <1>0, <1>5, RingsAreInterval, ChannelsAssumption DEF AlsaTop
  <1>6. CASE CheckPcm
    BY <1>0, <1>6 DEF CheckPcm
  <1>7. CASE AlsaStop
    <2>1. CASE a_i <= NRings
      BY <1>0, <1>7, <2>1, RingsAreInterval, ChannelsAssumption DEF AlsaStop, NRings
    <2>2. CASE ~(a_i <= NRings)
      <3>1. \A r \in Rings : ~(a_i <= r)
        BY <2>2, RingsAreInterval, ChannelsAssumption DEF NRings
      <3> QED BY <1>0, <1>7, <2>2, <3>1 DEF AlsaStop
    <2> QED BY <2>1, <2>2
  <1>8. CASE DrainSkip
    BY <1>0, <1>8 DEF DrainSkip
  <1>9. CASE WritePcm
    BY <1>0, <1>9 DEF WritePcm
  <1>10. CASE ReadPcm
    BY <1>0, <1>10 DEF ReadPcm
  <1>11. CASE DrainPcm
    BY <1>0, <1>11 DEF DrainPcm
  <1> QED
    BY <1>0, <1>1, <1>2, <1>3, <1>4, <1>5, <1>6, <1>7, <1>8, <1>9, <1>10,
       <1>11 DEF AlsaOwn, PcmCall
-----------------------------------------------------------------------------
(* Whose interfaces are whose. *)

\* Connecting, streaming and cleaning up hand the interfaces of a device that
\* stays there from the kernel to the daemon and back, one at a time.
LEMMA UsbDeviceStep ==
    ASSUME TypeOK, ThreadsInv, DeviceInv, Usb
    PROVE  DeviceInv'
  <1>0. UsbStep /\ UNCHANGED <<m_pc, a_pc, a_i, pcms>>
    BY DEF Usb, alsa
  <1> USE DEF TypeOK, UsbTypeOK, ThreadsInv, DeviceInv, Connected, StreamsOnClaimed,
              UsbStreaming, Reachable, Ifaces, UsbGoto, UsbNext, PassOn, device, shared
  <1>1. CASE UsbSetRunning
    BY <1>0, <1>1 DEF UsbSetRunning
  <1>2. CASE UsbTop
    BY <1>0, <1>2 DEF UsbTop
  <1>3. CASE UsbStop
    BY <1>0, <1>3 DEF UsbStop
  <1>4. CASE ConnectFails
    BY <1>0, <1>4 DEF ConnectFails
  <1>5. CASE OpenDevice
    BY <1>0, <1>5 DEF OpenDevice
  <1>6. CASE ParseTopology
    BY <1>0, <1>6 DEF ParseTopology
  <1>7. CASE ParsePanics
    BY <1>0, <1>7 DEF ParsePanics
  <1>8. CASE DetachDriver
    BY <1>0, <1>8 DEF DetachDriver
  <1>9. CASE ClaimIface
    BY <1>0, <1>9 DEF ClaimIface
  <1>10. CASE SetAltSetting
    BY <1>0, <1>10, DeviceAssumption DEF SetAltSetting
  <1>11. CASE StreamTop
    BY <1>0, <1>11 DEF StreamTop
  <1>12. CASE CheckRing
    BY <1>0, <1>12 DEF CheckRing
  <1>13. CASE CaptureTransfer
    BY <1>0, <1>13 DEF CaptureTransfer
  <1>14. CASE PlaybackTransfer
    BY <1>0, <1>14 DEF PlaybackTransfer
  <1>15. CASE ReleaseIface
    <2>1. u_i \in 1..NIfaces /\ NIfaces \in Nat
      BY <1>15, DeviceAssumption DEF ReleaseIface
    <2>2. CASE Reachable
      <3>1. claimed = u_i..NIfaces /\ kernel = 1..(u_i - 1)
        BY <1>15, <2>2 DEF ReleaseIface
      <3>2. claimed' = claimed \ {u_i} /\ kernel' = kernel \cup {u_i}
        BY <1>15, <2>2, Zenon DEF ReleaseIface
      <3>3. claimed' = (u_i + 1)..NIfaces /\ kernel' = 1..u_i
        BY <2>1, <3>1, <3>2
      <3>4. CASE u_i < NIfaces
        BY <1>15, <2>1, <2>2, <3>3, <3>4 DEF ReleaseIface
      <3>5. CASE ~(u_i < NIfaces)
        <4>1. claimed' = {}
          BY <2>1, <3>3, <3>5
        <4> QED BY <1>15, <2>1, <2>2, <3>5, <4>1 DEF ReleaseIface
      <3> QED BY <3>4, <3>5
    <2>3. CASE ~Reachable
      BY <1>15, <2>1, <2>3 DEF ReleaseIface
    <2> QED BY <2>2, <2>3
  <1>16. CASE IdleTop
    BY <1>0, <1>16 DEF IdleTop
  <1>17. CASE IdleFeed
    BY <1>0, <1>17 DEF IdleFeed
  <1>18. CASE PollAgain
    BY <1>0, <1>18 DEF PollAgain
  <1>19. CASE PollOver
    BY <1>0, <1>19 DEF PollOver
  <1> QED
    BY <1>0, <1>1, <1>2, <1>3, <1>4, <1>5, <1>6, <1>7, <1>8, <1>9, <1>10,
       <1>11, <1>12, <1>13, <1>14, <1>15, <1>16, <1>17, <1>18, <1>19 DEF UsbStep
-----------------------------------------------------------------------------
(* The steps outside the bridges. *)

\* The main thread keeps the invariant.
LEMMA MainStep ==
    ASSUME IInv, Main
    PROVE  IInv'
  <1> USE DEF IInv, TypeOK, MainPcs
  <1>1. CASE SpawnAlsa
    <2>1. /\ m_pc = "spawning_alsa" /\ m_pc' = "spawning_usb"
          /\ a_pc = "unborn" /\ a_pc' = "opening"
          /\ UNCHANGED <<a_i, pcms, usb, shared>>
      BY <1>1 DEF SpawnAlsa, ThreadsInv
    <2>2. SharedTypeOK' /\ UsbTypeOK' /\ DeviceInv'
      BY <2>1 DEF usb, device, shared, SharedTypeOK, UsbTypeOK, DeviceInv, Connected,
                  Reachable, StreamsOnClaimed, UsbStreaming
    <2>3. AlsaTypeOK'
      BY <2>1 DEF AlsaTypeOK, AlsaPcs
    <2>4. ThreadsInv' /\ StaleOnlyInShutdown'
      BY <2>1 DEF usb, shared, ThreadsInv, StaleOnlyInShutdown
    <2>5. RunningInv'
      BY <2>1 DEF usb, shared, RunningInv, UsbStops, AlsaStops
    <2> QED BY <2>1, <2>2, <2>3, <2>4, <2>5
  <1>2. CASE SpawnUsb
    <2>1. /\ m_pc = "spawning_usb" /\ m_pc' = "waiting"
          /\ u_pc = "unborn" /\ u_pc' = "starting"
          /\ UNCHANGED <<u_i, device, alsa, shared>>
      BY <1>2 DEF SpawnUsb, ThreadsInv
    <2>2. SharedTypeOK' /\ AlsaTypeOK'
      BY <2>1 DEF alsa, shared, SharedTypeOK, AlsaTypeOK
    <2>3. UsbTypeOK'
      BY <2>1 DEF device, UsbTypeOK, UsbPcs
    <2>4. ThreadsInv' /\ StaleOnlyInShutdown'
      BY <2>1 DEF alsa, shared, ThreadsInv, StaleOnlyInShutdown
    <2>5. RunningInv'
      BY <2>1 DEF alsa, shared, RunningInv, UsbStops, AlsaStops
    <2>6. DeviceInv'
      BY <2>1 DEF device, DeviceInv, Connected, Reachable, StreamsOnClaimed, UsbStreaming
    <2> QED BY <2>1, <2>2, <2>3, <2>4, <2>5, <2>6
  <1>3. CASE SpawnFails \/ SeeShutdown \/ JoinAlsa \/ JoinUsb
    <2>1. /\ m_pc' \in {"failed", "joining_alsa", "joining_usb", "exited"}
          /\ UNCHANGED <<usb, alsa, shared>>
      BY <1>3 DEF SpawnFails, SeeShutdown, JoinAlsa, JoinUsb
    <2>2. SharedTypeOK' /\ UsbTypeOK' /\ AlsaTypeOK'
      BY <2>1 DEF usb, device, alsa, shared, SharedTypeOK, UsbTypeOK, AlsaTypeOK
    <2>3. ThreadsInv' /\ StaleOnlyInShutdown' /\ RunningInv'
      BY <2>1 DEF usb, alsa, shared, ThreadsInv, StaleOnlyInShutdown, RunningInv,
                  UsbStops, AlsaStops
    <2>4. DeviceInv'
      BY <2>1 DEF usb, device, DeviceInv, Connected, Reachable, StreamsOnClaimed,
                  UsbStreaming
    <2> QED BY <2>1, <2>2, <2>3, <2>4
  <1> QED BY <1>1, <1>2, <1>3 DEF Main

\* So does the signal handler, which may run between any two steps.
LEMMA SignalStep ==
    ASSUME IInv, Signal
    PROVE  IInv'
  <1>0. shutdown' = TRUE /\ UNCHANGED <<m_pc, usb, alsa, running, fill>>
    BY DEF Signal
  <1>1. SharedTypeOK'
    <2>1. (shutdown \in BOOLEAN)'
      BY <1>0
    <2> QED BY <1>0, <2>1 DEF IInv, TypeOK, SharedTypeOK
  <1>2. UsbTypeOK' /\ AlsaTypeOK' /\ m_pc' \in MainPcs
    BY <1>0 DEF IInv, TypeOK, usb, device, alsa, UsbTypeOK, AlsaTypeOK
  <1>3. ThreadsInv' /\ StaleOnlyInShutdown' /\ RunningInv'
    BY <1>0 DEF IInv, usb, alsa, ThreadsInv, StaleOnlyInShutdown, RunningInv,
                UsbStops, AlsaStops
  <1>4. DeviceInv'
    BY <1>0 DEF IInv, usb, device, DeviceInv, Connected, Reachable, StreamsOnClaimed,
                UsbStreaming
  <1> QED BY <1>1, <1>2, <1>3, <1>4 DEF IInv, TypeOK

\* So does plugging or unplugging the device between any two steps.
LEMMA EnvironmentStep ==
    ASSUME IInv, Environment
    PROVE  IInv'
  <1>0. /\ Plug \/ Unplug
        /\ UNCHANGED <<m_pc, alsa, u_pc, u_i, handle, shared>>
    BY DEF Environment, Plug, Unplug
  <1>1. SharedTypeOK' /\ AlsaTypeOK' /\ m_pc' \in MainPcs
    BY <1>0 DEF IInv, TypeOK, shared, alsa, SharedTypeOK, AlsaTypeOK
  <1>2. UsbTypeOK'
    <2>1. (plugged \in BOOLEAN)'
      BY <1>0 DEF Plug, Unplug
    <2>2. (plugs \in Nat /\ handle \in 0..plugs)'
      BY <1>0 DEF IInv, TypeOK, UsbTypeOK, Plug, Unplug
    <2>3. (kernel \subseteq Ifaces /\ claimed \subseteq Ifaces)'
      BY <1>0 DEF Plug, Unplug, Ifaces
    <2> QED BY <1>0, <2>1, <2>2, <2>3 DEF IInv, TypeOK, UsbTypeOK
  <1>3. ThreadsInv' /\ StaleOnlyInShutdown' /\ RunningInv'
    BY <1>0 DEF IInv, alsa, shared, ThreadsInv, StaleOnlyInShutdown, RunningInv,
                UsbStops, AlsaStops
  <1>4. DeviceInv'
    BY <1>0 DEF IInv, TypeOK, UsbTypeOK, Plug, Unplug, DeviceInv, Connected, Reachable,
                StreamsOnClaimed, UsbStreaming
  <1> QED BY <1>1, <1>2, <1>3, <1>4 DEF IInv, TypeOK
-----------------------------------------------------------------------------
\* Every step of the daemon, of a signal or of the device keeps the invariant.
THEOREM NextIInv == IInv /\ [Next]_vars => IInv'
  <1> SUFFICES ASSUME IInv, [Next]_vars PROVE IInv'
    OBVIOUS
  <1>1. CASE Main
    BY <1>1, MainStep
  <1>2. CASE Signal
    BY <1>2, SignalStep
  <1>3. CASE Usb
    <2>1. TypeOK' /\ ThreadsInv' /\ StaleOnlyInShutdown' /\ RunningInv' /\ DeviceInv'
      BY <1>3, UsbTypeStep, UsbThreadsStep, UsbStaleStep, UsbRunningStep, UsbDeviceStep
         DEF IInv
    <2> QED BY <2>1 DEF IInv
  <1>4. CASE AlsaWork \/ AlsaPcm
    <2>1. TypeOK' /\ ThreadsInv' /\ StaleOnlyInShutdown' /\ RunningInv'
      BY <1>4, AlsaTypeStep, AlsaThreadsStep, AlsaStaleStep, AlsaRunningStep DEF IInv
    <2>2. DeviceInv'
      BY <1>4 DEF IInv, AlsaWork, AlsaPcm, usb, device, DeviceInv, Connected, Reachable,
                  StreamsOnClaimed, UsbStreaming
    <2> QED BY <2>1, <2>2 DEF IInv
  <1>5. CASE Environment
    BY <1>5, EnvironmentStep
  <1>6. CASE UNCHANGED vars
    BY <1>6 DEF vars, usb, device, alsa, shared, IInv, TypeOK, SharedTypeOK, UsbTypeOK,
                AlsaTypeOK, ThreadsInv, StaleOnlyInShutdown, RunningInv, UsbStops,
                AlsaStops, DeviceInv, Connected, Reachable, StreamsOnClaimed,
                UsbStreaming
  <1> QED BY <1>1, <1>2, <1>3, <1>4, <1>5, <1>6 DEF Next, Terminated

\* The inductive invariant holds of every reachable state.
THEOREM Invariance == Spec => []IInv
  BY InitIInv, NextIInv, PTL DEF Spec

\* Type correctness.
THEOREM TypeCorrect == Spec => []TypeOK
  <1>1. IInv => TypeOK
    BY DEF IInv
  <1> QED BY <1>1, Invariance, PTL

\* When both bridges are over no ring is left marked running, in whatever order
\* their two set_all_running and stop_all passes ran.
THEOREM AllStopped == Spec => []StoppedAtEnd
  <1>1. IInv => StoppedAtEnd
    BY DEF IInv, RunningInv, StoppedAtEnd, UsbOver, AlsaOver, UsbStops, AlsaStops
  <1> QED BY <1>1, Invariance, PTL

\* The running flag a transfer has checked goes stale only in a shutdown.
THEOREM FlagsHold == Spec => []StaleOnlyInShutdown
  <1>1. IInv => StaleOnlyInShutdown
    BY DEF IInv
  <1> QED BY <1>1, Invariance, PTL

\* A device that is there is streamed to only with every interface claimed.
THEOREM Claimed == Spec => []StreamsOnClaimed
  <1>1. IInv => StreamsOnClaimed
    BY DEF IInv, DeviceInv
  <1> QED BY <1>1, Invariance, PTL

\* A running ring is stopped only in a shutdown.
THEOREM RingsKeepRunning == Spec => StopsOnlyInShutdown
  <1>1. IInv /\ [Next]_vars => \A r \in Rings : running[r] /\ ~running'[r] => shutdown
    <2> SUFFICES ASSUME IInv, [Next]_vars, NEW r \in Rings, running[r], ~running'[r]
                 PROVE  shutdown
      OBVIOUS
    <2>1. running \in [Rings -> BOOLEAN] /\ u_i \in Nat \ {0}
      BY DEF IInv, TypeOK, SharedTypeOK, UsbTypeOK
    <2>2. CASE Usb
      <3>1. \/ UNCHANGED running
            \/ SetRunning(u_i, TRUE)
            \/ u_pc = "stopping"
        BY <2>1, <2>2, UsbEffects DEF Usb
      <3>2. u_pc = "stopping"
        BY <2>1, <3>1 DEF SetRunning
      <3> QED BY <3>2 DEF IInv, ThreadsInv
    <2>3. CASE AlsaWork \/ AlsaPcm
      <3>1. \/ UNCHANGED running
            \/ SetRunning(a_i, TRUE)
            \/ a_pc = "stopping"
        BY <2>3, AlsaEffects DEF AlsaWork, AlsaPcm
      <3>2. a_pc = "stopping"
        BY <2>1, <3>1 DEF SetRunning
      <3> QED BY <3>2 DEF IInv, ThreadsInv
    <2>4. CASE Main \/ Signal \/ Environment \/ UNCHANGED vars
      <3>1. UNCHANGED running
        BY <2>4 DEF Main, SpawnAlsa, SpawnUsb, SpawnFails, SeeShutdown, JoinAlsa, JoinUsb,
                    Signal, Environment, Plug, Unplug, shared, vars
      <3> QED BY <3>1
    <2> QED BY <2>2, <2>3, <2>4 DEF Next, Terminated
  <1> QED BY <1>1, Invariance, PTL DEF Spec, StopsOnlyInShutdown

\* After the cleanup every interface of a connected device is back with its
\* kernel driver, also when that is not the device the bridge was streaming to.
THEOREM DriversComeBack == Spec => DriversRestored
  <1>1. IInv /\ [Next]_vars =>
            (u_pc = "releasing" /\ u_pc' # "releasing" /\ plugged
                => kernel' = Ifaces /\ claimed' = {})
    <2> SUFFICES ASSUME IInv, [Next]_vars, u_pc = "releasing", u_pc' # "releasing", plugged
                 PROVE  kernel' = Ifaces /\ claimed' = {}
      OBVIOUS
    <2>1. ReleaseIface
      <3>1. CASE Usb
        <4>1. UsbStep
          BY <3>1 DEF Usb
        <4> QED
          BY <4>1, Zenon
             DEF UsbStep, UsbSetRunning, UsbTop, UsbStop, ConnectFails, OpenDevice,
                 ParseTopology, ParsePanics, DetachDriver, ClaimIface, SetAltSetting,
                 StreamTop, CheckRing, CaptureTransfer, PlaybackTransfer, IdleTop,
                 IdleFeed, PollAgain, PollOver
      <3>2. CASE ~Usb
        <4>1. ~SpawnUsb
          BY DEF SpawnUsb, IInv, ThreadsInv
        <4>2. u_pc' = u_pc
          BY <3>2, <4>1, Zenon
             DEF Next, Terminated, Main, SpawnAlsa, SpawnFails, SeeShutdown, JoinAlsa,
                 JoinUsb, Signal, AlsaWork, AlsaPcm, Environment, Plug, Unplug, usb, vars
        <4> QED BY <4>2
      <3> QED BY <3>1, <3>2
    <2>2. u_i \in 1..NIfaces /\ NIfaces \in Nat /\ ~(u_i < NIfaces)
      BY <2>1, DeviceAssumption DEF IInv, ThreadsInv, Ifaces, ReleaseIface, UsbNext
    <2>3. CASE Reachable
      <3>1. claimed = u_i..NIfaces /\ kernel = 1..(u_i - 1)
        BY <2>3 DEF IInv, DeviceInv
      <3>2. claimed' = claimed \ {u_i} /\ kernel' = kernel \cup {u_i}
        BY <2>1, <2>3, Zenon DEF ReleaseIface
      <3> QED BY <2>2, <3>1, <3>2 DEF Ifaces
    <2>4. CASE ~Reachable
      <3>1. handle # plugs /\ handle # 0
        BY <2>4 DEF Reachable, IInv, DeviceInv, Connected
      <3> QED BY <2>1, <2>4, <3>1 DEF ReleaseIface, IInv, DeviceInv
    <2> QED BY <2>3, <2>4
  <1> QED BY <1>1, Invariance, PTL DEF Spec, DriversRestored
=============================================================================
