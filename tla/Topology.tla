------------------------------ MODULE Topology ------------------------------
(***************************************************************************)
(* From a device's descriptors to the rings: parse_audio_topology of       *)
(* src/usb_descriptor.rs lists the channels of a device, a parse of the    *)
(* format for each endpoint; connect_rode_device of src/usb_bridge.rs      *)
(* claims their interfaces and sets an alternate setting on each; then     *)
(* run_streaming moves buffers between the endpoints and the rings, which  *)
(* it matches by their position among the channels of their direction.     *)
(*                                                                         *)
(* UsbBridge has what happens around it: scans, plugs and shutdown.        *)
(***************************************************************************)
EXTENDS FormatDescriptor, FiniteSets

CONSTANTS
    Devices,        \* devices: each the sequence of its alternate settings
    NCapture,       \* capture rings
    NPlayback,      \* playback rings
    PeriodFrames,   \* period_frames
    RingFrameBytes, \* frame_bytes of the rings
    MaxFill         \* bound: frames waiting in a ring when it is read

ASSUME DevicesAssumption ==
    \A dev \in Devices :
        dev \in Seq([interface : Byte, alt : Byte, class : Byte, subclass : Byte,
                     endpoints : Seq(Byte), extra : Seq(Byte)])
ASSUME RingsAssumption ==
    /\ NCapture \in Nat /\ NPlayback \in Nat
    /\ PeriodFrames \in Nat \ {0} /\ RingFrameBytes \in Nat \ {0}
    /\ MaxFill \in Nat

VARIABLES
    device,         \* the settings of the configuration, in its order
    t_pc,           \* where the connection stands
    s_i,            \* the setting the parse is at
    e_i,            \* its endpoint the parse is at
    channels,       \* the channels discovered
    unclaimed,      \* interfaces still to be claimed
    in_force,       \* the alternate setting of each interface
    moved           \* the last transfer

found == <<s_i, e_i, channels>>
usb == <<unclaimed, in_force>>
vars == <<parser, device, t_pc, found, usb, moved>>

AUDIO == 1
VENDOR == 255
AUDIOSTREAMING == 3

IsStreaming(s) == s.class \in {AUDIO, VENDOR} /\ s.subclass = AUDIOSTREAMING

\* The direction bit of an endpoint address: device to host.
IsCapture(address) == address >= 128

Setting == device[s_i]
Interfaces(dev) == {dev[i].interface : i \in DOMAIN dev}

NoTransfer == [channel |-> 0, asked |-> 0, bytes |-> 0, frames |-> 0]

Init ==
    /\ ParserInit
    /\ device \in Devices
    /\ t_pc = "parsing" /\ s_i = 1 /\ e_i = 1
    /\ channels = <<>>
    /\ unclaimed = {}
    /\ in_force = [f \in Interfaces(device) |-> 0]
    /\ moved = NoTransfer
-----------------------------------------------------------------------------
(* parse_audio_topology. *)

AtEndpoint ==
    /\ t_pc = "parsing" /\ s_i <= Len(device)
    /\ IsStreaming(Setting)
    /\ e_i <= Len(Setting.endpoints)

NextSetting ==
    /\ t_pc = "parsing" /\ s_i <= Len(device)
    /\ ~AtEndpoint
    /\ s_i' = s_i + 1 /\ e_i' = 1
    /\ UNCHANGED <<parser, device, t_pc, channels, usb, moved>>

StartEndpoint ==
    /\ AtEndpoint
    /\ Parse(Setting.extra)
    /\ UNCHANGED <<device, t_pc, found, usb, moved>>

ParseStep ==
    /\ ParserNext
    /\ UNCHANGED <<device, t_pc, found, usb, moved>>

FindChannel_KeepsFormat ==
    /\ AtEndpoint
    /\ Return
    /\ channels' = Append(channels,
           [interface_number |-> Setting.interface,
            alt_setting |-> Setting.alt,
            endpoint_address |-> Setting.endpoints[e_i],
            format |-> IF channels = <<>> THEN fmt ELSE channels[1].format])
    /\ e_i' = e_i + 1
    /\ UNCHANGED <<device, t_pc, s_i, usb, moved>>

FindChannel ==
    /\ AtEndpoint
    /\ Return
    /\ channels' = Append(channels,
           [interface_number |-> Setting.interface,
            alt_setting |-> Setting.alt,
            endpoint_address |-> Setting.endpoints[e_i],
            format |-> fmt])
    /\ e_i' = e_i + 1
    /\ UNCHANGED <<device, t_pc, s_i, usb, moved>>

EndParse_ByEndpoint ==
    /\ t_pc = "parsing" /\ s_i > Len(device)
    /\ t_pc' = IF channels = <<>> THEN "passed" ELSE "claiming"
    /\ unclaimed' = {channels[k].endpoint_address : k \in DOMAIN channels}
    /\ UNCHANGED <<parser, device, found, in_force, moved>>

\* A device without a channel is passed over.
EndParse ==
    /\ t_pc = "parsing" /\ s_i > Len(device)
    /\ t_pc' = IF channels = <<>> THEN "passed" ELSE "claiming"
    /\ unclaimed' = {channels[k].interface_number : k \in DOMAIN channels}
    /\ UNCHANGED <<parser, device, found, in_force, moved>>
-----------------------------------------------------------------------------
(* connect_rode_device. *)

NextInterface == CHOOSE f \in unclaimed : \A g \in unclaimed : f <= g

\* channels.iter().find: the first channel of the interface.
FirstChannel(f) ==
    channels[CHOOSE k \in DOMAIN channels :
                /\ channels[k].interface_number = f
                /\ \A m \in 1..(k - 1) : channels[m].interface_number # f]

Claim_FirstOfAll ==
    /\ t_pc = "claiming"
    /\ unclaimed # {}
    /\ in_force' = [in_force EXCEPT ![NextInterface] = channels[1].alt_setting]
    /\ unclaimed' = unclaimed \ {NextInterface}
    /\ UNCHANGED <<parser, device, t_pc, found, moved>>

Claim ==
    /\ t_pc = "claiming"
    /\ unclaimed # {}
    /\ in_force' = [in_force EXCEPT ![NextInterface] =
                        FirstChannel(NextInterface).alt_setting]
    /\ unclaimed' = unclaimed \ {NextInterface}
    /\ UNCHANGED <<parser, device, t_pc, found, moved>>

\* Detaching, claiming or setting the alternate setting fails.
ClaimFails ==
    /\ t_pc = "claiming"
    /\ unclaimed # {}
    /\ t_pc' = "failed"
    /\ UNCHANGED <<parser, device, found, usb, moved>>

StartStreaming ==
    /\ t_pc = "claiming"
    /\ unclaimed = {}
    /\ t_pc' = "streaming"
    /\ UNCHANGED <<parser, device, found, usb, moved>>
-----------------------------------------------------------------------------
(* run_streaming: the transfer of channel k. *)

SameDirection(k, m) ==
    IsCapture(channels[k].endpoint_address) = IsCapture(channels[m].endpoint_address)

\* idx + 1: the position of k among the channels of its direction.
Ring(k) == Cardinality({m \in 1..k : SameDirection(k, m)})

\* The rings of its direction run out before k otherwise.
HasRing(k) ==
    Ring(k) <= IF IsCapture(channels[k].endpoint_address) THEN NCapture ELSE NPlayback

ChannelBytes(k) ==
    LET f == channels[k].format
        sample_bytes == f.bit_resolution \div 8
    IN  f.channels * (IF sample_bytes = 0 THEN 1 ELSE sample_bytes)

MaxBytes(k) == ChannelBytes(k) * PeriodFrames

Lesser(a, b) == IF a <= b THEN a ELSE b

\* n bytes come from the device; the whole frames among them are the ring's to
\* take.  What a full ring drops of them is RingBuffer's matter.
CaptureTransfer(k) ==
    /\ t_pc = "streaming"
    /\ HasRing(k)
    /\ IsCapture(channels[k].endpoint_address)
    /\ \E n \in 0..MaxBytes(k) :
        moved' = [channel |-> k, asked |-> MaxBytes(k), bytes |-> n,
                  frames |-> n \div RingFrameBytes]
    /\ UNCHANGED <<parser, device, t_pc, found, usb>>

Sent_Unclipped(k, got) == got * ChannelBytes(k)

\* The bytes sent for got frames of the ring.
Sent(k, got) == Lesser(got * ChannelBytes(k), MaxBytes(k))

\* The ring has fill frames waiting; read fills the buffer with those that fit.
PlaybackTransfer(k) ==
    /\ t_pc = "streaming"
    /\ HasRing(k)
    /\ ~IsCapture(channels[k].endpoint_address)
    /\ \E fill \in 0..MaxFill :
        LET got == Lesser(fill, MaxBytes(k) \div RingFrameBytes)
        IN  moved' = [channel |-> k, asked |-> MaxBytes(k), bytes |-> Sent(k, got),
                      frames |-> got]
    /\ UNCHANGED <<parser, device, t_pc, found, usb>>

Transfer == \E k \in DOMAIN channels : CaptureTransfer(k) \/ PlaybackTransfer(k)
-----------------------------------------------------------------------------
Connect ==
    \/ NextSetting \/ StartEndpoint \/ ParseStep \/ FindChannel \/ EndParse
    \/ Claim \/ ClaimFails \/ StartStreaming

Next == Connect \/ Transfer

Spec == Init /\ [][Next]_vars
-----------------------------------------------------------------------------
Channel ==
    [interface_number : Byte, alt_setting : Byte, endpoint_address : Byte,
     format : [sample_rates : Seq([1..4 -> Byte]), channels : Byte,
               bit_resolution : Byte, subslot_size : Byte]]

TypeOK ==
    /\ ParserTypeOK
    /\ device \in Devices
    /\ t_pc \in {"parsing", "passed", "claiming", "failed", "streaming"}
    /\ s_i \in 1..(Len(device) + 1)
    /\ e_i \in Nat \ {0}
    /\ channels \in Seq(Channel)
    /\ unclaimed \subseteq Interfaces(device)
    /\ in_force \in [Interfaces(device) -> Byte]
    /\ moved \in [channel : Nat, asked : Nat, bytes : Nat, frames : Nat]
    /\ moved.channel \in {0} \cup DOMAIN channels

\* The parse takes its fields from the first format type descriptor that lies in
\* extra whole, at the places the code gives them, whatever comes before or after
\* it, and every whole rate of its list.  The exceptions are the two kinds of
\* descriptor that panic in some build: one reads a byte of what follows into the
\* rate, the other wraps.
FirstFormatTaken == p_pc = "done" => Taken(extra, fmt)

\* usb_descriptor.rs, line 181: "Parse the USB Audio 2.0 Type I Format Descriptor
\* from extra bytes".  That descriptor has six bytes: the fourth is 1 for Type
\* I, the fifth the subslot size and the sixth the bit resolution.
FormatAsUac2 ==
    LET d == FirstFormat(extra)
    IN  p_pc = "done" /\ Len(d) = 6 /\ d[4] = 1 =>
            fmt.subslot_size = d[5] /\ fmt.bit_resolution = d[6]

\* The thread panics on a format type descriptor of eleven bytes with nothing
\* after it and, in a build that checks for overflow, on one of seven bytes with a
\* subslot of more than 31; on no other bytes.
PanicsExactly == p_pc \in {"done", "panicked"} => (p_pc = "panicked" <=> Panics(extra))

\* The endpoints of a device, by setting and position.
Endpoints(dev) ==
    UNION {{<<i, j>> : j \in DOMAIN dev[i].endpoints} :
              i \in {n \in DOMAIN dev : IsStreaming(dev[n])}}

\* A channel is that of an endpoint address of a setting, with its format.
Describes(ch, s, address) ==
    /\ ch.interface_number = s.interface
    /\ ch.alt_setting = s.alt
    /\ ch.endpoint_address = address
    /\ Taken(s.extra, ch.format)

\* The device gets a channel for each endpoint of each audio streaming setting,
\* each with the format of its own setting, and no other.
ChannelsAsDescribed ==
    t_pc \in {"passed", "claiming", "streaming"} =>
        /\ Len(channels) = Cardinality(Endpoints(device))
        /\ \A p \in Endpoints(device) : \E k \in DOMAIN channels :
              Describes(channels[k], device[p[1]], device[p[1]].endpoints[p[2]])
        /\ \A k \in DOMAIN channels : \E p \in Endpoints(device) :
              Describes(channels[k], device[p[1]], device[p[1]].endpoints[p[2]])

InForce(k) == in_force[channels[k].interface_number] = channels[k].alt_setting

\* No two settings of one interface stream.
OneSettingEach ==
    \A k, m \in DOMAIN channels :
        channels[k].interface_number = channels[m].interface_number =>
            channels[k].alt_setting = channels[m].alt_setting

\* When no interface offers a choice of settings, every channel that is streamed
\* is streamed in the setting its format was read from, and every interface
\* with a channel has been claimed for it.
SingleSettingInForce ==
    t_pc = "streaming" /\ OneSettingEach => \A k \in DOMAIN channels : InForce(k)

\* The same without the condition: "Alternate setting for active streaming".
StreamsInItsSetting ==
    t_pc = "streaming" => \A k \in DOMAIN channels : HasRing(k) => InForce(k)

\* A transfer stays within its buffer.  A device whose frame is the ring's, or
\* wider, is sent every byte taken from the ring, a narrower one is not; of what
\* a device sends, less than a ring frame never gets to a ring.
BytesKept ==
    moved.channel # 0 =>
        LET k == moved.channel
            taken == moved.frames * RingFrameBytes
        IN  /\ moved.bytes <= moved.asked
            /\ IF IsCapture(channels[k].endpoint_address)
               THEN taken <= moved.bytes /\ moved.bytes < taken + RingFrameBytes
               ELSE /\ ChannelBytes(k) >= RingFrameBytes => taken <= moved.bytes
                    /\ ChannelBytes(k) = RingFrameBytes => taken = moved.bytes

\* The walk over the descriptors ends whatever they hold, and so does the
\* connection.
Settles == <>(p_pc = "panicked" \/ t_pc \in {"passed", "failed", "streaming"})

(* What makes them inductive. *)

\* Every interface to claim has a channel, and those that are claimed are in the
\* setting of their first channel.
ClaimInv ==
    /\ \A k \in DOMAIN channels : channels[k].interface_number \in Interfaces(device)
    /\ \A f \in unclaimed : \E k \in DOMAIN channels : channels[k].interface_number = f
    /\ t_pc \in {"claiming", "streaming"} =>
        \A k \in DOMAIN channels :
            LET f == channels[k].interface_number
            IN  f \in unclaimed \/ in_force[f] = FirstChannel(f).alt_setting
    /\ t_pc = "streaming" => unclaimed = {}

TransferInv == BytesKept /\ (t_pc # "streaming" => moved.channel = 0)

\* The endpoints the walk over the settings has passed.
Passed == {p \in Endpoints(device) : p[1] < s_i \/ (p[1] = s_i /\ p[2] < e_i)}

\* A parse is of the setting the walk is at, the endpoints passed have their
\* channels, and the walk passes them all before a device is claimed.
DiscoverInv ==
    /\ p_pc # "idle" => AtEndpoint /\ extra = Setting.extra
    /\ t_pc # "parsing" => s_i > Len(device)
    /\ IsFiniteSet(Passed)
    /\ Len(channels) = Cardinality(Passed)
    /\ \A p \in Passed : \E k \in DOMAIN channels :
          Describes(channels[k], device[p[1]], device[p[1]].endpoints[p[2]])
    /\ \A k \in DOMAIN channels : \E p \in Passed :
          Describes(channels[k], device[p[1]], device[p[1]].endpoints[p[2]])

IInv ==
    /\ TypeOK /\ ParserInv /\ LaidOutInv
    /\ DiscoverInv /\ ClaimInv /\ TransferInv
=============================================================================
