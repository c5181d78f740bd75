---------------------------- MODULE StreamsProofs ----------------------------
(***************************************************************************)
(* Whatever bytes a device's descriptors hold: the parse returns what the  *)
(* first format type descriptor says or panics on one of two kinds, every  *)
(* endpoint gets its channel, the channels are streamed in the setting in  *)
(* force when there is no choice, and a transfer stays inside its buffer.  *)
(* Beside it the conversions keep what a sample is and its place among the *)
(* others.                                                                 *)
(***************************************************************************)
EXTENDS Streams, SamplesProofs, FiniteSetTheorems

USE DevicesAssumption, RingsAssumption

(* Helpers. *)

Word == [1..4 -> Byte]

\* An index before the end of extra reads a byte.
LEMMA AtIsByte ==
    ASSUME ParserTypeOK, NEW i \in Nat, i < Len(extra)
    PROVE  At(i) \in Byte
  <1>1. extra \in Seq(Byte) /\ i + 1 \in 1..Len(extra)
    BY DEF ParserTypeOK
  <1> QED BY <1>1, ElementOfSeq DEF At

\* Four bytes in extra make a rate.
LEMMA RateIsWord ==
    ASSUME ParserTypeOK, NEW i \in Nat, i + 4 <= Len(extra)
    PROVE  Rate(i) \in Word
  <1>1. At(i) \in Byte /\ At(i + 1) \in Byte /\ At(i + 2) \in Byte /\ At(i + 3) \in Byte
    BY AtIsByte DEF ParserTypeOK
  <1> QED BY <1>1 DEF Rate, Word

\* The default rate is a rate.
LEMMA FallbackIsWord == Hz48000 \in Word /\ <<Hz48000>> \in Seq(Word) /\ <<>> \in Seq(Word)
  <1>1. Hz48000 \in Word
    BY DEF Hz48000, Word, Byte
  <1> HIDE DEF Hz48000, Word
  <1> QED BY <1>1
-----------------------------------------------------------------------------
(* The parse. *)

\* A descriptor at pos lies in extra.
LEMMA HereFits ==
    ASSUME ParserTypeOK, DescriptorHere
    PROVE  /\ pos \in Nat /\ Len(extra) \in Nat /\ pos + 3 <= Len(extra)
           /\ Length \in Nat /\ Length # 0 /\ Length \in Byte
           /\ End = pos + Length /\ End \in Nat /\ End <= Len(extra)
  <1>1. pos \in Nat /\ Len(extra) \in Nat
    BY LenProperties DEF ParserTypeOK
  <1>2. Length \in Byte
    BY <1>1, AtIsByte DEF DescriptorHere, Length
  <1> QED BY <1>1, <1>2 DEF DescriptorHere, End, Byte

\* The parse writes no variable outside its type and reads no byte outside
\* extra.
LEMMA ParserTypeStep ==
    ASSUME ParserTypeOK, ParserInv, ParserNext
    PROVE  ParserTypeOK'
  <1>0. /\ extra \in Seq(Byte) /\ Len(extra) \in Nat /\ pos \in 0..Len(extra)
        /\ pos \in Nat /\ data_pos \in Nat /\ num_rates \in Byte
        /\ fmt \in [sample_rates : Seq(Word), channels : Byte,
                    bit_resolution : Byte, subslot_size : Byte]
    BY LenProperties DEF ParserTypeOK, Word
  <1>1. CASE EndWalk
    BY <1>0, <1>1 DEF EndWalk, ParserTypeOK
  <1>2. CASE PassDescriptor
    <2>1. pos' \in 0..Len(extra)
      BY <1>2, HereFits DEF PassDescriptor
    <2> QED BY <1>0, <1>2, <2>1 DEF PassDescriptor, ParserTypeOK
  <1>3. CASE TakeFormat
    <2>1. DescriptorHere /\ IsFormat /\ Length >= 6
      BY <1>3 DEF TakeFormat, IsFormat
    <2>2. /\ Length \in Byte /\ pos + Length <= Len(extra)
      BY <2>1, HereFits
    <2>a. ASSUME NEW i \in Nat, i < Length
          PROVE  At(pos + i) \in Byte
      <3>1. pos + i \in Nat /\ pos + i < Len(extra)
        BY <1>0, <2>2, <2>a DEF Byte
      <3> QED BY <3>1, AtIsByte
    <2>b. Length \in Nat
      BY <2>2 DEF Byte
    <2>3. At(pos + 4) \in Byte /\ Subslot \in Byte
      <3>1. 4 \in Byte
        BY DEF Byte
      <3>2. Length >= 7 => At(pos + 5) \in Byte
        BY <2>1, <2>a, <2>b
      <3>3. At(pos + 4) \in Byte
        BY <2>1, <2>a, <2>b
      <3> QED BY <3>1, <3>2, <3>3 DEF Subslot
    <2>4. BitResolution \in Byte
      <3>1. Length >= 8 => At(pos + 6) \in Byte
        BY <2>1, <2>a, <2>b
      <3>2. (Subslot * 8) % 256 \in Byte
        BY <2>3 DEF Byte
      <3> QED BY <3>1, <3>2 DEF BitResolution
    <2>5. num_rates' \in Byte /\ data_pos' \in Nat
      <3>1. CASE Length >= 8
        <4>1. At(pos + 7) \in Byte
          BY <2>a, <2>b, <3>1
        <4> QED BY <1>0, <1>3, <3>1, <4>1 DEF TakeFormat
      <3>2. CASE ~(Length >= 8)
        BY <1>0, <1>3, <3>2 DEF TakeFormat
      <3> QED BY <3>1, <3>2
    <2>6. fmt' \in [sample_rates : Seq(Word), channels : Byte,
                    bit_resolution : Byte, subslot_size : Byte]
      <3>1. (IF Length >= 8 THEN <<>> ELSE <<Hz48000>>) \in Seq(Word)
        BY FallbackIsWord
      <3> HIDE DEF Word
      <3> QED BY <1>3, <2>3, <2>4, <3>1 DEF TakeFormat
    <2>7. p_pc' \in {"rates", "done"} /\ extra' = extra /\ pos' = pos
      BY <1>3 DEF TakeFormat
    <2> QED BY <1>0, <2>5, <2>6, <2>7 DEF ParserTypeOK, Word
  <1>4. CASE TakeRate
    <2>1. p_pc = "rates" /\ num_rates > 0 /\ data_pos + 4 <= End
      BY <1>4 DEF TakeRate, RateFits
    <2>2. End <= Len(extra) /\ End \in Nat
      BY <2>1, HereFits DEF ParserInv
    <2>3. Rate(data_pos) \in Word
      BY <1>0, <2>1, <2>2, RateIsWord
    <2>4. fmt' \in [sample_rates : Seq(Word), channels : Byte,
                    bit_resolution : Byte, subslot_size : Byte]
      <3>1. Append(fmt.sample_rates, Rate(data_pos)) \in Seq(Word)
        BY <1>0, <2>3
      <3> HIDE DEF Word
      <3> QED BY <1>0, <1>4, <3>1 DEF TakeRate, WithRate
    <2>5. num_rates' \in Byte /\ data_pos' \in Nat
      BY <1>0, <1>4, <2>1 DEF TakeRate, Byte
    <2>6. UNCHANGED <<extra, pos, p_pc>>
      BY <1>4 DEF TakeRate
    <2> QED BY <1>0, <2>1, <2>4, <2>5, <2>6 DEF ParserTypeOK, Word
  <1>5. CASE EndRates
    BY <1>0, <1>5 DEF EndRates, ParserTypeOK
  <1>6. CASE FixedRate
    <2>1. fmt' \in [sample_rates : Seq(Word), channels : Byte,
                    bit_resolution : Byte, subslot_size : Byte]
      <3> HIDE DEF Word
      <3>1. ASSUME NEW rate \in Word, fmt' = WithRate(rate)
            PROVE  fmt' \in [sample_rates : Seq(Word), channels : Byte,
                             bit_resolution : Byte, subslot_size : Byte]
        <4>1. Append(fmt.sample_rates, rate) \in Seq(Word)
          BY <1>0
        <4> QED BY <1>0, <3>1, <4>1 DEF WithRate
      <3>2. data_pos + 4 <= Len(extra) => Rate(data_pos) \in Word
        BY <1>0, RateIsWord
      <3>3. CASE UNCHANGED fmt
        BY <1>0, <3>3
      <3>4. \/ UNCHANGED fmt
            \/ fmt' = WithRate(Hz48000)
            \/ data_pos + 4 <= Len(extra) /\ fmt' = WithRate(Rate(data_pos))
        BY <1>6 DEF FixedRate
      <3> QED BY <3>1, <3>2, <3>3, <3>4, FallbackIsWord
    <2>2. p_pc' \in {"done", "panicked"} /\ UNCHANGED <<extra, pos, data_pos, num_rates>>
      BY <1>6 DEF FixedRate
    <2> QED BY <1>0, <2>1, <2>2 DEF ParserTypeOK, Word
  <1>7. CASE OverflowPanics
    BY <1>0, <1>7 DEF OverflowPanics, ParserTypeOK
  <1> QED BY <1>1, <1>2, <1>3, <1>4, <1>5, <1>6, <1>7 DEF ParserNext

\* The list of rates stays in its descriptor.
LEMMA ParserInvStep ==
    ASSUME ParserTypeOK, ParserInv, ParserNext
    PROVE  ParserInv'
  <1>0. /\ Len(extra) \in Nat /\ pos \in Nat /\ data_pos \in Nat
        /\ fmt.sample_rates \in Seq(Word) /\ Len(fmt.sample_rates) \in Nat
    BY LenProperties DEF ParserTypeOK, Word
  <1>1. CASE EndWalk \/ PassDescriptor \/ OverflowPanics \/ EndRates \/ FixedRate
    <2>1. p_pc' # "rates"
      BY <1>1 DEF EndWalk, PassDescriptor, OverflowPanics, EndRates, FixedRate
    <2> QED BY <2>1 DEF ParserInv
  <1>2. CASE TakeFormat
    <2>1. /\ DescriptorHere /\ IsFormat /\ Length \in Nat
      BY <1>2, HereFits DEF TakeFormat
    <2>2. /\ DescriptorHere' = DescriptorHere /\ IsFormat' = IsFormat
          /\ Length' = Length /\ End' = End
      BY <1>2 DEF TakeFormat, DescriptorHere, IsFormat, End, Length, At
    <2>3. CASE Length >= 8
      <3>1. /\ p_pc' = "rates" /\ data_pos' = pos + 8 /\ pos' = pos
            /\ fmt'.sample_rates = <<>>
        BY <1>2, <2>3 DEF TakeFormat
      <3>2. Len(fmt'.sample_rates) = 0
        BY <3>1
      <3>3. data_pos' <= End'
        BY <1>0, <2>1, <2>2, <2>3, <3>1 DEF End
      <3> QED BY <1>0, <2>1, <2>2, <2>3, <3>1, <3>2, <3>3 DEF ParserInv
    <2>4. CASE ~(Length >= 8)
      <3>1. p_pc' = "done"
        BY <1>2, <2>4 DEF TakeFormat
      <3> QED BY <3>1 DEF ParserInv
    <2> QED BY <2>3, <2>4
  <1>3. CASE TakeRate
    <2>1. /\ DescriptorHere /\ IsFormat /\ Length >= 8
          /\ data_pos = pos + 8 + 4 * Len(fmt.sample_rates)
      BY <1>3 DEF TakeRate, ParserInv
    <2>2. /\ DescriptorHere' = DescriptorHere /\ IsFormat' = IsFormat
          /\ Length' = Length /\ End' = End /\ pos' = pos
      BY <1>3 DEF TakeRate, DescriptorHere, IsFormat, End, Length, At
    <2>3. /\ p_pc' = "rates" /\ data_pos' = data_pos + 4 /\ data_pos + 4 <= End
          /\ fmt'.sample_rates = Append(fmt.sample_rates, Rate(data_pos))
      BY <1>3 DEF TakeRate, RateFits, WithRate, ParserTypeOK
    <2>4. Len(fmt'.sample_rates) = Len(fmt.sample_rates) + 1
      BY <1>0, <2>3
    <2> DEFINE len == Len(fmt.sample_rates)
               after == Len(fmt'.sample_rates)
    <2>5. len \in Nat /\ after = len + 1 /\ data_pos = pos + 8 + 4 * len
      BY <1>0, <2>1, <2>4
    <2>6. data_pos' = pos + 8 + 4 * after
      <3> HIDE DEF len, after
      <3> QED BY <1>0, <2>3, <2>5
    <2> QED BY <2>1, <2>2, <2>3, <2>6 DEF ParserInv
  <1> QED BY <1>1, <1>2, <1>3 DEF ParserNext
-----------------------------------------------------------------------------
(* From the settings to the rings. *)

Format == [sample_rates : Seq([1..4 -> Byte]), channels : Byte,
           bit_resolution : Byte, subslot_size : Byte]

\* A parse that starts, or whose result is returned, is in order.
LEMMA ParserResets ==
    ASSUME NEW bytes \in Seq(Byte), NEW pc \in {"idle", "walking"},
           ParserReset(pc, bytes)
    PROVE  ParserTypeOK' /\ ParserInv'
  <1>1. DefaultFormat \in Format
    <2>1. <<Hz48000>> \in Seq([1..4 -> Byte])
      BY FallbackIsWord DEF Word
    <2> HIDE DEF Hz48000
    <2> QED BY <2>1 DEF DefaultFormat, Format, Byte
  <1>2. /\ extra' \in Seq(Byte) /\ pos' \in 0..Len(extra')
        /\ p_pc' \in {"idle", "walking"} /\ data_pos' \in Nat /\ num_rates' \in Byte
        /\ fmt' \in Format
    BY <1>1, LenProperties DEF ParserReset, Byte
  <1> QED
    BY <1>2 DEF ParserTypeOK, ParserInv, Format

\* Steps that leave the parser alone keep what is known of it.
LEMMA ParserKept ==
    ASSUME ParserTypeOK, ParserInv, UNCHANGED parser
    PROVE  ParserTypeOK' /\ ParserInv'
  BY DEF parser, ParserTypeOK, ParserInv, DescriptorHere, IsFormat, Length, End, At

\* A device's settings have the fields of one.
LEMMA SettingFields ==
    ASSUME NEW dev \in Devices, NEW i \in DOMAIN dev
    PROVE  /\ dev[i].interface \in Byte /\ dev[i].alt \in Byte
           /\ dev[i].extra \in Seq(Byte) /\ dev[i].endpoints \in Seq(Byte)
  <1> DEFINE Settings == [interface : Byte, alt : Byte, class : Byte, subclass : Byte,
                          endpoints : Seq(Byte), extra : Seq(Byte)]
  <1>1. dev \in Seq(Settings)
    BY DevicesAssumption
  <1>2. dev[i] \in Settings
    <2> HIDE DEF Settings
    <2>1. i \in 1..Len(dev)
      BY <1>1, LenProperties
    <2> QED BY <1>1, <2>1, ElementOfSeq
  <1> QED BY <1>2

\* The parse is at a setting of the device and at one of its endpoints.
LEMMA SettingType ==
    ASSUME TypeOK, AtEndpoint
    PROVE  /\ Setting.interface \in Byte /\ Setting.alt \in Byte
           /\ Setting.extra \in Seq(Byte) /\ Setting.endpoints[e_i] \in Byte
           /\ Setting.interface \in Interfaces(device)
  <1>1. s_i \in DOMAIN device
    <2>1. device \in Devices /\ s_i \in 1..(Len(device) + 1) /\ s_i <= Len(device)
      BY DEF TypeOK, AtEndpoint
    <2>2. Len(device) \in Nat /\ DOMAIN device = 1..Len(device)
      BY <2>1, LenProperties, DevicesAssumption
    <2> QED BY <2>1, <2>2
  <1>2. /\ Setting.interface \in Byte /\ Setting.alt \in Byte
        /\ Setting.extra \in Seq(Byte) /\ Setting.endpoints \in Seq(Byte)
    BY <1>1, SettingFields DEF TypeOK, Setting
  <1>3. Setting.endpoints[e_i] \in Byte
    <2>1. Len(Setting.endpoints) \in Nat
      BY <1>2, LenProperties
    <2>2. e_i \in 1..Len(Setting.endpoints)
      BY <2>1 DEF AtEndpoint, TypeOK
    <2> QED BY <1>2, <2>2, ElementOfSeq
  <1> QED BY <1>1, <1>2, <1>3 DEF Interfaces, Setting

\* The first channel of an interface that has one is one of its channels.
LEMMA FirstChannelOf ==
    ASSUME TypeOK, NEW f, \E k \in DOMAIN channels : channels[k].interface_number = f
    PROVE  \E k \in DOMAIN channels :
              channels[k].interface_number = f /\ FirstChannel(f) = channels[k]
  <1> DEFINE S == {k \in DOMAIN channels : channels[k].interface_number = f}
  <1>1. DOMAIN channels = 1..Len(channels) /\ Len(channels) \in Nat
    BY LenProperties DEF TypeOK
  <1>2. S \in SUBSET Nat /\ S # {}
    BY <1>1
  <1>3. PICK k \in S : \A n \in S : k <= n
    <2> HIDE DEF S
    <2> QED BY <1>2, Least
  <1>4. \A m \in 1..(k - 1) : channels[m].interface_number # f
    BY <1>1, <1>3
  <1> QED BY <1>3, <1>4 DEF FirstChannel

\* The next interface to claim is one of those that are left.
LEMMA NextInterfaceIn ==
    ASSUME TypeOK, unclaimed # {}
    PROVE  NextInterface \in unclaimed
  <1>1. unclaimed \in SUBSET Nat
    <2>1. device \in Devices /\ unclaimed \subseteq Interfaces(device)
      BY DEF TypeOK
    <2>2. \A i \in DOMAIN device : device[i].interface \in Byte
      BY <2>1, SettingFields
    <2>3. Interfaces(device) \subseteq Byte
      BY <2>2 DEF Interfaces
    <2>4. Byte \subseteq Nat
      BY DEF Byte
    <2> QED BY <2>1, <2>3, <2>4
  <1> QED BY <1>1, Least DEF NextInterface
-----------------------------------------------------------------------------
(* The invariant. *)

\* The initial states satisfy IInv.
LEMMA InitInv ==
    ASSUME Init
    PROVE  IInv
  <1>1. ParserTypeOK
    <2>1. fmt \in Format
      <3>1. <<Hz48000>> \in Seq([1..4 -> Byte])
        BY FallbackIsWord DEF Word
      <3> HIDE DEF Hz48000
      <3> QED BY <3>1 DEF Init, ParserInit, DefaultFormat, Format, Byte
    <2> QED BY <2>1 DEF Init, ParserInit, ParserTypeOK, Format, Byte
  <1>2. Len(device) \in Nat
    BY DevicesAssumption, LenProperties DEF Init
  <1>3. TypeOK
    BY <1>1, <1>2 DEF Init, TypeOK, NoTransfer, Byte
  <1>4. moved.channel = 0
    BY DEF Init, NoTransfer
  <1>5. LaidOutInv
    BY DEF Init, ParserInit, LaidOutInv, WalkInv, RatesInv, ResultInv
  <1>6. DiscoverInv
    <2>1. Passed = {}
      <3>1. ASSUME NEW p \in Endpoints(device)
            PROVE  p \notin Passed
        <4>1. PICK i \in DOMAIN device : \E j \in DOMAIN device[i].endpoints : p = <<i, j>>
          BY <3>1 DEF Endpoints
        <4>a. PICK j \in DOMAIN device[i].endpoints : p = <<i, j>>
          BY <4>1
        <4>2. device[i].endpoints \in Seq(Byte) /\ DOMAIN device = 1..Len(device)
          BY <1>2, SettingFields, DevicesAssumption, LenProperties DEF Init
        <4>3. i \in Nat /\ i >= 1 /\ j \in Nat /\ j >= 1
          BY <1>2, <4>a, <4>2, LenProperties
        <4> QED BY <4>a, <4>3 DEF Passed, Init
      <3> QED BY <3>1 DEF Passed
    <2>2. IsFiniteSet(Passed) /\ Cardinality(Passed) = 0
      BY <2>1, FS_EmptySet
    <2> QED BY <2>1, <2>2 DEF DiscoverInv, Init, ParserInit
  <1> QED
    BY <1>3, <1>4, <1>5, <1>6
    DEF Init, ParserInit, IInv, ParserInv, ClaimInv, TransferInv, BytesKept

\* The parser's part: only two steps of the connection touch it.
LEMMA ParserStep ==
    ASSUME IInv, [Next]_vars
    PROVE  ParserTypeOK' /\ ParserInv'
  <1>0. ParserTypeOK /\ ParserInv
    BY DEF IInv, TypeOK
  <1>1. CASE StartEndpoint
    <2>1. Setting.extra \in Seq(Byte)
      BY <1>1, SettingType DEF StartEndpoint, IInv
    <2> QED BY <1>1, <2>1, ParserResets DEF StartEndpoint, Parse
  <1>2. CASE FindChannel
    <2>1. <<>> \in Seq(Byte)
      OBVIOUS
    <2> QED BY <1>2, <2>1, ParserResets DEF FindChannel, Return
  <1>3. CASE ParseStep
    BY <1>0, <1>3, ParserTypeStep, ParserInvStep DEF ParseStep
  <1>4. CASE UNCHANGED parser
    BY <1>0, <1>4, ParserKept
  <1> QED
    BY <1>1, <1>2, <1>3, <1>4
    DEF Next, Connect, Transfer, NextSetting, EndParse, Claim, ClaimFails,
        StartStreaming, CaptureTransfer, PlaybackTransfer, vars

\* A channel that is pushed leaves those before it as they are.
LEMMA ChannelFound ==
    ASSUME IInv, FindChannel
    PROVE  /\ channels \in Seq(Channel) /\ channels' \in Seq(Channel)
           /\ Len(channels) \in Nat /\ DOMAIN channels = 1..Len(channels)
           /\ DOMAIN channels' = 1..(Len(channels) + 1)
           /\ \A k \in DOMAIN channels : channels'[k] = channels[k]
           /\ channels'[Len(channels) + 1].interface_number \in Interfaces(device)
  <1> DEFINE ch == [interface_number |-> Setting.interface,
                    alt_setting |-> Setting.alt,
                    endpoint_address |-> Setting.endpoints[e_i],
                    format |-> fmt]
  <1>1. ch \in Channel /\ ch.interface_number \in Interfaces(device)
    <2>1. fmt \in Format
      BY DEF IInv, TypeOK, ParserTypeOK, Format
    <2>2. AtEndpoint /\ TypeOK
      BY DEF FindChannel, IInv
    <2> QED BY <2>1, <2>2, SettingType DEF Channel, Format
  <1>2. channels \in Seq(Channel) /\ channels' = Append(channels, ch)
    BY DEF IInv, TypeOK, FindChannel
  <1>3. Len(channels) \in Nat /\ DOMAIN channels = 1..Len(channels)
    BY <1>2, LenProperties
  <1> HIDE DEF ch, Channel
  <1>4. /\ channels' \in Seq(Channel) /\ Len(channels') = Len(channels) + 1
        /\ \A k \in 1..Len(channels) : channels'[k] = channels[k]
        /\ channels'[Len(channels) + 1] = ch
    BY <1>1, <1>2, AppendProperties
  <1>5. DOMAIN channels' = 1..Len(channels')
    BY <1>4, LenProperties
  <1> QED BY <1>1, <1>2, <1>3, <1>4, <1>5

\* The frame of a channel, in bytes, and the size of its buffer.
LEMMA Sizes ==
    ASSUME TypeOK, NEW k \in DOMAIN channels
    PROVE  ChannelBytes(k) \in Nat /\ MaxBytes(k) \in Nat
  <1>1. k \in 1..Len(channels) /\ channels \in Seq(Channel)
    BY LenProperties DEF TypeOK
  <1>2. channels[k] \in Channel
    <2> HIDE DEF Channel
    <2> QED BY <1>1, ElementOfSeq
  <1>3. channels[k].format.channels \in Nat /\ channels[k].format.bit_resolution \in Nat
    <2>1. channels[k].format.channels \in Byte /\ channels[k].format.bit_resolution \in Byte
      BY <1>2 DEF Channel
    <2>2. Byte \subseteq Nat
      BY DEF Byte
    <2> QED BY <2>1, <2>2
  <1>4. channels[k].format.bit_resolution \div 8 \in Nat
    BY <1>3
  <1>5. ChannelBytes(k) \in Nat
    BY <1>3, <1>4 DEF ChannelBytes
  <1> QED BY <1>5 DEF MaxBytes

\* What a parse has read of a setting's descriptors is what they say.
LEMMA LaidOutStep ==
    ASSUME IInv, [Next]_vars
    PROVE  LaidOutInv'
  <1>0. ParserTypeOK /\ ParserInv /\ LaidOutInv
    BY DEF IInv, TypeOK
  <1>1. CASE StartEndpoint
    <2>1. Setting.extra \in Seq(Byte)
      BY <1>1, SettingType DEF StartEndpoint, IInv
    <2> QED BY <1>1, <2>1, ParseLaidOut DEF StartEndpoint, Parse
  <1>2. CASE FindChannel
    <2>1. <<>> \in Seq(Byte)
      OBVIOUS
    <2> QED BY <1>2, <2>1, ParseLaidOut DEF FindChannel, Return
  <1>3. CASE ParseStep
    BY <1>0, <1>3, ParserLaidOutStep DEF ParseStep
  <1>4. CASE UNCHANGED parser
    BY <1>0, <1>4, LaidOutKept
  <1> QED
    BY <1>1, <1>2, <1>3, <1>4
    DEF Next, Connect, Transfer, NextSetting, EndParse, Claim, ClaimFails,
        StartStreaming, CaptureTransfer, PlaybackTransfer, vars

\* An endpoint of a device is one of an audio streaming setting.
LEMMA EndpointIs ==
    ASSUME NEW dev \in Devices, NEW p
    PROVE  p \in Endpoints(dev) <=>
              /\ p = <<p[1], p[2]>>
              /\ p[1] \in 1..Len(dev) /\ IsStreaming(dev[p[1]])
              /\ p[2] \in 1..Len(dev[p[1]].endpoints)
  <1>1. Len(dev) \in Nat /\ DOMAIN dev = 1..Len(dev)
    BY DevicesAssumption, LenProperties
  <1>2. \A i \in DOMAIN dev : DOMAIN dev[i].endpoints = 1..Len(dev[i].endpoints)
    BY SettingFields, LenProperties
  <1>3. ASSUME p \in Endpoints(dev)
        PROVE  /\ p = <<p[1], p[2]>>
               /\ p[1] \in 1..Len(dev) /\ IsStreaming(dev[p[1]])
               /\ p[2] \in 1..Len(dev[p[1]].endpoints)
    <2>1. PICK i \in {n \in DOMAIN dev : IsStreaming(dev[n])} :
             \E j \in DOMAIN dev[i].endpoints : p = <<i, j>>
      BY <1>3 DEF Endpoints
    <2>2. PICK j \in DOMAIN dev[i].endpoints : p = <<i, j>>
      BY <2>1
    <2> QED BY <1>1, <1>2, <2>1, <2>2
  <1>4. ASSUME p = <<p[1], p[2]>>,
               p[1] \in 1..Len(dev), IsStreaming(dev[p[1]]),
               p[2] \in 1..Len(dev[p[1]].endpoints)
        PROVE  p \in Endpoints(dev)
    <2>1. p[1] \in DOMAIN dev /\ p[2] \in DOMAIN dev[p[1]].endpoints
      BY <1>1, <1>2, <1>4
    <2> QED BY <1>4, <2>1 DEF Endpoints
  <1> QED BY <1>3, <1>4

\* A setting that is done with adds no endpoint to those passed, and the return
\* of a parse adds its own.
LEMMA PassedNext ==
    ASSUME TypeOK
    PROVE  /\ NextSetting => Passed' = Passed
           /\ FindChannel => /\ Passed' = Passed \cup {<<s_i, e_i>>}
                             /\ <<s_i, e_i>> \notin Passed
  <1>1. /\ device \in Devices /\ Len(device) \in Nat /\ s_i \in Nat /\ e_i \in Nat
        /\ e_i >= 1 /\ s_i >= 1
    BY DevicesAssumption, LenProperties DEF TypeOK
  <1>2. ASSUME NEW p \in Endpoints(device)
        PROVE  /\ p = <<p[1], p[2]>> /\ p[1] \in Nat /\ p[2] \in Nat /\ p[2] >= 1
               /\ p[1] \in 1..Len(device) /\ IsStreaming(device[p[1]])
               /\ p[2] \in 1..Len(device[p[1]].endpoints)
    BY <1>1, <1>2, EndpointIs
  <1>3. ASSUME NextSetting
        PROVE  Passed' = Passed
    <2>1. /\ device' = device /\ s_i' = s_i + 1 /\ e_i' = 1 /\ ~AtEndpoint
          /\ t_pc = "parsing" /\ s_i <= Len(device)
      BY <1>3 DEF NextSetting
    <2>2. Endpoints(device)' = Endpoints(device)
      BY <2>1
    <2>3. ASSUME NEW p \in Endpoints(device)
          PROVE  (p[1] < s_i' \/ (p[1] = s_i' /\ p[2] < e_i'))
                    <=> (p[1] < s_i \/ (p[1] = s_i /\ p[2] < e_i))
      <3>1. CASE p[1] = s_i
        <4>1. p[2] < e_i
          <5>1. ~(e_i <= Len(device[p[1]].endpoints))
            BY <1>2, <2>1, <2>3, <3>1 DEF AtEndpoint, Setting
          <5>2. SUFFICES Len(device[p[1]].endpoints) \in Nat
            BY <1>1, <1>2, <2>3, <5>1
          <5>3. p[1] \in DOMAIN device
            BY <1>1, <1>2, <2>3, DevicesAssumption, LenProperties
          <5> QED BY <1>1, <5>3, SettingFields, LenProperties
        <4> QED BY <1>1, <2>1, <3>1, <4>1
      <3>2. CASE p[1] # s_i
        BY <1>1, <1>2, <2>1, <2>3, <3>2
      <3> QED BY <3>1, <3>2
    <2> QED BY <2>2, <2>3 DEF Passed
  <1>4. ASSUME FindChannel
        PROVE  /\ Passed' = Passed \cup {<<s_i, e_i>>}
               /\ <<s_i, e_i>> \notin Passed
    <2> DEFINE q == <<s_i, e_i>>
    <2>1. UNCHANGED <<device, s_i>> /\ e_i' = e_i + 1 /\ AtEndpoint
      BY <1>4 DEF FindChannel
    <2>2. q \in Endpoints(device)
      <3>1. /\ q[1] = s_i /\ q[2] = e_i /\ s_i \in 1..Len(device)
            /\ IsStreaming(device[s_i]) /\ e_i <= Len(device[s_i].endpoints)
        BY <1>1, <2>1 DEF AtEndpoint, Setting
      <3>2. Len(device[s_i].endpoints) \in Nat
        <4>1. s_i \in DOMAIN device
          BY <1>1, <3>1, DevicesAssumption, LenProperties
        <4> QED BY <1>1, <4>1, SettingFields, LenProperties
      <3>3. e_i \in 1..Len(device[s_i].endpoints) /\ q = <<q[1], q[2]>>
        BY <1>1, <3>1, <3>2
      <3> HIDE DEF q
      <3>4. /\ q[1] \in 1..Len(device) /\ IsStreaming(device[q[1]])
            /\ q[2] \in 1..Len(device[q[1]].endpoints)
        BY <3>1, <3>3
      <3> QED BY <1>1, <3>3, <3>4, EndpointIs
    <2>3. Endpoints(device)' = Endpoints(device)
      BY <2>1
    <2>4. ASSUME NEW p \in Endpoints(device)
          PROVE  (p[1] < s_i' \/ (p[1] = s_i' /\ p[2] < e_i'))
                    <=> (p[1] < s_i \/ (p[1] = s_i /\ p[2] < e_i) \/ p = q)
      <3>1. p = q <=> p[1] = s_i /\ p[2] = e_i
        BY <1>2, <2>4
      <3> HIDE DEF q
      <3> QED BY <1>1, <1>2, <2>1, <2>4, <3>1
    <2>5. q \notin Passed
      BY <1>1 DEF Passed
    <2> HIDE DEF q
    <2>6. Passed' = Passed \cup {q}
      BY <2>2, <2>3, <2>4 DEF Passed
    <2> QED BY <2>5, <2>6 DEF q
  <1> QED BY <1>3, <1>4

\* Every endpoint passed has its channel.
LEMMA DiscoverStep ==
    ASSUME IInv, [Next]_vars
    PROVE  DiscoverInv'
  <1>0. TypeOK /\ DiscoverInv /\ LaidOutInv
    BY DEF IInv
  <1>1. /\ device \in Devices /\ Len(device) \in Nat /\ s_i \in Nat
    BY <1>0, DevicesAssumption, LenProperties DEF TypeOK
  <1>2. CASE UNCHANGED <<device, found>>
    <2>1. Passed' = Passed
      BY <1>2 DEF Passed, found
    <2>2. \A ch, s, a : Describes(ch, s, a)' <=> Describes(ch, s, a)
      BY DEF Describes
    <2>3. ASSUME p_pc' # "idle"
          PROVE  AtEndpoint' /\ extra' = Setting'.extra
      <3>1. CASE StartEndpoint
        BY <3>1 DEF StartEndpoint, Parse, ParserReset, AtEndpoint, Setting, found
      <3>2. CASE p_pc # "idle" /\ UNCHANGED <<t_pc, extra>>
        BY <1>0, <1>2, <3>2 DEF DiscoverInv, AtEndpoint, Setting, found
      <3>3. CASE t_pc # "parsing" \/ s_i > Len(device)
        <4>1. p_pc = "idle"
          BY <1>0, <1>1, <3>3 DEF DiscoverInv, AtEndpoint
        <4>2. UNCHANGED p_pc
          BY <3>3, <4>1, <1>1
          DEF Next, Connect, Transfer, NextSetting, StartEndpoint, ParseStep, FindChannel,
              EndParse, Claim, ClaimFails, StartStreaming, CaptureTransfer,
              PlaybackTransfer, parser, vars, AtEndpoint, ParserNext, EndWalk,
              PassDescriptor, TakeFormat, TakeRate, EndRates, FixedRate,
              OverflowPanics
        <4> QED BY <2>3, <4>1, <4>2
      <3> QED
        BY <1>1, <1>2, <2>3, <3>1, <3>2, <3>3
        DEF Next, Connect, Transfer, NextSetting, ParseStep, FindChannel,
            EndParse, Claim, ClaimFails, StartStreaming, CaptureTransfer,
            PlaybackTransfer, parser, vars, found, ParserNext, EndWalk,
            PassDescriptor, TakeFormat, TakeRate, EndRates, FixedRate,
            OverflowPanics
    <2>4. t_pc' # "parsing" => s_i' > Len(device')
      BY <1>0, <1>1, <1>2
      DEF DiscoverInv, Next, Connect, Transfer, NextSetting, StartEndpoint, ParseStep,
          FindChannel, EndParse, Claim, ClaimFails, StartStreaming, CaptureTransfer,
          PlaybackTransfer, vars, found
    <2> QED BY <1>0, <1>2, <2>1, <2>2, <2>3, <2>4 DEF DiscoverInv, found
  <1>3. CASE NextSetting
    <2>1. Passed' = Passed /\ UNCHANGED <<device, t_pc, channels, p_pc>>
          /\ ~AtEndpoint /\ t_pc = "parsing"
      BY <1>0, <1>3, PassedNext DEF NextSetting, parser
    <2>2. \A ch, s, a : Describes(ch, s, a)' <=> Describes(ch, s, a)
      BY DEF Describes
    <2> QED BY <1>0, <2>1, <2>2 DEF DiscoverInv
  <1>4. CASE FindChannel
    <2> DEFINE q == <<s_i, e_i>>
               len == Len(channels)
    <2>1. /\ Passed' = Passed \cup {q} /\ q \notin Passed
          /\ UNCHANGED <<device, t_pc>> /\ t_pc = "parsing"
          /\ p_pc = "done" /\ p_pc' = "idle" /\ AtEndpoint
      BY <1>0, <1>4, PassedNext DEF FindChannel, Return, ParserReset, AtEndpoint
    <2>2. /\ len \in Nat /\ DOMAIN channels = 1..len /\ DOMAIN channels' = 1..(len + 1)
          /\ \A k \in DOMAIN channels : channels'[k] = channels[k]
          /\ Len(channels') = len + 1
      BY <1>4, ChannelFound, LenProperties
    <2>3. IsFiniteSet(Passed') /\ Cardinality(Passed') = Cardinality(Passed) + 1
      BY <1>0, <2>1, FS_AddElement DEF DiscoverInv
    <2>4. Describes(channels'[len + 1], device[s_i], device[s_i].endpoints[e_i])
      <3>1. channels'[len + 1] = [interface_number |-> Setting.interface,
                                  alt_setting |-> Setting.alt,
                                  endpoint_address |-> Setting.endpoints[e_i],
                                  format |-> fmt]
        BY <1>0, <1>4, AppendProperties DEF FindChannel, TypeOK
      <3>2. extra = Setting.extra
        BY <1>0, <2>1 DEF DiscoverInv
      <3>3. Taken(extra, fmt)
        BY <1>0, <2>1 DEF LaidOutInv, ResultInv
      <3> QED BY <3>1, <3>2, <3>3 DEF Describes, Setting
    <2>5. ASSUME NEW p \in Passed'
          PROVE  \E k \in DOMAIN channels' :
                    Describes(channels'[k], device[p[1]], device[p[1]].endpoints[p[2]])
      <3>1. CASE p \in Passed
        <4>1. PICK k \in DOMAIN channels :
                 Describes(channels[k], device[p[1]], device[p[1]].endpoints[p[2]])
          BY <1>0, <3>1 DEF DiscoverInv
        <4>2. k \in DOMAIN channels' /\ channels'[k] = channels[k]
          BY <2>2
        <4> QED BY <4>1, <4>2
      <3>2. CASE p = q
        <4>1. len + 1 \in DOMAIN channels'
          BY <2>2
        <4> QED BY <2>4, <3>2, <4>1
      <3> QED BY <2>1, <2>5, <3>1, <3>2
    <2>6. \A ch, s, a : Describes(ch, s, a)' <=> Describes(ch, s, a)
      BY DEF Describes
    <2>7. Len(channels') = Cardinality(Passed')
      BY <1>0, <2>2, <2>3 DEF DiscoverInv
    <2>8. ASSUME NEW k \in DOMAIN channels'
          PROVE  \E p \in Passed' :
                    Describes(channels'[k], device[p[1]], device[p[1]].endpoints[p[2]])
      <3>1. CASE k \in DOMAIN channels
        <4>1. PICK p \in Passed :
                 Describes(channels[k], device[p[1]], device[p[1]].endpoints[p[2]])
          BY <1>0, <3>1 DEF DiscoverInv
        <4>2. p \in Passed' /\ channels'[k] = channels[k]
          BY <2>1, <2>2, <3>1
        <4> QED BY <4>1, <4>2
      <3>2. CASE k = len + 1
        <4>1. q \in Passed' /\ q[1] = s_i /\ q[2] = e_i
          BY <2>1
        <4> QED BY <2>4, <3>2, <4>1
      <3> QED BY <2>2, <2>8, <3>1, <3>2
    <2> QED BY <1>0, <2>1, <2>3, <2>5, <2>6, <2>7, <2>8 DEF DiscoverInv
  <1> QED
    BY <1>2, <1>3, <1>4
    DEF Next, Connect, Transfer, StartEndpoint, ParseStep, EndParse, Claim,
        ClaimFails, StartStreaming, CaptureTransfer, PlaybackTransfer, vars, found

\* Once a device is claimed the walk is over, and all its endpoints are passed.
LEMMA AllPassed ==
    ASSUME IInv, t_pc # "parsing"
    PROVE  Passed = Endpoints(device)
  <1>1. device \in Devices /\ s_i \in Nat /\ s_i > Len(device) /\ Len(device) \in Nat
    BY DevicesAssumption, LenProperties DEF IInv, TypeOK, DiscoverInv
  <1>2. ASSUME NEW p \in Endpoints(device)
        PROVE  p[1] < s_i
    BY <1>1, <1>2, EndpointIs
  <1> QED BY <1>2 DEF Passed

\* The rest of the type invariant.
LEMMA TypeStep ==
    ASSUME IInv, [Next]_vars
    PROVE  TypeOK'
  <1>0. TypeOK /\ ClaimInv /\ ParserTypeOK'
    BY ParserStep DEF IInv
  <1>1. CASE NextSetting
    <2>1. device \in Devices
      BY <1>0 DEF TypeOK
    <2>2. Len(device) \in Nat
      BY <2>1, DevicesAssumption, LenProperties
    <2>3. s_i' \in 1..(Len(device) + 1) /\ e_i' \in Nat \ {0}
      BY <1>0, <1>1, <2>2 DEF NextSetting, TypeOK
    <2> QED BY <1>0, <1>1, <2>3 DEF NextSetting, TypeOK, usb
  <1>2. CASE StartEndpoint \/ ParseStep
    BY <1>0, <1>2 DEF StartEndpoint, ParseStep, TypeOK, found, usb
  <1>3. CASE FindChannel
    <2>1. channels' \in Seq(Channel) /\ DOMAIN channels \subseteq DOMAIN channels'
      BY <1>3, ChannelFound
    <2>2. e_i' \in Nat \ {0} /\ UNCHANGED <<device, t_pc, s_i, unclaimed, in_force, moved>>
      BY <1>0, <1>3 DEF FindChannel, TypeOK, usb
    <2> HIDE DEF Channel
    <2> QED BY <1>0, <2>1, <2>2 DEF TypeOK
  <1>4. CASE EndParse
    <2>1. unclaimed' \subseteq Interfaces(device) /\ t_pc' \in {"passed", "claiming"}
      BY <1>0, <1>4 DEF EndParse, ClaimInv
    <2> QED BY <1>0, <1>4, <2>1 DEF EndParse, TypeOK, found
  <1>5. CASE Claim
    <2>1. NextInterface \in unclaimed
      BY <1>0, <1>5, NextInterfaceIn DEF Claim
    <2>2. FirstChannel(NextInterface).alt_setting \in Byte
      <3>1. PICK k \in DOMAIN channels : FirstChannel(NextInterface) = channels[k]
        BY <1>0, <2>1, FirstChannelOf DEF ClaimInv
      <3>2. k \in 1..Len(channels) /\ channels \in Seq(Channel)
        BY <1>0, LenProperties DEF TypeOK
      <3>3. channels[k] \in Channel
        <4> HIDE DEF Channel
        <4> QED BY <3>2, ElementOfSeq
      <3> QED BY <3>1, <3>3 DEF Channel
    <2>3. in_force' \in [Interfaces(device) -> Byte]
      BY <1>0, <1>5, <2>2 DEF Claim, TypeOK
    <2>4. unclaimed' \subseteq Interfaces(device)
      BY <1>0, <1>5 DEF Claim, TypeOK
    <2> QED BY <1>0, <1>5, <2>3, <2>4 DEF Claim, TypeOK, found
  <1>6. CASE ClaimFails \/ StartStreaming
    BY <1>0, <1>6 DEF ClaimFails, StartStreaming, TypeOK, found, usb
  <1>7. CASE Transfer
    <2>1. PICK k \in DOMAIN channels : CaptureTransfer(k) \/ PlaybackTransfer(k)
      BY <1>7 DEF Transfer
    <2>2. k \in Nat /\ MaxBytes(k) \in Nat /\ ChannelBytes(k) \in Nat
      BY <1>0, <2>1, Sizes, LenProperties DEF TypeOK
    <2>3. /\ moved' \in [channel : Nat, asked : Nat, bytes : Nat, frames : Nat]
          /\ moved'.channel = k
      <3>1. CASE CaptureTransfer(k)
        <4>1. PICK n \in 0..MaxBytes(k) :
                 moved' = [channel |-> k, asked |-> MaxBytes(k), bytes |-> n,
                           frames |-> n \div RingFrameBytes]
          BY <3>1 DEF CaptureTransfer
        <4>2. n \in Nat
          BY <2>2, <4>1
        <4>3. (n \div RingFrameBytes) \in Nat
          BY <4>2, Division
        <4> QED BY <2>2, <4>1, <4>2, <4>3
      <3>2. CASE PlaybackTransfer(k)
        <4>1. PICK fill \in 0..MaxFill :
                 moved' = [channel |-> k, asked |-> MaxBytes(k),
                           bytes |-> Sent(k, Lesser(fill, MaxBytes(k) \div RingFrameBytes)),
                           frames |-> Lesser(fill, MaxBytes(k) \div RingFrameBytes)]
          BY <3>2 DEF PlaybackTransfer
        <4> DEFINE got == Lesser(fill, MaxBytes(k) \div RingFrameBytes)
        <4>2. (MaxBytes(k) \div RingFrameBytes) \in Nat
          BY <2>2, Division
        <4>3. got \in Nat
          BY <4>1, <4>2 DEF Lesser
        <4> HIDE DEF got
        <4>4. got * ChannelBytes(k) \in Nat
          BY <2>2, <4>3
        <4>5. Sent(k, got) \in Nat
          BY <2>2, <4>4 DEF Sent, Lesser
        <4> QED BY <2>2, <4>1, <4>3, <4>5 DEF got
      <3> QED BY <2>1, <3>1, <3>2
    <2>4. UNCHANGED <<device, t_pc, s_i, e_i, channels, unclaimed, in_force>>
      BY <2>1 DEF CaptureTransfer, PlaybackTransfer, found, usb
    <2> HIDE DEF Channel
    <2> QED BY <1>0, <2>1, <2>3, <2>4 DEF TypeOK
  <1>8. CASE UNCHANGED vars
    BY <1>0, <1>8 DEF vars, found, usb, TypeOK
  <1> QED
    BY <1>1, <1>2, <1>3, <1>4, <1>5, <1>6, <1>7, <1>8 DEF Next, Connect

\* The interfaces and their settings.
LEMMA ClaimStep ==
    ASSUME IInv, [Next]_vars
    PROVE  ClaimInv'
  <1>0. TypeOK /\ ClaimInv
    BY DEF IInv
  <1>1. CASE UNCHANGED <<device, t_pc, channels, unclaimed, in_force>>
    <2>1. \A f : FirstChannel(f)' = FirstChannel(f)
      BY <1>1 DEF FirstChannel
    <2> QED BY <1>0, <1>1, <2>1 DEF ClaimInv
  <1>2. CASE FindChannel
    <2>1. UNCHANGED <<device, t_pc, unclaimed, in_force>> /\ t_pc = "parsing"
      BY <1>2 DEF FindChannel, AtEndpoint, usb
    <2>2. \A k \in DOMAIN channels' : channels'[k].interface_number \in Interfaces(device)
      BY <1>0, <1>2, ChannelFound DEF ClaimInv
    <2>3. ASSUME NEW f \in unclaimed
          PROVE  \E k \in DOMAIN channels' : channels'[k].interface_number = f
      <3>1. PICK k \in DOMAIN channels : channels[k].interface_number = f
        BY <1>0 DEF ClaimInv
      <3>2. k \in DOMAIN channels' /\ channels'[k] = channels[k]
        BY <1>2, ChannelFound
      <3> QED BY <3>1, <3>2
    <2> QED BY <2>1, <2>2, <2>3 DEF ClaimInv
  <1>3. CASE EndParse
    BY <1>0, <1>3 DEF EndParse, found, ClaimInv
  <1>4. CASE Claim
    <2>1. NextInterface \in unclaimed /\ unclaimed \subseteq Interfaces(device)
      BY <1>0, <1>4, NextInterfaceIn DEF Claim, TypeOK
    <2>2. /\ in_force' = [in_force EXCEPT ![NextInterface] =
                               FirstChannel(NextInterface).alt_setting]
          /\ in_force \in [Interfaces(device) -> Byte]
          /\ unclaimed' = unclaimed \ {NextInterface}
          /\ t_pc = "claiming" /\ UNCHANGED <<device, t_pc, channels>>
      BY <1>0, <1>4 DEF Claim, found, TypeOK
    <2>3. ASSUME NEW k \in DOMAIN channels
          PROVE  LET f == channels[k].interface_number
                 IN  f \in unclaimed' \/ in_force'[f] = FirstChannel(f).alt_setting
      <3> DEFINE f == channels[k].interface_number
      <3>1. f \in unclaimed \/ in_force[f] = FirstChannel(f).alt_setting
        BY <1>0, <2>2 DEF ClaimInv
      <3>2. CASE f = NextInterface
        BY <2>1, <2>2, <3>2
      <3>3. CASE f # NextInterface
        <4>1. f \in Interfaces(device)
          BY <1>0 DEF ClaimInv
        <4>2. in_force'[f] = in_force[f]
          BY <2>2, <3>3, <4>1
        <4> QED BY <2>2, <3>1, <3>3, <4>2
      <3> QED BY <3>2, <3>3
    <2>4. \A f : FirstChannel(f)' = FirstChannel(f)
      BY <2>2 DEF FirstChannel
    <2> QED BY <1>0, <2>2, <2>3, <2>4 DEF ClaimInv
  <1>5. CASE ClaimFails
    BY <1>0, <1>5 DEF ClaimFails, found, usb, ClaimInv
  <1>6. CASE StartStreaming
    <2>1. UNCHANGED channels
      BY <1>6 DEF StartStreaming, found
    <2>2. \A f : FirstChannel(f)' = FirstChannel(f)
      BY <2>1 DEF FirstChannel
    <2> QED BY <1>0, <1>6, <2>2 DEF StartStreaming, found, usb, ClaimInv
  <1> QED
    BY <1>1, <1>2, <1>3, <1>4, <1>5, <1>6
    DEF Next, Connect, Transfer, NextSetting, StartEndpoint, ParseStep,
        CaptureTransfer, PlaybackTransfer, vars, found, usb
\* The buffers.
LEMMA TransferStep ==
    ASSUME IInv, [Next]_vars
    PROVE  TransferInv'
  <1>0. TypeOK /\ TransferInv
    BY DEF IInv
  <1>1. CASE UNCHANGED <<channels, moved>> /\ (t_pc' # "streaming" => t_pc # "streaming")
    BY <1>0, <1>1 DEF TransferInv, BytesKept, ChannelBytes
  <1>2. CASE FindChannel \/ StartStreaming
    <2>1. moved.channel = 0 /\ UNCHANGED moved
      BY <1>0, <1>2 DEF FindChannel, AtEndpoint, StartStreaming, TransferInv
    <2> QED BY <2>1 DEF TransferInv, BytesKept
  <1>3. CASE Transfer
    <2>1. PICK k \in DOMAIN channels : CaptureTransfer(k) \/ PlaybackTransfer(k)
      BY <1>3 DEF Transfer
    <2>2. k \in Nat /\ MaxBytes(k) \in Nat /\ ChannelBytes(k) \in Nat
      BY <1>0, <2>1, Sizes, LenProperties DEF TypeOK
    <2>3. UNCHANGED channels /\ t_pc = "streaming" /\ t_pc' = "streaming"
      BY <2>1 DEF CaptureTransfer, PlaybackTransfer, found
    <2>4. ChannelBytes(k)' = ChannelBytes(k)
      BY <2>3 DEF ChannelBytes
    <2>5. CASE CaptureTransfer(k)
      <3>1. PICK n \in 0..MaxBytes(k) :
               moved' = [channel |-> k, asked |-> MaxBytes(k), bytes |-> n,
                         frames |-> n \div RingFrameBytes]
        BY <2>5 DEF CaptureTransfer
      <3>2. n \in Nat /\ n <= MaxBytes(k)
        BY <2>2, <3>1
      <3>3. /\ (n \div RingFrameBytes) * RingFrameBytes <= n
            /\ n < (n \div RingFrameBytes) * RingFrameBytes + RingFrameBytes
        BY <3>2, Division
      <3>4. IsCapture(channels[k].endpoint_address)
        BY <2>5 DEF CaptureTransfer
      <3>5. BytesKept'
        BY <2>3, <3>1, <3>2, <3>3, <3>4 DEF BytesKept
      <3> QED BY <2>3, <3>5 DEF TransferInv
    <2>6. CASE PlaybackTransfer(k)
      <3>1. PICK fill \in 0..MaxFill :
               moved' = [channel |-> k, asked |-> MaxBytes(k),
                         bytes |-> Sent(k, Lesser(fill, MaxBytes(k) \div RingFrameBytes)),
                         frames |-> Lesser(fill, MaxBytes(k) \div RingFrameBytes)]
        BY <2>6 DEF PlaybackTransfer
      <3> DEFINE got == Lesser(fill, MaxBytes(k) \div RingFrameBytes)
                 room == MaxBytes(k) \div RingFrameBytes
                 bytes == Sent(k, got)
                 frame == ChannelBytes(k)
                 taken == got * RingFrameBytes
      <3>2. /\ room \in Nat /\ room * RingFrameBytes <= MaxBytes(k)
            /\ got \in Nat /\ got <= room /\ fill \in Nat
        <4>1. room \in Nat /\ room * RingFrameBytes <= MaxBytes(k)
          BY <2>2, Division
        <4> QED BY <2>2, <3>1, <4>1 DEF Lesser
      <3>3. taken \in Nat /\ taken <= MaxBytes(k)
        <4> HIDE DEF got, room
        <4>1. got * RingFrameBytes <= room * RingFrameBytes
          BY <3>2
        <4> QED BY <2>2, <3>2, <4>1
      <3>4. got * frame \in Nat
        <4> HIDE DEF got
        <4> QED BY <2>2, <3>2
      <3>5. bytes \in Nat /\ bytes <= MaxBytes(k)
            /\ (bytes = got * frame \/ bytes = MaxBytes(k))
            /\ bytes <= got * frame
        BY <2>2, <3>4 DEF Sent, Lesser
      <3>6. frame >= RingFrameBytes => taken <= bytes
        <4>1. frame >= RingFrameBytes => taken <= got * frame
          <5> HIDE DEF got
          <5> QED BY <2>2, <3>2
        <4> HIDE DEF taken, bytes
        <4> QED BY <3>3, <3>5, <4>1
      <3>7. frame = RingFrameBytes => taken = bytes
        <4>1. frame = RingFrameBytes => taken = got * frame
          OBVIOUS
        <4> HIDE DEF taken, bytes
        <4> QED BY <3>3, <3>4, <3>5, <3>6, <4>1
      <3>8. ~IsCapture(channels[k].endpoint_address)
        BY <2>6 DEF PlaybackTransfer
      <3>9. /\ moved'.channel = k /\ moved'.asked = MaxBytes(k)
            /\ moved'.bytes = bytes /\ moved'.frames = got
        BY <3>1
      <3>10. BytesKept'
        <4> HIDE DEF got, bytes, frame
        <4>1. moved'.frames * RingFrameBytes = taken
          BY <3>9
        <4> HIDE DEF taken
        <4>2. /\ moved'.bytes <= moved'.asked
              /\ ChannelBytes(k)' >= RingFrameBytes => taken <= moved'.bytes
              /\ ChannelBytes(k)' = RingFrameBytes => taken = moved'.bytes
          BY <2>4, <3>5, <3>6, <3>7, <3>9 DEF frame
        <4> QED BY <2>3, <3>8, <3>9, <4>1, <4>2 DEF BytesKept, IsCapture
      <3> QED BY <2>3, <3>10 DEF TransferInv
    <2> QED BY <2>1, <2>5, <2>6
  <1> QED
    BY <1>1, <1>2, <1>3
    DEF Next, Connect, NextSetting, StartEndpoint, ParseStep, EndParse, Claim,
        ClaimFails, vars, found, usb
-----------------------------------------------------------------------------
(* The theorems, of the usb-bridge thread and of the composition. *)

\* The invariant of the parse, the claims and the transfers, for every device.
THEOREM Invariant == Spec => []IInv
  <1>1. Init => IInv
    BY InitInv
  <1>2. IInv /\ [Next]_vars => IInv'
    BY ParserStep, LaidOutStep, DiscoverStep, TypeStep, ClaimStep, TransferStep DEF IInv
  <1> QED BY <1>1, <1>2, PTL DEF Spec

\* Every step of the composition is one of the usb-bridge thread or none of it.
THEOREM Side == StreamsSpec => Spec
  <1>1. StreamsInit => Init
    BY DEF StreamsInit
  <1>2. [StreamsNext]_<<vars, conversion>> => [Next]_vars
    BY DEF StreamsNext, UsbSide, AlsaSide
  <1> QED BY <1>1, <1>2, PTL DEF StreamsSpec, Spec

\* Whatever bytes a device's descriptors hold, the variables keep their types:
\* no interface is claimed that the device does not have.
THEOREM TypeCorrect == StreamsSpec => []TypeOK
  <1>1. IInv => TypeOK
    BY DEF IInv
  <1> QED BY <1>1, Invariant, Side, PTL

\* For every sequence of bytes, the parse takes the fields and the rates, at the
\* places the code gives them, of the first format type descriptor that lies in
\* them whole, or the default when there is none.
THEOREM FormatCorrect == StreamsSpec => []FirstFormatTaken
  <1>1. IInv => FirstFormatTaken
    BY DEF IInv, LaidOutInv, ResultInv, FirstFormatTaken
  <1> QED BY <1>1, Invariant, Side, PTL

\* A device gets a channel for each endpoint of its audio streaming settings,
\* as its descriptors have it, and no other, for every device.
THEOREM ChannelsCorrect == StreamsSpec => []ChannelsAsDescribed
  <1>1. IInv => ChannelsAsDescribed
    <2> SUFFICES ASSUME IInv, t_pc # "parsing"
                 PROVE  ChannelsAsDescribed
      BY DEF ChannelsAsDescribed
    <2>1. Passed = Endpoints(device)
      BY AllPassed
    <2> QED BY <2>1 DEF IInv, DiscoverInv, ChannelsAsDescribed
  <1> QED BY <1>1, Invariant, Side, PTL

\* The usb-bridge thread panics on a first format type descriptor of eleven bytes
\* that ends its setting's descriptors and, where the build checks for overflow,
\* on one of seven bytes whose subslot times eight is no byte; on nothing else,
\* in either build.
THEOREM PanicsCorrect == StreamsSpec => []PanicsExactly
  <1>1. IInv => PanicsExactly
    BY DEF IInv, LaidOutInv, ResultInv, PanicsExactly
  <1> QED BY <1>1, Invariant, Side, PTL

\* Without a choice of settings, what is streamed is streamed as described.
THEOREM SettingCorrect == StreamsSpec => []SingleSettingInForce
  <1>1. IInv => SingleSettingInForce
    <2> SUFFICES ASSUME IInv, t_pc = "streaming", OneSettingEach,
                        NEW k \in DOMAIN channels
                 PROVE  InForce(k)
      BY DEF SingleSettingInForce
    <2> DEFINE f == channels[k].interface_number
    <2>1. in_force[f] = FirstChannel(f).alt_setting
      BY DEF IInv, ClaimInv
    <2>2. PICK m \in DOMAIN channels :
             channels[m].interface_number = f /\ FirstChannel(f) = channels[m]
      BY FirstChannelOf DEF IInv
    <2>3. channels[k].alt_setting = channels[m].alt_setting
      BY <2>2 DEF OneSettingEach
    <2> QED BY <2>1, <2>2, <2>3 DEF InForce
  <1> QED BY <1>1, Invariant, Side, PTL

\* A transfer stays in its buffer and a frame of the ring's size is kept whole,
\* for every period, ring and device.
THEOREM BytesCorrect == StreamsSpec => []BytesKept
  <1>1. IInv => BytesKept
    BY DEF IInv, TransferInv
  <1> QED BY <1>1, Invariant, Side, PTL

\* The invariant of the conversions: no step of the usb-bridge thread is one.
THEOREM ConversionInvariant == StreamsSpec => []ConversionInv
  <1>1. StreamsInit => ConversionInv
    BY ConversionInitInv DEF StreamsInit
  <1>2. ConversionInv /\ [StreamsNext]_<<vars, conversion>> => ConversionInv'
    <2>1. [StreamsNext]_<<vars, conversion>> => [ConversionNext]_conversion
      BY DEF StreamsNext, UsbSide, AlsaSide
    <2> QED BY <2>1, ConversionStep
  <1> QED BY <1>1, <1>2, PTL DEF StreamsSpec

\* Whatever bytes come and at whatever volume, a sample is an i32 and what is
\* sent is a sample of the format it came in.
THEOREM ConversionTypeCorrect == StreamsSpec => []ConversionTypeOK
  <1>1. ConversionInv => ConversionTypeOK
    BY DEF ConversionInv
  <1> QED BY <1>1, ConversionInvariant, PTL

\* A sample of 16 or 32 bits comes back as it was, and a float clipped and moved
\* toward zero by less than a step, bytes of 256 values and every fraction of a
\* step included.
THEOREM RoundTripCorrect == StreamsSpec => []RoundTrip
  <1>1. ConversionInv => RoundTrip
    BY InvRoundTrip
  <1> QED BY <1>1, ConversionInvariant, PTL

\* Through both roundings of the mixer's floats the order of the samples, their
\* sign and unity are kept, and below unity no sample gets louder.
THEOREM ScaledCorrect == StreamsSpec => []ScaledInOrder
  <1>1. ConversionInv => ScaledInOrder
    BY InvScaledInOrder
  <1> QED BY <1>1, ConversionInvariant, PTL
=============================================================================
