----------------------------- MODULE MixerProofs -----------------------------
(***************************************************************************)
(* The mixer keeps its promise for any number of channels and of changes.  *)
(***************************************************************************)
EXTENDS Mixer, TLAPS

USE ChannelsAssumption

\* The controls of two channels are different controls.
LEMMA ControlsApart ==
    ASSUME NEW c \in 1..NChannels
    PROVE  /\ Volume(c) \in Controls /\ Mute(c) \in Controls
           /\ \A d \in 1..NChannels : Volume(d) # Mute(c)
           /\ \A d \in 1..NChannels : d # c => Volume(d) # Volume(c) /\ Mute(d) # Mute(c)
  BY DEF NChannels, NControls, Controls, Volume, Mute

LEMMA ChannelKinds ==
    /\ NChannels \in Nat /\ NControls \in Nat
    /\ Capture \subseteq 1..NChannels /\ Playback \subseteq 1..NChannels
    /\ 1..NChannels \subseteq Capture \cup Playback
    /\ 1 \in 1..(NControls + 1)
    /\ \A k \in Controls : k \in Nat /\ k + 1 \in 1..(NControls + 1)
    /\ NChannels # 0 => 1 \in 1..NChannels
  BY DEF NChannels, NControls, Capture, Playback, Controls

-----------------------------------------------------------------------------
\* The loop of the bridge stays at a channel.
LEMMA TurnOnTyped ==
    ASSUME TypeOK, TurnOn, b_c \in 1..NChannels
    PROVE  /\ b_pc' \in {"top", "channel"}
           /\ b_c' \in Nat \ {0}
           /\ b_pc' = "channel" => b_c' \in 1..NChannels
           /\ b_pc' = "top" => b_c' = 1
  BY ChannelKinds DEF TurnOn, TypeOK

LEMMA TypeInit == Init => TypeOK
  <1> SUFFICES ASSUME Init
               PROVE  TypeOK
    OBVIOUS
  <1>1. shutdown \in BOOLEAN
    BY Zenon DEF Init
  <1>2. s_k \in 1..(NControls + 1)
    BY ChannelKinds DEF Init
  <1>3. /\ card \in [Controls -> Nat] /\ stored \in [Controls -> Nat]
        /\ seen \in [Controls -> Nat] /\ applied \in [Controls -> Nat]
    BY DEF Init
  <1>4. settled = seen /\ owed = seen
    BY DEF Init
  <1>5. s_pc = "sleeping" /\ b_pc = "top" /\ b_c = 1 /\ s_got = 0
    BY DEF Init
  <1> QED
    BY <1>1, <1>2, <1>3, <1>4, <1>5 DEF TypeOK

LEMMA TypeStep == TypeOK /\ [Next]_vars => TypeOK'
  <1> SUFFICES ASSUME TypeOK, [Next]_vars
               PROVE  TypeOK'
    OBVIOUS
  <1>1. ASSUME NEW k \in Controls, TurnKnob(k)
        PROVE  TypeOK'
    BY <1>1 DEF TurnKnob, TypeOK, sync, bridge, past
  <1>2. CASE RequestShutdown
    <2>1. shutdown' \in BOOLEAN
      BY <1>2, Zenon DEF RequestShutdown
    <2> QED BY <1>2, <2>1 DEF RequestShutdown, TypeOK, sync, bridge, past
  <1>3. CASE SyncExit
    BY <1>3 DEF SyncExit, TypeOK, bridge, past
  <1>4. CASE StartPass
    BY <1>4, ChannelKinds DEF StartPass, TypeOK, bridge
  <1>5. CASE Read
    BY <1>5 DEF Read, TypeOK, bridge, past
  <1>6. CASE ReadFails
    BY <1>6, ChannelKinds DEF ReadFails, TypeOK, bridge
  <1>7. CASE Store
    BY <1>7, ChannelKinds DEF Store, TypeOK, bridge, past
  <1>8. CASE EndPass
    BY <1>8, ChannelKinds DEF EndPass, TypeOK, bridge
  <1>9. CASE BridgeTop
    BY <1>9, ChannelKinds DEF BridgeTop, TypeOK, sync, past
  <1>10. CASE SkipChannel
    BY <1>10, ChannelKinds, TurnOnTyped DEF SkipChannel, TypeOK, sync, past
  <1>11. CASE StartPeriod
    BY <1>11, ChannelKinds DEF StartPeriod, TypeOK, sync, past
  <1>12. CASE LoadMute
    BY <1>12, ChannelKinds, ControlsApart, TurnOnTyped DEF LoadMute, TypeOK, sync, past
  <1>13. CASE LoadVolume
    BY <1>13, ChannelKinds, ControlsApart, TurnOnTyped DEF LoadVolume, TypeOK, sync, past
  <1>14. CASE MovePlayback
    BY <1>14, ChannelKinds, TurnOnTyped DEF MovePlayback, TypeOK, sync, past
  <1>15. CASE UNCHANGED vars
    BY <1>15 DEF vars, TypeOK, sync, bridge, past
  <1> QED
    BY <1>1, <1>2, <1>3, <1>4, <1>5, <1>6, <1>7, <1>8, <1>9, <1>10, <1>11,
       <1>12, <1>13, <1>14, <1>15 DEF Next, SyncNext, BridgeNext

\* Every variable keeps to its type.
THEOREM TypeCorrect == Spec => []TypeOK
  BY TypeInit, TypeStep, PTL DEF Spec
-----------------------------------------------------------------------------
\* The atomics stay between the card and what was applied.
LEMMA ChainStep == IInv /\ [Next]_vars => Chain'
  <1> SUFFICES ASSUME IInv, [Next]_vars
               PROVE  Chain'
    OBVIOUS
  <1> USE DEF Chain, AtLeast
  <1>0. TypeOK /\ Chain
    BY DEF IInv
  <1>1. ASSUME NEW k \in Controls, TurnKnob(k)
        PROVE  Chain'
    BY <1>0, <1>1 DEF TurnKnob, TypeOK, sync, bridge, past
  <1>2. CASE StartPass
    BY <1>0, <1>2 DEF StartPass, TypeOK, bridge
  <1>3. CASE Read
    BY <1>0, <1>3 DEF Read, bridge, past
  <1>4. CASE ReadFails
    BY <1>0, <1>4 DEF ReadFails, TypeOK, bridge
  <1>5. CASE Store
    <2>1. stored[s_k] <= s_got /\ s_got <= card[s_k] /\ s_k \in Controls
      BY <1>0, <1>5 DEF IInv, ReadInTime, Store, TypeOK
    <2> QED BY <1>0, <1>5, <2>1 DEF Store, TypeOK, bridge, past
  <1>6. CASE EndPass
    <2>1. \A k \in Controls : stored[k] >= seen[k]
      <3>1. \A k \in Controls : k < s_k
        BY <1>0, <1>6, ChannelKinds DEF EndPass, TypeOK, Controls
      <3> QED BY <1>6, <3>1 DEF IInv, CaughtUp, EndPass
    <2> QED BY <1>0, <1>6, <2>1 DEF EndPass, TypeOK, bridge
  <1>7. CASE StartPeriod
    <2>1. Mute(b_c) \in Controls /\ Volume(b_c) \in Controls
      BY <1>0, <1>7, ChannelKinds, ControlsApart DEF StartPeriod, TypeOK
    <2> QED BY <1>0, <1>7, <2>1 DEF StartPeriod, TypeOK, sync, past
  <1>8. CASE LoadMute
    <2>1. Mute(b_c) \in Controls
      BY <1>0, <1>8, ChannelKinds, ControlsApart DEF LoadMute, TypeOK
    <2> QED BY <1>0, <1>8, <2>1 DEF LoadMute, TypeOK, sync, past
  <1>9. CASE LoadVolume
    <2>1. Volume(b_c) \in Controls
      BY <1>0, <1>9, ChannelKinds, ControlsApart DEF LoadVolume, TypeOK
    <2> QED BY <1>0, <1>9, <2>1 DEF LoadVolume, TypeOK, sync, past
  <1>10. CASE UNCHANGED <<card, stored, applied, owed, past>>
    BY <1>0, <1>10 DEF past
  <1>11. SyncExit \/ RequestShutdown \/ BridgeTop \/ SkipChannel \/ MovePlayback
           \/ UNCHANGED vars => UNCHANGED <<card, stored, applied, owed, past>>
    BY DEF SyncExit, RequestShutdown, BridgeTop, SkipChannel, MovePlayback, vars,
       bridge, past
  <1> QED
    BY <1>1, <1>2, <1>3, <1>4, <1>5, <1>6, <1>7, <1>8, <1>9, <1>10, <1>11
    DEF Next, SyncNext, BridgeNext

\* What the pass has read or passed stays at least as new as its beginning.
LEMMA PassStep == IInv /\ [Next]_vars => CaughtUp' /\ ReadInTime'
  <1> SUFFICES ASSUME IInv, [Next]_vars
               PROVE  CaughtUp' /\ ReadInTime'
    OBVIOUS
  <1> USE DEF CaughtUp, ReadInTime, AtLeast
  <1>0. TypeOK /\ Chain /\ CaughtUp /\ ReadInTime
    BY DEF IInv
  <1>1. ASSUME NEW k \in Controls, TurnKnob(k)
        PROVE  CaughtUp' /\ ReadInTime'
    BY <1>0, <1>1 DEF TurnKnob, TypeOK, sync, bridge, past
  <1>2. CASE SyncExit
    BY <1>2 DEF SyncExit
  <1>3. CASE StartPass
    <2>1. \A k \in Controls : ~(k < 1)
      BY DEF Controls
    <2> QED BY <1>3, <2>1 DEF StartPass
  <1>4. CASE Read
    BY <1>0, <1>4 DEF Read, Chain, TypeOK, past
  <1>5. CASE ReadFails
    <2>1. \A k \in Controls : k < s_k + 1 => k < s_k \/ k = s_k
      BY <1>0, ChannelKinds DEF TypeOK, Controls
    <2> QED BY <1>0, <1>5, <2>1 DEF ReadFails, Chain, TypeOK
  <1>6. CASE Store
    <2>1. \A k \in Controls : k < s_k + 1 => k < s_k \/ k = s_k
      BY <1>0, ChannelKinds DEF TypeOK, Controls
    <2> QED BY <1>0, <1>6, <2>1 DEF Store, TypeOK, past
  <1>7. CASE EndPass
    BY <1>7 DEF EndPass
  <1>8. CASE UNCHANGED <<card, stored, sync, past>>
    BY <1>0, <1>8 DEF sync, past
  <1>9. BridgeNext \/ RequestShutdown \/ UNCHANGED vars
           => UNCHANGED <<card, stored, sync, past>>
    BY DEF BridgeNext, RequestShutdown, BridgeTop, SkipChannel, StartPeriod,
       LoadMute, LoadVolume, MovePlayback, vars
  <1> QED
    BY <1>1, <1>2, <1>3, <1>4, <1>5, <1>6, <1>7, <1>8, <1>9 DEF Next, SyncNext

\* What a channel's last period was given stays fresh.
LEMMA PeriodStep == IInv /\ [Next]_vars => PeriodBegun' /\ Fresh'
  <1> SUFFICES ASSUME IInv, [Next]_vars
               PROVE  PeriodBegun' /\ Fresh'
    OBVIOUS
  <1> USE DEF PeriodBegun, Fresh, AtLeast
  <1>0. TypeOK /\ Chain /\ PeriodBegun /\ Fresh
    BY DEF IInv
  <1>a. /\ \A c \in Capture : c \in 1..NChannels
        /\ \A c \in 1..NChannels : Mute(c) \in Controls /\ Volume(c) \in Controls
        /\ \A c, d \in 1..NChannels : Volume(d) # Mute(c)
        /\ \A c, d \in 1..NChannels :
              d # c => Volume(d) # Volume(c) /\ Mute(d) # Mute(c)
    BY ChannelKinds, ControlsApart
  <1>1. CASE BridgeTop
    BY <1>0, <1>1 DEF BridgeTop
  <1>2. CASE SkipChannel \/ MovePlayback
    <2>1. UNCHANGED <<applied, owed>> /\ b_pc = "channel" /\ b_pc' \in {"top", "channel"}
      BY <1>0, <1>2 DEF SkipChannel, MovePlayback, TurnOn
    <2> QED BY <1>0, <2>1
  <1>3. CASE StartPeriod
    <2>1. b_c \in Capture /\ b_pc = "channel" /\ b_pc' = "muting" /\ b_c' = b_c
          /\ applied' = applied
          /\ owed' = [owed EXCEPT ![Mute(b_c)] = settled[Mute(b_c)],
                                 ![Volume(b_c)] = settled[Volume(b_c)]]
      BY <1>3 DEF StartPeriod
    <2> QED BY <1>0, <1>a, <2>1 DEF TypeOK
  <1>4. CASE LoadMute
    <2>1. /\ b_c \in Capture /\ b_pc = "muting" /\ owed' = owed
          /\ applied' = [applied EXCEPT ![Mute(b_c)] = stored[Mute(b_c)]]
          /\ \/ Muted(stored[Mute(b_c)]) /\ b_pc' \in {"top", "channel"}
             \/ ~Muted(stored[Mute(b_c)]) /\ b_pc' = "scaling" /\ b_c' = b_c
      BY <1>0, <1>4 DEF LoadMute, TurnOn, TypeOK
    <2>2. stored[Mute(b_c)] >= owed[Mute(b_c)]
      BY <1>0, <1>a, <2>1 DEF Chain, TypeOK
    <2> QED BY <1>0, <1>a, <2>1, <2>2 DEF TypeOK
  <1>5. CASE LoadVolume
    <2>1. /\ b_c \in Capture /\ b_pc = "scaling" /\ owed' = owed
          /\ applied' = [applied EXCEPT ![Volume(b_c)] = stored[Volume(b_c)]]
          /\ b_pc' \in {"top", "channel"}
      BY <1>0, <1>5 DEF LoadVolume, TurnOn, TypeOK
    <2>2. stored[Volume(b_c)] >= owed[Volume(b_c)]
      BY <1>0, <1>a, <2>1 DEF Chain, TypeOK
    <2> QED BY <1>0, <1>a, <2>1, <2>2 DEF TypeOK
  <1>6. CASE UNCHANGED bridge
    BY <1>0, <1>6 DEF bridge
  <1>7. (\E k \in Controls : TurnKnob(k)) \/ SyncNext \/ RequestShutdown
           \/ UNCHANGED vars => UNCHANGED bridge
    BY DEF TurnKnob, SyncNext, SyncExit, StartPass, Read, ReadFails, Store,
       EndPass, RequestShutdown, vars
  <1> QED
    BY <1>1, <1>2, <1>3, <1>4, <1>5, <1>6, <1>7 DEF Next, BridgeNext

LEMMA InvInit == Init => IInv
  <1> SUFFICES ASSUME Init
               PROVE  IInv
    OBVIOUS
  <1>1. TypeOK
    BY TypeInit
  <1>2. Chain
    BY DEF Init, Chain, AtLeast
  <1>3. CaughtUp /\ ReadInTime /\ PeriodBegun
    BY DEF Init, CaughtUp, ReadInTime, PeriodBegun
  <1>4. Fresh
    BY ChannelKinds, ControlsApart DEF Init, Fresh, AtLeast
  <1> QED BY <1>1, <1>2, <1>3, <1>4 DEF IInv

\* The invariant is inductive.
THEOREM Invariant == Spec => []IInv
  <1>1. IInv /\ [Next]_vars => IInv'
    BY TypeStep, ChainStep, PassStep, PeriodStep DEF IInv
  <1> QED BY <1>1, InvInit, PTL DEF Spec

\* A period that begins once a pass of the sync is over is given settings at
\* least as new as the card's when that pass began.
THEOREM FreshCorrect == Spec => []Fresh
  <1>1. IInv => Fresh
    BY DEF IInv
  <1> QED BY <1>1, Invariant, PTL

-----------------------------------------------------------------------------
\* A capture channel's controls are those the bridge hears.
LEMMA HeardControls ==
    /\ Heard \subseteq Controls
    /\ \A c \in Capture : Mute(c) \in Heard /\ Volume(c) \in Heard
  BY DEF Heard, Controls, NControls, NChannels, Capture, Mute, Volume

\* The mixer implements DelayedControl: a capture channel is played with
\* settings its controls have had, and never goes back to an older one.
THEOREM Refinement == Spec => RefinesControl
  <1> DEFINE cards == [k \in Heard |-> card[k]]
             plays == [k \in Heard |-> applied[k]]
  <1>1. Init => Promise!ControlInit
    BY HeardControls DEF Init, Promise!ControlInit
  <1>2. IInv /\ [Next]_vars => [Promise!ControlNext]_(Promise!controlVars)
    <2> SUFFICES ASSUME IInv, [Next]_vars
                 PROVE  Promise!ControlNext \/ (cards' = cards /\ plays' = plays)
      BY DEF Promise!controlVars
    <2>0. TypeOK /\ Chain
      BY DEF IInv
    <2>1. ASSUME NEW k \in Controls, TurnKnob(k)
          PROVE  Promise!ControlNext \/ (cards' = cards /\ plays' = plays)
      <3>1. card' = [card EXCEPT ![k] = card[k] + 1] /\ applied' = applied
        BY <2>1 DEF TurnKnob, bridge
      <3>2. CASE k \in Heard
        <4>1. Promise!Turn(k)
          BY <2>0, <3>1, <3>2, HeardControls DEF Promise!Turn, TypeOK
        <4> QED BY <3>2, <4>1 DEF Promise!ControlNext
      <3>3. CASE k \notin Heard
        BY <2>0, <3>1, <3>3, HeardControls DEF TypeOK
      <3> QED BY <3>2, <3>3
    <2>2. ASSUME NEW k \in Heard, card' = card,
                 applied' = [applied EXCEPT ![k] = stored[k]]
          PROVE  Promise!ControlNext
      <3>1. stored[k] \in applied[k]..card[k]
        BY <2>0, HeardControls DEF Chain, AtLeast, TypeOK
      <3>2. Promise!Catch(k)
        <4>1. plays' = [plays EXCEPT ![k] = stored[k]] /\ cards' = cards
          BY <2>0, <2>2, HeardControls DEF TypeOK
        <4>2. stored[k] \in plays[k]..cards[k]
          BY <3>1
        <4> QED BY <4>1, <4>2 DEF Promise!Catch
      <3> QED BY <3>2 DEF Promise!ControlNext
    <2>3. CASE LoadMute
      <3>1. Mute(b_c) \in Heard
        BY <2>0, <2>3, HeardControls DEF LoadMute, TypeOK
      <3> QED BY <2>2, <2>3, <3>1 DEF LoadMute
    <2>4. CASE LoadVolume
      <3>1. Volume(b_c) \in Heard
        BY <2>0, <2>4, HeardControls DEF LoadVolume, TypeOK
      <3> QED BY <2>2, <2>4, <3>1 DEF LoadVolume
    <2>5. CASE UNCHANGED <<card, applied>>
      BY <2>5
    <2>6. RequestShutdown \/ SyncNext \/ BridgeTop \/ SkipChannel \/ StartPeriod
             \/ MovePlayback \/ UNCHANGED vars => UNCHANGED <<card, applied>>
      BY DEF RequestShutdown, SyncNext, SyncExit, StartPass, Read, ReadFails,
         Store, EndPass, BridgeTop, SkipChannel, StartPeriod, MovePlayback, vars,
         bridge
    <2> QED BY <2>1, <2>3, <2>4, <2>5, <2>6 DEF Next, BridgeNext
  <1> QED
    BY <1>1, <1>2, Invariant, PTL
    DEF Spec, RefinesControl, Promise!ControlSpec
=============================================================================
