------------------------------- MODULE Mixer -------------------------------
(***************************************************************************)
(* The mixer of src/mixer.rs: the mixer-sync thread copies the volume and  *)
(* the switch of every channel from the sound card's controls into atomics,*)
(* and the ALSA bridge loads a channel's two atomics, the mute first, each *)
(* time it moves a period of it.                                           *)
(*                                                                         *)
(* The controls are numbered in the order a pass of the sync reads them:   *)
(* the volume and then the mute of each capture channel, then of each      *)
(* playback channel.  A setting is the number of the change that made it;  *)
(* 0 is the default of ChannelMixerState, and the odd settings of a mute   *)
(* are the muted ones.                                                     *)
(***************************************************************************)
EXTENDS Integers, Functions

CONSTANTS
    NCapture,       \* capture channels configured
    NPlayback,      \* playback channels configured
    MaxTurns        \* bound: changes made to the controls

ASSUME ChannelsAssumption == NCapture \in Nat /\ NPlayback \in Nat
ASSUME MaxTurnsAssumption == MaxTurns \in Nat

VARIABLES
    card,           \* the controls of the sound card
    shutdown,       \* SHUTDOWN
    stored,         \* the atomics: volume and mute of each channel
    s_pc,           \* mixer-sync: where the thread stands
    s_k,            \* mixer-sync: the control its pass is at
    s_got,          \* mixer-sync: the value it has read and is to store
    b_pc,           \* alsa-bridge: where the thread stands
    b_c,            \* alsa-bridge: the channel its turn is at
    applied,        \* the setting each channel's last period was given
    seen,           \* history: card when the pass began; what is settled
                    \* already for a control the pass could not read
    settled,        \* history: seen of the last pass that was finished
    owed            \* history: settled when the channel's last period began

sync == <<s_pc, s_k, s_got>>
bridge == <<b_pc, b_c, applied, owed>>
past == <<seen, settled>>
vars == <<card, shutdown, stored, sync, bridge, past>>

Capture == 1..NCapture
Playback == (NCapture + 1)..(NCapture + NPlayback)
NChannels == NCapture + NPlayback
Volume(c) == 2 * c - 1
Mute(c) == 2 * c
NControls == 2 * NChannels
Controls == 1..NControls

Muted(setting) == setting % 2 = 1

Init ==
    /\ card = [k \in Controls |-> 0]
    /\ shutdown = FALSE
    /\ stored = [k \in Controls |-> 0]
    /\ s_pc = "sleeping" /\ s_k = 1 /\ s_got = 0
    /\ b_pc = "top" /\ b_c = 1
    /\ applied = [k \in Controls |-> 0]
    /\ seen = [k \in Controls |-> 0]
    /\ settled = seen
    /\ owed = seen
-----------------------------------------------------------------------------
TurnsLeft == FoldFunction(+, 0, card) < MaxTurns

\* Whoever has the card's mixer open moves a control.
TurnKnob(k) ==
    /\ TurnsLeft
    /\ card' = [card EXCEPT ![k] = @ + 1]
    /\ UNCHANGED <<shutdown, stored, sync, bridge, past>>

RequestShutdown ==
    /\ ~shutdown
    /\ shutdown' = TRUE
    /\ UNCHANGED <<card, stored, sync, bridge, past>>
-----------------------------------------------------------------------------
SyncExit ==
    /\ s_pc = "sleeping"
    /\ shutdown
    /\ s_pc' = "ended"
    /\ UNCHANGED <<card, shutdown, stored, s_k, s_got, bridge, past>>

\* An operator with an underscore in its name is a faulty variant of the
\* definition that follows it; the runs refute it.
StartPass_FromDefaults ==
    /\ s_pc = "sleeping"
    /\ ~shutdown
    /\ s_pc' = "reading" /\ s_k' = 1
    /\ seen' = card
    /\ stored' = [k \in Controls |-> 0]
    /\ UNCHANGED <<card, shutdown, s_got, bridge, settled>>

StartPass_FromSecond ==
    /\ s_pc = "sleeping"
    /\ ~shutdown
    /\ s_pc' = "reading" /\ s_k' = 2
    /\ seen' = card
    /\ UNCHANGED <<card, shutdown, stored, s_got, bridge, settled>>

\* A card whose name matches is found and its control interface opens.  A pass
\* that finds none does nothing: the thread sleeps on.
StartPass ==
    /\ s_pc = "sleeping"
    /\ ~shutdown
    /\ s_pc' = "reading" /\ s_k' = 1
    /\ seen' = card
    /\ UNCHANGED <<card, shutdown, stored, s_got, bridge, settled>>

Read ==
    /\ s_pc = "reading"
    /\ s_k \in Controls
    /\ s_got' = card[s_k]
    /\ s_pc' = "storing"
    /\ UNCHANGED <<card, shutdown, stored, s_k, bridge, past>>

\* elem_read fails, or the element has no such value: the atomic keeps what it
\* has and the pass goes on with the next control.
ReadFails ==
    /\ s_pc = "reading"
    /\ s_k \in Controls
    /\ s_k' = s_k + 1
    /\ seen' = [seen EXCEPT ![s_k] = settled[s_k]]
    /\ UNCHANGED <<card, shutdown, stored, s_pc, s_got, bridge, settled>>

Store_VolumeOnly ==
    /\ s_pc = "storing"
    /\ stored' = IF s_k % 2 = 1 THEN [stored EXCEPT ![s_k] = s_got] ELSE stored
    /\ s_pc' = "reading" /\ s_k' = s_k + 1 /\ s_got' = 0
    /\ UNCHANGED <<card, shutdown, bridge, past>>

Store ==
    /\ s_pc = "storing"
    /\ stored' = [stored EXCEPT ![s_k] = s_got]
    /\ s_pc' = "reading" /\ s_k' = s_k + 1 /\ s_got' = 0
    /\ UNCHANGED <<card, shutdown, bridge, past>>

EndPass ==
    /\ s_pc = "reading"
    /\ s_k > NControls
    /\ s_pc' = "sleeping" /\ s_k' = 1
    /\ settled' = seen
    /\ UNCHANGED <<card, shutdown, stored, s_got, bridge, seen>>
-----------------------------------------------------------------------------
TurnOn_OneMore ==
    IF b_c <= NChannels
    THEN b_pc' = "channel" /\ b_c' = b_c + 1
    ELSE b_pc' = "top" /\ b_c' = 1

\* The bridge's loop after the channel it is at.
TurnOn ==
    IF b_c < NChannels
    THEN b_pc' = "channel" /\ b_c' = b_c + 1
    ELSE b_pc' = "top" /\ b_c' = 1

BridgeTop ==
    /\ b_pc = "top"
    /\ b_pc' = IF shutdown THEN "ended"
               ELSE IF NChannels = 0 THEN "top" ELSE "channel"
    /\ UNCHANGED <<card, shutdown, stored, sync, b_c, applied, owed, past>>

\* The channel has no PCM or its ring is not running, or read returned no frame
\* and silence is written without the mixer.
SkipChannel ==
    /\ b_pc = "channel"
    /\ b_c \in Capture
    /\ TurnOn
    /\ UNCHANGED <<card, shutdown, stored, sync, applied, owed, past>>

\* read returned frames: a period is about to be given to the mixer.
StartPeriod ==
    /\ b_pc = "channel"
    /\ b_c \in Capture
    /\ b_pc' = "muting"
    /\ owed' = [owed EXCEPT ![Mute(b_c)] = settled[Mute(b_c)],
                            ![Volume(b_c)] = settled[Volume(b_c)]]
    /\ UNCHANGED <<card, shutdown, stored, sync, b_c, applied, past>>

\* apply_mixer: a muted period is filled with zeros and needs no volume.
LoadMute ==
    /\ b_pc = "muting"
    /\ applied' = [applied EXCEPT ![Mute(b_c)] = stored[Mute(b_c)]]
    /\ IF Muted(stored[Mute(b_c)])
       THEN TurnOn
       ELSE b_pc' = "scaling" /\ UNCHANGED b_c
    /\ UNCHANGED <<card, shutdown, stored, sync, owed, past>>

LoadVolume_TryLock ==
    /\ b_pc = "scaling"
    /\ applied' = IF s_pc = "sleeping"
                  THEN [applied EXCEPT ![Volume(b_c)] = stored[Volume(b_c)]]
                  ELSE applied
    /\ TurnOn
    /\ UNCHANGED <<card, shutdown, stored, sync, owed, past>>

LoadVolume ==
    /\ b_pc = "scaling"
    /\ applied' = [applied EXCEPT ![Volume(b_c)] = stored[Volume(b_c)]]
    /\ TurnOn
    /\ UNCHANGED <<card, shutdown, stored, sync, owed, past>>

\* A playback period goes from the PCM to the ring without the mixer: it is
\* played at the default settings whatever the atomics hold.
MovePlayback ==
    /\ b_pc = "channel"
    /\ b_c \in Playback
    /\ TurnOn
    /\ UNCHANGED <<card, shutdown, stored, sync, applied, owed, past>>
-----------------------------------------------------------------------------
SyncNext == SyncExit \/ StartPass \/ Read \/ ReadFails \/ Store \/ EndPass

BridgeNext ==
    BridgeTop \/ SkipChannel \/ StartPeriod \/ LoadMute \/ LoadVolume \/ MovePlayback

Next ==
    \/ \E k \in Controls : TurnKnob(k)
    \/ RequestShutdown
    \/ SyncNext
    \/ BridgeNext

Spec == Init /\ [][Next]_vars

\* Both threads run on.  The card is found in the end, each of its controls can
\* be read now and then, and each capture channel is sent audio now and then.
FairSpec ==
    /\ Spec
    /\ WF_vars(SyncNext)
    /\ WF_vars(BridgeNext)
    /\ \A k \in Controls : SF_vars(s_k = k /\ Read)
    /\ \A c \in Capture : SF_vars(b_c = c /\ StartPeriod)
-----------------------------------------------------------------------------
TypeOK ==
    /\ card \in [Controls -> Nat]
    /\ shutdown \in BOOLEAN
    /\ stored \in [Controls -> Nat]
    /\ s_pc \in {"sleeping", "reading", "storing", "ended"}
    /\ s_k \in 1..(NControls + 1)
    /\ s_pc = "storing" => s_k \in Controls
    /\ s_got \in Nat
    /\ b_pc \in {"top", "channel", "muting", "scaling", "ended"}
    /\ b_c \in Nat \ {0}
    /\ b_pc = "top" => b_c = 1
    /\ b_pc \in {"channel", "muting", "scaling"} => b_c \in 1..NChannels
    /\ b_pc \in {"muting", "scaling"} => b_c \in Capture
    /\ applied \in [Controls -> Nat]
    /\ seen \in [Controls -> Nat]
    /\ settled \in [Controls -> Nat]
    /\ owed \in [Controls -> Nat]

AtLeast(f, g, k) == f[k] >= g[k]

\* Once a pass of the sync is over, every period that begins later is given
\* settings at least as new as those the card had when that pass began: a pair
\* of settings torn by a pass in progress lives no longer than the pass.  A
\* muted period has no volume.
Fresh ==
    \A c \in Capture :
        ~(b_c = c /\ b_pc \in {"muting", "scaling"}) =>
            /\ AtLeast(applied, owed, Mute(c))
            /\ Muted(applied[Mute(c)]) \/ AtLeast(applied, owed, Volume(c))

\* The atomics run behind the card and ahead of the bridge and of what is
\* settled.
Chain ==
    \A k \in Controls :
        /\ AtLeast(card, stored, k) /\ AtLeast(stored, applied, k)
        /\ AtLeast(stored, settled, k) /\ AtLeast(settled, owed, k)
        /\ AtLeast(card, seen, k) /\ AtLeast(seen, settled, k)

\* A pass has brought the controls behind it up to where it began.
CaughtUp ==
    s_pc \in {"reading", "storing"} =>
        \A k \in Controls : k < s_k => AtLeast(stored, seen, k)

ReadInTime ==
    s_pc = "storing" =>
        stored[s_k] <= s_got /\ seen[s_k] <= s_got /\ s_got <= card[s_k]

PeriodBegun ==
    b_pc = "scaling" =>
        AtLeast(applied, owed, Mute(b_c)) /\ ~Muted(applied[Mute(b_c)])

IInv == TypeOK /\ Chain /\ CaughtUp /\ ReadInTime /\ PeriodBegun /\ Fresh

\* The controls a bridge's period is given.
Heard == 1..(2 * NCapture)

Promise ==
    INSTANCE DelayedControl
    WITH Knobs <- Heard,
         setting <- [k \in Heard |-> card[k]],
         used <- [k \in Heard |-> applied[k]]

\* However the two threads interleave, a capture channel is played with
\* settings its controls have had, and never goes back to an older one.
RefinesControl == Promise!ControlSpec

\* The channel's last period was given the settings the controls have now.
Obeys(c) ==
    /\ applied[Mute(c)] = card[Mute(c)]
    /\ Muted(card[Mute(c)]) \/ applied[Volume(c)] = card[Volume(c)]

\* The controls of a capture channel, once they are left alone, are obeyed.
CaptureObeyed == \A c \in Capture : <>[](shutdown \/ Obeys(c))

\* The same of the playback channels.
PlaybackObeyed == \A c \in Playback : <>[](shutdown \/ Obeys(c))
=============================================================================
