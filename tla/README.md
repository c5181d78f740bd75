# A verification of rodecaster-vad

`rodecaster-vad` is a Linux daemon in Rust that makes the channels of a RODE audio
mixer, a USB device, appear as virtual ALSA devices. This directory holds TLA+ models
of it, the TLC configurations that check them on small instances, and proofs, checked
by TLAPS, that their safety properties hold for every value of the constants.

Paths such as `usb_bridge.rs:171` are under `src/src/`.

- [The system](#the-system)
- [The modules](#the-modules)
- [How the models correspond to the code](#how-the-models-correspond-to-the-code)
- [What the runs check](#what-the-runs-check)
- [Fairness](#fairness)
- [What is proved](#what-is-proved)
- [What the models found](#what-the-models-found)
- [What is not modelled, and why](#what-is-not-modelled-and-why)


## The system

```
   RODE device            rings in shared memory              ALSA PCMs
        |                 one per channel                          |
   usb-bridge  -- write -->  capture ring   -- read -->  alsa-bridge
   thread      <-- read ---  playback ring  <- write --  thread
        \                                                   |  \
         \                 mixer-sync thread -- volume, mute --  |
          \                                                     /
           +------ SHUTDOWN ------ main thread ---- SHUTDOWN --+
                                    ^
                                    signal handler
```

| component | state it keeps | operations | what makes it correct |
|---|---|---|---|
| Ring buffer (`ring_buffer.rs`) | a header (two indices, flags, `magic`) and the data ring, in shared memory | `write` by one thread, `read` by one other, `available_frames`, `fill_ratio`, `reset`, `is_running`, `set_running` | first in, first out; nothing torn, repeated or lost in the middle; no slot touched by both sides at once; what is published gets read |
| Ring buffer set (`ring_buffer.rs`) | the rings of all channels | `new`, `set_all_running`, `stop_all` | a ring is marked running exactly while somebody serves it |
| USB bridge (`usb_bridge.rs`) | the open handle, which interfaces it took from the kernel and claimed | scan, open, parse, detach and claim, stream, release, the idle loop | streams only on interfaces it holds; gives them back; finds a device that is plugged in; keeps rings moving without one |
| ALSA bridge (`alsa_bridge.rs`) | the open PCMs | open, the transfer pass, stop, drain | every period moves from ring to PCM and from PCM to ring; a failure ends the daemon in an orderly way |
| Daemon life cycle (`main.rs`, `signal_handler.rs`) | `SHUTDOWN`, the thread handles | spawn, wait and pet the watchdog, join; the handler of SIGTERM, SIGINT and SIGQUIT | a shutdown reaches every thread and the process ends; nothing is left running |
| Descriptor parser (`usb_descriptor.rs`) | none | `parse_audio_topology` and its helpers | the endpoints, formats and interfaces the device declares, for every descriptor |
| Mixer (`mixer.rs`) | volume and mute per channel, atomics | the sync thread's poll of the ALSA controls, `apply_mixer` in the ALSA bridge | each channel is played with settings its controls have had, never an older one than before, and with the present ones in the end |
| Shared memory regions (`shm.rs`) | named POSIX objects | `create` (or open what is there), `open`, drop, which unlinks | two daemons never write one region; a restart after a crash starts clean |
| Double ring (`ring_buffer.rs`) | two rings and the flag that says which is active | `write_active`, `read_inactive`, `swap`, `reset` | nothing published is lost in a swap. No code uses it |
| Conversions (`audio_format.rs`) | none | bytes to samples and back | samples survive the round trip, and scaling does not wrap |
| Drift monitor (`drift.rs`) | counters of each stream | `check` | classifies fill levels. No code uses it |
| Configuration (`config.rs`, `channel_map.rs`) | the settings, read once | `load_config` | - |
| Packaging (`rodecaster-vad.service`, scripts) | - | - | the watchdog period fits the main loop |

### How the parts interact

`main` creates the rings, spawns three threads (mixer-sync, alsa-bridge, usb-bridge),
waits for `SHUTDOWN`, and joins the two bridges. The bridges share nothing but the
rings and `SHUTDOWN`: each ring has one writing and one reading bridge. Both mark all
rings running when they are ready and stop them all when they end. Each polls
`SHUTDOWN` at the top of its loop; the USB bridge looks again in its idle loop. The
signal handler and a fatal error of a bridge set `SHUTDOWN`.

### What is hard

- The rings have no lock. A call of `write` or `read` is several accesses to shared
  memory, and the other side may act between any two of them.
- The running flags have two owners. `is_running` is read before a transfer of up to
  50 ms and used after it.
- The device comes and goes between any two calls of libusb, and what a handle means
  changes when it does: a handle to a device that was taken away stays open and fails,
  and the one connected next has claims and drivers of its own.
- Connecting is a sequence of steps per interface, each of which may fail after the
  earlier ones have taken effect.
- ALSA calls block, and `main` joins without a limit.
- The mixer's settings are copied control by control by one thread and loaded one by one
  by another, while somebody moves the controls.
- What a device says of itself is bytes: lengths, counts and fields that may be missing
  or wrong, in a loop that goes on by them.
- Crashes: the regions are named and outlive the process.
- Signals arrive on any thread, at any instruction, and the handler logs.

`PROJECT.json` lists each of these at its line, with the properties that cover it.


## The modules

| module | what it is |
|---|---|
| `AudioQueue` | abstract: what a ring promises, a bounded queue with one producer and one consumer |
| `RingBuffer` | `RingBuffer::write`, `read` and `reset`, split at each access to shared memory; implements `AudioQueue` |
| `RingSet` | what the threads share: `SHUTDOWN`, and for each ring its running flag and the number of frames in it |
| `UsbBridge` | the usb-bridge thread and the device it talks to |
| `AlsaBridge` | the alsa-bridge thread |
| `Daemon` | `main`, the signal handler and both bridges, interleaved |
| `SharedMemory` | the regions of the rings, made, found again, dropped and left behind by several runs of the daemon |
| `DelayedControl` | abstract: what the mixer promises, controls that are obeyed with a delay and never backwards |
| `Mixer` | the mixer-sync thread and the ALSA bridge's loads, a step per atomic; implements `DelayedControl` |
| `FormatDescriptor` | `parse_format_descriptor`, and a reading of the same bytes without its loop as a reference |
| `Topology` | `parse_audio_topology`, the claims and settings of `connect_rode_device`, the buffers of `run_streaming` |
| `Samples` | `bytes_to_i32`, `i32_to_bytes` and the scaling of `apply_mixer`, on one sample |
| `Streams` | `Topology` and `Samples` side by side |
| `MCStreams` | devices and settings for the model checker |
| `RingBufferProofs` | the ring's inductive invariant and the safety theorems that follow from it |
| `RingBufferRefinement` | the proof that the ring implements the queue |
| `DaemonProofs` | the daemon's inductive invariant and its safety theorems |
| `SharedMemoryProofs` | the regions' inductive invariant and the safety theorems that follow from it |
| `MixerProofs` | the mixer's inductive invariant, its safety theorems and the refinement |
| `DescriptorProofs` | the loop of `parse_format_descriptor` agrees with that reading at each step |
| `SamplesProofs` | rounding, bytes and scaling, and the invariant of the conversions |
| `StreamsProofs` | the invariant of parse, claims and transfers, and the safety theorems of both sides of `Streams` |

`Daemon` extends `UsbBridge` and `AlsaBridge`, which extend `RingSet`. A bridge module
says what its thread does; `Daemon` says when it may, and what is left unchanged.
`RingBuffer` and `Daemon` are two levels: the first shows, at each memory access, that
a ring is a bounded queue; the second takes the calls as single puts and takes and
looks at what the threads do around them. `Daemon` abstracts one thing more, the
contents: of a queue it keeps the length. `SharedMemory` stands beside them: it is about
what surrounds `Daemon`, from before the threads start to after they are joined.

`Mixer` is about the two threads that meet at the atomics, and of the daemon needs only
`SHUTDOWN`. `Topology` looks inside what `UsbBridge` takes as one step or as a choice: the
parse, which of a device's settings is set, which ring an endpoint gets, how many bytes
go where.

The modules are instantiated by the `.cfg` files directly where each constant is a
number or a small set of numbers; devices are built in `MCStreams`.

An operator with an underscore in its name (`Slot_WrapOffByOne`, `IdleTop_NoStop`) is a
faulty variant of the definition that follows it: the kind of slip that could be made
in that code. Nothing uses these operators. Each shows that a property can fail:
with it in place of the right definition, the run that checks the property finds it
violated.


## How the models correspond to the code

### RingBuffer

One producer thread and one consumer thread on one ring. The names of the variables are
those of the code's fields and locals, with `p_` and `c_` for the side they belong to.

| action | code |
|---|---|
| `WriteCall(count)` | `write` up to its load of `write_index` |
| `WriteReserve` | the load of `read_index`, and how many frames fit; an early return when none do |
| `WriteCopy` | one frame of the two `copy_nonoverlapping` |
| `WritePublish` | the store of `write_index` and the return |
| `ReadCall(max)`, `ReadReserve`, `ReadCopy`, `ReadPublish` | the same four parts of `read` |
| `Reset` | `reset`, whose callers own both sides |

Each index is stored by one thread only, with Release, and loaded with Acquire by the
other. For such variables an interleaving of the accesses shows every outcome: a load
may return an older value, which is an interleaving in which the load came earlier, and
what was copied before a Release store is there for whoever sees that store. The one
thing that reasoning needs is that the plain copies never overlap, and that is
`NoSlotShared`, checked and proved.

A frame is its number in the order frames are offered, so a lost, repeated, torn or
reordered frame shows as a wrong number. `offered`, `log` and `delivered` are history;
no guard other than the bound `MaxOffered` looks at them.

`Used` keeps both branches of the code's subtraction, and `IndicesOrdered` shows that
the second, which would underflow, is never taken. Indices are mathematical integers:
64 bits of frames at 48 kHz last twelve million years.

### AudioQueue

A put and a take each have a start and an end. The promise is weaker than a queue with
atomic operations, and has to be: how many frames a `write` accepts is decided by the
room there was when it looked, though the reader may have made more since, and a `read`
gets what it saw, though more may have come. What is promised is that an accepted batch
becomes visible at once, that a take gets exactly the oldest frames, and that a write is
refused whole only when the queue is full.

### RingSet

`fill[r]` is the length of ring `r`'s queue. `Put` keeps as many frames as fit and drops
the rest, `Take` removes as many as there are, like `write` and `read`. The rings are
numbered in the order `set_all_running` and `stop_all` visit them, one flag per step.

### UsbBridge

`u_pc` is where the thread stands, `u_i` the ring or interface its loop is at.

| action | code |
|---|---|
| `UsbSetRunning`, `UsbTop`, `UsbStop` | `run_usb_bridge`: `set_all_running`, the head of the loop, `stop_all` |
| `OpenDevice`, `ParseTopology`, `DetachDriver`, `ClaimIface`, `SetAltSetting` | `connect_rode_device` and `detach_and_claim`, a step for each call of libusb |
| `ConnectFails` | any error on the way, and "no device": the handle is dropped, which gives up the claims; nothing attaches the drivers again |
| `ParsePanics` | the index out of range and the overflow in `parse_format_descriptor` (`usb_descriptor.rs:228`, `:205`) |
| `StreamTop`, `CheckRing`, `CaptureTransfer`, `PlaybackTransfer` | `run_streaming`: the head of its loop, the `is_running` check, the transfer |
| `ReleaseIface` | the cleanup, an interface at a time |
| `IdleTop`, `IdleFeed`, `PollAgain`, `PollOver` | the idle loop: shutdown check, one ring, another round, the two seconds are over |
| `Plug`, `Unplug` | the device |

The device is external. `plugs` numbers the devices connected so far, `handle` is the
number of the one the open handle belongs to, and a call reaches the device only while
that one is connected (`Reachable`). `kernel` and `claimed` are the interfaces of the
present device that have a kernel driver, and that the daemon has claimed: a newly
connected device has drivers on all of them and no claims, and closing a handle gives up
its claims. An error of `kernel_driver_active` counts as no driver (`usb_bridge.rs:55`), so
`DetachDriver` may leave one that is there; the claim is then refused. One device is connected at a time. Releasing a claimed interface of a
reachable device, and attaching its driver again, are taken to succeed; each other call
may fail.

A transfer moves up to `DevFrames` frames of the ring, which may be more or fewer than a
period: the size of a transfer comes from the device's format, the ring has its own, and
the code does not relate them. A capture ring may receive any number of frames up to
that, none being a timeout or an error; from a playback ring the frames are taken before
the transfer, and are gone whatever comes of it.

### AlsaBridge

| action | code |
|---|---|
| `OpenPcm` | one turn of the two open loops: the PCM opens, or is skipped with a warning |
| `OpenFails` | `apply_sw_params` or `start` fails, which ends the function with `?` |
| `ReportFailure` | the closure in `main.rs` that sets `SHUTDOWN` on an error |
| `AlsaSetRunning`, `AlsaTop`, `AlsaStop` | `set_all_running`, the head of the loop, `stop_all` |
| `CheckPcm`, `WritePcm`, `ReadPcm` | the `is_running` check and the transfer of each PCM |
| `DrainPcm`, `DrainSkip` | the drains at the end |

ALSA is external: a call on a PCM returns with anything it may return, or does not
return. The calls that can wait are kept apart (`PcmCall`) because the fairness of a
specification says whether they do.

### Daemon

`SpawnAlsa`, `SpawnUsb` and `SpawnFails` start the threads, in the order of `main`;
`SeeShutdown` is the end of the wait loop; `JoinAlsa` and `JoinUsb` the joins. `Signal`
is the handler's store. When `main` returns the process ends with every thread that is
left (`Alive`). A thread that panics is over, and `join` returns for it as for any other.


### SharedMemory

A sequence of runs of the daemon, each with its own configuration, over the named
objects they share. A name leads to an object or to none (`dir`); an object outlives its
name as long as it is mapped, and a process that dies leaves both. `Unlink` frees an object
that nothing maps any more (`FreeObject`): its size and header become those of an object never made,
which nobody can see, and which keeps the state space small.

| action | code |
|---|---|
| `Start` | `main` up to `RingBufferSet::new`; the configuration gives `total_frames` |
| `CreateNew`, `CreateRefused`, `OpenOld` | the two `shm_open` of `ShmRegion::create`: exclusive, and when that fails for any reason, of what is there |
| `SetSize`, `Map` | `ftruncate` and `mmap` |
| `WriteHeader` | the header `RingBuffer::create` writes, and the next turn of `RingBufferSet::new` |
| `CreateFails` | an error of a system call, with `?` out of `new` |
| `Serve` | what the bridges do to a header |
| `Exit`, `Unmap`, `Unlink`, `End` | the drop of the rings, at the end of `main` or after an error |
| `Crash` | the process ends and drops nothing |

A crash may come between any two of them. It stands also for a `main` that returns
because it cannot spawn the USB bridge, while the ALSA bridge has its reference to the
rings: the process ends and nothing drops them.
`Spec` has one daemon at a time, as `rodecaster-vad.service` starts them
(`Restart=always`); `OverlapSpec` lets a second be started by hand, which nothing
prevents. Of a header the model keeps the number of frames, whether the indices differ,
and the running flag; of the data, how much room there is.

### Mixer

The controls of all channels are one sequence, in the order a pass of the sync reads
them: `Volume(c)`, `Mute(c)` of each capture channel and then of each playback channel.
A setting is the number of the change that made it, so an older one is a smaller one.

| action | code |
|---|---|
| `TurnKnob` | whoever has the card's controls open moves one |
| `StartPass`, `EndPass`, `SyncExit` | the head of `run_mixer_sync`'s loop and `sync_mixer_from_alsa` around its two loops |
| `Read`, `ReadFails` | `elem_read` of one control, and its value |
| `Store` | the store of the atomic |
| `BridgeTop`, `SkipChannel`, `MovePlayback` | the ALSA bridge's pass, as far as it does not ask the mixer |
| `StartPeriod`, `LoadMute`, `LoadVolume` | a capture period with frames: `apply_mixer`, a step per load |

`seen`, `settled` and `owed` are history: the card when the pass in progress began, when
the last finished one did, and when that was so for a channel's last period. A read that
fails leaves what was settled before. The mapping to `DelayedControl` hides everything
but the card and what was applied.

### FormatDescriptor and Topology

`p_pc`, `pos` and `data_pos` are where the parse stands in `extra`; `t_pc`, `s_i` and
`e_i` the setting and the endpoint the parse of the device is at. A field is a byte and a
sample rate its four bytes.

| action | code |
|---|---|
| `NextSetting`, `StartEndpoint`, `FindChannel` | the loops of `parse_audio_topology`, and the push of a channel |
| `EndWalk`, `PassDescriptor`, `TakeFormat` | the `while` of `parse_format_descriptor`, a descriptor per step |
| `OverflowPanics` | `subslot_size * 8`, a product of two `u8`, in a build that checks for overflow |
| `TakeRate`, `EndRates`, `FixedRate` | the rate list, a rate per step, the single fixed rate and the fallback |
| `EndParse` | the test for no channels, and the set of interfaces to claim |
| `Claim`, `ClaimFails`, `StartStreaming` | one turn of the loop over that set, its errors, its end |
| `CaptureTransfer`, `PlaybackTransfer` | the sizes of a transfer, and the ring it is for |

An index past the end of `extra` is a panic (`p_pc = "panicked"`), and the thread is over.
The rest of the rate loop, when a rate no longer fits, does nothing, so `RateFits` ends
it. `OverflowChecks` is the build: `cargo build` and `cargo run`, which `README.md` of the
repository names, check for overflow and panic; a release build wraps. `FormatIn` is the
reference for the walk: it cuts the bytes into descriptors, takes the first
format type descriptor and reads each field at its place, without a loop or a position.
The places are the code's own; whether they are those of USB Audio 2.0 is another
property, `FormatAsUac2`.
`Sent` is the number of bytes that go to the device; the ring's frame and the device's
are two constants, as they are two numbers in the code.

### Samples

A sample goes through these functions by itself, so one is enough: `Decode` is
`bytes_to_i32`, `ApplyMixer` what `apply_mixer` makes of it, `Encode` is `i32_to_bytes`.
The arithmetic is the code's at a smaller scale: a byte has `Base` values, so an `i32` has
`Base^4` and an `f32` a significand of `Base^3` (256 gives the 24 bits it has). `Nearest`
is the rounding of an `f32` to even: the `Exponent` is the least with which the number
fits the significand, and `Rounded` takes it to a multiple of two to that power; `ToI32` the cast that saturates; `Quotient` the
division that truncates and `\div` the shift that does not. The code's factor
`2147483647.0` is one less than `Half`, which in an `f32` is `Half`, so a float times the
factor is a number of steps of `1/Half` that need not be whole: a fraction, whose
denominator is one of `Denominators`. The cast truncates it, and makes 0 of `NaN`. Floats
out to twice full scale are enough, because the code clips at full scale, and zero has one
sign, because the cast takes the other away.


## What the runs check

| run | module and configuration | states | question |
|---|---|---|---|
| `ring` | `RingBuffer`, `ring.cfg` | 83,990 | do `write` and `read`, access by access, keep their promise? |
| `daemon` | `Daemon`, `daemon.cfg` | 348,705 | do the flags, claims and drivers stay consistent in every order of events, and does what must happen happen? |
| `shm` | `SharedMemory`, `shm.cfg` | 269,142 | does a daemon start clean, whatever the last one left, and leave nothing itself? |
| `mixer` | `Mixer`, `mixer.cfg` | 34,331 | do the controls reach their channels, with two threads in between? |
| `streams` | `MCStreams`, `streams.cfg` | 43,169 | is a device streamed as its descriptors say, and a sample kept? |
| `replug` | `Daemon`, `replug.cfg` | - | is a device streamed to after another was taken away? It is not |
| `join` | `Daemon`, `join.cfg` | - | is main's wait for the bridges bounded? It is not |
| `shm_unlink` | `SharedMemory`, `shm_unlink.cfg` | - | does only a region's creator unlink it? It does not |
| `mixer_playback` | `Mixer`, `mixer_playback.cfg` | - | do a playback channel's controls reach it? They do not |
| `alt_setting` | `MCStreams`, `alt_setting.cfg` | - | is each channel streamed in its own setting? It is not |
| `uac2` | `MCStreams`, `uac2.cfg` | - | is the format that of USB Audio 2.0? It is not |
| `s24` | `MCStreams`, `s24.cfg` | - | does a 24-bit sample come back from an `i32`? It does not |

### ring

- `IndicesOrdered`: the reader never overtakes the writer, the writer never laps the
  reader, though each decides by a value of the other's index that may be old.
- `NoSlotShared`: while both copy, no slot is in both copies.
- `DeliveredInOrder`: what was read is what was published, frame for frame.
- `RefinesQueue`: the ring implements `AudioQueue`.
- `PublishedIsRead`: every published frame is read in the end.
- `IInv`: the inductive invariant of the proofs.

Bounds: four slots, of which three are used, with batches of one to three frames and
buffers that are smaller than, and larger than, what is there. `FrameBytes` is 2 with
odd lengths among the slices, so trailing partial frames occur and, for `ReadLens`, a
buffer shorter than a frame. Eight frames are offered, so the indices go round the ring
twice and copies that wrap occur on both sides, at each offset, with the ring empty,
partly filled and full. The proofs cover every size.

### daemon

- `StoppedAtEnd`: when both bridges are over, no ring is marked running, although either
  may mark them all after the other stopped them, and the ALSA bridge that fails stops
  none. The exception is a panic of one bridge with an abort of the other, where neither
  `stop_all` runs.
- `StaleOnlyInShutdown`: a bridge that moves frames on a ring found it running, and only
  a shutdown can have stopped it since.
- `StopsOnlyInShutdown`: a running ring is stopped only in a shutdown; no lost device
  and no failed connection silences a channel.
- `StreamsOnClaimed`: while the bridge streams to a device that is there, it holds all
  its interfaces and no kernel driver does.
- `DriversRestored`: after the cleanup, a device that is connected, the one streamed to
  or another, has the kernel driver of every interface back.
- `ShutdownExits`: a signal, or a fatal error of the ALSA bridge, ends the process.
- `FirstDeviceStreams`: the first device connected is found and streamed to, if
  connecting to a device that is there fails only finitely often (`DeviceWorks`).
- `RingsDrain`: a ring that is full gets room again: a capture ring whose PCM was opened
  and a playback ring the device serves. It needs `DevFrames > 0`, and calls on PCMs that
  return: that one stalled PCM holds up every channel it cannot show.
- `IInv`: the inductive invariant of the proofs.

Bounds: two capture rings and one playback ring, so a loop over rings has a first, a
middle and a last turn, one of the capture rings is beyond what the device serves, and
both directions occur. Two interfaces, so a connection can fail between them. The device
is plugged in twice, which gives a handle to a device that is gone while another is
there. Rings of two frames, periods of one and transfers of two: empty, part-filled and
full rings, partial and overflowing puts.

### shm

- `FreshStart`: a daemon starts to serve with empty, stopped rings, although a daemon
  before it may have died with frames in them and the running flag set.
- `MappingBacked`: each frame of a ring in use has room in its object, which may have
  been made for a larger or a smaller configuration. An access beyond it is a SIGBUS.
- `RegionsDistinct`: two rings of a daemon are two regions, although a capture and a
  playback channel may have the same `alsa_id`.
- `FoundByName`: who opens the name of a ring in use gets the region the daemon uses,
  and finds the right number of frames in its header.
- `NothingLeft`: a daemon that ends in order leaves no name, not even one it found, and one
  whose start fails part way leaves none of the rings it had made.
- `IInv`: the inductive invariant of the proofs.

Bounds: four runs, so that a region made by one and taken over by a second, which dies
too, is taken over by a third, and what that one leaves is found by another; three sizes,
so that a region found is grown, cut or left, and each again;
one ring each way with the same id, so that making the regions can stop between them.
The run ends when all four daemons are over, so deadlock is not checked.

### mixer

- `Fresh`: volume and mute are stored one after the other and loaded in the other order,
  so a period may get a new one with an old one; but only while the pass that stores them
  lasts. A period that begins after a pass has ended gets nothing older than what the
  card had when that pass began.
- `RefinesControl`: a channel is played with settings its controls have had, and never
  goes back to an older one.
- `CaptureObeyed`: a control that is left alone is obeyed in the end.
- `IInv`: the inductive invariant of the proofs.

Bounds: a channel each way, so a pass has a first and a last channel, four controls and
both directions; two changes, so that a control changes between read and store, between
the two loads, and twice. The daemon may end: deadlock is not checked.

### streams

- `FirstFormatTaken`: the walk takes the first format type descriptor, whatever is before
  or after it, all whole rates of its list, and the defaults of the fields it lacks. It
  says nothing of the two kinds of descriptor that panic in some build.
- `PanicsExactly`: the thread panics on a format type descriptor of eleven bytes which is
  the last (of one that is not, the fourth byte of the rate is the next descriptor's
  first), in a build with overflow checks on one of seven bytes with a subslot of more
  than 31, and on nothing else.
- `ChannelsAsDescribed`: a channel for each endpoint of each streaming setting, each with
  its own setting's format, and no channel of anything else.
- `SingleSettingInForce`: without a choice of settings on an interface, every channel is
  streamed in the setting its format was read from. With one, see `alt_setting`.
- `BytesKept`: a transfer stays in its buffer; nothing taken from a ring is cut off when
  the device's frame is the ring's or wider. When it is narrower, the code cuts: it
  sends as many bytes as the frames would have in the device's format, and they have more.
- `RoundTrip`: a sample of 16 or 32 bits that is decoded and encoded again is itself; a
  float comes back as the step of an `i32` next to it towards zero, or clipped, and NaN as
  silence. For 24 bits see `s24`.
- `ScaledInOrder`: mute silences, unity keeps the sample, and no volume swaps two samples
  or a sign, up to the boost that clips.
- `Settles`: the walk ends whatever the lengths in the bytes are, and so does the
  connection.

Bounds: every sequence of up to two of fifteen fragments, and of three that begin with a
general descriptor, as the bytes of a device: format type descriptors of every length at
which the code does something different, other descriptors, and bytes that are none.
Devices with several settings, endpoints and interfaces, with more endpoints than rings
(two each way), and without any. `PeriodFrames` of 2 and a ring frame of 8 bytes, with
device frames below, at and above it. `Base` of 4 gives every sample of the integer formats (256
values of an `i32`), floats on the steps, with halves and quarters between them, and NaN,
where the proofs have bytes of 256 values and any denominators too; the percentages reach below, to, and above the range of a
volume. The conversions are explored beside a device without channels only: the two
sides share nothing but the rings, and would multiply for no more to see. `streams` has the
build with overflow checks; the theorems are about both.

### The runs that expect a violation

Each checks what a comment of the source says of the program and is violated. `replug`,
`join` and `mixer_playback` are about what happens in the end, under a specification
with the fairness below; the others are safety properties, `shm_unlink`'s of
`OverlapSpec`. See
[What the models found](#what-the-models-found).


## Fairness

`FairSpec` of `RingBuffer`: a call once begun runs to its end, and the consumer keeps
calling `read`. Both bridges loop as long as the daemon runs. The producer need not call
`write`: a device may be silent.

`Scheduling` of `Daemon`: the main thread and both bridges are scheduled (weak fairness
of what each can do). No call of libusb waits longer than its 50 ms, so a step of the
USB bridge always comes. `PollOver` has strong fairness: the idle loop compares a clock
with two seconds, and the clock goes on, so the loop cannot go round for ever although
another round is always possible. Signals, the device and failures have no fairness: they
may never come.

`PcmsReturn` adds that each call on a PCM returns. The PCMs are opened in blocking mode
and the code gives no limit, so this is an assumption about ALSA: `FairSpec` has it,
`BlockingSpec` does not. `ShutdownExits` and `RingsDrain` need it: without it `main` may wait for ever,
which is the run `join`.

`FairSpec` of `Mixer`: both threads are scheduled. The rest is about what they meet:
`Read` and `StartPeriod` have strong fairness, for each control and each capture channel,
since a control that can never be read, and a channel that is never sent audio, have no
setting to obey. The polling loop and the bridge's loop try both again in each pass.
Nobody has to move a control, and no shutdown has to come.

`StreamsSpec`: the connection is a straight line of one thread's code, so it has weak
fairness. Transfers and conversions need none.


## What is proved

`tlapm` checks `RingBufferProofs`, `RingBufferRefinement`, `DaemonProofs`,
`SharedMemoryProofs`, `MixerProofs`, `DescriptorProofs`, `SamplesProofs` and
`StreamsProofs` to the last leaf. The theorems hold for every value of the
constants that satisfies the assumptions in the modules that declare them: a ring has at
least one slot and a frame at least one byte, lengths are natural numbers, a period and
their number are positive, a device has at least one interface, a configuration has at
least one frame, a device is a sequence of settings whose fields are bytes, a build
checks for overflow or does not, a byte of a sample has 4, 8, 16 or 256 values, and a
denominator is a positive number. There is no other assumption. Every safety invariant and
every action property that a passing run checks is proved; `MaxOffered`, `MaxPlugs`, `MaxTurns`, `MaxFill` and `NDaemons` are any
natural number (the last not zero), so they bound nothing in the proofs.

### The ring

`Invariance` is `Spec => []IInv`, and from it `TypeCorrect`, `Ordered`, `FirstInFirstOut`
and `NoDataRace`. `IndicesOrdered` and `DeliveredInOrder` are not inductive: they say
nothing of a call in progress. `IInv` adds

- `ProducerInv`: a `write` in progress has the current `write_index`, and what it
  reserved fits before `read_index + BufferFrames - 1`, which stays true as the
  consumer only moves `read_index` up;
- `ConsumerInv`: a `read` in progress has a `write_index` that may be old and is never
  too new, and promises no more than lies below it;
- `UnreadIntact`: the slots between the indices hold the published frames;
- `ReservedFilled`: the slots filled so far hold the frames about to be published;
- `CopiedOut`: the consumer's buffer holds the next frames of the log.

The step that carries the argument is that a `WriteCopy` does not touch a slot between
the indices. Two indices less than `BufferFrames` apart are in different slots, and
`IndicesOrdered` with `ProducerInv` puts the slot being written and the unread ones
inside one stretch of that length. A few lemmas on `%` say this once.

`Refinement` is `Spec => RefinesQueue`. The abstract queue is the slots between the
indices in order (`Unread`); a call of `write` is a put from its reservation on, a call
of `read` a take from its load of `write_index` on. `StepRefines` has a case per action:
reservations and calls start puts and takes, publications finish them, copies stutter,
and copies stutter because of `UnreadIntact`'s argument above.

### The daemon

`Invariance` is again `Spec => []IInv`, and from it `TypeCorrect` (which includes that no
ring holds more than its capacity), `AllStopped`, `FlagsHold`, `Claimed`, and the action
properties `RingsKeepRunning` and `DriversComeBack`. The strengthening has three parts.

- `ThreadsInv` says in which order `main` starts the threads and that a thread which
  stops has seen `SHUTDOWN`.
- `RunningInv` is the reason no ring is left running: a running ring always has a bridge
  that will still stop it. It is not obvious, because one bridge's `set_all_running` may
  come after the other's `stop_all`, and because a failing ALSA bridge stops nothing. A
  bridge that may still fail has marked nothing; a USB bridge that has got past its
  start looked at `SHUTDOWN` then, so an ALSA bridge that stops does so later.
- `DeviceInv` says which interfaces are claimed and which have a driver at each step of
  connecting and of the cleanup, as a function of `u_i`, for a device that is reachable,
  and that a device which is not the handle's is untouched.

### The shared memory regions

`Invariance` is `Spec => []IInv`, and from it `TypeCorrect`, `Backed`, `Distinct`, `Found`
and the action properties `StartsFresh` and `LeavesNothing`. `FreshStart` looks at one
step, the last `WriteHeader`, but is about headers written many system calls earlier,
and `NothingLeft` about names taken away ring by ring. The strengthening has four parts.

- `OneAtATime`: of the daemons, one at most is alive. A step of a daemon therefore
  disturbs nothing that another holds: `Alone` and `OneActs` say so once, and each action
  is then a matter of the process that takes it.
- `NamesInv`: a name leads to an object made for its ring, by whichever daemon, so
  regions taken over by name are as distinct as new ones.
- `ProcessInv` (`Holding`): which rings are mapped at each step of `new` and of the drop,
  and which names are gone, after an error also.
- `RegionInv` (`InUse`): a mapped region is the one its name leads to, of the size of the
  daemon's own configuration, and, from its header's turn until the daemon serves, empty
  and stopped.

### The mixer

`Invariant` is `Spec => []IInv`, and from it `TypeCorrect` and `FreshCorrect`; `Refinement` is
`Spec => RefinesControl`. `Fresh` says what a finished pass and a later period have to do
with each other and is not inductive. The strengthening is a chain of settings for each
control, each at most the next: owed, settled, stored, the card's (`Chain`, with what was
applied and what the pass has seen beside it); `CaughtUp`, that the controls a pass has
behind it are stored as new as when it began, which at its end makes `settled`;
`ReadInTime`, that a value between its read and its store is not older than what it
replaces; and `PeriodBegun`, that the mute loaded first is as new as owed. As a store
never brings back an older setting, neither does a load, and that is the refinement.

### From the descriptors to the rings

`Invariant` is `Spec => []IInv`, for a device with any bytes in its descriptors, and any
number of them. `Side` is `StreamsSpec => Spec`, so what follows holds of the composition:
`TypeCorrect`, `FormatCorrect`, `ChannelsCorrect`, `PanicsCorrect`, `SettingCorrect`,
`BytesCorrect`. The strengthening has five parts.

- `ParserInv`: while rates are taken, the position is eight bytes and four for each rate
  past the start of a format type descriptor that lies inside `extra`. So no rate of the
  list is read past the end, and the fixed rate, which is read when there is none in the
  list, at one length of the descriptor only.
- `LaidOutInv`: the loop and the reference agree at each step. `WalkInv` says that the
  walk stands where some descriptor of the reference begins, and that none before it is a
  format type descriptor; `RatesInv` that the rates taken are the first words of the
  descriptor found, and that count and rates add up to the one it gives; `ResultInv` that
  what is returned is `FormatIn`, and a panic where `Panics` says.
- `DiscoverInv`: the endpoints the walk over the settings has passed (`Passed`) and the
  channels have each other, and are equally many.
- `ClaimInv`: every interface to claim has a channel; one that is claimed is in the
  setting of its first channel.
- `TransferInv`: nothing is transferred before the streaming begins, so the channels a
  transfer was sized by are still the same.

Where the descriptors begin is a recursive function (`Begins`). That it meets its own
equation (`BeginsEquation`) is by induction: `Least` takes the least element of a set of
naturals from the well-foundedness of `<`, and `SetInduction` is the induction, over a set
instead of a predicate, which the prover could not instantiate. Functions that go from
descriptor to descriptor exist for any number of steps and agree as far as they go, which
makes the one that goes on for ever. After that each step of the loop is a matter of the
descriptor it is at.

### The samples

`ConversionInvariant` is `StreamsSpec => []ConversionInv`: each value is the conversion of
the one before. `ConversionTypeCorrect`, `RoundTripCorrect` and `ScaledCorrect` follow, and
are facts about the arithmetic, for every sample and with the bytes of the code, of 256
values, which a run cannot enumerate. `Base` 2 is not among the values assumed, because an
`i32` of four such bytes is always a float: the largest would not be rounded up to full
scale, as the code's `i32::MAX as f32` is.

- Bytes: `Places` adds up the terms of an integer's bytes; division by the powers of `Base`
  takes them apart again (`BytesOfSigned`), with the sign in the last. `BytesComeBack` is
  `RoundTrip` for the integers.
- Floats: the truncated quotient is between zero and the fraction and less than a step from
  it (`QuotientWithin`), and a float on a step stays there (`FloatKeepsSteps`); so
  `FloatGoesBack`, that the `i32` it becomes is kept by the next rounding.
- Rounding: to multiples of one step it keeps the order (`RoundedInOrder`). Between two
  exponents it does because the number at the border is a multiple of either step, so
  nothing is rounded across it (`SizeInOrder`, `NearestInOrder`). A number that is a float
  is kept (`NearestKept`), and full scale is one (`HalfIsFloat`).
- Scaling is a chain of maps that keep the order and keep zero: to a float, times a volume,
  to a float, divided, cast. That it does not get louder below unity is that a float times
  `Base` is a float again (`FloatTimesBase`), so the bound survives the second rounding.

### Only model-checked

The liveness properties (`PublishedIsRead`, `ShutdownExits`, `FirstDeviceStreams`,
`RingsDrain`, `CaptureObeyed`, `Settles`): liveness under fairness and ENABLED are out of
this prover's reach. No module has a RECURSIVE operator. The exponents of a float stop at
17 (`Exponents`), the largest a product of a sample and a volume has with `Base` 256.


## What the models found

Seven comments say what the code does not do.

- `usb_bridge.rs:249`, "USB device disconnected, will re-scan...". `run_streaming` logs
  each USB error, the loss of the device included, and returns on `SHUTDOWN` only
  (`usb_bridge.rs:171-174`, `:194-198`). In the counterexample of the run `replug` a
  device is streamed to, taken away, and one is connected again: the bridge goes on with
  the handle of the first.
- `main.rs:177`, "Wait for threads to finish (with timeout)". `join` has no timeout. In
  the counterexample of the run `join` the ALSA bridge is in a call on a PCM that does
  not return.
- `shm.rs:138`, "Only the creating process unlinks the shm object". `create` keeps the
  name of a region it only opened (`shm.rs:71`), and drop unlinks it. In the
  counterexample of the run `shm_unlink` a second daemon opens the rings of one that is
  running, ends, and takes away a name the first still uses.
- `mixer.rs:1`, "Volume and Mute per virtual audio channel", and `mixer.rs:9`, which has
  both in the render direction. The settings of the playback channels are read and
  stored, and nothing applies them (`alsa_bridge.rs:219-234`). In the counterexample of
  the run `mixer_playback` a playback control is moved and its channel is played at the
  default for ever.
- `usb_descriptor.rs:81`, "Alternate setting for active streaming". A device that offers
  several settings on an interface gets the channels of all of them, the setting of the
  first is set (`usb_bridge.rs:121`), and all are streamed, each by its own format. In
  the counterexample of the run `alt_setting` two formats of one endpoint are streamed
  to two rings. A device with one streaming setting on each interface is not affected,
  which is `SingleSettingInForce`.
- `usb_descriptor.rs:181`, "Parse the USB Audio 2.0 Type I Format Descriptor from extra
  bytes". That descriptor has six bytes, the fifth the subslot size and the sixth the bit
  resolution; the number of channels is in another descriptor (AS_GENERAL), the rates are
  asked of a clock. The code takes the fifth for the channels, and the places of the rest
  are those of Audio 1.0, with rates of four bytes (`usb_descriptor.rs:200-239`). In the
  counterexample of the run `uac2` a stream of 16 bits is taken for one of 32.
- `audio_format.rs:118`, "(normalized internal format)", and `:154`, "back to raw bytes in
  this format". A 24-bit sample is left in the lower three bytes of the `i32` (`:136`) and
  shifted down again on the way back (`:168`). In the counterexample of the run `s24` it
  comes back without its lowest byte. The daemon itself uses S32LE.

Other comments that the code does not keep, without a run of their own:

- `shm.rs:28`, "Returns an error if the name already exists." `create` opens what is there
  when the exclusive `shm_open` fails (`shm.rs:47`), and a restart after a crash depends on
  it: that is `OpenOld`, and the run `shm` shows that the restart is clean.
- `ring_buffer.rs:4`, "a multi-producer single-consumer bounded queue". `write` loads
  `write_index`, copies and stores it again, so two producers on one ring would copy into
  the same slots. Each ring has one writing thread, and `RingBuffer` has one.
- `mixer.rs:87-95`, the "shared memory header flags field as a fallback" for controls that
  snd-aloop does not have. The flags hold nothing of the mixer, and nothing reads them for
  it: a channel without its control stays at the default. `CaptureObeyed` is about controls
  that are there, which strong fairness of `Read` says.

The runs that pass show a few things about the data that contradict nothing written: a
format type descriptor of eleven bytes panics the thread or takes in a foreign byte
(`usb_descriptor.rs:228`); one of seven bytes with a subslot of more than 31 panics it in a
build with overflow checks and has its bit resolution wrapped in one without (`:205`); a
device whose frame is narrower than the ring's is sent cut frames (`usb_bridge.rs:192`),
which `BytesKept` leaves open because nothing says otherwise.

Three more observations. A failed connection leaves detached the kernel drivers it had
detached (`usb_bridge.rs:57`): the model does the same, and `DriversRestored` is stated for
the cleanup only. A playback ring beyond the endpoints of the connected device is
drained by nobody while that device is streamed to, so `RingsDrain` leaves it out. These two
are recorded as hazards, because nothing in the repository says otherwise. And a region
whose own `ftruncate` or `mmap` fails after its name was made keeps that name, since there
is no `ShmRegion` to drop yet (`shm.rs:52-67`); `NothingLeft` is about the rings made
before it, and the next daemon finds and sizes what is left.


## What is not modelled, and why

Left out of the modules: the sleeps that pace the loops; the drift log; which candidate
name a PCM opens by; writes that ALSA cuts short; the names of channels; the messages to
systemd; the error paths of `main` before it spawns the ALSA bridge, where the process
simply ends. The mixer-sync thread is in `Mixer` and not in `Daemon`: nobody joins it, and
it touches neither the rings nor `SHUTDOWN`'s value. In `SharedMemory` the fields of a
header are written in one step.

- `RingBuffer::open` and `magic`: nothing in the repository opens a region another
  process made, so what a reader may rely on is not stated anywhere.
- `DoubleRingBuffer` and `DriftMonitor` are never constructed. Without a caller it is open
  which thread would call what, and the interleavings would be invented.
- The watchdog: the main loop reports the daemon alive whatever has become of its bridges.
  That is a hazard, listed as one; nothing promises otherwise.
- The handler's log call: the lock it may take is `env_logger`'s and the standard
  library's, whose code is not here. `Signal` is one step.
- `apply_to_pcm` and `apply_sw_params` hand parameters to ALSA; what the card makes of them
  is not in this code. `verify_alsa_available`, `create_mixer_elements` and
  `dump_descriptors` look and log.
- Configuration and channel map are static data, read once, and are constants of the
  models. The packaging is data.

What would be worth adding next: an audio path from the device through the ring to the
PCM, with the silence of an empty ring and short writes, from `AudioQueue`'s promise alone
so that `Refinement` carries it to the ring; an abstract life cycle (starting, serving,
stopping, over) that `Daemon` implements; and, should a process that attaches be written,
`SharedMemory` extended by `open` with a header written field by field.
