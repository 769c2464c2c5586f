# Verification of hl2-rs

TLA+ models of hl2-rs (a Hermes-Lite 2 SDR receiver: a host library, a hub that
serves browsers, a browser client, a PSK Reporter client and a Teensy
front-end), TLC runs that check them on small instances, and theorems that the
TLA+ proof system checks for every instance. Paths below are relative to `src/`.

    tlc -workers 2 -config MCBasebandRing.cfg MCBasebandRing   # and so on
    tlapm BasebandRingProofs.tla

`PROJECT.json` lists the components, runs, mutants, theorems, hazards and
findings, and maps every definition to the source lines it translates.

## The system

```
 browser (ui)  <-- snapshots, audio, spectrum --  hub (api)  -- Hl2 handle -->  HL2 board
   mirror, reconcile  -- commands over WS -->      session    <-- EP6/EP4 frames, UDP --
                                                    |  vrx pipelines: ring -> demod thread -> audio / decoder
                                                    '- PSK Reporter queue -> sender task -> collector
 Teensy firmware (teensy): its own radio, audio, display and encoder tasks over the same protocol
```

| Component | State | Operations | How it interacts |
|---|---|---|---|
| Baseband ring `hl2/src/receiver/baseband_ring.rs` | storage, `base_seq`, count; a cursor per reader | push, peek, resync | one pump writes, a demod thread per receiver polls under the ring's mutex |
| Fan-out `fanout.rs` | active slot → ring | register, unregister, push an EP6 frame | shared by the handle and the pump |
| Running HL2 `hl2.rs` | write lock, LNA copy, relay mask, started, pump task | start, tune, LNA, relays, stop, ring look-up | commands are unacknowledged UDP frames; keep-alives every second repeat the receiver count and relay mask |
| Session and codec `protocol/*` | sequence numbers; pure encoders and parsers | build and parse frames | under a mutex of its own |
| Receivers `receiver/*` | sources, sinks, filter state, decoder windows | process a block, append, decode a slot | demod and decode threads share a decoder by mutex |
| Hub `api/src/hub.rs` | session, vrx map, auto map, tuning, spectrum task, revision | one task per command | every command awaits and takes the session's mutex several times |
| Web socket `api/src/ws.rs` | a broadcast receiver per client (256 messages) | commands in, events out | a lagging client loses messages |
| Meter, spectrum `meter.rs`, `spectrum.rs` | three atomics; frame accumulators | publish, read | written by demod threads, read by snapshots |
| PSK Reporter `pskrep`, `pskrep_hook.rs` | duplicate cache, queue, sequence, descriptors left | add, drain, send | decode threads add, one sender task sends each minute |
| Browser `ui` | mirror of the hub, the operator's wishes, last stamp | apply a snapshot, reconcile, reconnect, play audio | sends commands in reaction to snapshots |
| Teensy `teensy` | lease, peer, radio state, audio ring, shared words | DHCP, discovery, start, tune, stream, render | cooperative tasks and interrupts |
| CLI, examples | - | a user of the library; measuring tools | - |

What is hard in it, and what makes each part correct:

* **Ring**: the pump laps a reader at any time. No sample is repeated, skipped
  unless overwritten, or read from a reused slot, and a lapped reader catches up.
* **HL2 handle and pump**: commands of several clients, the pump's keep-alives
  and lost frames interleave. The board's receiver count must become the host's
  (frames are taken apart with it), tunes must take effect in the order of the
  write lock, and a slot's ring must stay the same while it is active, because
  threads hold it.
* **Hub**: commands overlap at every await, threads are joined outside of the
  mutex. No receiver may leak or be stopped by two, the map must show what
  runs, receivers must read the ring the pump writes.
* **Hub and browsers**: snapshots are stamped before they are read, commands of
  one page run concurrently, and pages send commands in reaction to snapshots.
  Whenever nothing is in flight, page and hub must agree.
* **Spots**: order, spacing, sequence numbers and template descriptors must
  survive failed sends, overflow and a clock set back.
* **Decoders**: a window is one slot's, every slot is decoded once and in time,
  a spot carries the frequency it was heard on, and a thread that is told to stop
  does, also when whoever joins it holds the session's mutex.
* **Web socket and reconnection**: a lagging page, one that reconnects, and one
  whose server restarted must still end up with the hub's present state.
* **Teensy**: interrupts fall between any two steps of the radio task. The knob's
  count must follow the shaft, the peer it starts must be the board, and the board must
  end up streaming at the frequency shown although datagrams are lost.

## Modules

`SampleStream` and `BasebandRing`. The ring as the code has it (storage indexed
modulo the capacity, `base`, `count`; `Push(n)` for a chunk of any length, `Peek`,
the reader loop's `Resync` and `Read`), with samples as their stream positions,
so that a stale slot shows. `SampleStream` is the abstract promise: a stream without a
buffer, in which a reader's next block is contiguous with its last, or starts at
the oldest sample still kept. `StreamSpec` states the refinement. A push and a peek are steps
because each holds the ring's mutex.

`Hl2Control`. `client[c]` walks through `tune`, `set_lna_gain`, `stop`,
`baseband_ring` one mutex or one `send_to` at a time: `TakeWriteLock`,
`ApplyTune`, `Anchor` (slot 1 put back when the last slot is closed),
`ReadCount`, `Build`, `Send` or `SendFails`, `Settle`. `pump` walks through
`run_loop`: a tick reads the receiver count, then builds, then sends; an EP6 frame
is parsed with a count read earlier than the rings it is pushed to. The UDP
link loses frames in either direction; the board (external) applies counts and
registers. `tuned`, `mishap` and `commands` are history.

`HubSession`. `task[t]` holds where a command is between its awaits. Start
(check, connect with the initial tunings, any of which may fail, install, abort and replace the
spectrum task), Stop, Tune with the rebinding of a receiver, SetVrx in place or by remove, join,
spawn, insert, SetVrxOff, SetVrxMute, AutoDecode (`AutoRead`, `AutoTake`, `AutoSpawn`, `AutoInsert`,
`AutoOff`; a slot's set of decoders is one pipeline, with the NCO it was built for). `Hl2::tune` is one
step here, and may fail. Joining threads is a step of its own, done with or without the mutex as the
code does. `overlap` records that two commands overlapped, so that a property can be about
commands that did not; `overtaken` and `stale` record an AutoDecode whose slot was tuned, or whose
session was replaced, before it put its decoders into the map. Tasks have no
identity, so a command begins in the first idle one; this takes the place of symmetry.

`ClientSync`. The hub is reduced to what a snapshot shows (started, tuned, per
slot off, muted or live) and the active slots; server tasks are a bag of commands with a position
between awaits; each page has a channel of snapshots and its mirror. `OnText`
is the whole handler: the staleness rule, the start edge, the mirror and
`Reconcile`. A stamp is kept as its age. The runtime has several threads: loading a stamp, reading
the session (`Read`) and broadcasting (`Sent`) are steps of their own and another task may run
between any two. Commands that can fail take their first snapshot (`Snapshot0`)
before the work and answer with it when that fails: `SettingFails` (Start, a gain), `TuneFails`, `SpawnFails`.
`since` and `untold` are history: how many commands have begun since what pages show
last changed, and whether an answer or a failed rebuild may hide that change.

`PskReporter`. `Add` is the whole of `PskReporter::add` (a duplicate changes
nothing and is no step); `Connect`, `Tick`, `Send`, `SendFails`, `Finish` are
`run_sender` between its awaits. `BuildPackets` is the loop of `build_packets` over the
drained spots, `Joined` its body with the cost model `Fit` and real byte counts,
`DatagramBytes` the length that `message` really produces.
`wire` is what the socket accepted. Each failed send ends its socket, and what was drained
with it is lost.

`DecodeSlots`. One receiver in FT8 or FT4. The clock counts ticks; a sample is the
tick, the frequency it was heard on and the receiver's own offset, so a window shows its
slot and any retune within it. `Hear` is the demod thread (retune mailbox, `add_samples` with its
cap), `Check` the decode thread's look at the wall clock, which `SetClock` sets forward or back, with
`snapshot_for_slot`, `Report` the end of the decode with `rf_for_vrx`. `reports` is the sequence of
what was broadcast, a batch per decode, so a second report of a transmission shows. `TuneRadio` and `TuneMap` are
the two halves of a Tune; several may be in progress, and the frame of each may be lost while the map is updated
all the same. `Hold` and `Stop` are what other commands do with the session's mutex.
The decoder itself (external) finds a transmission whose body is in the window.
Times: the thread looks within a tick and decodes for at most `BurstTicks`, which is
what the code's 1 s park and 1-3 s burst are to a slot of 15 s.

`Js8Window`. The JS8 decoder counts samples only. `Poll(g)` is `js8_step` after g more
samples: trigger (`Fired`), window (`SnapshotReady`), re-arming and the suppression of repeats
(`Emits`, with the distance of half a tone in frequency), with the code's constants in units of 120 samples.
Polls may be any of the `Gaps` apart: half a second and the decode before. It is taken for granted that no sample
is lost and that the wall clock is not set.

`WsFeed`. The bounded broadcast channel, a task per connection (`Subscribe`, `Welcome`,
`Forward`, `Lagged`), pages that connect, lose their connection and reconnect, and a
server that restarts. A command is one step: its interleavings are `ClientSync`'s subject.

`TeensyRadio`. The knob and its handlers (`EdgeEnter` reads A, `EdgeSample` reads B
and decodes, `EdgeClear`), and `radio` of `teensy/src/main.rs`: link, address server or
client, discovery, STOP, START, tuning, mode. The waiting loop's parts are
actions of their own, the radio task runs only while no handler does. `Grace` is the end of the eight seconds: it may
come whatever is under way, and `hasty` records that the board had not bound by then. The board and its
DHCP client, of either kind, and the network are external.

Proofs are in a module of their own per component, named after it (`BasebandRingProofs`
and so on); `NumberFacts` holds the facts about numbers that several of them cite. The
`MC...` modules only give values to constants. Operators called "Mutant" are variants of
the definition after them that a property must reject.

## Runs

| Run | Instance | What it shows |
|---|---|---|
| `ring` | two readers, capacity 3, chunks to 5, 9 samples | pushes longer than the ring and three wraps: the window is intact, nothing but overwritten samples is skipped, the ring implements the stream, readers catch up |
| `control` | two clients, two slots, two commands, one frame in flight | counts, rings and registers stay consistent in every interleaving; keep-alives repair every loss; a dropped receiver ends the pump |
| `hub` | two tasks, two slots, two modes, frequencies 0, 10 and 20, a Start with slot 1 on 10, automatic decoding of slot 1, four commands, failures | every running receiver or decoder has one owner and the maps show what runs, every command finishes, automatic decoders have their slot's NCO unless their AutoDecode was overtaken; without overlap receivers and automatic decoders read the right ring, a rebind keeps the mute, stop is quiet, only the session's pump lives |
| `hub_insync` | the same without failures | *violated*: closing slot 1 as the only slot leaves its receiver on a dead ring |
| `sync` | one page, a hub that is stopped or runs with slot 1 alone, two acts, three tasks, failures | when nothing is in flight the page shows the receivers its operator wants, and what the hub has but for the two cases that `untold` records |
| `sync_view` | the same | *violated*: an outdated snapshot is the last to arrive |
| `sync_storm` | both slots tuned, no acts, fair | *violated*: an idle page rebuilds its receiver for ever |
| `psk` | one station in either case, 20 m and 6 m, three spots, queue of two, one failed send | spots arrive in order and once, an overflow costs the oldest, spacing holds, a collector can read every socket (templates first, sequence numbers, sizes), the queue drains |
| `decode` | slots of three ticks, cap of four, twelve ticks, two upsets out of stalls, commands and settings of the clock (two back, one forward) | with the clock left alone every slot heard as a whole is reported in time and once; stamps grow until the clock is set back; spots that nothing disturbed carry the right frequency; a stop ends |
| `js8` | the four speeds, polls 0.5, 0.8 or 1 s apart in any order, a station on time, late or across two cycles, found at either of two frequencies, 62 s | no cycle is lost but among slow polls, a straddling station is never decoded, a second row is at another frequency, a repeated frame has a row again after 45 s |
| `feed` | two pages, channel of two, two revisions, a restart and a cut | a page that has handled everything shows the hub's state, as long as the channel still has it |
| `teensy` | four edges, one press, one lost datagram, with and without a router | the count follows the shaft while no edge meets a running handler, the radio sends to no address but the board's, the board ends up streaming at the frequency shown unless the grace period ended early or an unrepeated datagram was lost |

Each "violated" run states what a comment of the code says, and its counterexample shows what the code does; PROJECT.json quotes both.

**Bounds.** The defects these models look for need two actors and a few
commands. In `ring`, 9 samples through 3 slots with chunks up to 5 reach every
wrap and every relation of chunk, room and capacity. Two clients and two
commands in `control` cover each pair of commands with the pump between any
two steps; two slots give closing and re-anchoring. `hub` allows four commands in two tasks:
Start, SetVrx and two more that overlap; two frequencies besides 0 let a
decoder stay on one while its slot has the other. `sync` begins on a hub that is stopped or runs; stamps up to age 2 and three tasks let an answer be
overtaken twice. In `psk` three spots fill and overflow the queue of two, two of them
split a report into two datagrams, a clock of three minutes outlives the
window and the cache of two. In `decode` every phase of spawning is an initial state; the
cap exceeds a window by a tick as the code's exceeds it by seconds, a burst of one tick in
a slot of three is longer than the code's share; two upsets let a clock be set back and forward, two Tunes overlap,
or one be lost and another follow. `js8` has the real constants; 62 s hold four
cycles of JS8 A and two of JS8 E and outlive the 45 s of suppression. In
`feed`, two messages in the channel and one on the wire make any page lag; two pages
since one's welcome and discovery reach the other. In `teensy` four edges reach the lower
end of the clamp and turn back, and come while an edge is being handled. Symmetry is used in `feed`
(the pages) and `js8` (the two frequencies), which check no liveness.

**Fairness.** `ring`: a live demod thread keeps polling (its loop has no
exit but the stop flag). `control`: clients and the pump go on (they are runnable
tasks); the keep-alive tick happens again and again although other branches
of the `select!` may win for a while, and a link that carries frames for ever
delivers some (strong fairness on both). `hub`: a command that can go on does
(weak fairness per task). `sync_storm`: server tasks go on, and a page handles a
message if it has one again and again; failures are never owed. `decode`: the decode thread goes on, it never
blocks. `teensy`: the executor runs the radio task, interrupts are served, the network delivers
and a board without an address asks again; presses and losses are never owed. `psk`: the sender goes on; it is assumed
that the collector's name resolves in the end.

## Proofs

Every safety invariant of the passing runs is a theorem, for every value of the constants that the
assumptions admit. Each proof has the same
shape: an inductive invariant, a lemma per action that it is kept, and a short step from it
to the properties. The invariants were model-checked before they were proved.

`BasebandRingProofs`, any capacity, chunk, read size and set of readers. `RingInv` joins the
state properties: head equals samples pushed, count equals min(pushed, capacity), each
retained sample is in its slot, cursors are never ahead. A chunk makes it necessary to show that two
positions less than a capacity apart are never in one slot (`NumberFacts`: division with
remainder, the gap between equal remainders). From it also: only lost samples are
skipped, and the ring refines `SampleStream`, step by step.

`Hl2ControlProofs`, any clients, slots and losses. `ControlInv` ties a client's position to the
write lock (`LockInv`): without it two clients could both be between
`ApplyTune` and `Send`. For `BoardAgrees`, `AgreeInv` says that without a mishap the last
frame under way that writes a register carries the value last sent, and that the
register has it if there is no such frame; so once no write is under way the board
has what the handle remembers.

`HubSessionProofs`, any tasks, slots, modes and commands. `OwnInv` says that a pipeline is in exactly one
of: a slot of the map, a slot's set of automatic decoders, one command's hand. That is
enough for `OneOwner`, however commands overlap. The properties of commands that do not
overlap need what holds between a command's awaits: `OneAtATime` says that until `overlap` is
set at most one task is busy, and that what it has taken out of the session and not
put back (a receiver being rebound, a session being stopped) accounts for every difference
from what the properties ask for. Its parts are about the session (`Works`), the handles whose
events are read (`Pumps`), mutes, rings (`Syncs`) and automatic decoders (`Decodes`). `AutoInv` is about commands that
do overlap: what an AutoDecode has computed is up to date unless it was overtaken, so a set
in the map was built for its slot's NCO or its slot is `stale`.

`ClientProofs`, what browsers are told. `WsFeed`, any pages, capacity, commands, restarts and cut connections.
Besides the types: a snapshot's stamp is that of its state (`Genuine`), a subscriber has no more before it than
the channel retains unless it has lagged (`Retained`), and the hub's present state is shown by the page,
on its wire, or in front of its task, unless the channel retains it no more (`LastWordComes`).
`ClientSync`, any browsers, slots, tasks and stamps. A step of a task is one of three: it begins, it goes on
(`Goes`) or it ends with a message (`Says`). A *herald* is a task whose snapshot the page will apply, because it has no
stamp yet or one that is not older than anything shown or under way. Whatever changes the
radio leaves a herald, and a herald's end is another herald or a message that arrives. So a page that still has
commands to send has a herald or such a message (`Attended`): this gives `ShownAsWanted`, whatever fails.
For `LastWord` (`Mirrored`): unless `untold` is set, a task that may still read the session will tell the page (`Teller`), or
the last message the page will apply is right (`TrueWord`), or the page is right and every
message under way is right or will be discarded (`UpToDate`). An outdated answer under a stamp older than the hub's last
change cannot undo that, because the change's own answer is at least as new; one that is as new sets `untold`. With
`ShownAsWanted`, a quiet hub then runs what its operators want (`PagesSettled`).

`DecoderProofs`, the decoders. `DecodeSlots`, any slot length, cap, burst, stalls and clock. The buffer is the end
of what was heard, in order; without a stall it has no gap (`Unbroken`), so a window that ends in a slot
holds the transmission of that slot alone (`OwnSlot`); the decode thread's look comes within a tick of
the slot's end and its burst ends before the next (`Punctual`), so every slot heard as a whole is in
the window of its burst and then in a report (`Complete`). These need a clock that nobody set; that
the stamps of the reports grow needs only that it was not set back between two of them. What was heard after the last
step of a Tune was heard on the board's frequency (`OnBoard`), and the board and the map agree while `trust`
says that the latest Tune ran alone and arrived, which gives `SpotAsHeard`.
`Js8Window`, any speeds, intervals of the polls and station with `Timing`, what the code's constants have
in common: `Prepared` says that until the cycle's transmission is
decoded the last part of the cycle is still to come and is armed, or one poll in it came
too early and the next is due before the cycle ends, or those two polls together are too far apart (`Paced`). `Rowed` places the latest row's transmission in the
cycle before the row, from which a suppressed repeat is never more than `Dedup` behind.

`TeensyRadioProofs`, any number of edges, presses, losses and datagrams under way. The knob: as long as no edge met a
running handler the decoder is in step with the shaft, or one edge behind with that
line pending, or in the middle of handling it (`Follows`); parity holds always. The network:
the board has one question under way at a time and the radio one search (`OneQuestion`, `OneSearch`); every reply
gives the one lease (`Leased`), and a board that is not bound has no address (`Routing`); and once the radio has left
its wait its peer is the lease, which the board has, unless the reply to its REQUEST is under way or lost, or the grace
period ended first (`PeerComes`).

`PskReporterProofs`, any callsigns, record lengths, limits, clocks and failures. `Remembered`: each spot is
in the cache with an age, by the clock, no more than its real one, until it may be
repeated; a clock set back makes it younger only. `BuildPackets` is recursive over the batch:
`Holds` is the loop invariant of `build_packets`, and the induction goes through
`NumberFacts!UpTo`. `Queueing`, `Order` and `Numbering` relate queue, report, wire and
counter: what a socket carried ends where the counter stands, and
until it has carried something descriptors are due.

`NumberFacts` proves induction (`LeastNatural`, `UpTo`) and the existence of functions defined by
recursion up to a bound (`RecursionTo`) with sets in the place of predicates, because the prover cannot
instantiate the library's theorems that take an operator.

Assumptions on constants, checked by TLC in each run: capacities, lengths, limits and slot counts
are positive, the pruning age is not below the duplicate window, slot 1 exists. That a "none" value is outside
the set it is added to (`Nat`, sessions, bursts) is an artefact of the encoding.

Only model-checked: all liveness (`CatchesUp`, `Settles`, `PumpExits`,
`CommandsFinish`, `QueueDrains`, `StopEnds`, `ComesUp`), which is out of the prover's
reach.

## Divergences met

Besides the findings of the runs above, read in the code and not run:

* A lapped demod thread goes on from the oldest retained sample; comments at
  `baseband_ring.rs:68` and `hub.rs:1739` say from the head.
* `fanout.rs:184` says a slot count is at least 1; see `EmptyOnlyWhileTuning`.
* `PskReporter::add` returns false on overflow although the new spot is queued and
  the oldest was dropped; its comment says false means dropped.
* When a send fails, the spots of the report are lost and yet suppressed as
  duplicates until the window ends; datagrams already sent are not counted, so
  sequence numbers repeat on the next socket.
* A clock set back keeps callsigns suppressed until it has caught up.

Hub and handle:

* `hl2.rs:629` expects that the fan-out always has a ring; between lines 446 and 452
  of another client's tune that closes the last slot it has none, and a look-up panics.
* `hub.rs:1252` says "there is never a window with two vrx tasks on the same slot";
  SetVrx and a rebind remove, stop, spawn and insert under separate holds of the
  mutex, so two that overlap both run for a while (`OneOwner` says that each is stopped).
* `hub.rs:662` and 780, 881 and 939, 956 and 971, 1020 and 1171: a Start, Tune, gain or SetVrx that fails answers with
  the snapshot it took first. If its stamp is as new as the hub's last change, which means that the command that brought the
  change was under way when it was taken, the page keeps the outdated picture until the next broadcast.
  A SetVrx whose rebuild fails has removed the receiver, and its own answer still shows it.
* A page that asked for a receiver whose spawn fails asks again at the next snapshot that shows none.
* SetVrx rebuilds a receiver unmuted (the page mutes it again); a SetVrxMute that arrives while a rebuild or a rebind has
  the receiver outside the map is acknowledged and lost.
* A Tune whose frame cannot be sent has changed the fan-out, but not the hub's tuning map, the receivers or the automatic
  decoders. An initial tuning that fails is left out of the map in the same way.
* `hub.rs:742` and 765: of two overlapping Starts the second detaches the first's
  spectrum task instead of aborting it.
* `auto_decode_cmd` that is overtaken by a Tune of its slot or by a Start puts decoders for the old NCO into the map;
  they stay until the slot's next Tune or AutoDecode.
* n_recv is masked to three bits: with a ninth active slot the board is told one receiver.
* `hub.rs:559` says a stable level still produces traffic; line 576 skips it.
* `hl2.rs:268`: the handshake's doc asks for a valid frame; line 328 accepts any datagram.
* `app.rs:230` says one slot is audible at a time; a tab that is left
  unmuted stays so when another is unmuted (line 766).
* `app.rs:887` shows "retrying" after a connect that failed at once; nothing retries.
* Two pages on different tabs tear down each other's receiver for ever.

Decoders and spots:

* `rf_for_vrx` is read when the decode ends: a window recorded before a Tune is
  posted at the new frequency, and after an in-place retune the decode thread keeps the old
  offset, so its spots are wrong from then on. If the mutex happens to be held, the window's spots are dropped (`try_lock`).
* A Tune's frame is sent once and the tuning map is set in any case (`hub.rs:897`): when the frame is lost, every spot
  carries a frequency the radio is not on, until the slot's next Tune. The same when two Tunes overlap and their
  frames take effect in another order than their updates of the map.
* A wall clock that is set back over a slot's boundary (`hub.rs:2043`) makes the thread report with a stamp it has used, for later
  audio; one that is set forward stamps a slot with a boundary that is not its own.
* When audio stalls, the unchanged trailing window is decoded again in the next slot, with a new stamp.
* `pskrep/src/lib.rs:36` calls the time of a spot the signal's start; it is the slot's end
  (`pskrep_hook.rs:109`, `ft8.rs:320`).
* `pskrep/src/wire.rs:163` writes `hz >> 24` as the first of five bytes and masks it out
  of the other four, so from 16 777 216 Hz up a collector reads more than 4 GHz.
* `js8/decoder.rs:333` fires early in a cycle for "a signal that may straddle the
  boundary", but the window is the current cycle's samples only, so a straddling signal
  is in none; cycles are counted from the first sample, not from UTC.
* `hub.rs:2298` lets a decode take a few hundred milliseconds on top of the half second between polls. Two polls at the end
  of a cycle that together exceed what follows the needed samples (1.38 s for JS8 A) may lose the cycle; `CycleDecoded`
  excepts just that.
* `hub.rs:2255` says "one row per distinct signal": `should_emit` lets a repeat pass that is half a tone away (`decoder.rs:386`),
  which is one bin of the synchronisation's grid, so a transmission decoded one bin apart in two windows has two rows.
* `should_emit` compares mode, call and grid: different free-text frames of one
  station are suppressed as repeats for 45 s.

Teensy:

* `control.rs:12` says +6 dB of LNA gain; the constant is 30.
* DISCOVER is answered with an ACK, not an OFFER; a strict client may ignore it.
* START, the first frequency and the last ACK are sent once; a lost one is not repeated, and the
  board then stays off, mistuned or unaddressed.
* Eight seconds after the first ACK the address server takes the lease for the board's address (`control.rs:506`), also if the
  board has not bound or is in the middle of its REQUEST, which nobody answers any more; STOP, START and the frequency then go
  to nobody. `PeerIsBoard` names this case and `ComesUp` excepts it.
* The comment at `main.rs:640` says a late press cannot leak into the streaming loop; the
  drain comes before discovery, so a press during it still changes the mode.
* The knob's edges before streaming are applied to the first frequency.
* After the waiting loop nobody polls the DHCP client: a lease is never renewed.

## Not modelled, and why

Floating-point DSP, FFTs, LDPC and sync search, message grammars and drawing are
data, out of TLC's reach, and make no decision the properties are about. The
CLI and the examples only use the library. The START handshake is one sequential
client whose outcomes (success, failure) are in `HubSession`. The sample codec is
byte arithmetic that unit tests reach. The Teensy's audio and display paths exchange
words with one writer each, at rates a model would have to invent.

Of the implementation's lines, 71 % are one data table, `js8/jsc_map.rs` (80,177 lines of
constants); the demodulators, the JS8 codec, drawing and the CLI are most of the rest. The part
with state that several actors share, the subject of these models, is a few thousand lines.

## Plan

Next, proofs, in this order:

1. `DecodeSlots` and `Js8Window` promise the same of a decoder (every slot heard as a whole is
   decoded once); an abstract decoder that both implement would state it in one place.
