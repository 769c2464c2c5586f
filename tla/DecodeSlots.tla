----------------------------- MODULE DecodeSlots -----------------------------
(***************************************************************************)
(* One receiver in a slotted mode (FT8, FT4), from what its demod thread   *)
(* hears to the rows and spots its decode thread reports                   *)
(* (hl2/src/receiver/ft8.rs, ft4.rs; spawn_ft8_decode and spawn_ft4_decode *)
(* of api/src/hub.rs).                                                     *)
(*                                                                         *)
(* Time counts ticks, SlotTicks of them to a slot; the audio of one tick   *)
(* is one sample, with the tick, the radio frequency it was heard on and   *)
(* the receiver's offset that is part of that.  On every frequency a       *)
(* station transmits in every slot; the batch decoder of mfsk-core finds a *)
(* transmission if its body, all of the slot but the first tick, is in the *)
(* window.                                                                 *)
(*                                                                         *)
(* The thread reads the wall clock (SystemTime::now), which is right until *)
(* somebody sets it, forward or back.  Its rhythm comes from a monotonic   *)
(* clock: it looks once a tick (parked about a second, and never longer    *)
(* than two) and decodes for at most BurstTicks.                           *)
(***************************************************************************)
EXTENDS Integers, Sequences, SequencesExt, FiniteSets

CONSTANTS SlotTicks,  \* ticks of a slot, and samples of a decode window
          Cap,        \* samples that the decoder keeps
          BurstTicks, \* the longest decode
          Ncos,       \* frequencies the slot may be tuned to
          Offsets,    \* offsets of the receiver from its slot's NCO
          Nco,        \* the NCO the radio is on first
          Offset,     \* the offset the receiver is spawned with
          Tuners,     \* Tune commands that may be in progress together
          None,       \* no burst, no frequency, no retune
          Jumps,      \* by how much the wall clock is set
          MaxClock,   \* bound: ticks of a behaviour
          MaxUpsets   \* bound: ticks without audio, commands and settings of the clock

Samples == [at : Nat, on : Nat, by : Offsets]
Bursts == [slot : Nat, window : Seq(Samples), epoch : Nat]

ASSUME DecodeAssumption ==
    /\ SlotTicks \in Nat /\ SlotTicks >= 3
    /\ Cap \in Nat /\ Cap >= SlotTicks
    /\ BurstTicks \in Nat /\ BurstTicks + 2 <= SlotTicks
    /\ Ncos \subseteq Nat \ {0} /\ Nco \in Ncos
    /\ Offsets \subseteq Nat /\ Offset \in Offsets
    /\ Jumps \subseteq Int
    /\ {MaxClock, MaxUpsets} \subseteq Nat
    /\ None \notin Bursts \union Nat
    /\ Tuners \intersect {"agreed", "unsure"} = {}

VARIABLES
    clock,    \* time, in ticks
    ahead,    \* of the wall clock before the time
    sets,     \* history: how often the wall clock was set
    epoch,    \* history: how often it was set back
    heard,    \* history: every sample that arrived
    buf,      \* the decoder's rolling buffer
    marked,   \* the decoder's last_decoded_slot
    last,     \* the decode thread's last_decoded_slot
    looked,   \* the thread's last_tick
    burst,    \* what the thread decodes, or None while it is parked
    board,    \* the NCO the radio is on
    tuning,   \* the NCO in the session's tuning map, 0 if the slot has none
    pending,  \* per Tune in progress: the NCO it is about to insert into the map, or None
    trust,    \* history: "agreed" while the latest Tune ran alone and reached the board; that Tune; or "unsure"
    offset,   \* the offset the demod thread applies
    mailbox,  \* the retune that waits for the demod thread
    mutex,    \* the session's mutex: free, held, or held by who joins this thread
    stop,     \* the stop flag; "joined" when the thread has ended
    reports,  \* history: the rows in the order they were broadcast, a batch per decode
    spots,    \* spots queued: transmission, the frequency that is reported
    moved,    \* history: the tick of the latest step of a Tune
    stalls,   \* history: ticks without audio
    commands  \* commands so far

wall == <<ahead, sets, epoch>>
decoder == <<buf, marked>>
thread == <<last, looked, burst, reports, spots>>
radio == <<board, tuning, pending, trust, offset, mailbox, moved>>
vars == <<clock, wall, heard, decoder, thread, radio, mutex, stop, stalls, commands>>

\* closed_slot_for
ClosedSlot(now) == (now \div SlotTicks) * SlotTicks

Upsettable == Cardinality(stalls) + sets + commands < MaxUpsets

\* SystemTime::now
Now == clock + ahead
-----------------------------------------------------------------------------
(* The clock and the demod thread.                                         *)

\* Mutant of Trim: the buffer keeps its oldest samples.
TrimNewest(s) == IF Len(s) > Cap THEN SubSeq(s, 1, Cap) ELSE s

\* add_samples: append, then drop the oldest beyond the cap.
Trim(s) == IF Len(s) > Cap THEN SubSeq(s, Len(s) - Cap + 1, Len(s)) ELSE s

\* A tick does not pass a thread that is late, or parked with the flag raised.
Prompt ==
    /\ burst = None => stop = "no" /\ clock < looked + 2
    /\ burst # None => clock < looked + BurstTicks

\* The demod thread takes a waiting retune, then hears the next tick.
Hear ==
    /\ clock < MaxClock
    /\ Prompt
    /\ LET by == IF mailbox = None THEN offset ELSE mailbox
           sample == [at |-> clock, on |-> board + by, by |-> by]
       IN  /\ offset' = by
           /\ heard' = Append(heard, sample)
           /\ buf' = Trim(Append(buf, sample))
    /\ mailbox' = None
    /\ clock' = clock + 1
    /\ UNCHANGED <<wall, marked, thread, board, tuning, pending, trust, moved, mutex, stop, stalls, commands>>

\* No audio: datagrams lost, the pump paused, or the receiver's ring dead.
Stall ==
    /\ clock < MaxClock
    /\ Prompt
    /\ Upsettable
    /\ stalls' = stalls \union {clock}
    /\ clock' = clock + 1
    /\ UNCHANGED <<wall, heard, decoder, thread, radio, mutex, stop, commands>>

\* The wall clock is set, by the operator or by its daemon, while the thread
\* still reads it.
SetClock(by) ==
    /\ Upsettable
    /\ stop = "no"
    /\ Now + by >= 0
    /\ ahead' = ahead + by
    /\ sets' = sets + 1
    /\ epoch' = IF by < 0 THEN epoch + 1 ELSE epoch
    /\ UNCHANGED <<clock, heard, decoder, thread, radio, mutex, stop, stalls, commands>>
-----------------------------------------------------------------------------
(* The decode thread.                                                      *)

\* snapshot_for_slot: the trailing window.
Snapshot == SubSeq(buf, Len(buf) - SlotTicks + 1, Len(buf))

\* Mutant of Repeated: neither the thread nor the decoder remembers a slot.
RepeatedNever(slot) == FALSE

\* The slot that the thread has looked at last, or that the decoder has marked.
Repeated(slot) == slot \in {last, marked}

\* The look at the wall clock.  A slot that is repeated or a window that is
\* short is an empty success: the slot is not tried again.
Check ==
    /\ burst = None
    /\ stop = "no"
    /\ clock > looked
    /\ looked' = clock
    /\ LET slot == ClosedSlot(Now)
       IN  IF Repeated(slot) \/ Len(buf) < SlotTicks
           THEN /\ last' = slot
                /\ UNCHANGED <<burst, marked>>
           ELSE /\ burst' = [slot |-> slot, window |-> Snapshot, epoch |-> epoch]
                /\ marked' = slot
                /\ UNCHANGED last
    /\ UNCHANGED <<clock, wall, heard, buf, reports, spots, radio, mutex, stop, stalls, commands>>

Body(k) == (k * SlotTicks + 1)..(k * SlotTicks + SlotTicks - 1)

\* The transmissions in a sequence of samples: the slots whose body was heard
\* on one frequency.
Found(w) ==
    {m \in [slot : 0..(MaxClock \div SlotTicks), on : {s.on : s \in ToSet(w)}] :
        \A at \in Body(m.slot) : \E s \in ToSet(w) : s.at = at /\ s.on = m.on}

\* Mutant of Rf: the offset of the receiver is left out.
RfNco == IF mutex # "free" THEN 0 ELSE tuning

\* rf_for_vrx: 0 if the mutex happens to be held or the slot is untuned.
Rf == IF mutex # "free" \/ tuning = 0 THEN 0 ELSE tuning + Offset

\* The board and the map agree on the frequency since before the window, by a
\* Tune that ran alone and arrived, and the receiver was not moved in the slot.
Undisturbed ==
    /\ trust = "agreed" /\ moved < burst.window[1].at
    /\ \A s \in ToSet(burst.window) : s.by = Offset

\* Rows are broadcast and spots queued only for what was found.
Reported ==
    LET found == Found(burst.window)
    IN  /\ reports' = IF found = {} THEN reports
                      ELSE Append(reports, [slot |-> burst.slot, epoch |-> burst.epoch, found |-> found])
        /\ spots' = IF Rf = 0 THEN spots
                    ELSE spots \union {[heard |-> m, freq |-> Rf, undisturbed |-> Undisturbed] : m \in found}
        /\ last' = burst.slot
        /\ burst' = None
        /\ UNCHANGED <<clock, wall, looked, heard, decoder, radio, mutex, stop, stalls, commands>>

\* Mutant of Report: the thread waits for the session's mutex.
ReportLocked ==
    /\ burst # None
    /\ mutex = "free"
    /\ Reported

\* The decode is done: on_decodes queues spots at the frequency the slot has
\* now, and the rows are broadcast.
Report ==
    /\ burst # None
    /\ Reported

\* The thread looks at the stop flag only while it is parked.
Exit ==
    /\ stop = "asked"
    /\ burst = None
    /\ stop' = "joined"
    /\ mutex' = IF mutex = "joiner" THEN "free" ELSE mutex
    /\ UNCHANGED <<clock, wall, heard, decoder, thread, radio, stalls, commands>>
-----------------------------------------------------------------------------
(* Commands.                                                               *)

\* Hl2::tune sends one frame that nobody acknowledges; it may be lost.  Several
\* Tunes may be between their frame and their update of the map.  (The Tune of
\* a slot without a tuning rebinds the receiver: HubSession.)
TuneRadio(t, f, arrives) ==
    /\ Upsettable
    /\ stop # "joined"
    /\ tuning # 0
    /\ pending[t] = None
    /\ pending' = [pending EXCEPT ![t] = f]
    /\ board' = IF arrives THEN f ELSE board
    /\ trust' = IF arrives /\ \A u \in Tuners : pending[u] = None THEN t ELSE "unsure"
    /\ moved' = clock
    /\ commands' = commands + 1
    /\ UNCHANGED <<clock, wall, heard, decoder, thread, tuning, offset, mailbox, mutex, stop, stalls>>

\* The map is updated in any case, and in any order.
TuneMap(t) ==
    /\ stop # "joined"
    /\ pending[t] # None
    /\ mutex = "free"
    /\ tuning' = pending[t]
    /\ pending' = [pending EXCEPT ![t] = None]
    /\ trust' = IF trust = t THEN "agreed" ELSE "unsure"
    /\ moved' = clock
    /\ UNCHANGED <<clock, wall, heard, decoder, thread, board, offset, mailbox, mutex, stop, stalls, commands>>

\* SetVrx in the same mode: the request overwrites one that waits; what the
\* decode thread was given stays.
Retune(o) ==
    /\ Upsettable
    /\ mutex = "free"
    /\ stop = "no"
    /\ mailbox' = o
    /\ commands' = commands + 1
    /\ UNCHANGED <<clock, wall, heard, decoder, thread, board, tuning, pending, trust, offset, moved, mutex, stop, stalls>>

\* Another command holds the session's mutex, when the thread could want it.
Hold ==
    /\ Upsettable
    /\ burst # None
    /\ mutex = "free"
    /\ mutex' = "held"
    /\ commands' = commands + 1
    /\ UNCHANGED <<clock, wall, heard, decoder, thread, radio, stop, stalls>>

Release ==
    /\ mutex = "held"
    /\ stop # "joined"
    /\ mutex' = "free"
    /\ UNCHANGED <<clock, wall, heard, decoder, thread, radio, stop, stalls, commands>>

\* DecodeTask::stop: raise the flag and join, without the mutex, or holding
\* it when a displaced pipeline is dropped.
Stop(holding) ==
    /\ Upsettable
    /\ stop = "no"
    /\ commands' = commands + 1
    /\ stop' = "asked"
    /\ holding => mutex = "free"
    /\ mutex' = IF holding THEN "joiner" ELSE mutex
    /\ UNCHANGED <<clock, wall, heard, decoder, thread, radio, stalls>>
-----------------------------------------------------------------------------
\* A receiver is spawned at any phase of a slot, and the thread looks at once;
\* its 0 means that it has looked at no slot.  A slot without a tuning hears
\* another slot's ring.
Init ==
    /\ clock \in SlotTicks..(2 * SlotTicks - 1)
    /\ ahead = 0
    /\ sets = 0
    /\ epoch = 0
    /\ heard = <<>>
    /\ buf = <<>>
    /\ marked = 0
    /\ last = 0
    /\ looked = clock - 2
    /\ burst = None
    /\ board = Nco
    /\ tuning \in {Nco, 0}
    /\ pending = [t \in Tuners |-> None]
    /\ trust = "agreed"
    /\ offset = Offset
    /\ mailbox = None
    /\ mutex = "free"
    /\ stop = "no"
    /\ reports = <<>>
    /\ spots = {}
    /\ moved = 0
    /\ stalls = {}
    /\ commands = 0

Thread == Check \/ Report \/ Exit

Next ==
    \/ Hear \/ Stall \/ Thread
    \/ \E by \in Jumps : SetClock(by)
    \/ \E t \in Tuners, f \in Ncos, arrives \in BOOLEAN : TuneRadio(t, f, arrives)
    \/ \E t \in Tuners : TuneMap(t)
    \/ \E o \in Offsets : Retune(o)
    \/ Hold \/ Release
    \/ \E holding \in BOOLEAN : Stop(holding)

Spec == Init /\ [][Next]_vars

\* The thread goes on: it never waits for anything but its own clock.
FairSpec == Spec /\ WF_vars(Thread)
-----------------------------------------------------------------------------
(* Properties.                                                             *)

\* b is the end of h, as much of it as the cap allows.
Latest(b, h) ==
    /\ Len(b) = IF Len(h) <= Cap THEN Len(h) ELSE Cap
    /\ b = SubSeq(h, Len(h) - Len(b) + 1, Len(h))

\* Type correctness; the buffer is what was heard last, and a burst has a
\* full window.
TypeOK ==
    /\ clock \in Nat
    /\ ahead \in Int /\ Now \in Nat
    /\ sets \in Nat /\ epoch \in 0..sets
    /\ heard \in Seq(Samples)
    /\ Latest(buf, heard)
    /\ {marked, last} \subseteq {t \in Nat : t % SlotTicks = 0}
    /\ looked \in 0..clock
    /\ burst # None =>
          burst \in Bursts /\ Len(burst.window) = SlotTicks /\ burst.slot = marked
    /\ board \in Ncos
    /\ tuning \in Ncos \union {0}
    /\ pending \in [Tuners -> Ncos \union {None}]
    /\ offset \in Offsets
    /\ mailbox \in Offsets \union {None}
    /\ mutex \in {"free", "held", "joiner"}
    /\ stop \in {"no", "asked", "joined"}

\* Slot k was heard without a gap.
Arrived(k) == \A at \in (k * SlotTicks)..(k * SlotTicks + SlotTicks - 1) : \E s \in ToSet(heard) : s.at = at

\* Each transmission is reported exactly once, in time.  While nobody sets the
\* wall clock, a slot that was heard as a whole on one frequency is in a report
\* when the thread had time to decode it, whatever the phase at which the
\* receiver was spawned, and the report is stamped with the boundary that closes
\* the slot; if no audio is missing either, no other report has it.  And
\* whatever happens to the clock and the audio, from one report to the next the
\* stamp grows, unless the clock was set back between their looks at it.
EachSlotOnce ==
    /\ stop = "no" /\ sets = 0 =>
          \A m \in Found(heard) :
              Arrived(m.slot) /\ clock >= (m.slot + 1) * SlotTicks + BurstTicks + 2 =>
                  \E i \in 1..Len(reports) :
                      reports[i].slot = (m.slot + 1) * SlotTicks /\ m \in reports[i].found
    /\ stalls = {} /\ sets = 0 =>
          \A i \in 1..Len(reports) : \A m \in reports[i].found : reports[i].slot = (m.slot + 1) * SlotTicks
    /\ \A i, j \in 1..Len(reports) :
          i < j /\ reports[i].epoch = reports[j].epoch => reports[i].slot < reports[j].slot

\* A spot is posted at the frequency its transmission was heard on, unless its
\* window or its decode was disturbed: by a step of a Tune, by a retune in
\* place, or because the latest Tune overlapped another or its frame was lost,
\* which nothing repairs before the slot's next Tune.
SpotAsHeard == \A s \in spots : s.undisturbed => s.freq = s.heard.on

\* Who joins the thread waits for a burst at most, and never for ever, also
\* if it holds the mutex that rf_for_vrx would like to have.
StopEnds == stop = "asked" ~> stop = "joined"
=============================================================================
