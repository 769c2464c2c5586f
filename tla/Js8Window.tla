------------------------------ MODULE Js8Window ------------------------------
(***************************************************************************)
(* The windows of the JS8 decoder (hl2/src/receiver/js8/decoder.rs) and    *)
(* the thread that polls it (spawn_js8_decode of api/src/hub.rs).          *)
(*                                                                         *)
(* The decoder has no clock.  It cuts the stream of samples into cycles    *)
(* that are counted from the first sample, and a poll looks at how much of *)
(* the current cycle has arrived.  The four speeds share nothing but the   *)
(* times of the polls, so a behaviour follows one of them.                 *)
(*                                                                         *)
(* Two things are taken for granted, and a run of the receiver may break   *)
(* both: no sample is lost, so the length of the stream is the time, and   *)
(* nobody sets the wall clock by which repeats are suppressed.             *)
(*                                                                         *)
(* One station transmits the same frame in every cycle of its own clock,   *)
(* which is ahead of the decoder's by phase.  It is decoded when its       *)
(* symbols are all in a window (what the error correction makes of a part  *)
(* of them is left out), at one of the frequencies near its own that the   *)
(* synchronisation tries.  These are half a tone apart, just as far as a   *)
(* repeat must be from the latest row in order to be a row.                *)
(***************************************************************************)
EXTENDS Integers, FiniteSetsExt

CONSTANTS Modes,    \* speeds: [nmax : samples of a cycle, span : of the symbols, astart]
          Margin,   \* half a second
          Rearm,    \* a second and a half
          Kept,     \* samples that the decoder keeps
          Dedup,    \* a repeat within this time is not emitted
          Gaps,     \* from one poll to the next: half a second and the decode before it
          Bins,     \* frequencies of the synchronisation at which the station may be found
          Phases,   \* of the station's cycle in the decoder's
          MaxTotal  \* bound: samples of a behaviour

\* The samples of a cycle that a decode needs: the symbols, the delay before
\* them and half a second (frames_needed).
Needed(m) == m.span + Margin + m.astart

Types ==
    /\ \A m \in Modes : {m.nmax, m.span, m.astart} \subseteq Nat \ {0}
    /\ {Margin, Rearm, Kept, Dedup, MaxTotal} \subseteq Nat
    /\ Gaps \subseteq Nat \ {0} /\ Phases \subseteq Nat
    /\ Bins # {}

\* What the constants of the code have in common for every speed: the decoder
\* keeps a cycle; a snapshot at the begin of a cycle has re-armed when its last
\* part begins; a repeat is suppressed for a cycle at least, and the
\* suppression does not end within the symbols.
Timing ==
    /\ Types
    /\ Rearm >= 2
    /\ \A m \in Modes :
          /\ Needed(m) <= m.nmax /\ m.nmax <= Kept
          /\ 3 * Rearm <= Needed(m)
          /\ m.nmax <= Dedup /\ Dedup % m.nmax <= m.span

ASSUME Js8Assumption == Timing

VARIABLES
    mode,    \* the speed that is followed
    phase,   \* when the station's cycle begins in the decoder's
    total,   \* samples appended so far; also the time
    armed,   \* last_decode_total of the speed
    decoded, \* history: the latest transmission decoded, -1 before the first
    emitted, \* last_emit of the frame: the time, -1 if never
    bin,     \* and the frequency
    row,     \* history: the transmission of the latest row, -1 before the first
    twice,   \* history: a transmission had two rows at one frequency, one after the other
    entered, \* history: the gap before the poll that entered the last part of this cycle, or 0
    slow     \* history: the latest cycle that ended did so among polls too far apart

js8vars == <<mode, phase, total, armed, decoded, emitted, bin, row, twice, entered, slow>>

Buffered(n) == IF n < Kept THEN n ELSE Kept

CycleStart(n) == IF n = 0 THEN 0 ELSE ((n - 1) \div mode.nmax) * mode.nmax

\* How much of the cycle of the latest sample has arrived.
Ready(n) == n - CycleStart(n)

LastPart(n) == Ready(n) >= Needed(mode) - Rearm

\* A second and a half after the last decode, in the first or in the last
\* part of the cycle; 0 in last_decode_total is "never".
Fired(n) ==
    /\ armed = 0 \/ n - armed >= Rearm
    /\ Ready(n) < Rearm \/ LastPart(n)

\* The trailing Ready samples, or what the buffer has.
SnapshotReady(n) ==
    LET want == IF Ready(n) < Buffered(n) THEN Ready(n) ELSE Buffered(n)
    IN  [from |-> n - want, to |-> n]

First(k) == k * mode.nmax + phase + mode.astart
Covers(w, k) == w.from <= First(k) /\ First(k) + mode.span <= w.to

\* The transmissions whose symbols are all in a window.
Transmissions(w) == {k \in 0..(MaxTotal \div mode.nmax) : Covers(w, k)}

\* Mutant of Emits: a repeat that is suppressed counts as emitted.
EmitsAll(n, b) ==
    /\ emitted' = n
    /\ bin' = b
    /\ IF emitted = -1 \/ n - emitted >= Dedup \/ b # bin
       THEN row' = decoded' /\ twice' = (twice \/ (row = decoded' /\ b = bin))
       ELSE UNCHANGED <<row, twice>>

\* should_emit: a repeat within Dedup of the last row and less than half a tone
\* away from it is dropped and does not count as one.
Emits(n, b) ==
    IF emitted = -1 \/ n - emitted >= Dedup \/ b # bin
    THEN /\ emitted' = n
         /\ bin' = b
         /\ row' = decoded'
         /\ twice' = (twice \/ (row = decoded' /\ b = bin))
    ELSE UNCHANGED <<emitted, bin, row, twice>>

\* Mutant of Rearmed: a poll that takes no snapshot re-arms too.
RearmedAlways(n) == armed' = n

Rearmed(n) == armed' = IF Fired(n) THEN n ELSE armed

\* Two polls are too far apart if neither needs to fall between the time when
\* the cycle has what a decode needs and the end of the cycle: the one that
\* enters the last part may take a snapshot that is short and puts the next off
\* by Rearm, and the other ends the cycle.
Paced(n, g) ==
    /\ entered' = IF ~LastPart(n) THEN 0
                  ELSE IF LastPart(total) /\ CycleStart(n) = CycleStart(total) THEN entered ELSE g
    /\ slow' = IF CycleStart(n) = CycleStart(total) THEN slow
               ELSE entered + g > mode.nmax - Needed(mode) + 2

\* js8_step, after g more samples: snapshot_ready, the decode and the rows.
Poll(g) ==
    LET n == total + g
        found == IF Fired(n) THEN Transmissions(SnapshotReady(n)) ELSE {}
    IN  /\ n <= MaxTotal
        /\ total' = n
        /\ Rearmed(n)
        /\ IF found # {}
           THEN decoded' = Max(found) /\ \E b \in Bins : Emits(n, b)
           ELSE UNCHANGED <<decoded, emitted, bin, row, twice>>
        /\ Paced(n, g)
        /\ UNCHANGED <<mode, phase>>

Js8Init ==
    /\ mode \in Modes
    /\ phase \in {p \in Phases : p < mode.nmax}
    /\ total = 0
    /\ armed = 0
    /\ decoded = -1
    /\ emitted = -1
    /\ bin \in Bins
    /\ row = -1
    /\ twice = FALSE
    /\ entered = 0
    /\ slow = FALSE

Js8Next == \E g \in Gaps : Poll(g)

Js8Spec == Js8Init /\ [][Js8Next]_js8vars
-----------------------------------------------------------------------------
(* Properties.                                                             *)

\* The cycle before the one that runs.
Ended == (total - 1) \div mode.nmax - 1

\* Part of the station's symbols are in one cycle of the decoder and the rest
\* in the next.
Straddles == phase + mode.astart < mode.nmax /\ phase + mode.astart + mode.span > mode.nmax

\* Whenever the snapshots at the begin of the cycle re-armed, a station whose
\* symbols end half a second before the decoder's cycle is decoded in every
\* cycle, except one that ended among slow polls: the one that entered its last
\* part and the one that ended it came so late that together they exceed what
\* follows the needed samples (1.38 s for JS8 A, two polls of 0.69 s).  And a
\* station that straddles two cycles is in no window as a whole: the snapshots
\* at the begin of a cycle, which are there for it, hold nothing of the cycle
\* before.
CycleDecoded ==
    /\ total > 0 /\ phase <= Margin /\ ~slow => decoded >= Ended
    /\ Straddles => decoded = -1

\* A transmission has a second row only after it was decoded at another
\* frequency; and a station that repeats its frame has a row again with its
\* first decode after the suppression, if not before: the repeats that are
\* suppressed do not extend it.
OneRowThenAnother ==
    /\ ~twice
    /\ row # -1 => (decoded - row) * mode.nmax <= Dedup
=============================================================================
