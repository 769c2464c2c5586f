----------------------------- MODULE PskReporter -----------------------------
(***************************************************************************)
(* Spot posting to PSK Reporter: the queue and the duplicate cache of      *)
(* pskrep/src/lib.rs, the datagrams of pskrep/src/wire.rs and the sender   *)
(* of api/src/pskrep_hook.rs.                                              *)
(*                                                                         *)
(* Decode threads add spots and the sender task drains them; each holds    *)
(* the mutex of the Pskrep for one step.  The sender gives it up before it *)
(* builds and sends its datagrams, so that every send is a step of its own *)
(* and spots arrive between them.  `now' is the wall clock in minutes,     *)
(* which an administrator or NTP may set back, so that it lags behind the  *)
(* time `elapsed'; the sender's interval does not depend on it.            *)
(*                                                                         *)
(* Posting is enabled; a decode that is not posted (no frequency, no call, *)
(* a duplicate) changes nothing.                                           *)
(*                                                                         *)
(* Left out: the text of the records, the export time and the observation  *)
(* domain of a datagram, and the overflow of the 32-bit sequence counter.  *)
(***************************************************************************)
EXTENDS Integers, FiniteSets, Sequences, SequencesExt, Functions

CONSTANTS Calls,        \* callsigns as decoded
          Upper,        \* str::to_uppercase on them
          RecordBytes,  \* length of a callsign's spot record
          Frequencies,  \* absolute frequencies of decoded signals, in Hz
          ReceiverBytes, DescriptorBytes, \* length of those sets in a datagram
          MaxPayload,   \* MAX_UDP_IPFIX_PAYLOAD_BYTES
          DedupTtl, CachePrune, MaxPending, \* PskCfg
          Descriptors,  \* reports that carry descriptors on a new socket
          MaxSpots,     \* bound: spots queued in a behaviour
          MaxElapsed,   \* bound: minutes of a behaviour
          MaxFailures   \* bound: sends that fail

ASSUME PskAssumption ==
    /\ Upper \in [Calls -> Calls] /\ RecordBytes \in [Calls -> Nat \ {0}]
    /\ Frequencies \subseteq Nat \ {0}
    /\ {ReceiverBytes, DescriptorBytes, MaxPayload, MaxSpots, MaxElapsed, MaxFailures} \subseteq Nat
    /\ {DedupTtl, CachePrune, MaxPending, Descriptors} \subseteq Nat \ {0}
    /\ DedupTtl <= CachePrune

VARIABLES
    now,       \* the wall clock
    elapsed,   \* history: the minutes that have passed
    cache,     \* PskReporter.cache: when a (callsign, band) was queued last
    queue,     \* PskReporter.queue
    queued,    \* history: every spot that was queued, in order
    sender,    \* run_sender: "connect", "wait" for the tick, or "sending"
    descLeft,  \* Pskrep.desc_left
    seq,       \* Pskrep.seq
    report,    \* the datagrams of this cycle that are still to be sent
    seqAdv,    \* spots this cycle has sent
    socket,    \* history: sockets opened so far
    wire,      \* history: every datagram sent, in order
    failures   \* history: sends that failed

clock == <<now, elapsed>>
spots == <<cache, queue, queued>>
sending == <<sender, descLeft, seq, report, seqAdv, socket, wire, failures>>
vars == <<clock, spots, sending>>

(***************************************************************************)
(* The queue.                                                              *)
(***************************************************************************)
Exempt(hz) == hz >= 49000000

\* band_of: the index is the number of these edges at or below the frequency.
BandEdges == {3500000, 5000000, 7000000, 10000000, 14000000, 18000000, 21000000, 24000000,
              28000000, 29700000, 54000000, 90000000, 144000000, 174000000}
BandOf(hz) == Cardinality({edge \in BandEdges : edge <= hz})

Key(spot) == <<Upper[spot.call], BandOf(spot.hz)>>

\* u32::saturating_sub: a stamp ahead of the clock is of age 0.
Age(stamp) == IF stamp <= now THEN now - stamp ELSE 0
Duplicate(spot) == /\ ~Exempt(spot.hz)
                   /\ Key(spot) \in DOMAIN cache
                   /\ Age(cache[Key(spot)]) < DedupTtl
\* Mutant: an entry ahead of a clock set back counts as old.
PrunedAhead(entries) ==
    RestrictValues(entries, LAMBDA stamp : stamp <= now /\ now - stamp <= CachePrune)
Pruned(entries) == RestrictValues(entries, LAMBDA stamp : Age(stamp) <= CachePrune)
\* Mutant: no cap.
AnyLength(q) == q
Capped(q) == IF Len(q) > MaxPending THEN Tail(q) ELSE q

\* HashMap::insert.
Stamped(k) == [x \in DOMAIN cache \cup {k} |-> IF x = k THEN now ELSE cache[x]]

\* `nr' and `at' are history: the place among the spots queued, and the time.
Add(call, hz) ==
    LET spot == [call |-> call, hz |-> hz, nr |-> Len(queued) + 1, at |-> elapsed]
    IN  /\ Len(queued) < MaxSpots
        /\ ~Duplicate(spot)
        /\ cache' = Pruned(Stamped(Key(spot)))
        /\ queue' = Capped(Append(queue, spot))
        /\ queued' = Append(queued, spot)
        /\ UNCHANGED <<clock, sending>>

Elapse ==
    /\ elapsed < MaxElapsed
    /\ now' = now + 1 /\ elapsed' = elapsed + 1
    /\ UNCHANGED <<spots, sending>>

SetBack ==
    /\ now' \in 0..(now - 1)
    /\ UNCHANGED <<elapsed, spots, sending>>

(***************************************************************************)
(* The datagrams of a report.                                              *)
(***************************************************************************)
HeaderBytes == 16
Padded(n) == 4 * ((n + 3) \div 4)
Bytes(group) ==
    LET sum[n \in 0..Len(group)] == IF n = 0 THEN 0 ELSE sum[n - 1] + RecordBytes[group[n].call]
    IN  sum[Len(group)]
BaseBytes(withDescriptors) == ReceiverBytes + (IF withDescriptors THEN DescriptorBytes ELSE 0)

\* The length of message(base sets ++ sender_set(group)).
DatagramBytes(withDescriptors, group) ==
    Padded(HeaderBytes + BaseBytes(withDescriptors) + Padded(4 + Bytes(group)))

\* The cost model of build_packets, before a record joins a group.
Fit(withDescriptors, recordBytes) ==
    Padded(HeaderBytes + BaseBytes(withDescriptors) + Padded(4 + recordBytes))

\* A record joins the last datagram unless it would not fit; only the first
\* datagram carries the descriptors.
Joined(withDescriptors, first, packets, spot) ==
    LET last == Last(packets)
        full == \/ packets = << >>
                \/ Fit(last.descriptors, Bytes(last.spots) + RecordBytes[spot.call]) > MaxPayload
    IN  IF full
        THEN Append(packets, [descriptors |-> withDescriptors /\ packets = << >>,
                              seq |-> IF packets = << >> THEN first ELSE last.seq + Len(last.spots),
                              spots |-> <<spot>>])
        ELSE [packets EXCEPT ![Len(packets)] = [last EXCEPT !.spots = Append(last.spots, spot)]]

BuildPackets(withDescriptors, batch, first) ==
    LET packets[n \in 0..Len(batch)] ==
            IF n = 0 THEN << >> ELSE Joined(withDescriptors, first, packets[n - 1], batch[n])
    IN  packets[Len(batch)]

(***************************************************************************)
(* The sender.  A lookup or a bind that fails is tried again after 5 s and *)
(* changes nothing; neither does a tick that finds the queue empty.        *)
(***************************************************************************)
\* Mutant: a new socket does not start over with descriptors.
ConnectPlain ==
    /\ sender = "connect" /\ sender' = "wait" /\ socket' = socket + 1
    /\ UNCHANGED <<clock, spots, descLeft, seq, report, seqAdv, wire, failures>>
Connect ==
    /\ sender = "connect"
    /\ sender' = "wait"
    /\ descLeft' = Descriptors
    /\ socket' = socket + 1
    /\ UNCHANGED <<clock, spots, seq, report, seqAdv, wire, failures>>

\* Mutant: the queue is copied, not drained.
TickUndrained ==
    /\ sender = "wait" /\ queue # << >>
    /\ descLeft' = IF descLeft > 0 THEN descLeft - 1 ELSE 0
    /\ report' = BuildPackets(descLeft > 0, queue, seq)
    /\ seqAdv' = 0 /\ sender' = "sending"
    /\ UNCHANGED <<clock, spots, seq, socket, wire, failures>>
\* Mutant: nothing is sent once the descriptors were.
TickDescribed ==
    /\ sender = "wait" /\ queue # << >> /\ descLeft > 0
    /\ descLeft' = descLeft - 1
    /\ report' = BuildPackets(TRUE, queue, seq)
    /\ queue' = << >> /\ seqAdv' = 0 /\ sender' = "sending"
    /\ UNCHANGED <<clock, cache, queued, seq, socket, wire, failures>>
Tick ==
    /\ sender = "wait"
    /\ queue # << >>
    /\ descLeft' = IF descLeft > 0 THEN descLeft - 1 ELSE 0
    /\ report' = BuildPackets(descLeft > 0, queue, seq)
    /\ queue' = << >>
    /\ seqAdv' = 0
    /\ sender' = "sending"
    /\ UNCHANGED <<clock, cache, queued, seq, socket, wire, failures>>

Send ==
    /\ sender = "sending"
    /\ report # << >>
    /\ LET packet == Head(report)
       IN  wire' = Append(wire, [descriptors |-> packet.descriptors, seq |-> packet.seq,
                                 spots |-> packet.spots, socket |-> socket])
    /\ report' = Tail(report)
    /\ seqAdv' = seqAdv + Len(Head(report).spots)
    /\ UNCHANGED <<clock, spots, sender, descLeft, seq, socket, failures>>

\* What was drained and not sent is lost; the sequence counter stays.
SendFails ==
    /\ sender = "sending"
    /\ report # << >>
    /\ failures < MaxFailures
    /\ failures' = failures + 1
    /\ report' = << >>
    /\ sender' = "connect"
    /\ UNCHANGED <<clock, spots, descLeft, seq, seqAdv, socket, wire>>

Finish ==
    /\ sender = "sending"
    /\ report = << >>
    /\ seq' = seq + seqAdv
    /\ sender' = "wait"
    /\ UNCHANGED <<clock, spots, descLeft, report, seqAdv, socket, wire, failures>>

Init ==
    /\ now = 0 /\ elapsed = 0
    /\ cache = << >> /\ queue = << >> /\ queued = << >>
    /\ sender = "connect" /\ descLeft = Descriptors /\ seq = 0
    /\ report = << >> /\ seqAdv = 0 /\ socket = 0 /\ wire = << >> /\ failures = 0

Sender == Connect \/ Tick \/ Send \/ SendFails \/ Finish
Next ==
    \/ \E call \in Calls, hz \in Frequencies : Add(call, hz)
    \/ Elapse
    \/ SetBack
    \/ Sender

Spec == Init /\ [][Next]_vars
FairSpec == Spec /\ WF_vars(Sender)

(***************************************************************************)
(* Properties.                                                             *)
(***************************************************************************)
Spots == [call : Calls, hz : Frequencies, nr : 1..MaxSpots, at : 0..MaxElapsed]
Packets == [descriptors : BOOLEAN, seq : 0..MaxSpots, spots : Seq(Spots)]
SentPackets == [descriptors : BOOLEAN, seq : 0..MaxSpots, spots : Seq(Spots), socket : 1..(MaxFailures + 1)]

\* The types; the queue is capped, the report is what the sender is busy with.
TypeOK ==
    /\ elapsed \in 0..MaxElapsed /\ now \in 0..elapsed
    /\ Range(cache) \subseteq 0..MaxElapsed
    /\ {queue, queued} \subseteq Seq(Spots) /\ report \in Seq(Packets) /\ wire \in Seq(SentPackets)
    /\ Len(queue) <= MaxPending /\ Len(queued) <= MaxSpots
    /\ sender \in {"connect", "wait", "sending"} /\ (report # << >> => sender = "sending")
    /\ descLeft \in 0..Descriptors /\ {seq, seqAdv} \subseteq 0..MaxSpots
    /\ socket \in 0..(MaxFailures + 1) /\ failures \in 0..MaxFailures

\* The spots of a sequence of datagrams are in the order they were queued.
Ordered(packets) ==
    \A i, j \in DOMAIN packets :
        \A k \in DOMAIN packets[i].spots, l \in DOMAIN packets[j].spots :
            i < j \/ (i = j /\ k < l) => packets[i].spots[k].nr < packets[j].spots[l].nr

\* Spots reach the collector in the order they were queued and none twice,
\* across reports, lost reports and overflows of the queue; an overflow costs
\* the oldest, the queue holds the newest spots without a gap.
InOrderOnce ==
    /\ Ordered(wire \o report)
    /\ \A i \in DOMAIN (wire \o report) : \A k \in DOMAIN (wire \o report)[i].spots :
          (wire \o report)[i].spots[k].nr <= Len(queued) - Len(queue)
    /\ \A i \in DOMAIN queue : queue[i].nr = Len(queued) - Len(queue) + i

\* A callsign is not queued on an HF band again before DedupTtl has really
\* passed, whatever has been pruned and however the clock was set back.
Respaced ==
    \A i, j \in DOMAIN queued :
        i < j /\ Key(queued[i]) = Key(queued[j]) /\ ~Exempt(queued[j].hz)
            => queued[j].at - queued[i].at >= DedupTtl

\* The first datagram of a socket has the descriptors of the templates ...
DescribedFirst ==
    \A i \in DOMAIN wire :
        (\A j \in 1..(i - 1) : wire[j].socket # wire[i].socket) => wire[i].descriptors

\* ... each datagram's number is its predecessor's and the spots that one
\* carried, within a report and from a report to the next ...
SequenceCounts ==
    \A i \in 1..(Len(wire) - 1) :
        wire[i].socket = wire[i + 1].socket
            => wire[i + 1].seq = wire[i].seq + Len(wire[i].spots)

\* ... and none is longer than the payload the collector accepts, unless a
\* single record is.
PayloadFits ==
    \A i \in DOMAIN wire :
        \/ DatagramBytes(wire[i].descriptors, wire[i].spots) <= MaxPayload
        \/ Len(wire[i].spots) = 1

\* A collector can read what a socket carries (wire.rs, build_packets, and the
\* bookkeeping of run_sender), failed sends and reconnects included.
CollectorReads == DescribedFirst /\ SequenceCounts /\ PayloadFits

\* Whatever waits in the queue is taken to be sent, however often the
\* sender had to open a new socket and whatever was queued meanwhile.
QueueDrains == queue # << >> ~> queue = << >>
==============================================================================
