----------------------------- MODULE Hl2Control -----------------------------
(***************************************************************************)
(* One running HL2 (hl2/src/hl2.rs): the control handle its clients share, *)
(* the fan-out of per-slot rings (hl2/src/receiver/fanout.rs), the pump    *)
(* task run_loop, and, external, the board and the UDP link.               *)
(*                                                                         *)
(* A client command is a sequence of steps, one per mutex it takes or      *)
(* frame it sends.  The fan-out's map has a mutex of its own which is held *)
(* for one call only, so every call on it is a step; the session's mutex   *)
(* is held while a frame is built, so building a frame is a step.          *)
(*                                                                         *)
(* A ring is named by the order of its creation.                           *)
(***************************************************************************)
EXTENDS Integers, Sequences, FiniteSets

CONSTANTS Clients,    \* tasks that may call tune, set_lna_gain, stop, ...
          Slots,      \* receiver slots, slot 1 among them
          Freqs,      \* NCO frequencies other than 0
          Gains,      \* LNA gains, DefaultGain among them
          DefaultGain,
          Masks,      \* open-collector masks; 0, the one at start, among them
          NoClient,   \* no client
          MaxCommands,\* bound: commands issued in a behaviour
          MaxInFlight \* bound: command frames on the link

ASSUME ControlAssumption ==
    /\ Slots \subseteq Nat \ {0}
    /\ IsFiniteSet(Slots)
    /\ 1 \in Slots
    /\ Freqs \subseteq Nat \ {0}
    /\ DefaultGain \in Gains
    /\ 0 \in Masks
    /\ NoClient \notin Clients
    /\ MaxCommands \in Nat
    /\ MaxInFlight \in Nat \ {0}

VARIABLES
    rings,     \* the fan-out: active slot -> its ring
    ringCount, \* rings created so far
    writer,    \* holder of write_lock, or NoClient
    client,    \* client -> the command it is executing
    oc,        \* the session's open-collector mask
    lna,       \* the handle's copy of the LNA gain
    started,   \* the handle's started flag
    closed,    \* the consumer dropped the event receiver
    pump,      \* the pump task
    toBoard,   \* frames on the link to the board, oldest first
    toHost,    \* receiver counts of the EP6 frames on the link to the host
    board,     \* the board: its receiver count, masks, registers
    tuned,     \* history: the frequency each slot was last tuned to
    mishap,    \* history: a command frame was lost or could not be sent
    commands   \* commands issued so far

fanoutVars == <<rings, ringCount>>
handleVars == <<oc, lna, started, closed>>
linkVars == <<toBoard, toHost, board, mishap>>
historyVars == <<tuned, commands>>
vars == <<rings, ringCount, writer, client, oc, lna, started, closed, pump,
          toBoard, toHost, board, tuned, mishap, commands>>

Idle == [pc |-> "idle"]
Polling == [pc |-> "select"]

Active == DOMAIN rings

\* BasebandFanout::rx_count.
RxCount == Cardinality(Active)

\* Mutant of OnWire: the subtraction wraps before three bits are kept.
OnWireWrapping(n) == IF n = 0 THEN 8 ELSE ((n - 1) % 8) + 1

\* The receiver count that C4 carries: n_recv - 1, saturated at 0, in three
\* bits.
OnWire(n) == IF n = 0 THEN 1 ELSE ((n - 1) % 8) + 1

KeepAlive(n) == [kind |-> "keepalive", n |-> OnWire(n), oc |-> oc]
TuneFrame(s, f, n) ==
    [kind |-> "tune", n |-> OnWire(n), oc |-> oc, slot |-> s, freq |-> f]
LnaFrame(g, n) == [kind |-> "lna", n |-> OnWire(n), oc |-> oc, gain |-> g]
StopFrame == [kind |-> "stop"]

-----------------------------------------------------------------------------
(* The fan-out.                                                            *)

\* Mutant of Register: a slot that has a ring gets a new one.
RegisterAnew(s) ==
    /\ rings' = [x \in Active \union {s} |-> IF x = s THEN ringCount + 1 ELSE rings[x]]
    /\ ringCount' = ringCount + 1

Register(s) ==
    IF s \in Active
    THEN UNCHANGED <<rings, ringCount>>
    ELSE /\ rings' = [x \in Active \union {s} |-> IF x = s THEN ringCount + 1 ELSE rings[x]]
         /\ ringCount' = ringCount + 1

Unregister(s) ==
    /\ rings' = [x \in Active \ {s} |-> rings[x]]
    /\ UNCHANGED ringCount

-----------------------------------------------------------------------------
(* The link and the board (external).                                      *)

linkStep == UNCHANGED <<fanoutVars, handleVars, writer, client, pump, historyVars>>

\* A datagram goes onto the link, or is dropped when the link is full.
Transmit(frame) ==
    IF Len(toBoard) < MaxInFlight
    THEN toBoard' = Append(toBoard, frame) /\ mishap' = mishap
    ELSE toBoard' = toBoard /\ mishap' = TRUE

LoseCommand ==
    /\ toBoard # <<>>
    /\ toBoard' = Tail(toBoard)
    /\ mishap' = TRUE
    /\ UNCHANGED <<toHost, board>>
    /\ linkStep

\* Every command frame carries the count and the mask; a tune or an LNA
\* frame writes one register on top.
Applied(b, f) ==
    CASE f.kind = "stop"      -> [b EXCEPT !.streaming = FALSE]
      [] f.kind = "keepalive" -> [b EXCEPT !.n = f.n, !.oc = f.oc]
      [] f.kind = "tune"      -> [b EXCEPT !.n = f.n, !.oc = f.oc, !.nco[f.slot] = f.freq]
      [] f.kind = "lna"       -> [b EXCEPT !.n = f.n, !.oc = f.oc, !.gain = f.gain]

DeliverCommand ==
    /\ toBoard # <<>>
    /\ board' = Applied(board, Head(toBoard))
    /\ toBoard' = Tail(toBoard)
    /\ UNCHANGED <<toHost, mishap>>
    /\ linkStep

\* The board streams EP6 frames laid out for its own receiver count; one at
\* a time is on the link.
StreamFrame ==
    /\ board.streaming
    /\ toHost = <<>>
    /\ toHost' = <<board.n>>
    /\ UNCHANGED <<toBoard, board, mishap>>
    /\ linkStep

LoseFrame ==
    /\ toHost # <<>>
    /\ toHost' = Tail(toHost)
    /\ UNCHANGED <<toBoard, board, mishap>>
    /\ linkStep

-----------------------------------------------------------------------------
(* The clients' commands.                                                  *)

clientStep == UNCHANGED pump

Now(c, state) == client' = [client EXCEPT ![c] = state]

Ask(c, op) ==
    /\ client[c] = Idle
    /\ commands < MaxCommands
    /\ commands' = commands + 1
    /\ Now(c, [pc |-> "queued", op |-> op])
    /\ UNCHANGED <<fanoutVars, handleVars, writer, linkVars, tuned>>
    /\ clientStep

Tunes == [kind : {"tune"}, slot : Slots, freq : Freqs \union {0}]
Amplifications == [kind : {"lna"}, gain : Gains]
Writes == Tunes \union Amplifications

\* Mutant of TakeWriteLock: nobody waits.
TakeNoLock(c) ==
    /\ client[c].pc = "queued"
    /\ writer' = c
    /\ Now(c, [pc |-> IF client[c].op.kind = "tune" THEN "apply" ELSE "count", op |-> client[c].op])
    /\ UNCHANGED <<fanoutVars, handleVars, linkVars, tuned, commands>>
    /\ clientStep

\* tune and set_lna_gain take the write lock first.
TakeWriteLock(c) ==
    /\ client[c].pc = "queued"
    /\ writer = NoClient
    /\ writer' = c
    /\ Now(c, [pc |-> IF client[c].op.kind = "tune" THEN "apply" ELSE "count", op |-> client[c].op])
    /\ UNCHANGED <<fanoutVars, handleVars, linkVars, tuned, commands>>
    /\ clientStep

\* tune: the slot is registered, or, when the frequency is 0, unregistered.
ApplyTune(c) ==
    /\ client[c].pc = "apply"
    /\ IF client[c].op.freq = 0
       THEN /\ Unregister(client[c].op.slot)
            /\ Now(c, [pc |-> "anchor", op |-> client[c].op])
       ELSE /\ Register(client[c].op.slot)
            /\ Now(c, [pc |-> "count", op |-> client[c].op])
    /\ UNCHANGED <<handleVars, writer, linkVars, tuned, commands>>
    /\ clientStep

\* Mutant of Anchor: slot 1 is not put back.
AnchorNothing(c) ==
    /\ client[c].pc = "anchor"
    /\ Now(c, [pc |-> "count", op |-> client[c].op])
    /\ UNCHANGED <<fanoutVars, handleVars, writer, linkVars, tuned, commands>>
    /\ clientStep

\* tune: a closing tune that left the set empty puts slot 1 back.
Anchor(c) ==
    /\ client[c].pc = "anchor"
    /\ IF RxCount = 0 THEN Register(1) ELSE UNCHANGED fanoutVars
    /\ Now(c, [pc |-> "count", op |-> client[c].op])
    /\ UNCHANGED <<handleVars, writer, linkVars, tuned, commands>>
    /\ clientStep

ReadCount(c) ==
    /\ client[c].pc = "count"
    /\ Now(c, [pc |-> "build", op |-> client[c].op, n |-> RxCount])
    /\ UNCHANGED <<fanoutVars, handleVars, writer, linkVars, tuned, commands>>
    /\ clientStep

\* Under the session's mutex.
FrameFor(op, n) ==
    IF op.kind = "tune" THEN TuneFrame(op.slot, op.freq, n) ELSE LnaFrame(op.gain, n)

Build(c) ==
    /\ client[c].pc = "build"
    /\ Now(c, [pc |-> "send", op |-> client[c].op, frame |-> FrameFor(client[c].op, client[c].n)])
    /\ UNCHANGED <<fanoutVars, handleVars, writer, linkVars, tuned, commands>>
    /\ clientStep

\* Mutant of Send: the write lock is released before the pause.
SendAndUnlock(c) ==
    /\ client[c].pc = "send"
    /\ Transmit(client[c].frame)
    /\ writer' = NoClient
    /\ Now(c, [pc |-> "settle", op |-> client[c].op])
    /\ UNCHANGED <<fanoutVars, handleVars, toHost, board, tuned, commands>>
    /\ clientStep

Send(c) ==
    /\ client[c].pc = "send"
    /\ Transmit(client[c].frame)
    /\ Now(c, [pc |-> "settle", op |-> client[c].op])
    /\ UNCHANGED <<fanoutVars, handleVars, writer, toHost, board, tuned, commands>>
    /\ clientStep

\* send_to fails: the command returns Err with the fan-out already changed.
SendFails(c) ==
    /\ client[c].pc = "send"
    /\ mishap' = TRUE
    /\ writer' = NoClient
    /\ Now(c, Idle)
    /\ UNCHANGED <<fanoutVars, handleVars, toBoard, toHost, board, tuned, commands>>
    /\ clientStep

\* After the send: set_lna_gain stores its copy; both sleep and unlock.
Settle(c) ==
    /\ client[c].pc = "settle"
    /\ LET op == client[c].op
       IN  /\ lna' = IF op.kind = "lna" THEN op.gain ELSE lna
           /\ tuned' = IF op.kind = "tune" THEN [tuned EXCEPT ![op.slot] = op.freq] ELSE tuned
    /\ writer' = NoClient
    /\ Now(c, Idle)
    /\ UNCHANGED <<fanoutVars, oc, started, closed, linkVars, commands>>
    /\ clientStep

\* set_oc_bits takes the session's mutex only and sends nothing.
SetOcBits(c, mask) ==
    /\ client[c] = Idle
    /\ commands < MaxCommands
    /\ commands' = commands + 1
    /\ oc' = mask
    /\ UNCHANGED <<fanoutVars, lna, started, closed, writer, client, linkVars, tuned>>
    /\ clientStep

\* stop builds its frame without the write lock.
BuildStop(c) ==
    /\ client[c] = Idle
    /\ commands < MaxCommands
    /\ commands' = commands + 1
    /\ Now(c, [pc |-> "stopping"])
    /\ UNCHANGED <<fanoutVars, handleVars, writer, linkVars, tuned>>
    /\ clientStep

SendStop(c) ==
    /\ client[c].pc = "stopping"
    /\ Transmit(StopFrame)
    /\ Now(c, [pc |-> "stopped"])
    /\ UNCHANGED <<fanoutVars, handleVars, writer, toHost, board, tuned, commands>>
    /\ clientStep

SendStopFails(c) ==
    /\ client[c].pc = "stopping"
    /\ mishap' = TRUE
    /\ Now(c, Idle)
    /\ UNCHANGED <<fanoutVars, handleVars, writer, toBoard, toHost, board, tuned, commands>>
    /\ clientStep

MarkStopped(c) ==
    /\ client[c].pc = "stopped"
    /\ started' = FALSE
    /\ Now(c, Idle)
    /\ UNCHANGED <<fanoutVars, oc, lna, closed, writer, linkVars, tuned, commands>>
    /\ clientStep

\* baseband_ring(slot): the slot's ring if it has one (one call on the
\* fan-out), otherwise the first of all rings (a second call).
LookUpRing(c, slot) ==
    /\ client[c] = Idle
    /\ slot \notin Active
    /\ commands < MaxCommands
    /\ commands' = commands + 1
    /\ Now(c, [pc |-> "fallback"])
    /\ UNCHANGED <<fanoutVars, handleVars, writer, linkVars, tuned>>
    /\ clientStep

\* The fallback expects a first ring and panics without one.
FallBack(c) ==
    /\ client[c].pc = "fallback"
    /\ Now(c, IF Active = {} THEN [pc |-> "panicked"] ELSE Idle)
    /\ UNCHANGED <<fanoutVars, handleVars, writer, linkVars, tuned, commands>>
    /\ clientStep

Command(c) ==
    \/ TakeWriteLock(c) \/ ApplyTune(c) \/ Anchor(c) \/ ReadCount(c) \/ Build(c)
    \/ Send(c) \/ Settle(c) \/ SendStop(c) \/ MarkStopped(c) \/ FallBack(c)
-----------------------------------------------------------------------------
(* The pump task, run_loop.                                                *)

pumpStep == UNCHANGED <<fanoutVars, oc, lna, started, closed, writer, client,
                        tuned, commands>>

\* The consumer (the hub's spectrum task) drops the event receiver.
DropReceiver ==
    /\ ~closed
    /\ closed' = TRUE
    /\ UNCHANGED <<fanoutVars, oc, lna, started, writer, client, pump, linkVars, historyVars>>

\* Mutant of PumpExit: the closed channel is noticed with the next datagram.
PumpExitOnData ==
    /\ pump = Polling
    /\ closed
    /\ toHost # <<>>
    /\ pump' = [pc |-> "gone"]
    /\ UNCHANGED linkVars
    /\ pumpStep

\* The first arm of the biased select.
PumpExit ==
    /\ pump = Polling
    /\ closed
    /\ pump' = [pc |-> "gone"]
    /\ UNCHANGED linkVars
    /\ pumpStep

\* Mutant of PumpTick: the keep-alive asserts one receiver.
PumpTickOne ==
    /\ pump = Polling
    /\ ~closed
    /\ pump' = [pc |-> "tick", n |-> 1]
    /\ UNCHANGED linkVars
    /\ pumpStep

\* The keep-alive tick: the count is read before the session's mutex is
\* taken, and the frame is sent after it is released.
PumpTick ==
    /\ pump = Polling
    /\ ~closed
    /\ pump' = [pc |-> "tick", n |-> RxCount]
    /\ UNCHANGED linkVars
    /\ pumpStep

PumpBuild ==
    /\ pump.pc = "tick"
    /\ pump' = [pc |-> "send", frame |-> KeepAlive(pump.n)]
    /\ UNCHANGED linkVars
    /\ pumpStep

PumpSend ==
    /\ pump.pc = "send"
    /\ Transmit(pump.frame)
    /\ pump' = Polling
    /\ UNCHANGED <<toHost, board>>
    /\ pumpStep

\* A datagram: the count to parse it with and the rings to push to come
\* from one snapshot of the fan-out.
PumpReceive ==
    /\ pump = Polling
    /\ ~closed
    /\ toHost # <<>>
    /\ toHost' = Tail(toHost)
    /\ pump' = [pc |-> "parsed", n |-> RxCount, size |-> Head(toHost)]
    /\ UNCHANGED <<toBoard, board, mishap>>
    /\ pumpStep

\* The frame is taken apart, its streams are pushed to the snapshot's rings
\* and the events are sent.  A closed event channel ends the task at once if
\* the frame carries an acknowledgement or completes a wideband block;
\* otherwise only the loop over the frame's chunks ends.
PumpPush ==
    /\ pump.pc = "parsed"
    /\ pump' \in {Polling} \union (IF closed THEN {[pc |-> "gone"]} ELSE {})
    /\ UNCHANGED linkVars
    /\ pumpStep

\* recv_from fails.
PumpSocketError ==
    /\ pump = Polling
    /\ ~closed
    /\ pump' = [pc |-> "gone"]
    /\ UNCHANGED linkVars
    /\ pumpStep
-----------------------------------------------------------------------------
\* As start_with_speed leaves the handle: slot 1 seeded, the LNA frame with
\* n_recv = 1 sent.
Init ==
    /\ rings = [s \in {1} |-> 1]
    /\ ringCount = 1
    /\ writer = NoClient
    /\ client = [c \in Clients |-> Idle]
    /\ oc = 0
    /\ lna = DefaultGain
    /\ started = TRUE
    /\ closed = FALSE
    /\ pump = Polling
    /\ toBoard = <<>>
    /\ toHost = <<>>
    /\ board = [n |-> 1, oc |-> 0, gain |-> DefaultGain, streaming |-> TRUE,
                nco |-> [s \in Slots |-> 0]]
    /\ tuned = [s \in Slots |-> 0]
    /\ mishap = FALSE
    /\ commands = 0

Next ==
    \/ \E c \in Clients :
          \/ \E op \in Writes : Ask(c, op)
          \/ \E mask \in Masks : SetOcBits(c, mask)
          \/ \E slot \in Slots : LookUpRing(c, slot)
          \/ BuildStop(c) \/ SendFails(c) \/ SendStopFails(c)
          \/ Command(c)
    \/ DropReceiver \/ PumpExit \/ PumpTick \/ PumpBuild \/ PumpSend
    \/ PumpReceive \/ PumpPush \/ PumpSocketError
    \/ LoseCommand \/ DeliverCommand \/ StreamFrame \/ LoseFrame

Spec == Init /\ [][Next]_vars

\* A started command goes on, the pump is scheduled and prefers a due tick
\* to a datagram, and a link that is used again and again delivers again
\* and again.
Fairness ==
    /\ \A c \in Clients : WF_vars(Command(c))
    /\ WF_vars(PumpExit) /\ WF_vars(PumpBuild) /\ WF_vars(PumpSend) /\ WF_vars(PumpPush)
    /\ SF_vars(PumpTick)
    /\ SF_vars(DeliverCommand)

FairSpec == Spec /\ Fairness
-----------------------------------------------------------------------------
(* Properties.                                                             *)

Counts == 1..Cardinality(Slots)

Frames ==
    [kind : {"stop"}]
    \union [kind : {"keepalive"}, n : Counts, oc : Masks]
    \union [kind : {"tune"}, n : Counts, oc : Masks, slot : Slots, freq : Freqs \union {0}]
    \union [kind : {"lna"}, n : Counts, oc : Masks, gain : Gains]

ClientStates ==
    [pc : {"idle", "stopping", "stopped", "fallback", "panicked"}]
    \union [pc : {"queued", "count", "settle"}, op : Writes]
    \union [pc : {"apply", "anchor"}, op : Tunes]
    \union [pc : {"build"}, op : Writes, n : Counts]
    \union [pc : {"send"}, op : Writes, frame : Frames]

PumpStates ==
    [pc : {"select", "gone"}]
    \union [pc : {"tick"}, n : Counts \union {0}]
    \union [pc : {"send"}, frame : Frames]
    \union [pc : {"parsed"}, n : Counts \union {0}, size : Counts]

\* Type correctness; no frame and no board ever carries a count of 0, nor one
\* beyond the number of slots, although the pump's own count may be 0.
TypeOK ==
    /\ Active \subseteq Slots
    /\ ringCount \in Nat
    /\ rings \in [Active -> 1..ringCount]
    /\ writer \in Clients \union {NoClient}
    /\ client \in [Clients -> ClientStates]
    /\ oc \in Masks
    /\ lna \in Gains
    /\ started \in BOOLEAN
    /\ closed \in BOOLEAN
    /\ pump \in PumpStates
    /\ toBoard \in Seq(Frames)
    /\ toHost \in Seq(Counts)
    /\ board \in [n : Counts, oc : Masks, gain : Gains, streaming : BOOLEAN,
                  nco : [Slots -> Freqs \union {0}]]
    /\ tuned \in [Slots -> Freqs \union {0}]
    /\ mishap \in BOOLEAN
    /\ commands \in 0..MaxCommands

\* The comment in tune(): the receiver set is empty only for as long as one
\* tune is between closing the last slot and putting slot 1 back.
EmptyOnlyWhileTuning ==
    Active = {} => \E c \in Clients : writer = c /\ client[c].pc = "anchor"

\* The write lock makes the count in a tune or LNA frame the one that is
\* still true when the frame is sent, the change of the tune included.
CommittedCount ==
    \A c \in Clients :
        /\ client[c].pc = "build" => client[c].n = RxCount
        /\ client[c].pc = "send" => client[c].frame.n = OnWire(RxCount)

\* register_slot: as long as a slot stays active its ring stays the same, so
\* the threads bound to it keep receiving; no two slots share a ring.
RetuneKeepsRing ==
    [][/\ \A s \in Active \intersect Active' : rings'[s] = rings[s]
       /\ \A s \in Active' \ Active : rings'[s] > ringCount]_vars

\* Writes of several clients are applied by the board in the order in which
\* they held the write lock: unless a frame was lost, the board's registers
\* are those of the last completed writes.
RegistersAgree ==
    ( /\ writer = NoClient
      /\ ~mishap
      /\ \A i \in 1..Len(toBoard) : toBoard[i].kind \in {"keepalive", "stop"} )
    => board.nco = tuned /\ board.gain = lna

\* Whatever was lost, delayed or overtaken, the keep-alives of a pump that
\* lives on bring the board's receiver count and relay mask back to the
\* host's, and from then on every frame is taken apart with its own count
\* (up to eight receivers, which is what three bits can say).
Settles ==
    [](pump.pc # "gone") =>
        <>[](/\ board.n = RxCount
             /\ board.oc = oc
             /\ pump.pc = "parsed" => pump.n = pump.size)

\* The comment in run_loop: the pump ends once the event receiver is dropped,
\* also when the board sends nothing more.
PumpExits == closed ~> pump.pc = "gone"
=============================================================================
