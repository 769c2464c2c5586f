---------------------------- MODULE TeensyRadio ----------------------------
(* The Teensy receiver's control path: the tuning knob and the button with *)
(* their interrupt handlers, the radio task from waiting for an address to *)
(* streaming, the address server for a directly wired board, and the board *)
(* at the other end of a network that loses datagrams.                     *)
(*                                                                         *)
(* The handlers preempt the radio task and never each other (one priority  *)
(* level), and the lines move while they run.  The waiting loop's parts    *)
(* are actions of their own: an interrupt may fall between any two.  LNA   *)
(* and keep-alive frames, spectrum, meter and demodulator state are left   *)
(* out; the board and its address client are external.                     *)
EXTENDS Integers, FiniteSets, Sequences, SequencesExt

CONSTANTS
  StartNco,    \* TUNE_HZ, in units of one edge's step
  TopNco,      \* the upper end of the clamp
  Modes,       \* mode::len(), the length of the button's cycle
  MaxEdges,    \* bound: edges the knob makes
  MaxPresses,  \* bound: presses of the button
  MaxLoss,     \* bound: datagrams the network loses
  MaxFlight    \* bound: datagrams one direction carries

ASSUME ConstantsOK ==
  /\ {TopNco, StartNco, Modes, MaxEdges, MaxPresses, MaxLoss, MaxFlight} \subseteq Nat
  /\ StartNco <= TopNco /\ Modes > 0 /\ MaxFlight > 0

VARIABLES
  knob,    \* [pos, left, overrun]: the shaft; an edge met an unfinished handler
  irq,     \* pending interrupt lines: "a", "b", "button"
  isr,     \* the edge handler: [pc, line, a]
  enc,     \* [phase, steps, request]: the decoder's statics
  presses, \* presses the button has left
  task,    \* the radio task: [pc, link, armed, lease, acked, peer, nco, shown, mode]
  net,     \* [up, down, boot, loss]: datagrams to the board, from it, its DHCP
  board,   \* [ip, dhcp, on, nco]
  world    \* [router, unlucky, hasty, clamped]: the network, and history: a datagram sent
           \* once was lost, the wait ended before the board was bound, the clamp was met
vars == <<knob, irq, isr, enc, presses, task, net, board, world>>

(* Addresses: 0 none, 1 what a router gave the board, 2 and up the leases. *)
None == 0
Routed == 1
FirstLease == 2

-----------------------------------------------------------------------------
(* The quadrature decoder. *)

(* The cycle 0 -> 2 -> 3 -> 1 -> 0 of A + 2B.  *)
Cycle == <<0, 2, 3, 1>>
PhaseAt(p) == Cycle[(p % 4) + 1]
Place(phase) == CHOOSE i \in 0..3 : PhaseAt(i) = phase
LevelA(p) == PhaseAt(p) % 2
LevelB(p) == PhaseAt(p) \div 2

\* Mutant of Advance: a jump over a phase counts as an edge.
AdvanceJump(prev, cur) ==
  LET gap == (Place(cur) - Place(prev)) % 4 IN IF gap = 3 THEN -1 ELSE IF gap = 0 THEN 0 ELSE 1

Advance(prev, cur) ==
  LET gap == (Place(cur) - Place(prev)) % 4 IN IF gap = 1 THEN 1 ELSE IF gap = 3 THEN -1 ELSE 0

(* The shaft moves one edge; the line that changed raises its interrupt, *)
(* which a handler about to clear that line loses.                       *)
Turn(d) ==
  LET pos == knob.pos + d
      line == IF LevelA(pos) # LevelA(knob.pos) THEN "a" ELSE "b"
  IN
  /\ knob.left > 0
  /\ knob' = [pos |-> pos, left |-> knob.left - 1,
              overrun |-> knob.overrun \/ isr.pc # "idle" \/ irq \cap {"a", "b"} # {}]
  /\ irq' = irq \cup {line}
  /\ UNCHANGED <<isr, enc, presses, task, net, board, world>>

Press ==
  /\ presses > 0
  /\ presses' = presses - 1
  /\ irq' = irq \cup {"button"}
  /\ UNCHANGED <<knob, isr, enc, task, net, board, world>>

(* A handler enters for its line and reads A ... *)
EdgeEnter(line) ==
  /\ isr.pc = "idle" /\ line \in irq
  /\ isr' = [pc |-> "sample", line |-> line, a |-> LevelA(knob.pos)]
  /\ UNCHANGED <<knob, irq, enc, presses, task, net, board, world>>

(* ... then B, decodes the pair and counts ... *)
EdgeSample ==
  LET cur == isr.a + 2 * LevelB(knob.pos) IN
  /\ isr.pc = "sample"
  /\ enc' = [enc EXCEPT !.phase = cur, !.steps = @ + Advance(enc.phase, cur)]
  /\ isr' = [isr EXCEPT !.pc = "clear"]
  /\ UNCHANGED <<knob, irq, presses, task, net, board, world>>

(* ... and clears the line's pending bit. *)
EdgeClear ==
  /\ isr.pc = "clear"
  /\ irq' = irq \ {isr.line}
  /\ isr' = [isr EXCEPT !.pc = "idle"]
  /\ UNCHANGED <<knob, enc, presses, task, net, board, world>>

(* The button's handler: the request is a latch, presses coalesce. *)
ButtonIsr ==
  /\ isr.pc = "idle" /\ "button" \in irq
  /\ enc' = [enc EXCEPT !.request = TRUE]
  /\ irq' = irq \ {"button"}
  /\ UNCHANGED <<knob, isr, presses, task, net, board, world>>

-----------------------------------------------------------------------------
(* The radio task. *)

Runs(pc) == task.pc = pc /\ isr.pc = "idle"

(* smoltcp sends to the peer, whoever has that address. *)
Sent(kind, hz) == [kind |-> kind, addr |-> task.peer, hz |-> hz]

LinkCheck ==
  /\ Runs("wait") /\ ~task.link
  /\ task' = [task EXCEPT !.link = TRUE]
  /\ UNCHANGED <<knob, irq, isr, enc, presses, net, board, world>>

(* The button arms the address server and fixes the lease. *)
ArmServer ==
  /\ Runs("wait") /\ task.link /\ ~task.armed /\ enc.request
  /\ enc' = [enc EXCEPT !.request = FALSE]
  /\ task' = [task EXCEPT !.armed = TRUE, !.lease = FirstLease]
  /\ UNCHANGED <<knob, irq, isr, presses, net, board, world>>

(* The loop ends: what was latched meanwhile is drained. *)
Leaves(pc, peer) ==
  /\ task' = [task EXCEPT !.pc = pc, !.peer = peer]
  /\ enc' = [enc EXCEPT !.request = FALSE]

\* Mutant of ServeDhcp: every drain hands out the next lease of the pool.
ServeDhcpNextLease ==
  LET until == SelectInSeq(net.boot, LAMBDA q : q.kind = "request")
      n == IF until > 0 THEN until ELSE Len(net.boot)
      next == task.lease + 1
  IN
  /\ Runs("wait") /\ task.armed /\ n > 0
  /\ Len(net.up) + n <= MaxFlight
  /\ net' = [net EXCEPT
       !.boot = SubSeq(@, n + 1, Len(@)),
       !.up = @ \o [i \in 1..n |-> [kind |-> net.boot[i].kind, addr |-> next, hz |-> 0]]]
  /\ IF until > 0
     THEN /\ enc' = [enc EXCEPT !.request = FALSE]
          /\ task' = [task EXCEPT !.acked = TRUE, !.pc = "stop", !.peer = next, !.lease = next]
     ELSE task' = [task EXCEPT !.acked = TRUE, !.lease = next] /\ UNCHANGED enc
  /\ UNCHANGED <<knob, irq, isr, presses, board, world>>

(* Every queued packet gets an ACK with the lease; a REQUEST ends the wait. *)
(* The reply echoes the exchange it answers, which is how the client knows  *)
(* it.                                                                      *)
ServeDhcp ==
  LET until == SelectInSeq(net.boot, LAMBDA q : q.kind = "request")
      n == IF until > 0 THEN until ELSE Len(net.boot)
  IN
  /\ Runs("wait") /\ task.armed /\ n > 0
  /\ Len(net.up) + n <= MaxFlight
  /\ net' = [net EXCEPT
       !.boot = SubSeq(@, n + 1, Len(@)),
       !.up = @ \o [i \in 1..n |-> [kind |-> net.boot[i].kind, addr |-> task.lease, hz |-> 0]]]
  /\ IF until > 0
     THEN /\ enc' = [enc EXCEPT !.request = FALSE]
          /\ task' = [task EXCEPT !.acked = TRUE, !.pc = "stop", !.peer = task.lease]
     ELSE task' = [task EXCEPT !.acked = TRUE] /\ UNCHANGED enc
  /\ UNCHANGED <<knob, irq, isr, presses, board, world>>

(* Eight seconds after the first ACK the lease is taken for the board's    *)
(* address, whatever is under way and whether or not the board took it.    *)
Grace ==
  /\ Runs("wait") /\ task.armed /\ task.acked
  /\ Leaves("stop", task.lease)
  /\ world' = [world EXCEPT !.hasty = board.ip # task.lease]
  /\ UNCHANGED <<knob, irq, isr, presses, net, board>>

(* The client side of a routed network gives the radio an address. *)
ClientConfigured ==
  /\ Runs("wait") /\ task.link /\ ~task.armed /\ world.router
  /\ Leaves("discover", None)
  /\ UNCHANGED <<knob, irq, isr, presses, net, board, world>>

\* Mutant of SendDiscovery: the request is sent once.
SendDiscoveryOnce ==
  /\ Runs("discover") /\ ~task.acked
  /\ Len(net.up) < MaxFlight
  /\ net' = [net EXCEPT !.up = Append(@, [Sent("find", 0) EXCEPT !.addr = Routed])]
  /\ task' = [task EXCEPT !.acked = TRUE]
  /\ UNCHANGED <<knob, irq, isr, enc, presses, board, world>>

(* A request every 500 ms, broadcast. *)
SendDiscovery ==
  /\ Runs("discover")
  /\ net.up = <<>> /\ net.down = 0
  /\ net' = [net EXCEPT !.up = <<[Sent("find", 0) EXCEPT !.addr = Routed]>>]
  /\ UNCHANGED <<knob, irq, isr, enc, presses, task, board, world>>

(* The peer is the reply's sender, not the address the reply names. *)
Found ==
  /\ Runs("discover") /\ net.down > 0
  /\ net' = [net EXCEPT !.down = @ - 1]
  /\ task' = [task EXCEPT !.pc = "stop", !.peer = Routed]
  /\ UNCHANGED <<knob, irq, isr, enc, presses, board, world>>

SendStop ==
  /\ Runs("stop") /\ Len(net.up) < MaxFlight
  /\ net' = [net EXCEPT !.up = Append(@, Sent("stop", 0))]
  /\ task' = [task EXCEPT !.pc = "start"]
  /\ UNCHANGED <<knob, irq, isr, enc, presses, board, world>>

(* 150 ms later: drain what arrived, start, tune. *)
SendStart ==
  /\ Runs("start") /\ Len(net.up) + 2 <= MaxFlight
  /\ net' = [net EXCEPT !.up = @ \o <<Sent("start", 0), Sent("tune", StartNco)>>, !.down = 0]
  /\ task' = [task EXCEPT !.pc = "stream", !.nco = StartNco]
  /\ UNCHANGED <<knob, irq, isr, enc, presses, board, world>>

\* Mutant of Clamp: the sum is sent as it is.
ClampNot(n) == n

Clamp(n) == IF n < 0 THEN 0 ELSE IF n > TopNco THEN TopNco ELSE n

(* Take the edges counted since the last round, move, show and send. *)
Retune ==
  LET nco == Clamp(task.nco + enc.steps) IN
  /\ Runs("stream") /\ enc.steps # 0 /\ Len(net.up) < MaxFlight
  /\ enc' = [enc EXCEPT !.steps = 0]
  /\ task' = [task EXCEPT !.nco = nco, !.shown = nco]
  /\ net' = [net EXCEPT !.up = Append(@, Sent("tune", nco))]
  /\ world' = [world EXCEPT !.clamped = @ \/ nco # task.nco + enc.steps]
  /\ UNCHANGED <<knob, irq, isr, presses, board>>

(* The next mode, or the present one when its demodulator cannot be built. *)
CycleMode ==
  /\ Runs("stream") /\ enc.request
  /\ enc' = [enc EXCEPT !.request = FALSE]
  /\ \E mode \in {task.mode, (task.mode + 1) % Modes} : task' = [task EXCEPT !.mode = mode]
  /\ UNCHANGED <<knob, irq, isr, presses, net, board, world>>

-----------------------------------------------------------------------------
(* The board and the network. *)

(* A board without an address asks for one, and again when nothing of the *)
(* exchange is under way any more.                                         *)
Asks ==
  /\ task.armed /\ board.dhcp # "bound"
  /\ net.boot = <<>> /\ net.up = <<>>
  /\ net' = [net EXCEPT !.boot = <<[kind |-> board.dhcp]>>]
  /\ UNCHANGED <<knob, irq, isr, enc, presses, task, board, world>>

Bound(addr) == [board EXCEPT !.ip = addr, !.dhcp = "bound"]

(* What a datagram makes of the board: some clients bind to the first reply, *)
(* others request what it offers and bind when that is confirmed.            *)
After(m) ==
  CASE m.kind = "discover" /\ board.dhcp = "discover" ->
         {Bound(m.addr), [board EXCEPT !.dhcp = "request", !.offer = m.addr]}
    [] m.kind = "request" /\ board.dhcp = "request" ->
         {IF m.addr = board.offer THEN Bound(m.addr) ELSE [board EXCEPT !.dhcp = "discover"]}
    [] m.kind = "start" /\ m.addr = board.ip -> {[board EXCEPT !.on = TRUE]}
    [] m.kind = "stop" /\ m.addr = board.ip -> {[board EXCEPT !.on = FALSE]}
    [] m.kind = "tune" /\ m.addr = board.ip -> {[board EXCEPT !.nco = m.hz]}
    [] OTHER -> {board}

(* The board takes the next datagram and answers it at once. *)
Receive ==
  LET m == Head(net.up) IN
  /\ net.up # <<>>
  /\ board' \in After(m)
  /\ net' = [net EXCEPT
       !.up = Tail(@),
       !.down = IF m.kind = "find" /\ board.ip # None THEN @ + 1 ELSE @,
       !.boot = IF board'.dhcp = "request" /\ board.dhcp = "discover"
                THEN Append(@, [kind |-> "request"]) ELSE @]
  /\ UNCHANGED <<knob, irq, isr, enc, presses, task, world>>

(* START, the frequency and the reply to a REQUEST are sent once, and their *)
(* loss is bad luck the code does not repair.                               *)
Once == {"start", "tune", "request"}

LoseUp ==
  /\ net.loss > 0 /\ net.up # <<>>
  /\ net' = [net EXCEPT !.loss = @ - 1, !.up = Tail(@)]
  /\ world' = [world EXCEPT !.unlucky = @ \/ Head(net.up).kind \in Once]
  /\ UNCHANGED <<knob, irq, isr, enc, presses, task, board>>

LoseDown ==
  /\ net.loss > 0
  /\ \/ net.down > 0 /\ net' = [net EXCEPT !.loss = @ - 1, !.down = @ - 1]
     \/ net.boot # <<>> /\ net' = [net EXCEPT !.loss = @ - 1, !.boot = Tail(@)]
  /\ UNCHANGED <<knob, irq, isr, enc, presses, task, board, world>>

-----------------------------------------------------------------------------
Init ==
  /\ knob = [pos |-> 0, left |-> MaxEdges, overrun |-> FALSE]
  /\ irq = {}
  /\ isr = [pc |-> "idle", line |-> "a", a |-> 0]
  /\ enc = [phase |-> PhaseAt(0), steps |-> 0, request |-> FALSE]
  /\ presses = MaxPresses
  /\ task = [pc |-> "wait", link |-> FALSE, armed |-> FALSE, lease |-> None, acked |-> FALSE,
             peer |-> None, nco |-> StartNco, shown |-> StartNco, mode |-> 0]
  /\ net = [up |-> <<>>, down |-> 0, boot |-> <<>>, loss |-> MaxLoss]
  /\ \E router \in BOOLEAN :
       /\ world = [router |-> router, unlucky |-> FALSE, hasty |-> FALSE, clamped |-> FALSE]
       /\ board = [ip |-> IF router THEN Routed ELSE None,
                   dhcp |-> IF router THEN "bound" ELSE "discover", offer |-> None,
                   on |-> FALSE, nco |-> 0]

Handlers == \/ \E line \in {"a", "b"} : EdgeEnter(line)
            \/ EdgeSample \/ EdgeClear \/ ButtonIsr

RadioTask == \/ LinkCheck \/ ArmServer \/ ServeDhcp \/ Grace \/ ClientConfigured
             \/ SendDiscovery \/ Found \/ SendStop \/ SendStart
             \/ Retune \/ CycleMode

Next == \/ \E d \in {-1, 1} : Turn(d)
        \/ Press
        \/ Handlers \/ RadioTask
        \/ Asks \/ Receive \/ LoseUp \/ LoseDown

(* Interrupts are served, the radio task's executor runs it, and the network *)
(* and the board take what is sent; a button press or a loss is never owed.  *)
Spec == /\ Init /\ [][Next]_vars
        /\ WF_vars(Handlers) /\ WF_vars(Receive) /\ WF_vars(Asks)
        /\ WF_vars(LinkCheck) /\ WF_vars(ServeDhcp) /\ WF_vars(Grace) /\ WF_vars(ClientConfigured)
        /\ WF_vars(SendDiscovery) /\ WF_vars(Found) /\ WF_vars(SendStop) /\ WF_vars(SendStart)
        /\ WF_vars(Retune)

-----------------------------------------------------------------------------
(* Properties. *)

(* What the decoder has counted, applied and pending. *)
Counted == task.nco - StartNco + enc.steps

(* KnobCounted: until the clamp is met, the count agrees with the decoder's  *)
(* phase modulo two whatever edges were missed, and when no edge fell into a *)
(* running handler it is the shaft's position once the handlers are done     *)
(* (encoder/mod.rs: "resynchronize to the sampled phase, even after a missed *)
(* edge").                                                                   *)
KnobCounted ==
  ~world.clamped =>
    /\ (Counted - Place(enc.phase)) % 2 = 0
    /\ ~knob.overrun /\ irq \cap {"a", "b"} = {} /\ isr.pc = "idle" => Counted = knob.pos

(* PeerIsBoard: from STOP on the radio never sends to an address the board  *)
(* does not have while it has another: the peer is the board's address, or  *)
(* the board has none at all, because the reply to its REQUEST is under way *)
(* or was lost, or because the grace period ended first (control.rs         *)
(* handle_dhcp: DISCOVER and REQUEST get the same lease, and eight seconds  *)
(* after the first of them it is the peer without a REQUEST).               *)
PeerIsBoard ==
  task.pc \in {"stop", "start", "stream"} =>
    \/ task.peer = board.ip
    \/ /\ board.ip = None
       /\ \/ world.hasty \/ world.unlucky
          \/ \E i \in DOMAIN net.up : net.up[i].kind = "request"

(* ComesUp: with an address from a router, or the server armed where there  *)
(* is none, the board ends up streaming at the frequency the display shows, *)
(* though discoveries, replies and address requests are lost.  Two things   *)
(* the code does not repair are excepted: a START, a frequency or the last  *)
(* ACK that is lost, and a grace period that ends before the board is bound. *)
ComesUp ==
  (<>[](task.armed # world.router) /\ []~(world.unlucky \/ world.hasty))
    => <>[](board.on /\ board.nco = task.shown)

Kinds == {"discover", "request", "find", "stop", "start", "tune"}
TypeOK ==
  /\ knob \in [pos : -MaxEdges..MaxEdges, left : 0..MaxEdges, overrun : BOOLEAN]
  /\ irq \subseteq {"a", "b", "button"}
  /\ isr \in [pc : {"idle", "sample", "clear"}, line : {"a", "b"}, a : {0, 1}]
  /\ isr.pc # "idle" => isr.line \in irq
  /\ enc \in [phase : 0..3, steps : -MaxEdges..MaxEdges, request : BOOLEAN]
  /\ presses \in 0..MaxPresses
  /\ task.pc \in {"wait", "discover", "stop", "start", "stream"}
  /\ {task.nco, task.shown} \subseteq 0..TopNco /\ task.mode \in 0..(Modes - 1)
  /\ net.up \in Seq([kind : Kinds, addr : Nat, hz : 0..TopNco])
  /\ Len(net.up) <= MaxFlight /\ Len(net.boot) <= 2 /\ net.down <= 1
=============================================================================
