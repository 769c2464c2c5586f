-------------------------- MODULE TeensyRadioProofs --------------------------
(***************************************************************************)
(* Proofs about TeensyRadio, for any range of the frequency, any number of *)
(* modes, edges, presses, lost datagrams and datagrams under way: the knob *)
(* is counted as it was turned, and the radio sends to its board.          *)
(***************************************************************************)
EXTENDS TeensyRadio, TLAPS

-----------------------------------------------------------------------------
(* The inductive invariant, the knob. *)

KnobTypes ==
    /\ knob \in [pos : Int, left : 0..MaxEdges, overrun : BOOLEAN]
    /\ irq \subseteq {"a", "b", "button"}
    /\ isr \in [pc : {"idle", "sample", "clear"}, line : {"a", "b"}, a : {0, 1}]
    /\ isr.pc # "idle" => isr.line \in irq
    /\ enc \in [phase : 0..3, steps : Int, request : BOOLEAN]
    /\ presses \in 0..MaxPresses

Number(b) == IF b THEN 1 ELSE 0

\* The lines that are pending, less the one that is about to be cleared, and
\* the steps not yet taken are no more than the edges that were made.
EdgesMade ==
    LET pending == Number("a" \in irq) + Number("b" \in irq) - Number(isr.pc = "clear")
        made == MaxEdges - knob.left
    IN  /\ -made <= knob.pos /\ knob.pos <= made
        /\ enc.steps + pending <= made /\ -enc.steps + pending <= made

\* The decoder has followed the shaft up to position p.
FollowedTo(p) == enc.phase = PhaseAt(p) /\ (~world.clamped => Counted = p)

\* Until a handler met an edge it is in step with the shaft, or a single edge
\* behind with the line of that edge pending.
Follows ==
    ~knob.overrun =>
        \/ isr.pc = "idle" /\ irq \cap {"a", "b"} = {} /\ FollowedTo(knob.pos)
        \/ /\ isr.pc = "idle" /\ \E l \in {"a", "b"} : irq \cap {"a", "b"} = {l}
           /\ \E d \in {-1, 1} : FollowedTo(knob.pos + d)
        \/ /\ isr.pc = "sample" /\ irq \cap {"a", "b"} = {isr.line} /\ isr.a = LevelA(knob.pos)
           /\ \E d \in {-1, 1} : FollowedTo(knob.pos + d)
        \/ isr.pc = "clear" /\ irq \cap {"a", "b"} = {isr.line} /\ FollowedTo(knob.pos)

InPhase == ~world.clamped => (Counted - Place(enc.phase)) % 2 = 0

KnobInv ==
    /\ KnobTypes /\ EdgesMade /\ Follows /\ InPhase
    /\ task.pc # "stream" => task.nco = StartNco

-----------------------------------------------------------------------------
(* The inductive invariant, the network. *)

Asked == {"discover", "request"}
Datagrams == [kind : Kinds, addr : Nat, hz : 0..TopNco]
Queries == [kind : Asked]

Tasks == [pc : {"wait", "discover", "stop", "start", "stream"}, link : BOOLEAN, armed : BOOLEAN,
          lease : Nat, acked : BOOLEAN, peer : Nat, nco : 0..TopNco, shown : 0..TopNco,
          mode : 0..(Modes - 1)]
Nets == [up : Seq(Datagrams), down : Nat, boot : Seq(Queries), loss : Nat]
Boards == [ip : Nat, dhcp : {"discover", "request", "bound"}, offer : Nat, on : BOOLEAN, nco : 0..TopNco]
Worlds == [router : BOOLEAN, unlucky : BOOLEAN, hasty : BOOLEAN, clamped : BOOLEAN]

\* The records, all their fields.
RecordTypes ==
    /\ task \in Tasks
    /\ net \in Nets
    /\ Len(net.up) <= MaxFlight
    /\ board \in Boards
    /\ world \in Worlds

\* The board asks for an address once at a time ...
OneQuestion ==
    /\ Len(net.boot) <= 1
    /\ net.boot # <<>> => \A i \in 1..Len(net.up) : net.up[i].kind \notin Asked
    /\ \A i, j \in 1..Len(net.up) : net.up[i].kind \in Asked /\ net.up[j].kind \in Asked => i = j

\* ... and is looked for once at a time.
OneSearch ==
    /\ net.down <= 1
    /\ net.down = 1 => \A i \in 1..Len(net.up) : net.up[i].kind # "find"
    /\ \A i, j \in 1..Len(net.up) : net.up[i].kind = "find" /\ net.up[j].kind = "find" => i = j

\* Whoever asks is a board without a router, every reply gives the one lease,
\* and a REQUEST is the board's last word.
Leased ==
    /\ task.lease = IF task.armed THEN FirstLease ELSE None
    /\ \A i \in 1..Len(net.up) :
          /\ net.up[i].kind \in Asked => net.up[i].addr = FirstLease
          /\ net.up[i].kind = "request" => board.dhcp = "request"
    /\ \A i \in 1..Len(net.boot) : net.boot[i].kind = "request" => board.dhcp = "request"
    /\ board.dhcp = "request" => board.offer = FirstLease

\* With a router the board has its address and nobody asks; without one it has
\* the lease when it is bound, and no address before.
Routing ==
    /\ world.router =>
          /\ board.ip = Routed /\ board.dhcp = "bound" /\ net.boot = <<>> /\ ~task.acked
          /\ task.pc \in {"stop", "start", "stream"} => task.peer = Routed
    /\ ~world.router => /\ task.pc # "discover"
                        /\ board.ip = IF board.dhcp = "bound" THEN FirstLease ELSE None
                        /\ task.acked => task.armed

\* Once the radio has left the wait, its peer is the lease; the board has that
\* address, or will when the reply to its REQUEST arrives, unless the reply was
\* lost or the wait ended without it.
PeerComes ==
    task.pc \in {"stop", "start", "stream"} /\ ~world.router =>
        /\ task.peer = FirstLease
        /\ \/ board.ip = FirstLease \/ world.unlucky \/ world.hasty
           \/ \E i \in 1..Len(net.up) : net.up[i].kind = "request"

NetInv == RecordTypes /\ OneQuestion /\ OneSearch /\ Leased /\ Routing /\ PeerComes

RadioInv == KnobInv /\ NetInv

-----------------------------------------------------------------------------
(* The quadrature decoder. *)

LEMMA Bounds ==
    /\ TopNco \in Nat /\ StartNco \in Nat /\ Modes \in Nat \ {0} /\ MaxEdges \in Nat
    /\ MaxPresses \in Nat /\ MaxLoss \in Nat /\ MaxFlight \in Nat \ {0} /\ StartNco <= TopNco
  BY ConstantsOK

\* The cycle, entry by entry.
LEMMA Phases ==
    /\ PhaseAt(0) = 0 /\ PhaseAt(1) = 2 /\ PhaseAt(2) = 3 /\ PhaseAt(3) = 1
    /\ \A p \in Int : /\ p % 4 \in 0..3
                      /\ PhaseAt(p) = PhaseAt(p % 4)
                      /\ PhaseAt(p) \in 0..3
  <1>1. Cycle[1] = 0 /\ Cycle[2] = 2 /\ Cycle[3] = 3 /\ Cycle[4] = 1
    BY DEF Cycle
  <1>2. PhaseAt(0) = 0 /\ PhaseAt(1) = 2 /\ PhaseAt(2) = 3 /\ PhaseAt(3) = 1
    BY <1>1 DEF PhaseAt
  <1>3. ASSUME NEW p \in Int
        PROVE  p % 4 \in 0..3 /\ PhaseAt(p) = PhaseAt(p % 4)
    <2>1. p % 4 \in 0..3 /\ (p % 4) % 4 = p % 4
      OBVIOUS
    <2> QED BY <2>1 DEF PhaseAt
  <1>4. ASSUME NEW p \in Int
        PROVE  PhaseAt(p) \in 0..3
    <2>1. PICK r \in 0..3 : r = p % 4
      BY <1>3
    <2>2. PhaseAt(p) = PhaseAt(r)
      BY <1>3, <2>1
    <2>3. r = 0 \/ r = 1 \/ r = 2 \/ r = 3
      OBVIOUS
    <2> QED BY <1>2, <2>2, <2>3
  <1> QED BY <1>2, <1>3, <1>4

\* A phase has one place in the cycle, and a position the place modulo four.
LEMMA Places ==
    /\ Place(0) = 0 /\ Place(2) = 1 /\ Place(3) = 2 /\ Place(1) = 3
    /\ \A p \in Int : Place(PhaseAt(p)) = p % 4
  <1>1. ASSUME NEW x, NEW i \in 0..3, PhaseAt(i) = x,
               \A j \in 0..3 : PhaseAt(j) = x => j = i
        PROVE  Place(x) = i
    BY <1>1 DEF Place
  <1>2. Place(0) = 0
    BY <1>1, Phases
  <1>3. Place(2) = 1
    BY <1>1, Phases
  <1>4. Place(3) = 2
    BY <1>1, Phases
  <1>5. Place(1) = 3
    BY <1>1, Phases
  <1>6. ASSUME NEW p \in Int
        PROVE  Place(PhaseAt(p)) = p % 4
    <2>1. PICK r \in 0..3 : r = p % 4 /\ PhaseAt(p) = PhaseAt(r)
      BY Phases
    <2>2. r = 0 \/ r = 1 \/ r = 2 \/ r = 3
      OBVIOUS
    <2> QED BY <1>2, <1>3, <1>4, <1>5, <2>1, <2>2, Phases
  <1> QED BY <1>2, <1>3, <1>4, <1>5, <1>6

\* The lines are the bits of the phase.
LEMMA Levels ==
    ASSUME NEW p \in Int
    PROVE  /\ LevelA(p) \in {0, 1} /\ LevelB(p) \in {0, 1}
           /\ LevelA(p) + 2 * LevelB(p) = PhaseAt(p)
  <1>1. PICK x \in 0..3 : x = PhaseAt(p)
    BY Phases
  <1>2. x = 0 \/ x = 1 \/ x = 2 \/ x = 3
    OBVIOUS
  <1> QED BY <1>1, <1>2 DEF LevelA, LevelB

\* A neighbouring position is one step; any two phases are at most one, and
\* the step has the parity of their distance.
LEMMA Stepping ==
    /\ \A p \in Int : Advance(PhaseAt(p - 1), PhaseAt(p)) = 1 /\ Advance(PhaseAt(p + 1), PhaseAt(p)) = -1
    /\ \A x, y \in 0..3 : /\ Advance(x, y) \in {-1, 0, 1}
                          /\ Place(x) \in 0..3
                          /\ (Advance(x, y) + Place(x) - Place(y)) % 2 = 0
  <1>1. ASSUME NEW p \in Int
        PROVE  Advance(PhaseAt(p - 1), PhaseAt(p)) = 1
    <2>1. p - 1 \in Int
      OBVIOUS
    <2>2. Place(PhaseAt(p - 1)) = (p - 1) % 4 /\ Place(PhaseAt(p)) = p % 4
      BY <2>1, Places
    <2>3. ((p % 4) - ((p - 1) % 4)) % 4 = 1
      OBVIOUS
    <2> QED BY <2>2, <2>3 DEF Advance
  <1>2. ASSUME NEW p \in Int
        PROVE  Advance(PhaseAt(p + 1), PhaseAt(p)) = -1
    <2>1. p + 1 \in Int
      OBVIOUS
    <2>2. Place(PhaseAt(p + 1)) = (p + 1) % 4 /\ Place(PhaseAt(p)) = p % 4
      BY <2>1, Places
    <2>3. ((p % 4) - ((p + 1) % 4)) % 4 = 3
      OBVIOUS
    <2> QED BY <2>2, <2>3 DEF Advance
  <1>3. ASSUME NEW x \in 0..3, NEW y \in 0..3
        PROVE  /\ Advance(x, y) \in {-1, 0, 1}
               /\ Place(x) \in 0..3
               /\ (Advance(x, y) + Place(x) - Place(y)) % 2 = 0
    <2>1. \A z \in 0..3 : Place(z) \in 0..3
      <3>1. \A z \in 0..3 : z = 0 \/ z = 1 \/ z = 2 \/ z = 3
        OBVIOUS
      <3> QED BY <3>1, Places
    <2>2. PICK i \in 0..3 : i = Place(x)
      BY <2>1
    <2>3. PICK j \in 0..3 : j = Place(y)
      BY <2>1
    <2>4. PICK s : s = Advance(x, y)
      OBVIOUS
    <2>5. s = IF (j - i) % 4 = 1 THEN 1 ELSE IF (j - i) % 4 = 3 THEN -1 ELSE 0
      BY <2>2, <2>3, <2>4 DEF Advance
    <2>6. s \in {-1, 0, 1} /\ (s + i - j) % 2 = 0
      BY <2>5
    <2> QED BY <2>2, <2>3, <2>4, <2>6
  <1> QED BY <1>1, <1>2, <1>3

-----------------------------------------------------------------------------
(* The knob. *)

\* The invariant has the types of the model.
LEMMA Typed == RadioInv => TypeOK
  <1> SUFFICES ASSUME RadioInv
               PROVE  TypeOK
    OBVIOUS
  <1> USE Bounds
  <1>1. knob.pos \in -MaxEdges..MaxEdges
    BY DEF RadioInv, KnobInv, KnobTypes, EdgesMade
  <1>2. enc.steps \in -MaxEdges..MaxEdges
    BY DEF RadioInv, KnobInv, KnobTypes, EdgesMade, Number
  <1>3. KnobTypes /\ RecordTypes /\ OneQuestion /\ OneSearch
    BY DEF RadioInv, KnobInv, NetInv
  <1>4. knob \in [pos : -MaxEdges..MaxEdges, left : 0..MaxEdges, overrun : BOOLEAN]
    BY <1>1, <1>3 DEF KnobTypes
  <1>5. enc \in [phase : 0..3, steps : -MaxEdges..MaxEdges, request : BOOLEAN]
    BY <1>2, <1>3 DEF KnobTypes
  <1>6. /\ task.pc \in {"wait", "discover", "stop", "start", "stream"}
        /\ {task.nco, task.shown} \subseteq 0..TopNco /\ task.mode \in 0..(Modes - 1)
        /\ net.up \in Seq(Datagrams) /\ Len(net.up) <= MaxFlight
    BY <1>3 DEF RecordTypes, Tasks, Nets
  <1>7. Len(net.boot) <= 2 /\ net.down <= 1
    <2>1. Len(net.boot) <= 1 /\ net.boot \in Seq(Queries)
      BY <1>3 DEF OneQuestion, RecordTypes, Nets
    <2> QED BY <1>3, <2>1 DEF OneSearch
  <1> QED BY <1>3, <1>4, <1>5, <1>6, <1>7 DEF TypeOK, KnobTypes, Datagrams

\* What the knob's part of the invariant speaks of.
KnobUntouched ==
    /\ knob' = knob /\ irq' = irq /\ isr' = isr /\ presses' = presses
    /\ enc' \in [phase : {enc.phase}, steps : {enc.steps}, request : BOOLEAN]
    /\ task'.nco = task.nco /\ (task'.pc # "stream" => task.pc # "stream")
    /\ world'.clamped = world.clamped

LEMMA KnobUntouchedKeeps ==
    ASSUME KnobInv, KnobUntouched
    PROVE  KnobInv'
  <1>1. enc'.phase = enc.phase /\ enc'.steps = enc.steps /\ enc'.request \in BOOLEAN
    BY DEF KnobUntouched
  <1>2. Counted' = Counted
    BY <1>1 DEF KnobUntouched, Counted
  <1>3. KnobTypes'
    BY DEF KnobInv, KnobTypes, KnobUntouched
  <1>4. EdgesMade'
    BY <1>1 DEF KnobInv, EdgesMade, KnobUntouched
  <1>5. Follows'
    BY <1>1, <1>2 DEF KnobInv, Follows, FollowedTo, KnobUntouched
  <1>6. InPhase'
    BY <1>1, <1>2 DEF KnobInv, InPhase, KnobUntouched
  <1>7. task'.pc # "stream" => task'.nco = StartNco
    BY DEF KnobInv, KnobUntouched
  <1> QED BY <1>3, <1>4, <1>5, <1>6, <1>7 DEF KnobInv

\* An edge of the knob: the first after a finished handler leaves the decoder one
\* behind, any other is an overrun.
LEMMA TurnCounts ==
    ASSUME KnobInv, NEW d \in {-1, 1}, Turn(d)
    PROVE  KnobInv'
  <1> USE Bounds
  <1>1. PICK line \in {"a", "b"} :
          /\ knob' = [pos |-> knob.pos + d, left |-> knob.left - 1,
                      overrun |-> knob.overrun \/ isr.pc # "idle" \/ irq \cap {"a", "b"} # {}]
          /\ irq' = irq \cup {line}
    BY DEF Turn
  <1>2. isr' = isr /\ enc' = enc /\ presses' = presses /\ task' = task /\ world' = world /\ knob.left > 0
    BY DEF Turn
  <1>3. knob'.pos = knob.pos + d /\ knob'.left = knob.left - 1
    BY <1>1
  <1>4. KnobTypes
    BY DEF KnobInv
  <1>5. KnobTypes'
    <2>1. knob.pos + d \in Int /\ knob.left - 1 \in 0..MaxEdges
      BY <1>2, <1>4 DEF KnobTypes
    <2>2. knob' \in [pos : Int, left : 0..MaxEdges, overrun : BOOLEAN]
      BY <1>1, <2>1
    <2> QED BY <1>1, <1>2, <1>4, <2>2 DEF KnobTypes
  <1>6. EdgesMade'
    BY <1>1, <1>2, <1>3, <1>4 DEF KnobInv, EdgesMade, KnobTypes, Number
  <1>7. Follows'
    <2> SUFFICES ASSUME ~knob'.overrun
                 PROVE  Follows'
      BY DEF Follows
    <2>1. ~knob.overrun /\ isr.pc = "idle" /\ irq \cap {"a", "b"} = {}
      BY <1>1
    <2>2. FollowedTo(knob.pos)
      BY <2>1 DEF KnobInv, Follows
    <2>3. isr'.pc = "idle" /\ irq' \cap {"a", "b"} = {line}
      BY <1>1, <1>2, <2>1
    <2>4. PICK e \in {-1, 1} : knob'.pos + e = knob.pos
      <3>1. knob'.pos + (-d) = knob.pos /\ -d \in {-1, 1}
        BY <1>3, <1>4 DEF KnobTypes
      <3> QED BY <3>1
    <2>5. /\ enc'.phase = PhaseAt(knob'.pos + e)
          /\ ~world'.clamped => Counted' = knob'.pos + e
      BY <1>2, <2>2, <2>4 DEF FollowedTo, Counted
    <2> QED BY <2>3, <2>5 DEF Follows, FollowedTo
  <1>8. InPhase' /\ (task'.pc # "stream" => task'.nco = StartNco)
    BY <1>2 DEF KnobInv, InPhase, Counted
  <1> QED BY <1>5, <1>6, <1>7, <1>8 DEF KnobInv

\* The handler enters: it reads the level that the shaft shows.
LEMMA EnterCounts ==
    ASSUME KnobInv, NEW line \in {"a", "b"}, EdgeEnter(line)
    PROVE  KnobInv'
  <1>1. isr.pc = "idle" /\ line \in irq /\ isr' = [pc |-> "sample", line |-> line, a |-> LevelA(knob.pos)]
    BY DEF EdgeEnter
  <1>2. knob' = knob /\ irq' = irq /\ enc' = enc /\ presses' = presses /\ task' = task /\ world' = world
    BY DEF EdgeEnter
  <1>3. isr'.pc = "sample" /\ isr'.line = line /\ isr'.a = LevelA(knob.pos)
    BY <1>1
  <1>4. KnobTypes
    BY DEF KnobInv
  <1>5. LevelA(knob.pos) \in {0, 1}
    BY <1>4, Levels DEF KnobTypes
  <1>6. KnobTypes'
    BY <1>1, <1>2, <1>3, <1>4, <1>5 DEF KnobTypes
  <1>7. EdgesMade'
    BY <1>1, <1>2, <1>3 DEF KnobInv, EdgesMade
  <1>8. Follows'
    <2> SUFFICES ASSUME ~knob.overrun
                 PROVE  Follows'
      BY <1>2 DEF Follows
    <2>1. irq \cap {"a", "b"} # {}
      BY <1>1
    <2>2. /\ \E l \in {"a", "b"} : irq \cap {"a", "b"} = {l}
          /\ \E d \in {-1, 1} : FollowedTo(knob.pos + d)
      BY <1>1, <2>1 DEF KnobInv, Follows
    <2>3. irq \cap {"a", "b"} = {line}
      BY <1>1, <2>2
    <2> QED BY <1>2, <1>3, <2>2, <2>3 DEF Follows, FollowedTo, Counted
  <1>9. InPhase' /\ (task'.pc # "stream" => task'.nco = StartNco)
    BY <1>2 DEF KnobInv, InPhase, Counted
  <1> QED BY <1>6, <1>7, <1>8, <1>9 DEF KnobInv

\* The handler decodes: one behind is caught up with, and whatever the phase was
\* the count keeps its parity.
LEMMA SampleCounts ==
    ASSUME KnobInv, EdgeSample, task.nco \in Int
    PROVE  KnobInv'
  <1> USE Bounds
  <1>1. PICK cur : cur = isr.a + 2 * LevelB(knob.pos)
    OBVIOUS
  <1>2. /\ isr.pc = "sample" /\ isr' = [isr EXCEPT !.pc = "clear"]
        /\ enc' = [enc EXCEPT !.phase = cur, !.steps = @ + Advance(enc.phase, cur)]
    BY <1>1 DEF EdgeSample
  <1>3. knob' = knob /\ irq' = irq /\ presses' = presses /\ task' = task /\ world' = world
    BY DEF EdgeSample
  <1>4. KnobTypes
    BY DEF KnobInv
  <1>5. isr'.pc = "clear" /\ isr'.line = isr.line /\ isr'.a = isr.a
    BY <1>2, <1>4 DEF KnobTypes
  <1>6. PICK s \in {-1, 0, 1} : s = Advance(enc.phase, cur)
    <2>1. cur \in 0..3
      BY <1>1, <1>4, Levels DEF KnobTypes
    <2> QED BY <1>4, <2>1, Stepping DEF KnobTypes
  <1>7. cur \in 0..3 /\ (s + Place(enc.phase) - Place(cur)) % 2 = 0 /\ {Place(enc.phase), Place(cur)} \subseteq 0..3
    <2>1. cur \in 0..3
      BY <1>1, <1>4, Levels DEF KnobTypes
    <2> QED BY <1>4, <1>6, <2>1, Stepping DEF KnobTypes
  <1>8. enc'.phase = cur /\ enc'.steps = enc.steps + s /\ enc'.request = enc.request
    BY <1>2, <1>4, <1>6 DEF KnobTypes
  <1>9. KnobTypes'
    <2>1. enc' \in [phase : 0..3, steps : Int, request : BOOLEAN]
      <3>1. PICK e \in [phase : 0..3, steps : Int, request : BOOLEAN] : e = enc
        BY <1>4 DEF KnobTypes
      <3>2. enc' = [phase |-> cur, steps |-> e.steps + s, request |-> e.request]
        BY <1>2, <1>6, <3>1
      <3>3. e.steps + s \in Int
        BY <1>6
      <3> QED BY <1>7, <3>1, <3>2, <3>3
    <2>2. isr' \in [pc : {"idle", "sample", "clear"}, line : {"a", "b"}, a : {0, 1}]
      BY <1>2, <1>4 DEF KnobTypes
    <2> QED BY <1>2, <1>3, <1>4, <1>5, <2>1, <2>2 DEF KnobTypes
  <1>10. EdgesMade'
    <2>1. isr.pc # "clear"
      BY <1>2
    <2> QED BY <1>3, <1>4, <1>5, <1>8, <2>1 DEF KnobInv, EdgesMade, KnobTypes, Number
  <1>11. Counted' = Counted + s /\ Counted \in Int
    BY <1>3, <1>4, <1>8 DEF Counted, KnobTypes
  <1>12. Follows'
    <2> SUFFICES ASSUME ~knob.overrun
                 PROVE  Follows'
      BY <1>3 DEF Follows
    <2>1. irq \cap {"a", "b"} = {isr.line} /\ isr.a = LevelA(knob.pos)
      BY <1>2 DEF KnobInv, Follows
    <2>2. PICK d \in {-1, 1} : FollowedTo(knob.pos + d)
      BY <1>2 DEF KnobInv, Follows
    <2>3. cur = PhaseAt(knob.pos)
      BY <1>1, <1>4, <2>1, Levels DEF KnobTypes
    <2>4. s = -d
      <3>1. CASE d = 1
        BY <1>4, <1>6, <2>2, <2>3, <3>1, Stepping DEF FollowedTo, KnobTypes
      <3>2. CASE d = -1
        <4>1. knob.pos + d = knob.pos - 1
          BY <1>4, <3>2 DEF KnobTypes
        <4> QED BY <1>4, <1>6, <2>2, <2>3, <3>2, <4>1, Stepping DEF FollowedTo, KnobTypes
      <3> QED BY <3>1, <3>2
    <2>5. enc'.phase = PhaseAt(knob.pos) /\ (~world.clamped => Counted' = knob.pos)
      BY <1>4, <1>8, <1>11, <2>2, <2>3, <2>4 DEF FollowedTo, KnobTypes
    <2> QED BY <1>3, <1>5, <2>1, <2>5 DEF Follows, FollowedTo
  <1>13. InPhase'
    <2> SUFFICES ASSUME ~world.clamped
                 PROVE  (Counted' - Place(cur)) % 2 = 0
      BY <1>3, <1>8 DEF InPhase
    <2>1. (Counted - Place(enc.phase)) % 2 = 0
      BY DEF KnobInv, InPhase
    <2>2. PICK i \in 0..3, j \in 0..3 : i = Place(enc.phase) /\ j = Place(cur)
      BY <1>7
    <2>3. ((Counted + s) - j) % 2 = 0
      BY <1>7, <1>11, <2>1, <2>2
    <2> QED BY <1>11, <2>2, <2>3
  <1>14. task'.pc # "stream" => task'.nco = StartNco
    BY <1>3 DEF KnobInv
  <1> QED BY <1>9, <1>10, <1>12, <1>13, <1>14 DEF KnobInv

\* The handler clears its line: the decoder is where the shaft is.
LEMMA ClearCounts ==
    ASSUME KnobInv, EdgeClear
    PROVE  KnobInv'
  <1>1. isr.pc = "clear" /\ irq' = irq \ {isr.line} /\ isr' = [isr EXCEPT !.pc = "idle"]
    BY DEF EdgeClear
  <1>2. knob' = knob /\ enc' = enc /\ presses' = presses /\ task' = task /\ world' = world
    BY DEF EdgeClear
  <1>3. KnobTypes
    BY DEF KnobInv
  <1>4. isr'.pc = "idle" /\ isr'.line = isr.line /\ isr'.a = isr.a
    BY <1>1, <1>3 DEF KnobTypes
  <1>5. KnobTypes'
    <2>1. isr' \in [pc : {"idle", "sample", "clear"}, line : {"a", "b"}, a : {0, 1}]
      BY <1>1, <1>3 DEF KnobTypes
    <2> QED BY <1>1, <1>2, <1>3, <1>4, <2>1 DEF KnobTypes
  <1>6. EdgesMade'
    <2>1. isr.line \in {"a", "b"} /\ isr.line \in irq
      BY <1>1, <1>3 DEF KnobTypes
    <2> QED BY <1>1, <1>2, <1>3, <1>4, <2>1 DEF KnobInv, EdgesMade, KnobTypes, Number
  <1>7. Follows'
    <2> SUFFICES ASSUME ~knob.overrun
                 PROVE  Follows'
      BY <1>2 DEF Follows
    <2>1. irq \cap {"a", "b"} = {isr.line} /\ FollowedTo(knob.pos)
      BY <1>1 DEF KnobInv, Follows
    <2>2. irq' \cap {"a", "b"} = {}
      BY <1>1, <2>1
    <2> QED BY <1>2, <1>4, <2>1, <2>2 DEF Follows, FollowedTo, Counted
  <1>8. InPhase' /\ (task'.pc # "stream" => task'.nco = StartNco)
    BY <1>2 DEF KnobInv, InPhase, Counted
  <1> QED BY <1>5, <1>6, <1>7, <1>8 DEF KnobInv

\* The button's line is no line of the knob's.
LEMMA ButtonCounts ==
    ASSUME KnobInv, Press \/ ButtonIsr
    PROVE  KnobInv'
  <1> USE Bounds
  <1>1. KnobTypes
    BY DEF KnobInv
  <1>2. /\ knob' = knob /\ isr' = isr /\ task' = task /\ world' = world
        /\ irq' = irq \cup {"button"} \/ irq' = irq \ {"button"}
        /\ presses' \in 0..MaxPresses
        /\ enc' \in [phase : {enc.phase}, steps : {enc.steps}, request : BOOLEAN]
    <2>1. CASE Press
      BY <1>1, <2>1 DEF Press, KnobTypes
    <2>2. CASE ButtonIsr
      BY <1>1, <2>2 DEF ButtonIsr, KnobTypes
    <2> QED BY <2>1, <2>2
  <1>3. enc'.phase = enc.phase /\ enc'.steps = enc.steps /\ Counted' = Counted
    BY <1>2 DEF Counted
  <1>4. irq' \cap {"a", "b"} = irq \cap {"a", "b"} /\ ("a" \in irq' <=> "a" \in irq) /\ ("b" \in irq' <=> "b" \in irq)
    BY <1>2
  <1>5. KnobTypes'
    <2>1. isr.pc # "idle" => isr.line \in irq'
      BY <1>1, <1>4 DEF KnobTypes
    <2>2. irq' \subseteq {"a", "b", "button"}
      BY <1>1, <1>2 DEF KnobTypes
    <2> QED BY <1>1, <1>2, <2>1, <2>2 DEF KnobTypes
  <1>6. EdgesMade'
    BY <1>2, <1>3, <1>4 DEF KnobInv, EdgesMade, Number
  <1>7. Follows'
    BY <1>2, <1>3, <1>4 DEF KnobInv, Follows, FollowedTo
  <1>8. InPhase' /\ (task'.pc # "stream" => task'.nco = StartNco)
    BY <1>2, <1>3 DEF KnobInv, InPhase
  <1> QED BY <1>5, <1>6, <1>7, <1>8 DEF KnobInv

\* What was counted is applied, none of it twice, unless the clamp is met.
LEMMA RetuneCounts ==
    ASSUME KnobInv, Retune, task \in Tasks, world \in Worlds
    PROVE  KnobInv'
  <1> USE Bounds
  <1>1. PICK nco : nco = Clamp(task.nco + enc.steps)
    OBVIOUS
  <1>2. /\ enc' = [enc EXCEPT !.steps = 0]
        /\ task' = [task EXCEPT !.nco = nco, !.shown = nco]
        /\ world' = [world EXCEPT !.clamped = @ \/ nco # task.nco + enc.steps]
        /\ knob' = knob /\ irq' = irq /\ isr' = isr /\ presses' = presses /\ task.pc = "stream"
    BY <1>1 DEF Retune, Runs
  <1> USE DEF Tasks, Worlds
  <1>3. KnobTypes
    BY DEF KnobInv
  <1>4. nco \in 0..TopNco
    BY <1>1, <1>3 DEF Clamp, KnobTypes
  <1>5. enc'.phase = enc.phase /\ enc'.steps = 0 /\ enc' \in [phase : 0..3, steps : Int, request : BOOLEAN]
    BY <1>2, <1>3 DEF KnobTypes
  <1>6. task'.nco = nco /\ task'.pc = "stream"
    BY <1>2
  <1>7. ~world'.clamped => ~world.clamped /\ Counted' = Counted
    <2> SUFFICES ASSUME ~world'.clamped
                 PROVE  ~world.clamped /\ Counted' = Counted
      OBVIOUS
    <2>1. ~world.clamped /\ nco = task.nco + enc.steps
      BY <1>2
    <2> QED BY <1>3, <1>4, <1>5, <1>6, <2>1 DEF Counted, KnobTypes
  <1>8. KnobTypes'
    BY <1>2, <1>3, <1>5 DEF KnobTypes
  <1>9. EdgesMade'
    BY <1>2, <1>3, <1>5 DEF KnobInv, EdgesMade, KnobTypes, Number
  <1>10. Follows'
    BY <1>2, <1>5, <1>7 DEF KnobInv, Follows, FollowedTo
  <1>11. InPhase'
    BY <1>5, <1>7 DEF KnobInv, InPhase
  <1> QED BY <1>6, <1>8, <1>9, <1>10, <1>11 DEF KnobInv

-----------------------------------------------------------------------------
(* The network. *)

LEMMA FirstOut ==
    ASSUME NEW S, NEW q \in Seq(S), q # <<>>
    PROVE  /\ Head(q) = q[1] /\ q[1] \in S /\ Len(q) >= 1
           /\ Tail(q) \in Seq(S) /\ Len(Tail(q)) = Len(q) - 1
           /\ \A i \in 1..Len(Tail(q)) : i + 1 \in 2..Len(q) /\ Tail(q)[i] = q[i + 1]
  OBVIOUS

LEMMA OneMore ==
    ASSUME NEW S, NEW q \in Seq(S), NEW m \in S
    PROVE  /\ Append(q, m) \in Seq(S) /\ Len(Append(q, m)) = Len(q) + 1
           /\ \A i \in 1..Len(q) : Append(q, m)[i] = q[i]
           /\ Append(q, m)[Len(q) + 1] = m
  OBVIOUS

LEMMA TwoMore ==
    ASSUME NEW S, NEW q \in Seq(S), NEW m \in S, NEW n \in S
    PROVE  /\ q \o <<m, n>> \in Seq(S) /\ Len(q \o <<m, n>>) = Len(q) + 2
           /\ \A i \in 1..Len(q) : (q \o <<m, n>>)[i] = q[i]
           /\ (q \o <<m, n>>)[Len(q) + 1] = m /\ (q \o <<m, n>>)[Len(q) + 2] = n
  <1>1. <<m, n>> \in Seq(S) /\ Len(<<m, n>>) = 2
    OBVIOUS
  <1>2. q \o <<m, n>> \in Seq(S) /\ Len(q \o <<m, n>>) = Len(q) + 2
    BY <1>1
  <1>3. \A i \in 1..Len(q) : (q \o <<m, n>>)[i] = q[i]
    BY <1>1
  <1>4. (q \o <<m, n>>)[Len(q) + 1] = m /\ (q \o <<m, n>>)[Len(q) + 2] = n
    BY <1>1
  <1> QED BY <1>2, <1>3, <1>4

\* Neither the board's address nor the search for it is about such a datagram.
Plain == {m \in Datagrams : m.kind \in {"stop", "start", "tune"}}

\* The radio commands its board: what was under way stays, plain datagrams follow.
LEMMA CommandKeeps ==
    ASSUME NetInv, RecordTypes', NEW up \in Seq(Datagrams),
           net' = [net EXCEPT !.up = up, !.down = net'.down], net'.down \in {0, net.down},
           Len(net.up) <= Len(up), \A i \in 1..Len(net.up) : up[i] = net.up[i],
           \A i \in 1..Len(up) : i \notin 1..Len(net.up) => up[i] \in Plain,
           {task.pc, task'.pc} \subseteq {"stop", "start", "stream"},
           task'.armed = task.armed, task'.lease = task.lease, task'.acked = task.acked,
           task'.peer = task.peer, board' = board,
           world'.router = world.router, world'.unlucky = world.unlucky, world'.hasty = world.hasty
    PROVE  NetInv'
  <1>1. RecordTypes /\ OneQuestion /\ OneSearch /\ Leased /\ Routing /\ PeerComes
    BY DEF NetInv
  <1>2. net'.up = up /\ net'.boot = net.boot
    BY <1>1 DEF RecordTypes, Nets
  <1>3. \A i \in 1..Len(up) : up[i].kind \in Asked \cup {"find"} => i \in 1..Len(net.up) /\ up[i] = net.up[i]
    BY DEF Plain, Asked
  <1>4. OneQuestion'
    BY <1>1, <1>2, <1>3 DEF OneQuestion, Asked
  <1>5. OneSearch'
    <2>1. net.down \in Nat
      BY <1>1 DEF RecordTypes, Nets
    <2> QED BY <1>1, <1>2, <1>3, <2>1 DEF OneSearch
  <1>6. Leased'
    BY <1>1, <1>2, <1>3 DEF Leased, Asked
  <1>7. Routing'
    BY <1>1, <1>2 DEF Routing
  <1>8. PeerComes'
    <2> SUFFICES ASSUME ~world.router
                 PROVE  /\ task.peer = FirstLease
                        /\ \/ board.ip = FirstLease \/ world.unlucky \/ world.hasty
                           \/ \E i \in 1..Len(up) : up[i].kind = "request"
      BY <1>2 DEF PeerComes
    <2>1. /\ task.peer = FirstLease
          /\ \/ board.ip = FirstLease \/ world.unlucky \/ world.hasty
             \/ \E i \in 1..Len(net.up) : net.up[i].kind = "request"
      BY <1>1 DEF PeerComes
    <2>2. CASE board.ip = FirstLease \/ world.unlucky \/ world.hasty
      BY <2>1, <2>2
    <2>3. ASSUME NEW i \in 1..Len(net.up), net.up[i].kind = "request"
          PROVE  i \in 1..Len(up) /\ up[i].kind = "request"
      BY <1>1, <2>3 DEF RecordTypes, Nets
    <2> QED BY <2>1, <2>2, <2>3
  <1> QED BY <1>4, <1>5, <1>6, <1>7, <1>8 DEF NetInv

LEMMA SentIsPlain ==
    ASSUME RecordTypes, NEW kind \in {"stop", "start", "tune"}, NEW hz \in 0..TopNco
    PROVE  Sent(kind, hz) \in Plain /\ Sent(kind, hz) \in Datagrams
  BY DEF RecordTypes, Tasks, Sent, Plain, Datagrams, Kinds, Nets

LEMMA StopKeeps ==
    ASSUME NetInv, SendStop
    PROVE  NetInv'
  <1> USE Bounds
  <1>1. RecordTypes
    BY DEF NetInv
  <1>2. PICK m \in Plain : m = Sent("stop", 0) /\ m \in Datagrams
    BY <1>1, SentIsPlain
  <1>3. PICK up : up = Append(net.up, m)
    OBVIOUS
  <1>4. /\ net' = [net EXCEPT !.up = up] /\ task' = [task EXCEPT !.pc = "start"] /\ task.pc = "stop"
        /\ board' = board /\ world' = world /\ Len(net.up) < MaxFlight
    BY <1>2, <1>3 DEF SendStop, Runs
  <1>5. /\ up \in Seq(Datagrams) /\ Len(up) = Len(net.up) + 1 /\ up[Len(net.up) + 1] = m
        /\ \A i \in 1..Len(net.up) : up[i] = net.up[i]
    BY <1>1, <1>2, <1>3, OneMore DEF RecordTypes, Nets
  <1>6. Len(net.up) \in Nat /\ Len(up) <= MaxFlight
    BY <1>1, <1>4, <1>5 DEF RecordTypes, Nets
  <1>7. RecordTypes'
    <2>1. net' \in Nets /\ net'.up = up
      BY <1>1, <1>4, <1>5 DEF RecordTypes, Nets
    <2>2. task' \in Tasks
      BY <1>1, <1>4 DEF RecordTypes, Tasks, Nets
    <2> QED BY <1>1, <1>4, <1>6, <2>1, <2>2 DEF RecordTypes
  <1>8. /\ task'.pc = "start" /\ task'.armed = task.armed /\ task'.lease = task.lease
        /\ task'.acked = task.acked /\ task'.peer = task.peer /\ net'.down = net.down
    BY <1>1, <1>4 DEF RecordTypes, Tasks, Nets
  <1>9. net' = [net EXCEPT !.up = up, !.down = net'.down]
    BY <1>1, <1>4, <1>8 DEF RecordTypes, Nets
  <1>10. \A i \in 1..Len(up) : i \notin 1..Len(net.up) => up[i] \in Plain
    BY <1>2, <1>5, <1>6
  <1>11. Len(net.up) <= Len(up)
    BY <1>5, <1>6
  <1> QED BY <1>4, <1>5, <1>7, <1>8, <1>9, <1>10, <1>11, CommandKeeps

LEMMA RetuneKeeps ==
    ASSUME NetInv, Retune, enc.steps \in Int
    PROVE  NetInv'
  <1> USE Bounds
  <1>1. RecordTypes
    BY DEF NetInv
  <1>2. PICK nco \in 0..TopNco : nco = Clamp(task.nco + enc.steps)
    BY <1>1 DEF RecordTypes, Tasks, Clamp, Nets
  <1>3. PICK m \in Plain : m = Sent("tune", nco) /\ m \in Datagrams
    BY <1>1, SentIsPlain
  <1>4. PICK up : up = Append(net.up, m)
    OBVIOUS
  <1>5. /\ net' = [net EXCEPT !.up = up] /\ task' = [task EXCEPT !.nco = nco, !.shown = nco] /\ task.pc = "stream"
        /\ board' = board /\ Len(net.up) < MaxFlight
        /\ world' = [world EXCEPT !.clamped = @ \/ nco # task.nco + enc.steps]
    BY <1>2, <1>3, <1>4 DEF Retune, Runs
  <1>6. /\ up \in Seq(Datagrams) /\ Len(up) = Len(net.up) + 1 /\ up[Len(net.up) + 1] = m
        /\ \A i \in 1..Len(net.up) : up[i] = net.up[i]
    BY <1>1, <1>3, <1>4, OneMore DEF RecordTypes, Nets
  <1>7. Len(net.up) \in Nat /\ Len(up) <= MaxFlight
    BY <1>1, <1>5, <1>6 DEF RecordTypes, Nets
  <1>8. RecordTypes'
    <2>1. world' \in Worlds /\ task' \in Tasks
      BY <1>1, <1>5 DEF RecordTypes, Tasks, Worlds, Nets
    <2>2. net' \in Nets /\ net'.up = up
      BY <1>1, <1>5, <1>6 DEF RecordTypes, Nets
    <2> QED BY <1>1, <1>5, <1>7, <2>1, <2>2 DEF RecordTypes
  <1>9. /\ task'.pc = "stream" /\ task'.armed = task.armed /\ task'.lease = task.lease
        /\ task'.acked = task.acked /\ task'.peer = task.peer /\ net'.down = net.down
        /\ world'.router = world.router /\ world'.unlucky = world.unlucky /\ world'.hasty = world.hasty
    BY <1>1, <1>5 DEF RecordTypes, Tasks, Worlds, Nets
  <1>10. net' = [net EXCEPT !.up = up, !.down = net'.down]
    BY <1>1, <1>5, <1>9 DEF RecordTypes, Nets
  <1>11. \A i \in 1..Len(up) : i \notin 1..Len(net.up) => up[i] \in Plain
    BY <1>3, <1>6, <1>7
  <1>12. Len(net.up) <= Len(up)
    BY <1>6, <1>7
  <1> QED BY <1>5, <1>6, <1>8, <1>9, <1>10, <1>11, <1>12, CommandKeeps

LEMMA StartKeeps ==
    ASSUME NetInv, SendStart
    PROVE  NetInv'
  <1> USE Bounds
  <1>1. RecordTypes
    BY DEF NetInv
  <1>2. PICK m \in Plain : m = Sent("start", 0) /\ m \in Datagrams
    BY <1>1, SentIsPlain
  <1>3. PICK n \in Plain : n = Sent("tune", StartNco) /\ n \in Datagrams
    BY <1>1, SentIsPlain
  <1>4. PICK up : up = net.up \o <<m, n>>
    OBVIOUS
  <1>5. /\ net' = [net EXCEPT !.up = up, !.down = 0] /\ task' = [task EXCEPT !.pc = "stream", !.nco = StartNco]
        /\ board' = board /\ world' = world /\ Len(net.up) + 2 <= MaxFlight /\ task.pc = "start"
    BY <1>2, <1>3, <1>4 DEF SendStart, Runs
  <1>6. /\ up \in Seq(Datagrams) /\ Len(up) = Len(net.up) + 2 /\ up[Len(net.up) + 1] = m /\ up[Len(net.up) + 2] = n
        /\ \A i \in 1..Len(net.up) : up[i] = net.up[i]
    <2>1. net.up \in Seq(Datagrams)
      BY <1>1 DEF RecordTypes, Nets
    <2> QED BY <1>2, <1>3, <1>4, <2>1, TwoMore
  <1>7. Len(net.up) \in Nat /\ Len(up) <= MaxFlight
    BY <1>1, <1>5, <1>6 DEF RecordTypes, Nets
  <1>8. RecordTypes'
    <2>1. PICK t \in Tasks : t = task
      BY <1>1 DEF RecordTypes, Nets
    <2>2. task' \in Tasks
      <3>1. task' = [t EXCEPT !.pc = "stream", !.nco = StartNco] /\ StartNco \in 0..TopNco
        BY <1>5, <2>1
      <3> QED BY <3>1 DEF Tasks
    <2>3. net' \in Nets /\ net'.up = up
      BY <1>1, <1>5, <1>6 DEF RecordTypes, Nets
    <2> QED BY <1>1, <1>5, <1>7, <2>2, <2>3 DEF RecordTypes
  <1>9. /\ task'.pc = "stream" /\ task'.armed = task.armed /\ task'.lease = task.lease
        /\ task'.acked = task.acked /\ task'.peer = task.peer /\ net'.down = 0
    BY <1>1, <1>5 DEF RecordTypes, Tasks, Nets
  <1>10. net' = [net EXCEPT !.up = up, !.down = net'.down]
    BY <1>5, <1>9
  <1>11. \A i \in 1..Len(up) : i \notin 1..Len(net.up) => up[i] \in Plain
    <2>1. ASSUME NEW i \in 1..Len(up), i \notin 1..Len(net.up)
          PROVE  i = Len(net.up) + 1 \/ i = Len(net.up) + 2
      BY <1>6, <1>7, <2>1
    <2> QED BY <1>2, <1>3, <1>6, <2>1
  <1>12. Len(net.up) <= Len(up)
    BY <1>6, <1>7
  <1> QED BY <1>5, <1>6, <1>8, <1>9, <1>10, <1>11, <1>12, CommandKeeps

\* The wait's other steps, and the mode: nothing is sent.
LEMMA WaitKeeps ==
    ASSUME NetInv, LinkCheck \/ ArmServer \/ Grace \/ ClientConfigured \/ CycleMode
    PROVE  NetInv'
  <1> USE Bounds
  <1>1. RecordTypes /\ OneQuestion /\ OneSearch /\ Leased /\ Routing /\ PeerComes
    BY DEF NetInv
  <1>2. net' = net /\ board' = board
    BY DEF LinkCheck, ArmServer, Grace, ClientConfigured, CycleMode
  <1>3. OneQuestion' /\ OneSearch'
    BY <1>1, <1>2 DEF OneQuestion, OneSearch
  <1>4. PICK t \in Tasks, w \in Worlds : t = task /\ w = world
    BY <1>1 DEF RecordTypes
  <1>5. CASE LinkCheck
    <2>1. task' = [t EXCEPT !.link = TRUE] /\ world' = world
      BY <1>4, <1>5 DEF LinkCheck
    <2>2. task' \in Tasks
      BY <1>4, <2>1 DEF Tasks
    <2>3. /\ task'.pc = task.pc /\ task'.armed = task.armed /\ task'.lease = task.lease
          /\ task'.acked = task.acked /\ task'.peer = task.peer
      BY <1>4, <2>1 DEF Tasks
    <2> QED BY <1>1, <1>2, <1>3, <2>1, <2>2, <2>3 DEF NetInv, RecordTypes, Leased, Routing, PeerComes
  <1>6. CASE CycleMode
    <2>1. PICK mode \in {task.mode, (task.mode + 1) % Modes} : task' = [t EXCEPT !.mode = mode]
      BY <1>4, <1>6 DEF CycleMode
    <2>2. mode \in 0..(Modes - 1) /\ world' = world
      BY <1>4, <1>6, <2>1 DEF CycleMode, Tasks
    <2>3. task' \in Tasks
      BY <1>4, <2>1, <2>2 DEF Tasks
    <2>4. /\ task'.pc = task.pc /\ task'.armed = task.armed /\ task'.lease = task.lease
          /\ task'.acked = task.acked /\ task'.peer = task.peer
      BY <1>4, <2>1 DEF Tasks
    <2> QED BY <1>1, <1>2, <1>3, <2>2, <2>3, <2>4 DEF NetInv, RecordTypes, Leased, Routing, PeerComes
  <1>7. CASE ArmServer
    <2>1. task' = [t EXCEPT !.armed = TRUE, !.lease = FirstLease] /\ world' = world /\ task.pc = "wait"
      BY <1>4, <1>7 DEF ArmServer, Runs
    <2>2. task' \in Tasks
      BY <1>4, <2>1 DEF Tasks, FirstLease
    <2>3. /\ task'.pc = "wait" /\ task'.armed /\ task'.lease = FirstLease
          /\ task'.acked = task.acked
      BY <1>4, <2>1 DEF Tasks
    <2> QED BY <1>1, <1>2, <1>3, <2>1, <2>2, <2>3 DEF NetInv, RecordTypes, Leased, Routing, PeerComes
  <1>8. CASE Grace
    <2>1. /\ task.pc = "wait" /\ task.armed /\ task.acked /\ task' = [t EXCEPT !.pc = "stop", !.peer = task.lease]
          /\ world' = [w EXCEPT !.hasty = board.ip # task.lease]
      BY <1>4, <1>8 DEF Grace, Leaves, Runs
    <2>2. task.lease = FirstLease /\ ~world.router
      BY <1>1, <2>1 DEF Leased, Routing
    <2>3. task' \in Tasks /\ world' \in Worlds
      BY <1>4, <2>1 DEF Tasks, Worlds
    <2>4. /\ task'.pc = "stop" /\ task'.armed /\ task'.lease = FirstLease /\ task'.peer = FirstLease
          /\ world'.router = world.router /\ (~world'.hasty => board.ip = FirstLease)
      BY <1>4, <2>1, <2>2 DEF Tasks, Worlds
    <2> QED BY <1>1, <1>2, <1>3, <2>1, <2>2, <2>3, <2>4 DEF NetInv, RecordTypes, Leased, Routing, PeerComes
  <1>9. CASE ClientConfigured
    <2>1. /\ world.router /\ ~task.armed /\ task' = [t EXCEPT !.pc = "discover", !.peer = None] /\ world' = world
      BY <1>4, <1>9 DEF ClientConfigured, Leaves, Runs
    <2>2. task' \in Tasks
      BY <1>4, <2>1 DEF Tasks, None
    <2>3. task'.pc = "discover" /\ task'.armed = task.armed /\ task'.lease = task.lease /\ task'.acked = task.acked
      BY <1>4, <2>1 DEF Tasks
    <2> QED BY <1>1, <1>2, <1>3, <2>1, <2>2, <2>3 DEF NetInv, RecordTypes, Leased, Routing, PeerComes
  <1> QED BY <1>5, <1>6, <1>7, <1>8, <1>9

\* The search: one request out, or one reply taken.
LEMMA SearchKeeps ==
    ASSUME NetInv, SendDiscovery \/ Found
    PROVE  NetInv'
  <1> USE Bounds
  <1>1. RecordTypes /\ OneQuestion /\ OneSearch /\ Leased /\ Routing /\ PeerComes
    BY DEF NetInv
  <1>2. task.pc = "discover" /\ board' = board /\ world' = world
    BY DEF SendDiscovery, Found, Runs
  <1>3. world.router
    BY <1>1, <1>2 DEF Routing
  <1>4. PICK t \in Tasks, n \in Nets : t = task /\ n = net
    BY <1>1 DEF RecordTypes
  <1>5. CASE SendDiscovery
    <2>1. PICK m : m = [Sent("find", 0) EXCEPT !.addr = Routed]
      OBVIOUS
    <2>2. net.up = <<>> /\ net.down = 0 /\ net' = [n EXCEPT !.up = <<m>>] /\ task' = task
      BY <1>4, <1>5, <2>1 DEF SendDiscovery
    <2>3. m \in Datagrams /\ m.kind = "find"
      BY <2>1 DEF Sent, Datagrams, Kinds, Routed
    <2>4. <<m>> \in Seq(Datagrams)
      BY <2>3
    <2>5. net' \in Nets /\ net'.up = <<m>> /\ net'.down = net.down /\ net'.boot = net.boot
      BY <1>4, <2>2, <2>4 DEF Nets
    <2>6. Len(net'.up) = 1 /\ net'.up[1] = m /\ \A i \in 1..Len(net'.up) : i = 1
      BY <2>5
    <2>7. RecordTypes'
      BY <1>1, <1>2, <2>2, <2>5, <2>6 DEF RecordTypes
    <2>8. OneQuestion' /\ OneSearch'
      BY <1>1, <2>2, <2>3, <2>5, <2>6 DEF OneQuestion, OneSearch, Asked
    <2>9. Leased'
      BY <1>1, <1>2, <2>2, <2>3, <2>5, <2>6 DEF Leased, Asked
    <2>10. Routing' /\ PeerComes'
      BY <1>1, <1>2, <1>3, <2>2, <2>5 DEF Routing, PeerComes
    <2> QED BY <2>7, <2>8, <2>9, <2>10 DEF NetInv
  <1>6. CASE Found
    <2>1. /\ net.down > 0 /\ net' = [n EXCEPT !.down = @ - 1]
          /\ task' = [t EXCEPT !.pc = "stop", !.peer = Routed]
      BY <1>4, <1>6 DEF Found
    <2>2. net' \in Nets /\ net'.up = net.up /\ net'.boot = net.boot /\ net'.down = net.down - 1
      <3>1. net' = [n EXCEPT !.down = n.down - 1] /\ n.down - 1 \in Nat
        BY <1>4, <2>1 DEF Nets
      <3> QED BY <1>4, <3>1 DEF Nets
    <2>3. /\ task' \in Tasks /\ task'.pc = "stop" /\ task'.peer = Routed /\ task'.armed = task.armed
          /\ task'.lease = task.lease /\ task'.acked = task.acked
      BY <1>4, <2>1 DEF Tasks, Routed
    <2>4. RecordTypes' /\ OneQuestion'
      BY <1>1, <1>2, <2>2, <2>3 DEF RecordTypes, OneQuestion
    <2>5. OneSearch'
      BY <1>1, <1>4, <2>1, <2>2, SMTT(30) DEF OneSearch, Nets
    <2>6. Leased' /\ Routing' /\ PeerComes'
      BY <1>1, <1>2, <1>3, <2>2, <2>3 DEF Leased, Routing, PeerComes
    <2> QED BY <2>4, <2>5, <2>6 DEF NetInv
  <1> QED BY <1>5, <1>6

\* The board asks: nothing of an earlier exchange is left.
LEMMA AskKeeps ==
    ASSUME NetInv, Asks
    PROVE  NetInv'
  <1>1. RecordTypes /\ OneQuestion /\ OneSearch /\ Leased /\ Routing /\ PeerComes
    BY DEF NetInv
  <1>2. /\ task' = task /\ board' = board /\ world' = world /\ board.dhcp # "bound"
        /\ net.up = <<>> /\ net' = [net EXCEPT !.boot = <<[kind |-> board.dhcp]>>]
    BY DEF Asks
  <1>3. PICK n \in Nets : n = net
    BY <1>1 DEF RecordTypes
  <1>4. PICK q \in Queries : q = [kind |-> board.dhcp]
    BY <1>1, <1>2 DEF RecordTypes, Boards, Queries, Asked
  <1>5. <<q>> \in Seq(Queries)
    OBVIOUS
  <1>6. net' \in Nets /\ net'.up = <<>> /\ net'.boot = <<q>> /\ net'.down = net.down
    BY <1>2, <1>3, <1>4, <1>5 DEF Nets
  <1>7. Len(net'.boot) = 1 /\ net'.boot[1] = q /\ Len(net'.up) = 0 /\ \A i \in 1..Len(net'.boot) : i = 1
    BY <1>6
  <1>8. RecordTypes'
    BY <1>1, <1>2, <1>6 DEF RecordTypes
  <1>9. OneQuestion' /\ OneSearch'
    BY <1>1, <1>6, <1>7 DEF OneQuestion, OneSearch
  <1>10. Leased'
    BY <1>1, <1>2, <1>4, <1>7 DEF Leased
  <1>11. Routing' /\ PeerComes'
    BY <1>1, <1>2, <1>6 DEF Routing, PeerComes
  <1> QED BY <1>8, <1>9, <1>10, <1>11 DEF NetInv

\* A lost datagram: it was the last word, or somebody asks again.
LEMMA LossKeeps ==
    ASSUME NetInv, LoseUp \/ LoseDown
    PROVE  NetInv'
  <1>1. RecordTypes /\ OneQuestion /\ OneSearch /\ Leased /\ Routing /\ PeerComes
    BY DEF NetInv
  <1>2. PICK n \in Nets, w \in Worlds : n = net /\ w = world
    BY <1>1 DEF RecordTypes
  <1>3. task' = task /\ board' = board
    BY DEF LoseUp, LoseDown
  <1>4. CASE LoseUp
    <2>1. /\ net' = [n EXCEPT !.loss = @ - 1, !.up = Tail(@)] /\ net.loss > 0 /\ net.up # <<>>
          /\ world' = [w EXCEPT !.unlucky = @ \/ Head(net.up).kind \in Once]
      BY <1>2, <1>4 DEF LoseUp
    <2>2. net.up \in Seq(Datagrams) /\ n.loss - 1 \in Nat
      BY <1>2, <2>1 DEF Nets
    <2>3. /\ Head(net.up) = net.up[1] /\ Tail(net.up) \in Seq(Datagrams) /\ Len(Tail(net.up)) = Len(net.up) - 1
          /\ \A i \in 1..Len(Tail(net.up)) : i + 1 \in 2..Len(net.up) /\ Tail(net.up)[i] = net.up[i + 1]
      BY <2>1, <2>2, FirstOut
    <2>4. net' \in Nets /\ net'.up = Tail(net.up) /\ net'.down = net.down /\ net'.boot = net.boot
      BY <1>2, <2>1, <2>2, <2>3 DEF Nets
    <2>5. \A i \in 1..Len(net'.up) : /\ i + 1 \in 1..Len(net.up) /\ net'.up[i] = net.up[i + 1]
      BY <2>3, <2>4
    <2>6. /\ world' \in Worlds /\ world'.router = world.router /\ world'.hasty = world.hasty
          /\ ~world'.unlucky => ~world.unlucky /\ net.up[1].kind # "request"
      BY <1>2, <2>1, <2>3 DEF Worlds, Once
    <2>7. RecordTypes'
      BY <1>1, <1>3, <2>2, <2>3, <2>4, <2>6, Bounds DEF RecordTypes
    <2>8. OneQuestion' /\ OneSearch'
      BY <1>1, <2>4, <2>5 DEF OneQuestion, OneSearch
    <2>9. Leased' /\ Routing'
      BY <1>1, <1>3, <2>4, <2>5, <2>6 DEF Leased, Routing
    <2>10. PeerComes'
      <3> SUFFICES ASSUME task.pc \in {"stop", "start", "stream"}, ~world.router, ~world'.unlucky,
                          ~world.hasty, board.ip # FirstLease
                   PROVE  \E i \in 1..Len(net'.up) : net'.up[i].kind = "request"
        BY <1>1, <1>3, <2>6 DEF PeerComes
      <3>1. PICK i \in 1..Len(net.up) : net.up[i].kind = "request"
        BY <1>1, <2>6 DEF PeerComes
      <3>2. i - 1 \in 1..Len(net'.up) /\ (i - 1) + 1 = i
        BY <2>2, <2>3, <2>4, <2>6, <3>1
      <3> QED BY <2>5, <3>1, <3>2
    <2> QED BY <2>7, <2>8, <2>9, <2>10 DEF NetInv
  <1>5. CASE LoseDown
    <2>1. world' = world /\ net.loss > 0
      BY <1>5 DEF LoseDown
    <2>2. CASE net.down > 0 /\ net' = [net EXCEPT !.loss = @ - 1, !.down = @ - 1]
      <3>1. net' \in Nets /\ net'.up = net.up /\ net'.boot = net.boot /\ net'.down = net.down - 1
        <4>1. net' = [n EXCEPT !.loss = n.loss - 1, !.down = n.down - 1] /\ n.loss - 1 \in Nat /\ n.down - 1 \in Nat
          BY <1>2, <2>1, <2>2 DEF Nets
        <4> QED BY <1>2, <4>1 DEF Nets
      <3>2. OneSearch'
        BY <1>1, <1>2, <2>2, <3>1 DEF OneSearch, Nets
      <3> QED BY <1>1, <1>3, <2>1, <3>1, <3>2
              DEF NetInv, RecordTypes, OneQuestion, Leased, Routing, PeerComes
    <2>3. CASE net.boot # <<>> /\ net' = [net EXCEPT !.loss = @ - 1, !.boot = Tail(@)]
      <3>1. net.boot \in Seq(Queries) /\ Len(net.boot) <= 1
        BY <1>1, <1>2 DEF Nets, OneQuestion
      <3>2. Tail(net.boot) = <<>>
        BY <2>3, <3>1
      <3>3. net' \in Nets /\ net'.up = net.up /\ net'.boot = <<>> /\ net'.down = net.down
        <4>1. PICK e \in Seq(Queries) : e = <<>>
          BY <2>3, <3>1, <3>2, FirstOut
        <4>2. net' = [n EXCEPT !.loss = n.loss - 1, !.boot = e]
          <5>1. net' = [net EXCEPT !.loss = net.loss - 1, !.boot = Tail(net.boot)]
            BY <2>3
          <5> QED BY <1>2, <3>2, <4>1, <5>1
        <4>3. n.loss - 1 \in Nat
          BY <1>2, <2>1 DEF Nets
        <4> QED BY <1>2, <4>1, <4>2, <4>3 DEF Nets
      <3>4. Len(net'.boot) = 0
        BY <3>3
      <3> QED BY <1>1, <1>3, <2>1, <3>3, <3>4
              DEF NetInv, RecordTypes, OneQuestion, OneSearch, Leased, Routing, PeerComes
    <2> QED BY <1>5, <2>2, <2>3 DEF LoseDown
  <1> QED BY <1>4, <1>5

\* The first REQUEST of a queue that holds at most one query.
LEMMA FirstRequest ==
    ASSUME NEW boot \in Seq(Queries), Len(boot) = 1
    PROVE  SelectInSeq(boot, LAMBDA q : q.kind = "request") = IF boot[1].kind = "request" THEN 1 ELSE 0
  <1>1. PICK I : I = {i \in 1..Len(boot) : boot[i].kind = "request"}
    OBVIOUS
  <1>2. CASE boot[1].kind = "request"
    <2>1. I = {1}
      BY <1>1, <1>2
    <2> QED BY <1>1, <1>2, <2>1 DEF SelectInSeq, Min
  <1>3. CASE boot[1].kind # "request"
    <2>1. I = {}
      BY <1>1, <1>3
    <2> QED BY <1>1, <1>3, <2>1 DEF SelectInSeq
  <1> QED BY <1>2, <1>3

\* The server answers: the lease goes up, and a REQUEST is the board's last word.
LEMMA ServeKeeps ==
    ASSUME NetInv, ServeDhcp
    PROVE  NetInv'
  <1> USE Bounds
  <1>1. RecordTypes /\ OneQuestion /\ OneSearch /\ Leased /\ Routing /\ PeerComes
    BY DEF NetInv
  <1>2. PICK n \in Nets, t \in Tasks : n = net /\ t = task
    BY <1>1 DEF RecordTypes
  <1>3. PICK until : until = SelectInSeq(net.boot, LAMBDA q : q.kind = "request")
    OBVIOUS
  <1>4. PICK k : k = IF until > 0 THEN until ELSE Len(net.boot)
    OBVIOUS
  <1>5. PICK r : r = [i \in 1..k |-> [kind |-> net.boot[i].kind, addr |-> task.lease, hz |-> 0]]
    OBVIOUS
  <1>6. /\ task.pc = "wait" /\ task.armed /\ k > 0 /\ Len(net.up) + k <= MaxFlight
        /\ net' = [net EXCEPT !.boot = SubSeq(@, k + 1, Len(@)), !.up = @ \o r]
        /\ IF until > 0 THEN task' = [task EXCEPT !.acked = TRUE, !.pc = "stop", !.peer = task.lease]
                        ELSE task' = [task EXCEPT !.acked = TRUE]
        /\ board' = board /\ world' = world
    BY <1>3, <1>4, <1>5 DEF ServeDhcp, Runs
  <1>7. net.boot \in Seq(Queries) /\ Len(net.boot) <= 1 /\ net.up \in Seq(Datagrams)
    BY <1>1, <1>2 DEF Nets, OneQuestion
  <1>8. net.boot # <<>>
    BY <1>3, <1>4, <1>6, <1>7 DEF SelectInSeq
  <1>9. Len(net.boot) = 1 /\ until = IF net.boot[1].kind = "request" THEN 1 ELSE 0
    <2>1. Len(net.boot) \in Nat /\ Len(net.boot) >= 1
      BY <1>7, <1>8, FirstOut
    <2>2. Len(net.boot) = 1
      <3>1. PICK x \in Nat : x = Len(net.boot)
        BY <2>1
      <3>2. x <= 1 /\ x >= 1
        BY <1>7, <2>1, <3>1
      <3>3. x = 1
        BY <3>2
      <3> QED BY <3>1, <3>3
    <2> QED BY <1>3, <1>7, <2>2, FirstRequest
  <1>10. k = 1
    BY <1>4, <1>9
  <1>11. PICK m \in Datagrams : m = [kind |-> net.boot[1].kind, addr |-> FirstLease, hz |-> 0]
    <2>1. net.boot[1] \in Queries
      BY <1>7, <1>9
    <2>2. net.boot[1].kind \in Kinds
      BY <2>1 DEF Queries, Asked, Kinds
    <2>3. PICK y \in Kinds : y = net.boot[1].kind
      BY <2>2
    <2>4. [kind |-> y, addr |-> FirstLease, hz |-> 0] \in Datagrams
      BY DEF Datagrams, FirstLease
    <2> QED BY <2>3, <2>4
  <1>12. r = <<m>>
    <2>1. task.lease = FirstLease
      BY <1>1, <1>6 DEF Leased
    <2>2. r = [i \in 1..1 |-> m]
      BY <1>5, <1>10, <1>11, <2>1
    <2> QED BY <2>2
  <1>13. PICK up : up = Append(net.up, m)
    OBVIOUS
  <1>14. /\ up \in Seq(Datagrams) /\ Len(up) = Len(net.up) + 1 /\ up[Len(net.up) + 1] = m
         /\ \A i \in 1..Len(net.up) : up[i] = net.up[i]
    BY <1>7, <1>13, OneMore
  <1>15. net.up \o r = up
    BY <1>7, <1>12, <1>13
  <1>16. PICK e \in Seq(Queries) : e = <<>> /\ SubSeq(net.boot, k + 1, Len(net.boot)) = e
    <2>1. Tail(net.boot) \in Seq(Queries)
      BY <1>7, <1>8, FirstOut
    <2>2. Tail(net.boot) = <<>>
      <3>1. net.boot \in Seq(Queries) /\ Len(net.boot) <= 1 /\ net.boot # <<>>
        BY <1>7, <1>8
      <3> QED BY <3>1
    <2>3. SubSeq(net.boot, 2, 1) = <<>>
      BY <1>7
    <2>4. SubSeq(net.boot, k + 1, Len(net.boot)) = Tail(net.boot)
      BY <1>9, <1>10, <2>2, <2>3
    <2> QED BY <2>1, <2>2, <2>4
  <1>17. net' = [n EXCEPT !.boot = e, !.up = up]
    BY <1>2, <1>6, <1>15, <1>16
  <1>18. net' \in Nets /\ net'.up = up /\ net'.boot = <<>> /\ net'.down = net.down
    BY <1>2, <1>14, <1>16, <1>17 DEF Nets
  <1>19. /\ task' \in Tasks /\ task'.armed /\ task'.lease = task.lease /\ task'.acked
         /\ IF until > 0 THEN task'.pc = "stop" /\ task'.peer = task.lease ELSE task'.pc = "wait"
    <2>1. CASE until > 0
      <3>1. task' = [t EXCEPT !.acked = TRUE, !.pc = "stop", !.peer = t.lease]
        BY <1>2, <1>6, <2>1
      <3> QED BY <1>2, <1>6, <2>1, <3>1 DEF Tasks
    <2>2. CASE ~(until > 0)
      <3>1. task' = [t EXCEPT !.acked = TRUE]
        BY <1>2, <1>6, <2>2
      <3> QED BY <1>2, <1>6, <2>2, <3>1 DEF Tasks
    <2> QED BY <2>1, <2>2
  <1>20. Len(net.up) \in Nat /\ Len(net'.boot) = 0 /\ Len(up) <= MaxFlight
    BY <1>6, <1>7, <1>10, <1>14, <1>18, SMTT(30)
  <1>21. \A i \in 1..Len(up) : (i \in 1..Len(net.up) /\ up[i] = net.up[i]) \/ (i = Len(net.up) + 1 /\ up[i] = m)
    BY <1>14, <1>20
  <1>22. m.kind = net.boot[1].kind /\ m.kind \in Asked /\ m.addr = FirstLease
    <2>1. net.boot[1] \in Queries
      BY <1>7, <1>9
    <2> QED BY <1>11, <2>1 DEF Queries
  <1>23. \A i \in 1..Len(net.up) : net.up[i].kind \notin Asked
    BY <1>1, <1>8 DEF OneQuestion
  <1>24. RecordTypes'
    BY <1>1, <1>6, <1>18, <1>19, <1>20 DEF RecordTypes
  <1>25. OneQuestion'
    BY <1>18, <1>20, <1>21, <1>23 DEF OneQuestion
  <1>26. OneSearch'
    BY <1>1, <1>18, <1>21, <1>22 DEF OneSearch, Asked
  <1>27. Leased'
    <2>1. m.kind = "request" => board.dhcp = "request"
      <3>1. 1 \in 1..Len(net.boot)
        BY <1>9
      <3> QED BY <1>1, <1>22, <3>1 DEF Leased
    <2>2. task.lease = FirstLease
      BY <1>1, <1>6 DEF Leased
    <2>3. board.dhcp = "request" => board.offer = FirstLease
      BY <1>1 DEF Leased
    <2>4. \A i \in 1..Len(up) : /\ up[i].kind \in Asked => up[i].addr = FirstLease
                                /\ up[i].kind = "request" => board.dhcp = "request"
      BY <1>21, <1>22, <1>23, <2>1 DEF Asked
    <2>5. \A i \in 1..Len(net'.boot) : FALSE
      BY <1>20
    <2> QED BY <1>6, <1>18, <1>19, <2>2, <2>3, <2>4, <2>5 DEF Leased
  <1>28. Routing'
    BY <1>1, <1>6, <1>8, <1>18, <1>19 DEF Routing
  <1>29. PeerComes'
    <2>1. CASE until > 0
      <3>1. up[Len(net.up) + 1].kind = "request" /\ Len(net.up) + 1 \in 1..Len(up)
        BY <1>9, <1>14, <1>20, <1>22, <2>1
      <3>2. task'.peer = FirstLease
        BY <1>1, <1>6, <1>19, <2>1 DEF Leased
      <3> QED BY <1>18, <3>1, <3>2 DEF PeerComes
    <2>2. CASE ~(until > 0)
      BY <1>19, <2>2 DEF PeerComes
    <2> QED BY <2>1, <2>2
  <1> QED BY <1>24, <1>25, <1>26, <1>27, <1>28, <1>29 DEF NetInv

\* A datagram arrives: the first answer to the board's question binds it to the
\* lease or makes it request that, and what confirms its REQUEST binds it.
LEMMA ReceiveKeeps ==
    ASSUME NetInv, Receive
    PROVE  NetInv'
  <1> USE Bounds
  <1>1. RecordTypes /\ OneQuestion /\ OneSearch /\ Leased /\ Routing /\ PeerComes
    BY DEF NetInv
  <1>2. PICK n \in Nets, b \in Boards : n = net /\ b = board
    BY <1>1 DEF RecordTypes
  <1>3. PICK m : m = Head(net.up)
    OBVIOUS
  <1>4. /\ net.up # <<>> /\ board' \in After(m) /\ task' = task /\ world' = world
        /\ net' = [net EXCEPT !.up = Tail(@),
                     !.down = IF m.kind = "find" /\ board.ip # None THEN @ + 1 ELSE @,
                     !.boot = IF board'.dhcp = "request" /\ board.dhcp = "discover"
                              THEN Append(@, [kind |-> "request"]) ELSE @]
    BY <1>3 DEF Receive
  <1>5. net.up \in Seq(Datagrams) /\ net.boot \in Seq(Queries) /\ net.down \in Nat
    BY <1>2 DEF Nets
  <1>6. PICK up \in Seq(Datagrams) : up = Tail(net.up)
    BY <1>4, <1>5, FirstOut
  <1>7. /\ m = net.up[1] /\ m \in Datagrams /\ 1 \in 1..Len(net.up)
        /\ Len(up) = Len(net.up) - 1 /\ Len(net.up) \in Nat
        /\ \A i \in 1..Len(up) : i + 1 \in 2..Len(net.up) /\ up[i] = net.up[i + 1]
    BY <1>3, <1>4, <1>5, <1>6, FirstOut, SMTT(30)
  <1>8. \A i \in 1..Len(up) : i + 1 \in 1..Len(net.up) /\ i + 1 # 1 /\ up[i] = net.up[i + 1]
    BY <1>7
  <1>9. PICK boot : boot = IF board'.dhcp = "request" /\ board.dhcp = "discover"
                            THEN Append(net.boot, [kind |-> "request"]) ELSE net.boot
    OBVIOUS
  <1>10. PICK down : down = IF m.kind = "find" /\ board.ip # None THEN net.down + 1 ELSE net.down
    OBVIOUS
  <1>11. net' = [n EXCEPT !.up = up, !.down = down, !.boot = boot]
    BY <1>2, <1>4, <1>6, <1>9, <1>10
  <1>12. [kind |-> "request"] \in Queries
    BY DEF Queries, Asked
  <1>13. boot \in Seq(Queries) /\ down \in Nat
    BY <1>5, <1>9, <1>10, <1>12, OneMore
  <1>14. net' \in Nets /\ net'.up = up /\ net'.down = down /\ net'.boot = boot
    BY <1>2, <1>11, <1>13 DEF Nets
  \* What the datagram makes of the board.
  <1>15. \/ /\ m.kind = "discover" /\ board.dhcp = "discover"
            /\ board' = [b EXCEPT !.ip = m.addr, !.dhcp = "bound"]
               \/ board' = [b EXCEPT !.dhcp = "request", !.offer = m.addr]
         \/ /\ m.kind = "request" /\ board.dhcp = "request"
            /\ IF m.addr = board.offer THEN board' = [b EXCEPT !.ip = m.addr, !.dhcp = "bound"]
                                       ELSE board' = [b EXCEPT !.dhcp = "discover"]
         \/ /\ ~(m.kind = "request" /\ board.dhcp = "request")
            /\ \/ \E on \in BOOLEAN : board' = [b EXCEPT !.on = on]
               \/ board' = [b EXCEPT !.nco = m.hz]
               \/ board' = b
    <2>1. board' \in After(m)
      BY <1>4
    <2>2. CASE m.kind = "discover" /\ board.dhcp = "discover"
      BY <1>2, <2>1, <2>2 DEF After, Bound
    <2>3. CASE m.kind = "request" /\ board.dhcp = "request"
      <3>1. m.kind # "discover"
        BY <2>3
      <3> QED BY <1>2, <2>1, <2>3, <3>1 DEF After, Bound
    <2>4. CASE m.kind = "start" /\ m.addr = board.ip
      BY <1>2, <2>1, <2>4 DEF After
    <2>5. CASE m.kind = "stop" /\ m.addr = board.ip
      BY <1>2, <2>1, <2>5 DEF After
    <2>6. CASE m.kind = "tune" /\ m.addr = board.ip
      BY <1>2, <2>1, <2>6 DEF After
    <2>7. CASE /\ ~(m.kind = "discover" /\ board.dhcp = "discover")
               /\ ~(m.kind = "request" /\ board.dhcp = "request")
               /\ ~(m.kind = "start" /\ m.addr = board.ip)
               /\ ~(m.kind = "stop" /\ m.addr = board.ip)
               /\ ~(m.kind = "tune" /\ m.addr = board.ip)
      BY <1>2, <2>1, <2>7 DEF After
    <2> QED BY <2>2, <2>3, <2>4, <2>5, <2>6, <2>7
  <1>16. world'.router = world.router /\ world'.unlucky = world.unlucky /\ world'.hasty = world.hasty
    BY <1>4
  <1>17. m.kind \in Asked => /\ net.boot = <<>> /\ m.addr = FirstLease
                             /\ \A i \in 1..Len(up) : up[i].kind \notin Asked
    <2> SUFFICES ASSUME m.kind \in Asked
                 PROVE  /\ net.boot = <<>> /\ m.addr = FirstLease
                        /\ \A i \in 1..Len(up) : up[i].kind \notin Asked
      OBVIOUS
    <2>1. net.boot = <<>>
      BY <1>1, <1>7 DEF OneQuestion
    <2>2. m.addr = FirstLease
      BY <1>1, <1>7 DEF Leased
    <2>3. \A i \in 1..Len(up) : up[i].kind \notin Asked
      BY <1>1, <1>7, <1>8 DEF OneQuestion
    <2> QED BY <2>1, <2>2, <2>3
  <1>18. OneSearch'
    <2>1. \A i, j \in 1..Len(up) : up[i].kind = "find" /\ up[j].kind = "find" => i = j
      <3> SUFFICES ASSUME NEW i \in 1..Len(up), NEW j \in 1..Len(up), up[i].kind = "find", up[j].kind = "find"
                   PROVE  i = j
        OBVIOUS
      <3>1. i + 1 = j + 1
        BY <1>1, <1>8 DEF OneSearch
      <3> QED BY <3>1
    <2>2. CASE m.kind = "find"
      <3>1. \A i \in 1..Len(up) : up[i].kind # "find"
        BY <1>1, <1>7, <1>8, <2>2 DEF OneSearch
      <3>2. net.down = 0
        BY <1>1, <1>5, <1>7, <2>2 DEF OneSearch
      <3>3. down <= 1
        BY <1>10, <3>2
      <3> QED BY <1>14, <2>1, <3>1, <3>3 DEF OneSearch
    <2>3. CASE m.kind # "find"
      <3>1. down = net.down
        BY <1>10, <2>3
      <3>2. down = 1 => \A i \in 1..Len(up) : up[i].kind # "find"
        BY <1>1, <1>8, <3>1 DEF OneSearch
      <3> QED BY <1>1, <1>14, <2>1, <3>1, <3>2 DEF OneSearch
    <2> QED BY <2>2, <2>3
  <1>19. \A i, j \in 1..Len(up) : up[i].kind \in Asked /\ up[j].kind \in Asked => i = j
    <2> SUFFICES ASSUME NEW i \in 1..Len(up), NEW j \in 1..Len(up), up[i].kind \in Asked, up[j].kind \in Asked
                 PROVE  i = j
      OBVIOUS
    <2>1. i + 1 = j + 1
      BY <1>1, <1>8 DEF OneQuestion
    <2> QED BY <2>1
  <1>20. \A i \in 1..Len(up) : up[i].kind \in Asked => up[i].addr = FirstLease
    BY <1>1, <1>8 DEF Leased
  <1>21. Len(up) <= MaxFlight
    BY <1>1, <1>7 DEF RecordTypes
  \* The board makes its first answer its address, or requests it.
  <1>22. CASE /\ m.kind = "discover" /\ board.dhcp = "discover"
              /\ \/ board' = [b EXCEPT !.ip = m.addr, !.dhcp = "bound"]
                 \/ board' = [b EXCEPT !.dhcp = "request", !.offer = m.addr]
    <2>1. /\ net.boot = <<>> /\ m.addr = FirstLease /\ ~world.router
          /\ \A i \in 1..Len(up) : up[i].kind \notin Asked
      BY <1>1, <1>17, <1>22 DEF Asked, Routing
    <2>2. up = net'.up /\ boot = net'.boot /\ "request" \in Asked
      BY <1>14 DEF Asked
    <2>3. CASE board' = [b EXCEPT !.ip = m.addr, !.dhcp = "bound"]
      <3>1. board' \in Boards /\ board'.ip = FirstLease /\ board'.dhcp = "bound"
        <4>1. board' = [b EXCEPT !.ip = FirstLease, !.dhcp = "bound"]
          BY <2>1, <2>3
        <4> QED BY <4>1 DEF Boards, FirstLease
      <3>2. boot = <<>> /\ Len(boot) = 0
        BY <1>9, <2>1, <3>1
      <3>3. RecordTypes'
        BY <1>1, <1>4, <1>14, <1>21, <3>1 DEF RecordTypes
      <3>4. OneQuestion'
        BY <1>19, <2>2, <3>2 DEF OneQuestion
      <3>5. Leased'
        <4>1. \A i \in 1..Len(boot) : FALSE
          BY <3>2
        <4> QED BY <1>1, <1>4, <2>1, <2>2, <3>1, <4>1 DEF Leased
      <3>6. Routing' /\ PeerComes'
        BY <1>1, <1>4, <2>1, <3>1 DEF Routing, PeerComes
      <3> QED BY <1>18, <3>3, <3>4, <3>5, <3>6 DEF NetInv
    <2>4. CASE board' = [b EXCEPT !.dhcp = "request", !.offer = m.addr]
      <3>1. /\ board' \in Boards /\ board'.ip = board.ip /\ board'.dhcp = "request" /\ board'.offer = FirstLease
        <4>1. board' = [b EXCEPT !.dhcp = "request", !.offer = FirstLease]
          BY <2>1, <2>4
        <4> QED BY <1>2, <4>1 DEF Boards, FirstLease
      <3>2. boot = Append(net.boot, [kind |-> "request"])
        BY <1>9, <1>22, <3>1
      <3>3. Len(boot) = 1 /\ boot[1] = [kind |-> "request"] /\ \A i \in 1..Len(boot) : i = 1
        BY <2>1, <3>2
      <3>4. RecordTypes'
        BY <1>1, <1>4, <1>14, <1>21, <3>1 DEF RecordTypes
      <3>5. OneQuestion'
        BY <1>19, <2>1, <2>2, <3>3 DEF OneQuestion
      <3>6. Leased'
        BY <1>1, <1>4, <2>1, <2>2, <3>1 DEF Leased
      <3>7. Routing'
        BY <1>1, <1>4, <1>22, <2>1, <3>1, SMTT(30) DEF Routing
      <3>8. PeerComes'
        <4>1. \A i \in 1..Len(net.up) : net.up[i].kind # "request"
          BY <1>1, <1>22 DEF Leased
        <4> QED BY <1>1, <1>4, <3>1, <4>1 DEF PeerComes
      <3> QED BY <1>18, <3>4, <3>5, <3>6, <3>7, <3>8 DEF NetInv
    <2> QED BY <1>22, <2>3, <2>4
  \* Its request is confirmed with what it was offered.
  <1>23. CASE m.kind = "request" /\ board.dhcp = "request"
    <2>1. /\ net.boot = <<>> /\ m.addr = FirstLease /\ ~world.router /\ board.offer = FirstLease
          /\ \A i \in 1..Len(up) : up[i].kind \notin Asked
      BY <1>1, <1>17, <1>23 DEF Asked, Routing, Leased
    <2>2. board' = [b EXCEPT !.ip = m.addr, !.dhcp = "bound"]
      BY <1>15, <1>23, <2>1
    <2>3. board' \in Boards /\ board'.ip = FirstLease /\ board'.dhcp = "bound"
      BY <1>2, <2>1, <2>2 DEF Boards, FirstLease
    <2>4. up = net'.up /\ boot = net'.boot /\ "request" \in Asked
      BY <1>14 DEF Asked
    <2>5. boot = <<>> /\ Len(boot) = 0
      BY <1>9, <2>1, <2>3
    <2>6. RecordTypes'
      BY <1>1, <1>4, <1>14, <1>21, <2>3 DEF RecordTypes
    <2>7. OneQuestion' /\ Leased'
      BY <1>1, <1>4, <1>19, <2>1, <2>3, <2>4, <2>5, SMTT(30) DEF OneQuestion, Leased
    <2>8. Routing' /\ PeerComes'
      BY <1>1, <1>4, <2>1, <2>3 DEF Routing, PeerComes
    <2> QED BY <1>18, <2>6, <2>7, <2>8 DEF NetInv
  \* Anything else leaves the address alone.
  <1>24. CASE /\ ~(m.kind = "request" /\ board.dhcp = "request")
              /\ \/ \E on \in BOOLEAN : board' = [b EXCEPT !.on = on]
                 \/ board' = [b EXCEPT !.nco = m.hz]
                 \/ board' = b
    <2>1. /\ board' \in Boards /\ board'.ip = board.ip /\ board'.dhcp = board.dhcp
          /\ board'.offer = board.offer
      <3>1. m.hz \in 0..TopNco
        BY <1>7 DEF Datagrams
      <3> QED BY <1>2, <1>24, <3>1 DEF Boards
    <2>2. boot = net.boot
      BY <1>9, <2>1
    <2>3. up = net'.up /\ boot = net'.boot
      BY <1>14
    <2>4. RecordTypes'
      BY <1>1, <1>4, <1>14, <1>21, <2>1 DEF RecordTypes
    <2>5. OneQuestion'
      <3>1. net.boot # <<>> => \A i \in 1..Len(up) : up[i].kind \notin Asked
        BY <1>1, <1>8 DEF OneQuestion
      <3> QED BY <1>1, <1>19, <2>2, <2>3, <3>1 DEF OneQuestion
    <2>6. Leased'
      <3>1. \A i \in 1..Len(up) : up[i].kind = "request" => board.dhcp = "request"
        BY <1>1, <1>8 DEF Leased
      <3> QED BY <1>1, <1>4, <1>20, <2>1, <2>2, <2>3, <3>1 DEF Leased
    <2>7. Routing'
      BY <1>1, <1>4, <2>1, <2>2, <2>3 DEF Routing
    <2>8. PeerComes'
      <3> SUFFICES ASSUME task.pc \in {"stop", "start", "stream"}, ~world.router, ~world.unlucky,
                          ~world.hasty, board.ip # FirstLease
                   PROVE  \E i \in 1..Len(up) : up[i].kind = "request"
        BY <1>1, <1>4, <2>1, <2>3 DEF PeerComes
      <3>1. PICK i \in 1..Len(net.up) : net.up[i].kind = "request"
        BY <1>1 DEF PeerComes
      <3>2. i # 1
        BY <1>1, <1>7, <1>24, <3>1 DEF Leased
      <3>3. i - 1 \in 1..Len(up) /\ (i - 1) + 1 = i
        BY <1>7, <3>2
      <3> QED BY <1>8, <3>1, <3>3
    <2> QED BY <1>18, <2>4, <2>5, <2>6, <2>7, <2>8 DEF NetInv
  <1> QED BY <1>15, <1>22, <1>23, <1>24

-----------------------------------------------------------------------------
(* The radio. *)

LEMMA RadioStarts == Init => RadioInv
  <1> SUFFICES ASSUME Init
               PROVE  RadioInv
    OBVIOUS
  <1> USE Bounds
  <1>1. /\ knob = [pos |-> 0, left |-> MaxEdges, overrun |-> FALSE] /\ irq = {}
        /\ isr = [pc |-> "idle", line |-> "a", a |-> 0]
        /\ enc = [phase |-> PhaseAt(0), steps |-> 0, request |-> FALSE] /\ presses = MaxPresses
    BY DEF Init
  <1>2. PICK router \in BOOLEAN :
          /\ world = [router |-> router, unlucky |-> FALSE, hasty |-> FALSE, clamped |-> FALSE]
          /\ board = [ip |-> IF router THEN Routed ELSE None,
                      dhcp |-> IF router THEN "bound" ELSE "discover", offer |-> None,
                      on |-> FALSE, nco |-> 0]
    BY DEF Init
  <1>3. task = [pc |-> "wait", link |-> FALSE, armed |-> FALSE, lease |-> None, acked |-> FALSE,
                peer |-> None, nco |-> StartNco, shown |-> StartNco, mode |-> 0]
    BY DEF Init
  <1>4. net = [up |-> <<>>, down |-> 0, boot |-> <<>>, loss |-> MaxLoss]
    BY DEF Init
  <1>5. PhaseAt(0) = 0 /\ Place(0) = 0
    BY Phases, Places
  <1>6. KnobTypes /\ EdgesMade
    BY <1>1, <1>5 DEF KnobTypes, EdgesMade, Number
  <1>7. Counted = 0
    BY <1>1, <1>3 DEF Counted
  <1>8. Follows /\ InPhase
    BY <1>1, <1>5, <1>7 DEF Follows, FollowedTo, InPhase
  <1>9. KnobInv
    BY <1>3, <1>6, <1>8 DEF KnobInv
  <1>10. Len(net.up) = 0 /\ Len(net.boot) = 0
    BY <1>4
  <1>11. RecordTypes
    <2>1. net \in Nets
      BY <1>4 DEF Nets
    <2>2. task \in Tasks
      BY <1>3 DEF Tasks, None
    <2>3. board \in Boards
      BY <1>2 DEF Boards, Routed, None
    <2>4. world \in Worlds
      BY <1>2 DEF Worlds
    <2> QED BY <1>10, <2>1, <2>2, <2>3, <2>4 DEF RecordTypes
  <1>12. OneQuestion /\ OneSearch
    BY <1>4, <1>10 DEF OneQuestion, OneSearch
  <1>13. Leased
    BY <1>2, <1>3, <1>10 DEF Leased
  <1>14. Routing /\ PeerComes
    BY <1>2, <1>3, <1>4 DEF Routing, PeerComes
  <1> QED BY <1>9, <1>11, <1>12, <1>13, <1>14 DEF RadioInv, NetInv

\* The radio task and the network leave the knob alone, but for Retune.
LEMMA RestUntouched ==
    ASSUME RadioInv,
           \/ LinkCheck \/ ArmServer \/ ServeDhcp \/ Grace \/ ClientConfigured
           \/ SendDiscovery \/ Found \/ SendStop \/ SendStart \/ CycleMode
           \/ Asks \/ Receive \/ LoseUp \/ LoseDown
    PROVE  KnobUntouched
  <1>1. KnobTypes /\ task \in Tasks /\ world \in Worlds /\ (task.pc # "stream" => task.nco = StartNco)
    BY DEF RadioInv, KnobInv, NetInv, RecordTypes
  <1>2. knob' = knob /\ irq' = irq /\ isr' = isr /\ presses' = presses
    BY DEF LinkCheck, ArmServer, ServeDhcp, Grace, ClientConfigured, SendDiscovery, Found, SendStop,
           SendStart, CycleMode, Asks, Receive, LoseUp, LoseDown
  <1>3. enc' \in [phase : {enc.phase}, steps : {enc.steps}, request : BOOLEAN]
    <2>1. enc' = enc \/ enc' = [enc EXCEPT !.request = FALSE]
      BY DEF LinkCheck, ArmServer, ServeDhcp, Grace, ClientConfigured, SendDiscovery, Found, SendStop,
             SendStart, CycleMode, Asks, Receive, LoseUp, LoseDown, Leaves
    <2> QED BY <1>1, <2>1 DEF KnobTypes
  <1>4. world'.clamped = world.clamped
    <2>1. \/ world' = world
          \/ \E u \in BOOLEAN : world' = [world EXCEPT !.unlucky = u] \/ world' = [world EXCEPT !.hasty = u]
      <3>1. CASE Grace
        BY <1>1, <3>1 DEF Grace, Worlds
      <3>2. CASE LoseUp
        BY <1>1, <3>2 DEF LoseUp, Worlds
      <3> QED BY <3>1, <3>2 DEF LinkCheck, ArmServer, ServeDhcp, ClientConfigured, SendDiscovery, Found,
                                SendStop, SendStart, CycleMode, Asks, Receive, LoseDown
    <2> QED BY <1>1, <2>1 DEF Worlds
  <1>5. task'.nco = task.nco /\ (task'.pc # "stream" => task.pc # "stream")
    <2>1. CASE SendDiscovery \/ Asks \/ Receive \/ LoseUp \/ LoseDown
      BY <2>1 DEF SendDiscovery, Asks, Receive, LoseUp, LoseDown
    <2>2. CASE LinkCheck \/ ArmServer \/ SendStop
      BY <1>1, <2>2 DEF LinkCheck, ArmServer, SendStop, Runs, Tasks
    <2>3. CASE SendStart
      BY <1>1, <2>3 DEF SendStart, Runs, Tasks
    <2>4. CASE Grace \/ ClientConfigured
      BY <1>1, <2>4 DEF Grace, ClientConfigured, Leaves, Runs, Tasks
    <2>5. CASE Found
      BY <1>1, <2>5 DEF Found, Runs, Tasks
    <2>6. CASE CycleMode
      BY <1>1, <2>6 DEF CycleMode, Runs, Tasks
    <2>7. CASE ServeDhcp
      <3>1. /\ task.pc = "wait"
            /\ \/ task' = [task EXCEPT !.acked = TRUE, !.pc = "stop", !.peer = task.lease]
               \/ task' = [task EXCEPT !.acked = TRUE]
        BY <2>7 DEF ServeDhcp, Runs
      <3> QED BY <1>1, <3>1 DEF Tasks
    <2> QED BY <2>1, <2>2, <2>3, <2>4, <2>5, <2>6, <2>7
  <1> QED BY <1>2, <1>3, <1>4, <1>5 DEF KnobUntouched

\* The knob, the button and their handlers touch nothing of the radio task's.
LEMMA NetUntouchedKeeps ==
    ASSUME NetInv, UNCHANGED <<task, net, board, world>>
    PROVE  NetInv'
  BY DEF NetInv, RecordTypes, OneQuestion, OneSearch, Leased, Routing, PeerComes

LEMMA RadioSteps == RadioInv /\ [Next]_vars => RadioInv'
  <1> SUFFICES ASSUME RadioInv, [Next]_vars
               PROVE  RadioInv'
    OBVIOUS
  <1>1. KnobInv /\ NetInv
    BY DEF RadioInv
  <1>2. KnobTypes /\ task \in Tasks /\ world \in Worlds /\ task.nco \in Int /\ enc.steps \in Int
    BY <1>1 DEF KnobInv, NetInv, RecordTypes, KnobTypes, Tasks
  <1>3. ASSUME NEW d \in {-1, 1}, Turn(d)
        PROVE  RadioInv'
    <2>1. UNCHANGED <<task, net, board, world>>
      BY <1>3 DEF Turn
    <2> QED BY <1>1, <1>3, <2>1, TurnCounts, NetUntouchedKeeps DEF RadioInv
  <1>4. CASE Press \/ ButtonIsr
    <2>1. UNCHANGED <<task, net, board, world>>
      BY <1>4 DEF Press, ButtonIsr
    <2> QED BY <1>1, <1>4, <2>1, ButtonCounts, NetUntouchedKeeps DEF RadioInv
  <1>5. ASSUME NEW line \in {"a", "b"}, EdgeEnter(line)
        PROVE  RadioInv'
    <2>1. UNCHANGED <<task, net, board, world>>
      BY <1>5 DEF EdgeEnter
    <2> QED BY <1>1, <1>5, <2>1, EnterCounts, NetUntouchedKeeps DEF RadioInv
  <1>6. CASE EdgeSample
    <2>1. UNCHANGED <<task, net, board, world>>
      BY <1>6 DEF EdgeSample
    <2> QED BY <1>1, <1>2, <1>6, <2>1, SampleCounts, NetUntouchedKeeps DEF RadioInv
  <1>7. CASE EdgeClear
    <2>1. UNCHANGED <<task, net, board, world>>
      BY <1>7 DEF EdgeClear
    <2> QED BY <1>1, <1>7, <2>1, ClearCounts, NetUntouchedKeeps DEF RadioInv
  <1>8. CASE Retune
    BY <1>1, <1>2, <1>8, RetuneCounts, RetuneKeeps DEF RadioInv
  <1>9. ASSUME \/ LinkCheck \/ ArmServer \/ ServeDhcp \/ Grace \/ ClientConfigured
               \/ SendDiscovery \/ Found \/ SendStop \/ SendStart \/ CycleMode
               \/ Asks \/ Receive \/ LoseUp \/ LoseDown
        PROVE  RadioInv'
    <2>1. KnobInv'
      BY <1>1, <1>9, RestUntouched, KnobUntouchedKeeps
    <2>2. NetInv'
      BY <1>1, <1>9, WaitKeeps, SearchKeeps, ServeKeeps, StopKeeps, StartKeeps, AskKeeps, ReceiveKeeps,
         LossKeeps
    <2> QED BY <2>1, <2>2 DEF RadioInv
  <1>10. CASE UNCHANGED vars
    <2>1. KnobUntouched /\ UNCHANGED <<task, net, board, world>>
      BY <1>2, <1>10 DEF vars, KnobUntouched, KnobTypes
    <2> QED BY <1>1, <2>1, KnobUntouchedKeeps, NetUntouchedKeeps DEF RadioInv
  <1> QED BY <1>3, <1>4, <1>5, <1>6, <1>7, <1>8, <1>9, <1>10 DEF Next, Handlers, RadioTask

LEMMA RadioHolds == Spec => []RadioInv
  BY RadioStarts, RadioSteps, PTL DEF Spec

\* The state has its types, and what a counter may hold is bounded by the edges
\* the knob made (encoder/mod.rs, control.rs).
THEOREM TypeCorrect == Spec => []TypeOK
  BY RadioHolds, Typed, PTL

\* However the knob is turned and wherever its edges fall among the handlers and
\* the radio task's rounds, the count agrees with the decoder's phase, and when
\* no edge met a running handler it is the shaft's position (encoder/mod.rs).
THEOREM KnobIsCounted == Spec => []KnobCounted
  <1>1. RadioInv => KnobCounted
    BY DEF RadioInv, KnobInv, Follows, FollowedTo, InPhase, KnobCounted
  <1> QED BY <1>1, RadioHolds, PTL

\* Whatever the network loses, however long an exchange takes and whether the
\* board binds to the first answer or requests it, the radio never speaks to an
\* address other than the board's; a board that does not hear it has no address,
\* because the last ACK is under way or lost or the grace period ended before it
\* (control.rs handle_dhcp, main.rs radio).
THEOREM PeerIsTheBoard == Spec => []PeerIsBoard
  <1>1. RadioInv => PeerIsBoard
    <2> SUFFICES ASSUME RadioInv, task.pc \in {"stop", "start", "stream"}
                 PROVE  \/ task.peer = board.ip
                        \/ /\ board.ip = None
                           /\ \/ world.hasty \/ world.unlucky
                              \/ \E i \in DOMAIN net.up : net.up[i].kind = "request"
      BY DEF PeerIsBoard
    <2>1. RecordTypes /\ Routing /\ PeerComes
      BY DEF RadioInv, NetInv
    <2>2. DOMAIN net.up = 1..Len(net.up)
      BY <2>1 DEF RecordTypes, Nets
    <2>3. CASE world.router
      BY <2>1, <2>3 DEF Routing
    <2>4. CASE ~world.router
      <3>1. board.ip \in {FirstLease, None} /\ FirstLease # None
        BY <2>1, <2>4 DEF Routing, FirstLease, None
      <3> QED BY <2>1, <2>2, <2>4, <3>1 DEF PeerComes
    <2> QED BY <2>3, <2>4
  <1> QED BY <1>1, RadioHolds, PTL
=============================================================================
