-------------------------- MODULE Hl2ControlProofs --------------------------
(***************************************************************************)
(* Proofs about Hl2Control, for any number of clients, slots, frequencies, *)
(* gains and masks.                                                        *)
(***************************************************************************)
EXTENDS Hl2Control, FiniteSetTheorems, TLAPS

\* Where a command is while it holds the write lock.
LockedAt == {"apply", "anchor", "count", "build", "send", "settle"}

\* The client between lock and unlock is the one the lock says.
LockInv == \A c \in Clients : (client[c].pc \in LockedAt) <=> (writer = c)

\* The inductive invariant.
ControlInv ==
    /\ TypeOK
    /\ LockInv
    /\ EmptyOnlyWhileTuning
    /\ CommittedCount

\* The receiver count is between 0 and the number of slots, and is 0 for the
\* empty set only.
LEMMA CountFacts ==
    ASSUME TypeOK
    PROVE  RxCount \in Counts \union {0} /\ (RxCount = 0 <=> Active = {})
  <1>1. IsFiniteSet(Slots) /\ Active \subseteq Slots
    BY ControlAssumption DEF TypeOK
  <1>2. /\ IsFiniteSet(Active)
        /\ Cardinality(Active) <= Cardinality(Slots)
    BY <1>1, FS_Subset
  <1>3. Cardinality(Active) \in Nat /\ Cardinality(Slots) \in Nat
    BY <1>1, <1>2, FS_CardinalityType
  <1>4. Cardinality(Active) = 0 <=> Active = {}
    BY <1>2, FS_EmptySet
  <1> QED BY <1>2, <1>3, <1>4 DEF RxCount, Counts

\* There is at least one slot.
LEMMA OneIsCount == 1 \in Counts
  <1>1. IsFiniteSet(Slots) /\ Slots # {}
    BY ControlAssumption
  <1>2. Cardinality(Slots) \in Nat /\ Cardinality(Slots) # 0
    BY <1>1, FS_CardinalityType, FS_EmptySet
  <1> QED BY <1>2 DEF Counts

\* What the type of a client's state says at each step of a command.
LEMMA ClientFacts ==
    ASSUME TypeOK, NEW c \in Clients
    PROVE  /\ client[c].pc \in {"queued", "count", "settle", "build", "send"} =>
                client[c].op \in Writes
           /\ client[c].pc \in {"apply", "anchor"} => client[c].op \in Tunes
           /\ client[c].pc = "build" => client[c].n \in Counts
           /\ client[c].pc = "send" => client[c].frame \in Frames
  BY DEF TypeOK, ClientStates

\* Frames are built with a count that C4 can carry.
LEMMA FramesTyped ==
    ASSUME TypeOK, NEW n \in Counts \union {0}
    PROVE  /\ KeepAlive(n) \in Frames
           /\ \A op \in Writes : FrameFor(op, n) \in Frames
           /\ \A op \in Writes : FrameFor(op, n).n = OnWire(n)
           /\ StopFrame \in Frames
           /\ OnWire(n) \in Counts
  <1>1. OnWire(n) \in Counts
    <2>1. Cardinality(Slots) \in Nat
      BY ControlAssumption, FS_CardinalityType
    <2>2. CASE n = 0
      BY <2>2, OneIsCount DEF OnWire
    <2>3. CASE n # 0
      <3>1. n \in Nat /\ 1 <= n /\ n <= Cardinality(Slots)
        BY <2>1, <2>3 DEF Counts
      <3>2. (n - 1) % 8 \in Nat /\ (n - 1) % 8 <= n - 1
        BY <3>1
      <3> QED BY <2>1, <2>3, <3>1, <3>2 DEF OnWire, Counts
    <2> QED BY <2>2, <2>3
  <1>2. oc \in Masks
    BY DEF TypeOK
  <1>3. KeepAlive(n) \in Frames /\ StopFrame \in Frames
    BY <1>1, <1>2 DEF KeepAlive, StopFrame, Frames
  <1>4. ASSUME NEW op \in Writes
        PROVE  FrameFor(op, n) \in Frames /\ FrameFor(op, n).n = OnWire(n)
    <2>1. CASE op \in Tunes
      BY <1>1, <1>2, <2>1 DEF FrameFor, TuneFrame, Frames, Tunes
    <2>2. CASE op \in Amplifications
      BY <1>1, <1>2, <2>2 DEF FrameFor, LnaFrame, Frames, Amplifications
    <2> QED BY <2>1, <2>2 DEF Writes
  <1> QED BY <1>1, <1>3, <1>4

\* Sending keeps the link well typed.
LEMMA TransmitTyped ==
    ASSUME TypeOK, NEW f \in Frames, Transmit(f)
    PROVE  toBoard' \in Seq(Frames) /\ mishap' \in BOOLEAN
  <1>1. toBoard \in Seq(Frames) /\ mishap \in BOOLEAN
    BY DEF TypeOK
  <1>2. Append(toBoard, f) \in Seq(Frames)
    BY <1>1
  <1> QED BY <1>1, <1>2, Zenon DEF Transmit

\* Applying a frame leaves a well-typed board.
LEMMA AppliedTyped ==
    ASSUME TypeOK, NEW f \in Frames
    PROVE  Applied(board, f) \in
              [n : Counts, oc : Masks, gain : Gains, streaming : BOOLEAN,
               nco : [Slots -> Freqs \union {0}]]
  <1>1. CASE f \in [kind : {"stop"}]
    BY <1>1 DEF TypeOK, Applied
  <1>2. CASE f \in [kind : {"keepalive"}, n : Counts, oc : Masks]
    BY <1>2 DEF TypeOK, Applied
  <1>3. CASE f \in [kind : {"tune"}, n : Counts, oc : Masks, slot : Slots, freq : Freqs \union {0}]
    BY <1>3 DEF TypeOK, Applied
  <1>4. CASE f \in [kind : {"lna"}, n : Counts, oc : Masks, gain : Gains]
    BY <1>4 DEF TypeOK, Applied
  <1> QED BY <1>1, <1>2, <1>3, <1>4 DEF Frames

\* The start-up state satisfies the invariant.
LEMMA InitInv == Init => ControlInv
  <1> SUFFICES ASSUME Init PROVE ControlInv
    OBVIOUS
  <1>1. 1 \in Counts /\ Active = {1}
    BY OneIsCount DEF Init, Active
  <1>2. /\ writer \in Clients \union {NoClient} /\ client \in [Clients -> ClientStates]
        /\ pump \in PumpStates
    BY DEF Init, Idle, Polling, ClientStates, PumpStates
  <1>3. /\ toBoard \in Seq(Frames) /\ toHost \in Seq(Counts)
    BY DEF Init
  <1>6. rings \in [Active -> 1..ringCount] /\ ringCount \in Nat
    BY <1>1 DEF Init
  <1>7. /\ tuned \in [Slots -> Freqs \union {0}] /\ commands \in 0..MaxCommands
        /\ oc \in Masks /\ lna \in Gains /\ Active \subseteq Slots
    BY <1>1, ControlAssumption DEF Init
  <1>8. board \in [n : Counts, oc : Masks, gain : Gains, streaming : BOOLEAN,
                   nco : [Slots -> Freqs \union {0}]]
    BY <1>1, ControlAssumption DEF Init
  <1>9. started \in BOOLEAN /\ closed \in BOOLEAN /\ mishap \in BOOLEAN
    BY DEF Init
  <1>4. TypeOK
    BY <1>2, <1>3, <1>6, <1>7, <1>8, <1>9 DEF TypeOK
  <1>5. LockInv /\ EmptyOnlyWhileTuning /\ CommittedCount
    BY <1>1, ControlAssumption DEF Init, LockInv, LockedAt, EmptyOnlyWhileTuning,
                                   CommittedCount, Idle
  <1> QED BY <1>4, <1>5 DEF ControlInv

\* Steps of the link change neither the fan-out nor any task.
LEMMA LinkInv ==
    ASSUME ControlInv,
           LoseCommand \/ DeliverCommand \/ StreamFrame \/ LoseFrame
    PROVE  ControlInv'
  <1>1. /\ rings' = rings /\ ringCount' = ringCount /\ writer' = writer /\ client' = client
        /\ oc' = oc /\ lna' = lna /\ started' = started /\ closed' = closed
        /\ pump' = pump /\ tuned' = tuned /\ commands' = commands
    BY DEF LoseCommand, DeliverCommand, StreamFrame, LoseFrame, linkStep, fanoutVars,
           handleVars, historyVars
  <1>2. /\ toBoard \in Seq(Frames) /\ toHost \in Seq(Counts) /\ board.n \in Counts
        /\ mishap \in BOOLEAN
    BY DEF ControlInv, TypeOK
  <1>3. /\ toBoard' \in Seq(Frames)
        /\ toHost' \in Seq(Counts)
        /\ mishap' \in BOOLEAN
        /\ board' = board \/ (toBoard # <<>> /\ board' = Applied(board, Head(toBoard)))
    <2>1. CASE LoseCommand
      BY <1>2, <2>1 DEF LoseCommand
    <2>2. CASE DeliverCommand
      BY <1>2, <2>2 DEF DeliverCommand
    <2>3. CASE StreamFrame
      BY <1>2, <2>3 DEF StreamFrame
    <2>4. CASE LoseFrame
      BY <1>2, <2>4 DEF LoseFrame
    <2> QED BY <2>1, <2>2, <2>3, <2>4
  <1>4. toBoard # <<>> => Head(toBoard) \in Frames
    BY <1>2
  <1>5. board' \in [n : Counts, oc : Masks, gain : Gains, streaming : BOOLEAN,
                    nco : [Slots -> Freqs \union {0}]]
    BY <1>3, <1>4, AppliedTyped DEF ControlInv, TypeOK
  <1>7. Active' = Active /\ RxCount' = RxCount
    BY <1>1 DEF RxCount, Active
  <1>6. TypeOK'
    BY <1>1, <1>3, <1>5, <1>7 DEF ControlInv, TypeOK
  <1>8. LockInv' /\ EmptyOnlyWhileTuning' /\ CommittedCount'
    BY <1>1, <1>7 DEF ControlInv, LockInv, EmptyOnlyWhileTuning, CommittedCount
  <1> QED BY <1>6, <1>8 DEF ControlInv

\* The pump only reads the fan-out.
LEMMA PumpInv ==
    ASSUME ControlInv,
           DropReceiver \/ PumpExit \/ PumpTick \/ PumpBuild \/ PumpSend
             \/ PumpReceive \/ PumpPush \/ PumpSocketError
    PROVE  ControlInv'
  <1>1. /\ rings' = rings /\ ringCount' = ringCount /\ writer' = writer /\ client' = client
        /\ oc' = oc /\ lna' = lna /\ started' = started
        /\ board' = board /\ tuned' = tuned /\ commands' = commands
    BY DEF DropReceiver, PumpExit, PumpTick, PumpBuild, PumpSend, PumpReceive, PumpPush,
           PumpSocketError, pumpStep, fanoutVars, historyVars, linkVars
  <1>2. RxCount \in Counts \union {0}
    BY CountFacts DEF ControlInv
  <1>9. Active' = Active /\ RxCount' = RxCount
    BY <1>1 DEF RxCount, Active
  <1>3. /\ toBoard \in Seq(Frames) /\ toHost \in Seq(Counts) /\ pump \in PumpStates
        /\ mishap \in BOOLEAN /\ closed \in BOOLEAN
    BY DEF ControlInv, TypeOK
  <1>4. pump.pc = "tick" => pump.n \in Counts \union {0}
    BY <1>3 DEF PumpStates
  <1>5. pump.pc = "send" => pump.frame \in Frames
    BY <1>3 DEF PumpStates
  <1>6. /\ toBoard' \in Seq(Frames) /\ toHost' \in Seq(Counts) /\ pump' \in PumpStates
        /\ mishap' \in BOOLEAN /\ closed' \in BOOLEAN
    <2>1. CASE DropReceiver
      BY <1>3, <2>1 DEF DropReceiver, linkVars
    <2>2. CASE PumpExit \/ PumpPush \/ PumpSocketError
      BY <1>3, <2>2 DEF PumpExit, PumpPush, PumpSocketError, linkVars, pumpStep, PumpStates, Polling
    <2>3. CASE PumpTick
      BY <1>2, <1>3, <2>3 DEF PumpTick, linkVars, pumpStep, PumpStates
    <2>4. CASE PumpBuild
      <3>1. KeepAlive(pump.n) \in Frames
        BY <1>4, <2>4, FramesTyped DEF PumpBuild, ControlInv
      <3>2. pump' \in PumpStates
        BY <2>4, <3>1 DEF PumpBuild, PumpStates
      <3> QED BY <1>3, <2>4, <3>2 DEF PumpBuild, linkVars, pumpStep
    <2>5. CASE PumpSend
      <3>1. toBoard' \in Seq(Frames) /\ mishap' \in BOOLEAN
        BY <1>5, <2>5, TransmitTyped DEF PumpSend, ControlInv
      <3>2. pump' \in PumpStates
        BY <2>5 DEF PumpSend, PumpStates, Polling
      <3> QED BY <1>3, <2>5, <3>1, <3>2 DEF PumpSend, pumpStep
    <2>6. CASE PumpReceive
      <3>1. Head(toHost) \in Counts /\ Tail(toHost) \in Seq(Counts)
        BY <1>3, <2>6 DEF PumpReceive
      <3>2. pump' \in PumpStates
        BY <1>2, <2>6, <3>1 DEF PumpReceive, PumpStates
      <3> QED BY <1>3, <2>6, <3>1, <3>2 DEF PumpReceive, pumpStep
    <2> QED BY <2>1, <2>2, <2>3, <2>4, <2>5, <2>6
  <1>7. TypeOK'
    BY <1>1, <1>6, <1>9 DEF ControlInv, TypeOK
  <1>8. LockInv' /\ EmptyOnlyWhileTuning' /\ CommittedCount'
    BY <1>1, <1>9 DEF ControlInv, LockInv, EmptyOnlyWhileTuning, CommittedCount
  <1> QED BY <1>7, <1>8 DEF ControlInv

\* A client that only changes its own state, outside the lock, and anything
\* but the fan-out and the lock, preserves the invariant.
LEMMA OutsideLock ==
    ASSUME ControlInv, NEW c \in Clients, NEW st \in ClientStates,
           client' = [client EXCEPT ![c] = st],
           client[c].pc \notin LockedAt, st.pc \notin LockedAt,
           UNCHANGED <<rings, ringCount, writer>>,
           TypeOK'
    PROVE  ControlInv'
  <1>1. client \in [Clients -> ClientStates]
    BY DEF ControlInv, TypeOK
  <1>2. Active' = Active /\ RxCount' = RxCount
    BY DEF Active, RxCount
  <1>3. \A d \in Clients : d # c => client'[d] = client[d]
    BY <1>1
  <1>4. client'[c] = st
    BY <1>1
  <1>5. LockInv'
    BY <1>3, <1>4 DEF ControlInv, LockInv
  <1>6. EmptyOnlyWhileTuning'
    BY <1>2, <1>3, <1>4 DEF ControlInv, EmptyOnlyWhileTuning, LockedAt
  <1>7. CommittedCount'
    BY <1>2, <1>3, <1>4 DEF ControlInv, CommittedCount, LockedAt
  <1> QED BY <1>5, <1>6, <1>7 DEF ControlInv

\* A client between lock and unlock: nobody else is there, so whatever it
\* does to the fan-out is its own business, as long as its own state says
\* so when it leaves the set empty, and its count is the current one.
LEMMA InsideLock ==
    ASSUME ControlInv, NEW c \in Clients, NEW st \in ClientStates,
           client' = [client EXCEPT ![c] = st],
           client[c].pc \in LockedAt \/ writer = NoClient,
           writer' = IF st.pc \in LockedAt THEN c ELSE NoClient,
           Active' = {} => st.pc = "anchor",
           st.pc = "build" => st.n = RxCount',
           st.pc = "send" => st.frame.n = OnWire(RxCount'),
           TypeOK'
    PROVE  ControlInv'
  <1>1. client \in [Clients -> ClientStates] /\ NoClient \notin Clients
    BY ControlAssumption DEF ControlInv, TypeOK
  <1>2. \A d \in Clients : d # c => client'[d] = client[d] /\ client[d].pc \notin LockedAt
    BY <1>1 DEF ControlInv, LockInv
  <1>3. client'[c] = st
    BY <1>1
  <1>4. LockInv'
    BY <1>1, <1>2, <1>3 DEF LockInv
  <1>5. EmptyOnlyWhileTuning'
    BY <1>3 DEF EmptyOnlyWhileTuning, LockedAt
  <1>6. CommittedCount'
    BY <1>2, <1>3 DEF CommittedCount, LockedAt
  <1> QED BY <1>4, <1>5, <1>6 DEF ControlInv

\* A step that leaves the fan-out and the links alone keeps everything well
\* typed when the few variables it assigns are.
LEMMA QuietTyped ==
    ASSUME TypeOK, NEW c \in Clients, NEW st \in ClientStates,
           client' = [client EXCEPT ![c] = st],
           UNCHANGED <<rings, ringCount, started, closed, pump, toBoard, toHost, board, mishap>>,
           writer' \in Clients \union {NoClient},
           oc' \in Masks, lna' \in Gains, commands' \in 0..MaxCommands,
           tuned' \in [Slots -> Freqs \union {0}]
    PROVE  TypeOK'
  <1>1. client' \in [Clients -> ClientStates]
    BY DEF TypeOK
  <1>2. Active' = Active
    BY DEF Active
  <1> QED BY <1>1, <1>2 DEF TypeOK

\* The commands that take the write lock.
LEMMA LockingInv ==
    ASSUME ControlInv, NEW c \in Clients,
           TakeWriteLock(c) \/ ReadCount(c) \/ Build(c) \/ Settle(c)
    PROVE  ControlInv'
  <1>1. /\ TypeOK /\ writer \in Clients \union {NoClient} /\ oc \in Masks /\ lna \in Gains
        /\ commands \in 0..MaxCommands /\ tuned \in [Slots -> Freqs \union {0}]
    BY DEF ControlInv, TypeOK
  <1>2. UNCHANGED <<rings, ringCount, started, closed, pump, toBoard, toHost, board, mishap,
                    oc, commands>>
    BY DEF TakeWriteLock, ReadCount, Build, Settle, fanoutVars, handleVars, linkVars, clientStep
  <1>3. Active' = Active /\ RxCount' = RxCount /\ RxCount \in Counts \union {0}
        /\ (RxCount = 0 <=> Active = {})
    BY <1>1, <1>2, CountFacts DEF Active, RxCount
  <1>4. client[c].pc \in LockedAt /\ client[c].pc # "anchor" => Active # {}
    BY DEF ControlInv, EmptyOnlyWhileTuning, LockInv, LockedAt
  <1>5. CASE TakeWriteLock(c)
    <2> DEFINE st == [pc |-> IF client[c].op.kind = "tune" THEN "apply" ELSE "count",
                      op |-> client[c].op]
    <2>1. client[c].op \in Writes /\ writer = NoClient /\ writer' = c
          /\ client' = [client EXCEPT ![c] = st] /\ lna' = lna /\ tuned' = tuned
      BY <1>1, <1>5, ClientFacts DEF TakeWriteLock, Now, handleVars
    <2>2. st \in ClientStates /\ st.pc \in {"apply", "count"}
      BY <2>1 DEF ClientStates, Writes, Tunes, Amplifications
    <2>3. Active # {}
      BY <2>1, ControlAssumption DEF ControlInv, EmptyOnlyWhileTuning
    <2> HIDE DEF st
    <2>4. TypeOK'
      BY <1>1, <1>2, <2>1, <2>2, QuietTyped
    <2> QED BY <1>3, <2>1, <2>2, <2>3, <2>4, InsideLock DEF LockedAt
  <1>6. CASE ReadCount(c)
    <2> DEFINE st == [pc |-> "build", op |-> client[c].op, n |-> RxCount]
    <2>1. client[c].op \in Writes /\ writer' = writer /\ client[c].pc = "count"
          /\ client' = [client EXCEPT ![c] = st] /\ lna' = lna /\ tuned' = tuned
      BY <1>1, <1>6, ClientFacts DEF ReadCount, Now, handleVars
    <2>2. Active # {} /\ RxCount \in Counts /\ writer = c
      BY <1>3, <1>4, <2>1 DEF LockedAt, ControlInv, LockInv
    <2>3. st \in ClientStates /\ st.pc = "build" /\ st.n = RxCount
      BY <2>1, <2>2 DEF ClientStates
    <2> HIDE DEF st
    <2>4. TypeOK'
      BY <1>1, <1>2, <2>1, <2>3, QuietTyped
    <2> QED BY <1>3, <2>1, <2>2, <2>3, <2>4, InsideLock DEF LockedAt
  <1>7. CASE Build(c)
    <2> DEFINE st == [pc |-> "send", op |-> client[c].op,
                      frame |-> FrameFor(client[c].op, client[c].n)]
    <2>1. client[c].op \in Writes /\ writer' = writer /\ client[c].pc = "build"
          /\ client[c].n \in Counts
          /\ client' = [client EXCEPT ![c] = st] /\ lna' = lna /\ tuned' = tuned
      BY <1>1, <1>7, ClientFacts DEF Build, Now, handleVars
    <2>2. Active # {} /\ client[c].n = RxCount /\ writer = c
      BY <1>4, <2>1 DEF LockedAt, ControlInv, CommittedCount, LockInv
    <2>3. FrameFor(client[c].op, client[c].n) \in Frames
          /\ FrameFor(client[c].op, client[c].n).n = OnWire(client[c].n)
      BY <1>1, <2>1, FramesTyped
    <2>4. st \in ClientStates /\ st.pc = "send"
      BY <2>1, <2>3 DEF ClientStates
    <2>5. st.frame.n = OnWire(RxCount)
      BY <2>2, <2>3
    <2> HIDE DEF st
    <2>6. TypeOK'
      BY <1>1, <1>2, <2>1, <2>4, QuietTyped
    <2> QED BY <1>3, <2>1, <2>2, <2>4, <2>5, <2>6, InsideLock DEF LockedAt
  <1>8. CASE Settle(c)
    <2>1. client[c].op \in Writes /\ writer' = NoClient /\ client[c].pc = "settle"
          /\ client' = [client EXCEPT ![c] = Idle]
      BY <1>1, <1>8, ClientFacts DEF Settle, Now
    <2>2. lna' \in Gains /\ tuned' \in [Slots -> Freqs \union {0}]
      BY <1>1, <1>8, <2>1 DEF Settle, Writes, Tunes, Amplifications
    <2>3. Active # {}
      BY <1>4, <2>1 DEF LockedAt
    <2>4. Idle \in ClientStates /\ Idle.pc = "idle"
      BY DEF Idle, ClientStates
    <2>5. TypeOK'
      BY <1>1, <1>2, <2>1, <2>2, <2>4, QuietTyped
    <2> QED BY <1>3, <2>1, <2>3, <2>4, <2>5, InsideLock DEF LockedAt
  <1> QED BY <1>5, <1>6, <1>7, <1>8

\* What registering a slot does to the fan-out: the set grows by that slot,
\* rings that exist stay, and a new ring is one nobody has seen.
LEMMA RegisterFacts ==
    ASSUME TypeOK, NEW s \in Slots, Register(s)
    PROVE  /\ Active' = Active \union {s}
           /\ ringCount' \in Nat
           /\ rings' \in [Active' -> 1..ringCount']
           /\ \A x \in Active : rings'[x] = rings[x]
           /\ \A x \in Active' \ Active : rings'[x] > ringCount
  <1>1. ringCount \in Nat /\ rings \in [Active -> 1..ringCount]
    BY DEF TypeOK
  <1>2. CASE s \in Active
    BY <1>1, <1>2 DEF Register, Active
  <1>3. CASE s \notin Active
    BY <1>1, <1>3 DEF Register, Active
  <1> QED BY <1>2, <1>3

\* What unregistering a slot does to the fan-out.
LEMMA UnregisterFacts ==
    ASSUME TypeOK, NEW s \in Slots, Unregister(s)
    PROVE  /\ Active' = Active \ {s}
           /\ ringCount' \in Nat
           /\ rings' \in [Active' -> 1..ringCount']
           /\ \A x \in Active' : rings'[x] = rings[x]
  <1>1. ringCount \in Nat /\ rings \in [Active -> 1..ringCount]
    BY DEF TypeOK
  <1> QED BY <1>1 DEF Unregister, Active

\* The two steps of a tune that change the fan-out.
LEMMA FanoutInv ==
    ASSUME ControlInv, NEW c \in Clients, ApplyTune(c) \/ Anchor(c)
    PROVE  ControlInv'
  <1>1. /\ TypeOK /\ client \in [Clients -> ClientStates] /\ Active \subseteq Slots
        /\ client[c].pc \in {"apply", "anchor"} /\ client[c].op \in Tunes
        /\ ringCount \in Nat /\ rings \in [Active -> 1..ringCount] /\ 1 \in Slots
    BY ClientFacts, ControlAssumption DEF ControlInv, TypeOK, ApplyTune, Anchor
  <1>2. writer = c /\ writer' = writer
    BY <1>1 DEF ControlInv, LockInv, LockedAt, ApplyTune, Anchor
  <1>3. UNCHANGED <<oc, lna, started, closed, pump, toBoard, toHost, board, mishap, tuned, commands>>
    BY DEF ApplyTune, Anchor, handleVars, linkVars, clientStep
  <1>4. \E st \in ClientStates :
          /\ client' = [client EXCEPT ![c] = st]
          /\ st.pc \in {"anchor", "count"}
          /\ Active' = {} => st.pc = "anchor"
          /\ Active' \subseteq Slots /\ ringCount' \in Nat /\ rings' \in [Active' -> 1..ringCount']
    <2> DEFINE st(pc) == [pc |-> pc, op |-> client[c].op]
    <2>1. /\ st("anchor") \in ClientStates /\ st("anchor").pc = "anchor"
          /\ st("count") \in ClientStates /\ st("count").pc = "count"
      BY <1>1 DEF ClientStates, Writes
    <2>2. client[c].op.slot \in Slots
      BY <1>1 DEF Tunes
    <2>3. CASE ApplyTune(c) /\ client[c].op.freq = 0
      <3>1. Unregister(client[c].op.slot) /\ client' = [client EXCEPT ![c] = st("anchor")]
        BY <2>3 DEF ApplyTune, Now
      <3> HIDE DEF st
      <3> QED BY <1>1, <2>1, <2>2, <3>1, UnregisterFacts
    <2>4. CASE ApplyTune(c) /\ client[c].op.freq # 0
      <3>1. Register(client[c].op.slot) /\ client' = [client EXCEPT ![c] = st("count")]
        BY <2>4 DEF ApplyTune, Now
      <3> HIDE DEF st
      <3> QED BY <1>1, <2>1, <2>2, <3>1, RegisterFacts
    <2>5. CASE Anchor(c)
      <3>1. client' = [client EXCEPT ![c] = st("count")]
        BY <2>5 DEF Anchor, Now
      <3> HIDE DEF st
      <3>2. CASE RxCount = 0
        <4>1. Register(1)
          BY <2>5, <3>2 DEF Anchor
        <4> QED BY <1>1, <2>1, <3>1, <4>1, RegisterFacts
      <3>3. CASE RxCount # 0
        <4>1. UNCHANGED <<rings, ringCount>> /\ Active' = Active /\ Active # {}
          BY <1>1, <2>5, <3>3, CountFacts DEF Anchor, fanoutVars, Active
        <4> QED BY <1>1, <2>1, <3>1, <4>1
      <3> QED BY <3>2, <3>3
    <2> QED BY <2>3, <2>4, <2>5
  <1>5. PICK st \in ClientStates :
          /\ client' = [client EXCEPT ![c] = st]
          /\ st.pc \in {"anchor", "count"}
          /\ Active' = {} => st.pc = "anchor"
          /\ Active' \subseteq Slots /\ ringCount' \in Nat /\ rings' \in [Active' -> 1..ringCount']
    BY <1>4
  <1>6. client' \in [Clients -> ClientStates]
    BY <1>1, <1>5
  <1>7. TypeOK'
    BY <1>2, <1>3, <1>5, <1>6 DEF ControlInv, TypeOK
  <1> QED BY <1>1, <1>2, <1>5, <1>7, InsideLock DEF LockedAt

\* A tune or LNA command sends its frame, or fails to.
LEMMA SendingInv ==
    ASSUME ControlInv, NEW c \in Clients, Send(c) \/ SendFails(c)
    PROVE  ControlInv'
  <1>1. /\ TypeOK /\ client \in [Clients -> ClientStates]
        /\ client[c].pc = "send" /\ client[c].op \in Writes /\ client[c].frame \in Frames
        /\ toBoard \in Seq(Frames) /\ mishap \in BOOLEAN
    BY ClientFacts DEF ControlInv, TypeOK, Send, SendFails
  <1>2. writer = c /\ Active # {}
    BY <1>1 DEF ControlInv, LockInv, LockedAt, EmptyOnlyWhileTuning
  <1>3. UNCHANGED <<rings, ringCount, oc, lna, started, closed, pump, toHost, board, tuned, commands>>
    BY DEF Send, SendFails, fanoutVars, handleVars, clientStep
  <1>4. Active' = Active
    BY <1>3 DEF Active
  <1>5. toBoard' \in Seq(Frames) /\ mishap' \in BOOLEAN
    <2>1. CASE Send(c)
      BY <1>1, <2>1, TransmitTyped DEF Send
    <2>2. CASE SendFails(c)
      BY <1>1, <2>2 DEF SendFails
    <2> QED BY <2>1, <2>2
  <1>6. \E st \in ClientStates :
          /\ client' = [client EXCEPT ![c] = st]
          /\ st.pc \in {"settle", "idle"}
          /\ writer' = IF st.pc \in LockedAt THEN c ELSE NoClient
    <2>1. CASE Send(c)
      <3>1. [pc |-> "settle", op |-> client[c].op] \in ClientStates
        BY <1>1 DEF ClientStates
      <3> QED BY <1>2, <2>1, <3>1 DEF Send, Now, LockedAt
    <2>2. CASE SendFails(c)
      <3>1. Idle \in ClientStates /\ Idle.pc = "idle"
        BY DEF Idle, ClientStates
      <3> QED BY <2>2, <3>1 DEF SendFails, Now, LockedAt
    <2> QED BY <2>1, <2>2
  <1>7. PICK st \in ClientStates :
          /\ client' = [client EXCEPT ![c] = st]
          /\ st.pc \in {"settle", "idle"}
          /\ writer' = IF st.pc \in LockedAt THEN c ELSE NoClient
    BY <1>6
  <1>8. TypeOK'
    <2>1. client' \in [Clients -> ClientStates] /\ writer' \in Clients \union {NoClient}
      BY <1>1, <1>7
    <2> QED BY <1>3, <1>4, <1>5, <2>1 DEF ControlInv, TypeOK
  <1> QED BY <1>1, <1>2, <1>4, <1>7, <1>8, InsideLock DEF LockedAt

\* Issuing a command, stopping and looking a ring up happen outside the
\* write lock and leave the fan-out alone.
LEMMA LocklessInv ==
    ASSUME ControlInv, NEW c \in Clients, NEW op \in Writes, NEW slot \in Slots,
           \/ Ask(c, op) \/ LookUpRing(c, slot) \/ BuildStop(c)
           \/ SendStop(c) \/ SendStopFails(c) \/ MarkStopped(c) \/ FallBack(c)
    PROVE  ControlInv'
  <1>1. /\ TypeOK /\ client \in [Clients -> ClientStates]
        /\ toBoard \in Seq(Frames) /\ mishap \in BOOLEAN /\ started \in BOOLEAN
        /\ commands \in 0..MaxCommands /\ MaxCommands \in Nat
    BY ControlAssumption DEF ControlInv, TypeOK
  <1>2. UNCHANGED <<rings, ringCount, writer, oc, lna, closed, pump, toHost, board, tuned>>
    BY DEF Ask, LookUpRing, BuildStop, SendStop, SendStopFails, MarkStopped, FallBack,
           fanoutVars, handleVars, linkVars, clientStep
  <1>3. Active' = Active
    BY <1>2 DEF Active
  <1>4. client[c].pc \notin LockedAt
    BY DEF Ask, LookUpRing, BuildStop, SendStop, SendStopFails, MarkStopped, FallBack,
           LockedAt, Idle
  <1>5. commands' = commands \/ (commands' = commands + 1 /\ commands < MaxCommands)
    BY DEF Ask, LookUpRing, BuildStop, SendStop, SendStopFails, MarkStopped, FallBack
  <1>6. started' = started \/ started' = FALSE
    BY DEF Ask, LookUpRing, BuildStop, SendStop, SendStopFails, MarkStopped, FallBack, handleVars
  <1>7. toBoard' \in Seq(Frames) /\ mishap' \in BOOLEAN
    <2>1. CASE SendStop(c)
      <3>1. StopFrame \in Frames
        BY DEF StopFrame, Frames
      <3> QED BY <1>1, <2>1, <3>1, TransmitTyped DEF SendStop
    <2>2. CASE ~SendStop(c)
      <3>1. toBoard' = toBoard /\ (mishap' = mishap \/ mishap' = TRUE)
        BY <2>2 DEF Ask, LookUpRing, BuildStop, SendStopFails, MarkStopped, FallBack, linkVars
      <3> QED BY <1>1, <3>1
    <2> QED BY <2>1, <2>2
  <1> DEFINE at(pc) == [pc |-> pc]
             Outside == {"idle", "stopping", "stopped", "fallback", "panicked"}
  <1>8. \E st \in ClientStates : st.pc \notin LockedAt /\ client' = [client EXCEPT ![c] = st]
    <2>1. CASE Ask(c, op)
      <3>1. [pc |-> "queued", op |-> op] \in ClientStates
        BY DEF ClientStates
      <3> QED BY <2>1, <3>1 DEF Ask, Now, LockedAt
    <2>2. \A pc \in Outside : at(pc) \in ClientStates /\ at(pc).pc \notin LockedAt
      BY DEF ClientStates, LockedAt
    <2>3. CASE LookUpRing(c, slot)
      <3>1. client' = [client EXCEPT ![c] = at("fallback")]
        BY <2>3 DEF LookUpRing, Now
      <3> HIDE DEF at
      <3> QED BY <2>2, <3>1
    <2>4. CASE BuildStop(c)
      <3>1. client' = [client EXCEPT ![c] = at("stopping")]
        BY <2>4 DEF BuildStop, Now
      <3> HIDE DEF at
      <3> QED BY <2>2, <3>1
    <2>5. CASE SendStop(c)
      <3>1. client' = [client EXCEPT ![c] = at("stopped")]
        BY <2>5 DEF SendStop, Now
      <3> HIDE DEF at
      <3> QED BY <2>2, <3>1
    <2>6. CASE SendStopFails(c) \/ MarkStopped(c)
      <3>1. client' = [client EXCEPT ![c] = at("idle")]
        BY <2>6 DEF SendStopFails, MarkStopped, Now, Idle
      <3> HIDE DEF at
      <3> QED BY <2>2, <3>1
    <2>7. CASE FallBack(c)
      <3>1. client' = [client EXCEPT ![c] = at("panicked")] \/ client' = [client EXCEPT ![c] = at("idle")]
        BY <2>7 DEF FallBack, Now, Idle
      <3> HIDE DEF at
      <3> QED BY <2>2, <3>1
    <2> QED BY <2>1, <2>3, <2>4, <2>5, <2>6, <2>7
  <1>9. PICK st \in ClientStates : st.pc \notin LockedAt /\ client' = [client EXCEPT ![c] = st]
    BY <1>8
  <1>10. client' \in [Clients -> ClientStates]
    BY <1>1, <1>9
  <1>11. commands' \in 0..MaxCommands /\ started' \in BOOLEAN
    <2>1. commands' \in 0..MaxCommands
      BY <1>1, <1>5
    <2>2. started' \in BOOLEAN
      BY <1>1, <1>6, Zenon
    <2> QED BY <2>1, <2>2
  <1>12. TypeOK'
    BY <1>2, <1>3, <1>7, <1>10, <1>11 DEF ControlInv, TypeOK
  <1> QED BY <1>2, <1>4, <1>9, <1>12, OutsideLock

\* set_oc_bits touches the session's mask only.
LEMMA MaskInv ==
    ASSUME ControlInv, NEW c \in Clients, NEW mask \in Masks, SetOcBits(c, mask)
    PROVE  ControlInv'
  <1>1. UNCHANGED <<rings, ringCount, writer, client, lna, started, closed, pump, toBoard,
                    toHost, board, mishap, tuned>>
        /\ oc' = mask /\ commands' = commands + 1 /\ commands < MaxCommands
    BY DEF SetOcBits, fanoutVars, linkVars, clientStep
  <1>2. Active' = Active /\ RxCount' = RxCount
    BY <1>1 DEF Active, RxCount
  <1>3. commands' \in 0..MaxCommands
    BY <1>1, ControlAssumption DEF ControlInv, TypeOK
  <1>4. TypeOK'
    BY <1>1, <1>2, <1>3 DEF ControlInv, TypeOK
  <1>5. LockInv' /\ EmptyOnlyWhileTuning' /\ CommittedCount'
    BY <1>1, <1>2 DEF ControlInv, LockInv, EmptyOnlyWhileTuning, CommittedCount
  <1> QED BY <1>4, <1>5 DEF ControlInv

\* A step that changes nothing.
LEMMA StutterInv ==
    ASSUME ControlInv, UNCHANGED vars
    PROVE  ControlInv'
  <1>1. UNCHANGED <<rings, ringCount, writer, client, oc, lna, started, closed, pump, toBoard,
                    toHost, board, mishap, tuned, commands>>
    BY DEF vars
  <1>2. Active' = Active /\ RxCount' = RxCount
    BY <1>1 DEF Active, RxCount
  <1>3. TypeOK'
    BY <1>1, <1>2 DEF ControlInv, TypeOK
  <1>4. LockInv' /\ EmptyOnlyWhileTuning' /\ CommittedCount'
    BY <1>1, <1>2 DEF ControlInv, LockInv, EmptyOnlyWhileTuning, CommittedCount
  <1> QED BY <1>3, <1>4 DEF ControlInv

\* Every step preserves the invariant.
LEMMA StepInv == ControlInv /\ [Next]_vars => ControlInv'
  <1> SUFFICES ASSUME ControlInv, [Next]_vars PROVE ControlInv'
    OBVIOUS
  <1> DEFINE someWrite == [kind |-> "lna", gain |-> DefaultGain]
  <1>0. someWrite \in Writes /\ 1 \in Slots
    BY ControlAssumption DEF Writes, Amplifications
  <1> HIDE DEF someWrite
  <1>1. ASSUME NEW c \in Clients, NEW op \in Writes, Ask(c, op)
        PROVE  ControlInv'
    BY <1>0, <1>1, LocklessInv
  <1>2. ASSUME NEW c \in Clients, NEW mask \in Masks, SetOcBits(c, mask)
        PROVE  ControlInv'
    BY <1>2, MaskInv
  <1>3. ASSUME NEW c \in Clients, NEW slot \in Slots, LookUpRing(c, slot)
        PROVE  ControlInv'
    BY <1>0, <1>3, LocklessInv
  <1>4. ASSUME NEW c \in Clients,
               BuildStop(c) \/ SendStop(c) \/ SendStopFails(c) \/ MarkStopped(c) \/ FallBack(c)
        PROVE  ControlInv'
    BY <1>0, <1>4, LocklessInv
  <1>5. ASSUME NEW c \in Clients, TakeWriteLock(c) \/ ReadCount(c) \/ Build(c) \/ Settle(c)
        PROVE  ControlInv'
    BY <1>5, LockingInv
  <1>6. ASSUME NEW c \in Clients, ApplyTune(c) \/ Anchor(c)
        PROVE  ControlInv'
    BY <1>6, FanoutInv
  <1>7. ASSUME NEW c \in Clients, Send(c) \/ SendFails(c)
        PROVE  ControlInv'
    BY <1>7, SendingInv
  <1>8. ASSUME DropReceiver \/ PumpExit \/ PumpTick \/ PumpBuild \/ PumpSend
                 \/ PumpReceive \/ PumpPush \/ PumpSocketError
        PROVE  ControlInv'
    BY <1>8, PumpInv
  <1>9. ASSUME LoseCommand \/ DeliverCommand \/ StreamFrame \/ LoseFrame
        PROVE  ControlInv'
    BY <1>9, LinkInv
  <1>10. CASE UNCHANGED vars
    BY <1>10, StutterInv
  <1> QED BY <1>1, <1>2, <1>3, <1>4, <1>5, <1>6, <1>7, <1>8, <1>9, <1>10 DEF Next, Command

\* The invariant holds throughout every behaviour.
LEMMA ControlInvariant == Spec => []ControlInv
  BY InitInv, StepInv, PTL DEF Spec

\* Every variable keeps its type; no frame and no board ever carries a
\* receiver count the C4 field cannot express, for every set of clients and
\* slots (the saturation in the frame builders is what the proof needs).
THEOREM TypeCorrect == Spec => []TypeOK
  <1>1. ControlInv => TypeOK
    BY DEF ControlInv
  <1> QED BY <1>1, ControlInvariant, PTL

\* The fan-out is empty only while the tune that closed the last slot holds
\* the write lock and has not yet put slot 1 back (Hl2::tune).
THEOREM NeverEmptyOutsideTune == Spec => []EmptyOnlyWhileTuning
  <1>1. ControlInv => EmptyOnlyWhileTuning
    BY DEF ControlInv
  <1> QED BY <1>1, ControlInvariant, PTL

\* The count a tune or LNA frame carries is still the fan-out's when the
\* frame is sent: the write lock keeps every other change of the fan-out out.
THEOREM CountsCommitted == Spec => []CommittedCount
  <1>1. ControlInv => CommittedCount
    BY DEF ControlInv
  <1> QED BY <1>1, ControlInvariant, PTL

\* Retuning or keeping a slot keeps its ring, and a slot that comes back gets
\* a ring nobody was ever bound to (BasebandFanout::register_slot).
THEOREM RingsKept == Spec => RetuneKeepsRing
  <1> DEFINE Kept == /\ \A s \in Active \intersect Active' : rings'[s] = rings[s]
                     /\ \A s \in Active' \ Active : rings'[s] > ringCount
  <1>1. TypeOK /\ [Next]_vars => [Kept]_vars
    <2> SUFFICES ASSUME TypeOK, [Next]_vars PROVE Kept \/ UNCHANGED vars
      OBVIOUS
    <2>1. CASE UNCHANGED rings
      BY <2>1 DEF Active
    <2>2. ASSUME NEW c \in Clients, ApplyTune(c) \/ Anchor(c) PROVE Kept
      <3>1. client[c].op \in Tunes /\ client[c].op.slot \in Slots /\ 1 \in Slots
        BY <2>2, ClientFacts, ControlAssumption DEF ApplyTune, Anchor, Tunes
      <3>2. \/ \E s \in Slots : Register(s)
            \/ \E s \in Slots : Unregister(s)
            \/ UNCHANGED rings
        BY <2>2, <3>1 DEF ApplyTune, Anchor, fanoutVars
      <3>3. ASSUME NEW s \in Slots, Register(s) PROVE Kept
        BY <3>3, RegisterFacts
      <3>4. ASSUME NEW s \in Slots, Unregister(s) PROVE Kept
        BY <3>4, UnregisterFacts
      <3>5. CASE UNCHANGED rings
        BY <3>5 DEF Active
      <3> QED BY <3>2, <3>3, <3>4, <3>5
    <2>3. CASE ~ \E c \in Clients : ApplyTune(c) \/ Anchor(c)
      <3>1. UNCHANGED rings
        BY <2>3 DEF Next, Command, vars, Ask, SetOcBits, LookUpRing, BuildStop, SendFails,
             SendStopFails, TakeWriteLock, ReadCount, Build, Send, Settle, SendStop, MarkStopped,
             FallBack, DropReceiver, PumpExit, PumpTick, PumpBuild, PumpSend, PumpReceive,
             PumpPush, PumpSocketError, LoseCommand, DeliverCommand, StreamFrame, LoseFrame,
             linkStep, pumpStep, fanoutVars
      <3> QED BY <2>1, <3>1
    <2> QED BY <2>2, <2>3
  <1>2. ControlInv => TypeOK
    BY DEF ControlInv
  <1> QED BY <1>1, <1>2, ControlInvariant, PTL DEF Spec, RetuneKeepsRing
-----------------------------------------------------------------------------
(* The board's registers.                                                  *)

WritesNco(f, s) == f.kind = "tune" /\ f.slot = s
WritesGain(f) == f.kind = "lna"

\* When the frames q on the link are delivered, the board's register will
\* hold v: the last of them to write it writes v, or none does and it holds v.
NcoArrives(q, b, s, v) ==
    \/ \E i \in 1..Len(q) : /\ WritesNco(q[i], s) /\ q[i].freq = v
                            /\ \A j \in 1..Len(q) : j > i => ~WritesNco(q[j], s)
    \/ b.nco[s] = v /\ \A j \in 1..Len(q) : ~WritesNco(q[j], s)

GainArrives(q, b, v) ==
    \/ \E i \in 1..Len(q) : /\ WritesGain(q[i]) /\ q[i].gain = v
                            /\ \A j \in 1..Len(q) : j > i => ~WritesGain(q[j])
    \/ b.gain = v /\ \A j \in 1..Len(q) : ~WritesGain(q[j])

\* A write that was sent counts as done, although its command goes on.
Sent(c) == client[c].pc = "settle"

NcoGoal(s) ==
    IF writer \in Clients /\ Sent(writer) /\ WritesNco(client[writer].op, s)
    THEN client[writer].op.freq
    ELSE tuned[s]

GainGoal ==
    IF writer \in Clients /\ Sent(writer) /\ WritesGain(client[writer].op)
    THEN client[writer].op.gain
    ELSE lna

\* A frame says what its command asked for.
SaysOp(f, op) ==
    /\ f.kind = op.kind
    /\ op.kind = "tune" => f.slot = op.slot /\ f.freq = op.freq
    /\ op.kind = "lna" => f.gain = op.gain

FramesSayOps == \A c \in Clients : client[c].pc = "send" => SaysOp(client[c].frame, client[c].op)

PumpKeepsAlive == pump.pc = "send" => pump.frame.kind = "keepalive"

WritesArrive ==
    ~mishap => /\ \A s \in Slots : NcoArrives(toBoard, board, s, NcoGoal(s))
               /\ GainArrives(toBoard, board, GainGoal)

AgreeInv == FramesSayOps /\ PumpKeepsAlive /\ WritesArrive

\* One more frame behind the others on the link.
LEMMA ArriveBehind ==
    ASSUME NEW q \in Seq(Frames), NEW f \in Frames, NEW b
    PROVE  /\ \A s : WritesNco(f, s) => NcoArrives(Append(q, f), b, s, f.freq)
           /\ \A s, v : ~WritesNco(f, s) /\ NcoArrives(q, b, s, v) => NcoArrives(Append(q, f), b, s, v)
           /\ WritesGain(f) => GainArrives(Append(q, f), b, f.gain)
           /\ \A v : ~WritesGain(f) /\ GainArrives(q, b, v) => GainArrives(Append(q, f), b, v)
  <1> PICK p : p = Append(q, f)
    OBVIOUS
  <1>1. /\ Len(q) \in Nat /\ Len(p) = Len(q) + 1 /\ p[Len(p)] = f
        /\ \A i \in 1..Len(q) : p[i] = q[i]
    OBVIOUS
  <1>2. \A j \in 1..Len(p) : j \in 1..Len(q) \/ j = Len(p)
    BY <1>1
  <1>3. 1..Len(q) \subseteq 1..Len(p) /\ Len(p) \in 1..Len(p) /\ \A i \in 1..Len(p) : ~(i > Len(p))
    BY <1>1
  <1>4. ASSUME NEW s, WritesNco(f, s) PROVE NcoArrives(p, b, s, f.freq)
    BY <1>1, <1>3, <1>4 DEF NcoArrives
  <1>5. ASSUME NEW s, NEW v, ~WritesNco(f, s), NcoArrives(q, b, s, v) PROVE NcoArrives(p, b, s, v)
    BY <1>1, <1>2, <1>3, <1>5 DEF NcoArrives
  <1>6. WritesGain(f) => GainArrives(p, b, f.gain)
    BY <1>1, <1>3 DEF GainArrives
  <1>7. ASSUME NEW v, ~WritesGain(f), GainArrives(q, b, v) PROVE GainArrives(p, b, v)
    BY <1>1, <1>2, <1>3, <1>7 DEF GainArrives
  <1> QED BY <1>4, <1>5, <1>6, <1>7

\* What a frame does to the registers.
LEMMA AppliedRegisters ==
    ASSUME TypeOK, NEW f \in Frames
    PROVE  /\ \A s \in Slots : Applied(board, f).nco[s] = IF WritesNco(f, s) THEN f.freq ELSE board.nco[s]
           /\ Applied(board, f).gain = IF WritesGain(f) THEN f.gain ELSE board.gain
  <1>1. CASE f \in [kind : {"stop"}]
    BY <1>1 DEF TypeOK, Applied, WritesNco, WritesGain
  <1>2. CASE f \in [kind : {"keepalive"}, n : Counts, oc : Masks]
    BY <1>2 DEF TypeOK, Applied, WritesNco, WritesGain
  <1>3. CASE f \in [kind : {"tune"}, n : Counts, oc : Masks, slot : Slots, freq : Freqs \union {0}]
    BY <1>3 DEF TypeOK, Applied, WritesNco, WritesGain
  <1>4. CASE f \in [kind : {"lna"}, n : Counts, oc : Masks, gain : Gains]
    BY <1>4 DEF TypeOK, Applied, WritesNco, WritesGain
  <1> QED BY <1>1, <1>2, <1>3, <1>4 DEF Frames

\* The first frame of the link reaches the board.
LEMMA ArriveDelivered ==
    ASSUME TypeOK, toBoard # <<>>
    PROVE  /\ \A s \in Slots : \A v : NcoArrives(toBoard, board, s, v) =>
                                 NcoArrives(Tail(toBoard), Applied(board, Head(toBoard)), s, v)
           /\ \A v : GainArrives(toBoard, board, v) =>
                        GainArrives(Tail(toBoard), Applied(board, Head(toBoard)), v)
  <1> PICK q, p, f, b : /\ q = toBoard /\ p = Tail(toBoard) /\ f = Head(toBoard)
                        /\ b = Applied(board, Head(toBoard))
    OBVIOUS
  <1>1. /\ q \in Seq(Frames) /\ q # <<>>
        /\ Len(p) \in Nat /\ Len(q) = Len(p) + 1 /\ f = q[1] /\ f \in Frames
        /\ \A i \in 1..Len(p) : p[i] = q[i + 1]
    BY DEF TypeOK
  <1>2. \A i \in 1..Len(q) : i = 1 \/ (i - 1 \in 1..Len(p) /\ p[i - 1] = q[i])
    BY <1>1
  <1>3. \A i \in 1..Len(p) : i + 1 \in 1..Len(q)
    BY <1>1
  <1>4. ASSUME NEW s \in Slots, NEW v, NcoArrives(q, board, s, v) PROVE NcoArrives(p, b, s, v)
    <2>1. b.nco[s] = IF WritesNco(f, s) THEN f.freq ELSE board.nco[s]
      BY <1>1, AppliedRegisters
    <2>2. CASE board.nco[s] = v /\ \A j \in 1..Len(q) : ~WritesNco(q[j], s)
      BY <1>1, <1>3, <2>1, <2>2 DEF NcoArrives
    <2>3. ASSUME NEW i \in 1..Len(q), WritesNco(q[i], s), q[i].freq = v,
                 \A j \in 1..Len(q) : j > i => ~WritesNco(q[j], s)
          PROVE  NcoArrives(p, b, s, v)
      <3>1. \A j \in 1..Len(p) : j + 1 > i => ~WritesNco(p[j], s)
        BY <1>1, <1>3, <2>3
      <3>2. CASE i = 1
        <4>1. \A j \in 1..Len(p) : ~WritesNco(p[j], s)
          BY <3>1, <3>2
        <4> QED BY <1>1, <2>1, <2>3, <3>2, <4>1 DEF NcoArrives
      <3>3. CASE i # 1
        <4>1. i - 1 \in 1..Len(p) /\ p[i - 1] = q[i] /\ \A j \in 1..Len(p) : j > i - 1 => ~WritesNco(p[j], s)
          BY <1>2, <3>1, <3>3
        <4> QED BY <2>3, <4>1 DEF NcoArrives
      <3> QED BY <3>2, <3>3
    <2> QED BY <1>4, <2>2, <2>3 DEF NcoArrives
  <1>5. ASSUME NEW v, GainArrives(q, board, v) PROVE GainArrives(p, b, v)
    <2>1. b.gain = IF WritesGain(f) THEN f.gain ELSE board.gain
      BY <1>1, AppliedRegisters
    <2>2. CASE board.gain = v /\ \A j \in 1..Len(q) : ~WritesGain(q[j])
      BY <1>1, <1>3, <2>1, <2>2 DEF GainArrives
    <2>3. ASSUME NEW i \in 1..Len(q), WritesGain(q[i]), q[i].gain = v,
                 \A j \in 1..Len(q) : j > i => ~WritesGain(q[j])
          PROVE  GainArrives(p, b, v)
      <3>1. \A j \in 1..Len(p) : j + 1 > i => ~WritesGain(p[j])
        BY <1>1, <1>3, <2>3
      <3>2. CASE i = 1
        <4>1. \A j \in 1..Len(p) : ~WritesGain(p[j])
          BY <3>1, <3>2
        <4> QED BY <1>1, <2>1, <2>3, <3>2, <4>1 DEF GainArrives
      <3>3. CASE i # 1
        <4>1. i - 1 \in 1..Len(p) /\ p[i - 1] = q[i] /\ \A j \in 1..Len(p) : j > i - 1 => ~WritesGain(p[j])
          BY <1>2, <3>1, <3>3
        <4> QED BY <2>3, <4>1 DEF GainArrives
      <3> QED BY <3>2, <3>3
    <2> QED BY <1>5, <2>2, <2>3 DEF GainArrives
  <1> QED BY <1>4, <1>5

\* The link carries what it did and perhaps a frame more that writes nothing.
LinkKeeps ==
    \/ mishap'
    \/ /\ mishap' = mishap /\ board' = board
       /\ \/ toBoard' = toBoard
          \/ \E f \in Frames : f.kind \in {"stop", "keepalive"} /\ toBoard' = Append(toBoard, f)

LEMMA LinkCarries ==
    ASSUME ControlInv, WritesArrive, LinkKeeps,
           \A s \in Slots : NcoGoal(s)' = NcoGoal(s), GainGoal' = GainGoal
    PROVE  WritesArrive'
  <1> SUFFICES ASSUME ~mishap'
               PROVE  /\ \A s \in Slots : NcoArrives(toBoard', board', s, NcoGoal(s)')
                      /\ GainArrives(toBoard', board', GainGoal')
    BY DEF WritesArrive
  <1>1. /\ \A s \in Slots : NcoArrives(toBoard, board, s, NcoGoal(s))
        /\ GainArrives(toBoard, board, GainGoal)
        /\ board' = board
    BY DEF WritesArrive, LinkKeeps
  <1>2. CASE toBoard' = toBoard
    BY <1>1, <1>2
  <1>3. CASE \E f \in Frames : f.kind \in {"stop", "keepalive"} /\ toBoard' = Append(toBoard, f)
    <2>1. PICK f \in Frames : f.kind \in {"stop", "keepalive"} /\ toBoard' = Append(toBoard, f)
      BY <1>3
    <2>2. (\A s : ~WritesNco(f, s)) /\ ~WritesGain(f) /\ toBoard \in Seq(Frames)
      BY <2>1 DEF WritesNco, WritesGain, ControlInv, TypeOK
    <2>3. /\ \A s, v : NcoArrives(toBoard, board, s, v) => NcoArrives(toBoard', board, s, v)
          /\ \A v : GainArrives(toBoard, board, v) => GainArrives(toBoard', board, v)
      BY <2>1, <2>2, ArriveBehind
    <2> QED BY <1>1, <2>3
  <1> QED BY <1>2, <1>3 DEF LinkKeeps

\* As long as the same write is sent and unsettled the registers' goals stay.
LEMMA GoalsStay ==
    ASSUME ControlInv, ControlInv', UNCHANGED <<tuned, lna>>,
           \A c \in Clients : (Sent(c)' <=> Sent(c)) /\ (Sent(c) => client'[c].op = client[c].op)
    PROVE  (\A s \in Slots : NcoGoal(s)' = NcoGoal(s)) /\ GainGoal' = GainGoal
  <1>1. \A c \in Clients : Sent(c) => writer = c /\ writer' = c
    BY DEF ControlInv, LockInv, LockedAt, Sent
  <1>2. CASE writer \in Clients /\ Sent(writer)
    <2>1. writer' = writer /\ Sent(writer)' /\ client'[writer'].op = client[writer].op
      BY <1>1, <1>2 DEF Sent
    <2> QED BY <1>2, <2>1 DEF NcoGoal, GainGoal, Sent
  <1>3. CASE ~(writer \in Clients /\ Sent(writer))
    <2>1. ~(writer' \in Clients /\ Sent(writer)')
      BY <1>1, <1>3 DEF Sent
    <2> QED BY <1>3, <2>1 DEF NcoGoal, GainGoal, Sent
  <1> QED BY <1>2, <1>3

\* A client's step that neither sends a write nor settles one.
LEMMA ClientAgrees ==
    ASSUME ControlInv, ControlInv', AgreeInv, NEW c \in Clients, NEW st,
           client' = [client EXCEPT ![c] = st],
           client[c].pc # "settle", st.pc # "settle",
           st.pc = "send" => SaysOp(st.frame, st.op),
           UNCHANGED <<tuned, lna, pump>>, LinkKeeps
    PROVE  AgreeInv'
  <1>1. client'[c] = st /\ \A d \in Clients : d # c => client'[d] = client[d]
    BY DEF ControlInv, TypeOK
  <1>2. FramesSayOps' /\ PumpKeepsAlive'
    BY <1>1 DEF AgreeInv, FramesSayOps, PumpKeepsAlive
  <1>3. \A d \in Clients : (Sent(d)' <=> Sent(d)) /\ (Sent(d) => client'[d].op = client[d].op)
    BY <1>1 DEF Sent
  <1>4. WritesArrive'
    BY <1>3, GoalsStay, LinkCarries DEF AgreeInv
  <1> QED BY <1>2, <1>4 DEF AgreeInv

\* Commands before their frame is sent, and those that write no register.
LEMMA BeforeSendAgrees ==
    ASSUME ControlInv, ControlInv', AgreeInv, NEW c \in Clients,
           \/ \E op \in Writes : Ask(c, op)
           \/ \E slot \in Slots : LookUpRing(c, slot)
           \/ BuildStop(c) \/ SendFails(c) \/ SendStop(c) \/ SendStopFails(c) \/ MarkStopped(c) \/ FallBack(c)
           \/ TakeWriteLock(c) \/ ApplyTune(c) \/ Anchor(c) \/ ReadCount(c) \/ Build(c)
    PROVE  AgreeInv'
  <1>1. UNCHANGED <<tuned, lna, pump, board>> /\ client[c].pc # "settle"
    <2>1. ASSUME NEW op, Ask(c, op) PROVE UNCHANGED <<tuned, lna, pump, board>> /\ client[c].pc # "settle"
      BY <2>1 DEF Ask, handleVars, linkVars, clientStep, Idle
    <2>2. CASE \/ \E slot \in Slots : LookUpRing(c, slot)
               \/ BuildStop(c) \/ SendFails(c) \/ SendStop(c) \/ SendStopFails(c) \/ MarkStopped(c) \/ FallBack(c)
      BY <2>2 DEF LookUpRing, BuildStop, SendFails, SendStop, SendStopFails, MarkStopped, FallBack,
                  handleVars, linkVars, clientStep, Idle
    <2>3. CASE TakeWriteLock(c) \/ ApplyTune(c) \/ Anchor(c) \/ ReadCount(c) \/ Build(c)
      BY <2>3 DEF TakeWriteLock, ApplyTune, Anchor, ReadCount, Build, handleVars, linkVars, clientStep
    <2> QED BY <2>1, <2>2, <2>3
  <1>2. LinkKeeps
    <2>1. CASE SendStop(c)
      <3>1. StopFrame \in Frames /\ StopFrame.kind = "stop"
        BY DEF StopFrame, Frames
      <3> QED BY <1>1, <2>1, <3>1 DEF SendStop, Transmit, LinkKeeps
    <2>2. CASE SendFails(c) \/ SendStopFails(c)
      BY <2>2 DEF SendFails, SendStopFails, LinkKeeps
    <2>3. CASE UNCHANGED <<toBoard, mishap>>
      BY <1>1, <2>3 DEF LinkKeeps
    <2> QED BY <2>1, <2>2, <2>3 DEF Ask, LookUpRing, BuildStop, MarkStopped, FallBack, TakeWriteLock,
               ApplyTune, Anchor, ReadCount, Build, linkVars
  <1>3. ASSUME Build(c) PROVE AgreeInv'
    <2>1. PICK f : f = FrameFor(client[c].op, client[c].n)
      OBVIOUS
    <2>2. PICK st : st = [pc |-> "send", op |-> client[c].op, frame |-> f]
      OBVIOUS
    <2>3. client' = [client EXCEPT ![c] = st] /\ client[c].op \in Writes
      BY <1>3, <2>1, <2>2, ClientFacts DEF Build, Now, ControlInv
    <2>4. SaysOp(f, client[c].op)
      BY <2>1, <2>3 DEF FrameFor, TuneFrame, LnaFrame, SaysOp, Writes, Tunes, Amplifications
    <2>5. st.pc = "send" /\ st.frame = f /\ st.op = client[c].op
      BY <2>2
    <2>6. st.pc # "settle" /\ SaysOp(st.frame, st.op)
      BY <2>4, <2>5
    <2> QED BY <1>1, <1>2, <2>3, <2>6, ClientAgrees
  <1>4. ASSUME NEW st, st.pc \notin {"settle", "send"}, client' = [client EXCEPT ![c] = st]
        PROVE  AgreeInv'
    BY <1>1, <1>2, <1>4, ClientAgrees
  <1> DEFINE at(pc) == [pc |-> pc]
             on(pc) == [pc |-> pc, op |-> client[c].op]
  <1>5. (\A pc : at(pc).pc = pc) /\ \A pc : on(pc).pc = pc
    OBVIOUS
  <1>6. ASSUME NEW op, Ask(c, op) PROVE AgreeInv'
    <2>1. PICK st : st = [pc |-> "queued", op |-> op]
      OBVIOUS
    <2> QED BY <1>4, <1>6, <2>1 DEF Ask, Now
  <1>7. ASSUME NEW pc \in {"idle", "stopping", "stopped", "fallback", "panicked"},
               client' = [client EXCEPT ![c] = at(pc)]
        PROVE  AgreeInv'
    <2> HIDE DEF at
    <2> QED BY <1>4, <1>5, <1>7
  <1>8. ASSUME NEW pc \in {"apply", "anchor", "count"}, client' = [client EXCEPT ![c] = on(pc)]
        PROVE  AgreeInv'
    <2> HIDE DEF on
    <2> QED BY <1>4, <1>5, <1>8
  <1>9. ASSUME ReadCount(c) PROVE AgreeInv'
    <2>1. PICK st : st = [pc |-> "build", op |-> client[c].op, n |-> RxCount]
      OBVIOUS
    <2> QED BY <1>4, <1>9, <2>1 DEF ReadCount, Now
  <1>10. CASE \/ \E slot \in Slots : LookUpRing(c, slot)
              \/ BuildStop(c) \/ SendFails(c) \/ SendStop(c) \/ SendStopFails(c) \/ MarkStopped(c) \/ FallBack(c)
    <2>1. \E pc \in {"idle", "stopping", "stopped", "fallback", "panicked"} :
             client' = [client EXCEPT ![c] = at(pc)]
      BY <1>10 DEF LookUpRing, BuildStop, SendFails, SendStop, SendStopFails, MarkStopped, FallBack, Now, Idle
    <2> HIDE DEF at
    <2> QED BY <1>7, <2>1
  <1>11. CASE TakeWriteLock(c) \/ ApplyTune(c) \/ Anchor(c)
    <2>1. \E pc \in {"apply", "anchor", "count"} : client' = [client EXCEPT ![c] = on(pc)]
      BY <1>11 DEF TakeWriteLock, ApplyTune, Anchor, Now
    <2> HIDE DEF on
    <2> QED BY <1>8, <2>1
  <1> QED BY <1>3, <1>6, <1>9, <1>10, <1>11

\* A write's frame goes onto the link.
LEMMA SendAgrees ==
    ASSUME ControlInv, ControlInv', AgreeInv, NEW c \in Clients, Send(c)
    PROVE  AgreeInv'
  <1> PICK f, op : f = client[c].frame /\ op = client[c].op
    OBVIOUS
  <1>1. /\ client[c].pc = "send" /\ op \in Writes /\ f \in Frames /\ SaysOp(f, op)
        /\ UNCHANGED <<tuned, lna, pump, board, writer>> /\ Transmit(f)
        /\ client' = [client EXCEPT ![c] = [pc |-> "settle", op |-> op]]
    BY ClientFacts DEF ControlInv, Send, Now, handleVars, clientStep, AgreeInv, FramesSayOps
  <1>2. /\ client'[c] = [pc |-> "settle", op |-> op]
        /\ \A d \in Clients : d # c => client'[d] = client[d]
    BY <1>1 DEF ControlInv, TypeOK
  <1>3. FramesSayOps' /\ PumpKeepsAlive'
    BY <1>1, <1>2 DEF AgreeInv, FramesSayOps, PumpKeepsAlive
  <1>4. writer = c /\ writer' = c /\ ~Sent(writer) /\ Sent(writer)' /\ client'[writer'].op = op
    BY <1>1, <1>2 DEF ControlInv, LockInv, LockedAt, Sent
  <1>5. /\ \A s \in Slots : NcoGoal(s) = tuned[s] /\ NcoGoal(s)' = IF WritesNco(f, s) THEN f.freq ELSE tuned[s]
        /\ GainGoal = lna /\ GainGoal' = IF WritesGain(f) THEN f.gain ELSE lna
    BY <1>1, <1>4 DEF NcoGoal, GainGoal, WritesNco, WritesGain, SaysOp
  <1>6. ASSUME ~mishap'
        PROVE  /\ \A s \in Slots : NcoArrives(toBoard', board', s, NcoGoal(s)')
               /\ GainArrives(toBoard', board', GainGoal')
    <2>1. ~mishap /\ toBoard' = Append(toBoard, f) /\ toBoard \in Seq(Frames)
      BY <1>1, <1>6 DEF Transmit, ControlInv, TypeOK
    <2>2. /\ \A s \in Slots : NcoArrives(toBoard, board, s, tuned[s])
          /\ GainArrives(toBoard, board, lna)
      BY <1>5, <2>1 DEF AgreeInv, WritesArrive
    <2>3. \A s \in Slots : NcoArrives(toBoard', board, s, IF WritesNco(f, s) THEN f.freq ELSE tuned[s])
      BY <1>1, <2>1, <2>2, ArriveBehind
    <2>4. GainArrives(toBoard', board, IF WritesGain(f) THEN f.gain ELSE lna)
      BY <1>1, <2>1, <2>2, ArriveBehind
    <2> QED BY <1>1, <1>5, <2>3, <2>4
  <1> QED BY <1>3, <1>6 DEF AgreeInv, WritesArrive

\* The write is settled: what it sent is what the handle now remembers.
LEMMA SettleAgrees ==
    ASSUME ControlInv, ControlInv', AgreeInv, NEW c \in Clients, Settle(c)
    PROVE  AgreeInv'
  <1> PICK op : op = client[c].op
    OBVIOUS
  <1>1. /\ client[c].pc = "settle" /\ op \in Writes
        /\ UNCHANGED <<pump, toBoard, board, mishap>> /\ writer' = NoClient
        /\ client' = [client EXCEPT ![c] = Idle]
        /\ lna' = IF op.kind = "lna" THEN op.gain ELSE lna
        /\ tuned' = IF op.kind = "tune" THEN [tuned EXCEPT ![op.slot] = op.freq] ELSE tuned
    BY ClientFacts DEF ControlInv, Settle, Now, linkVars, clientStep
  <1>2. client'[c] = Idle /\ \A d \in Clients : d # c => client'[d] = client[d]
    BY <1>1 DEF ControlInv, TypeOK
  <1>3. FramesSayOps' /\ PumpKeepsAlive'
    BY <1>1, <1>2 DEF AgreeInv, FramesSayOps, PumpKeepsAlive, Idle
  <1>4. writer = c /\ writer' \notin Clients /\ Sent(writer)
    BY <1>1, ControlAssumption DEF ControlInv, LockInv, LockedAt, Sent
  <1>5. \A s \in Slots : NcoGoal(s)' = NcoGoal(s)
    <2>1. tuned \in [Slots -> Freqs \union {0}]
      BY DEF ControlInv, TypeOK
    <2>2. \A s \in Slots : tuned'[s] = IF op.kind = "tune" /\ op.slot = s THEN op.freq ELSE tuned[s]
      BY <1>1, <2>1
    <2>3. \A s \in Slots : NcoGoal(s)' = tuned'[s]
      BY <1>4 DEF NcoGoal
    <2>4. \A s \in Slots : NcoGoal(s) = IF op.kind = "tune" /\ op.slot = s THEN op.freq ELSE tuned[s]
      BY <1>4 DEF NcoGoal, WritesNco
    <2> QED BY <2>2, <2>3, <2>4
  <1>6. GainGoal' = GainGoal
    BY <1>1, <1>4 DEF GainGoal, WritesGain
  <1>7. LinkKeeps
    BY <1>1 DEF LinkKeeps
  <1>8. WritesArrive'
    BY <1>5, <1>6, <1>7, LinkCarries DEF AgreeInv
  <1> QED BY <1>3, <1>8 DEF AgreeInv

\* Everybody but the clients: the pump's frames write no register, and the
\* board applies the frames in the order of their sending.
LEMMA OthersAgree ==
    ASSUME ControlInv, ControlInv', AgreeInv, UNCHANGED <<client, writer, tuned, lna>>,
           \/ DropReceiver \/ PumpExit \/ PumpTick \/ PumpBuild \/ PumpSend
           \/ PumpReceive \/ PumpPush \/ PumpSocketError
           \/ LoseCommand \/ DeliverCommand \/ StreamFrame \/ LoseFrame
           \/ UNCHANGED vars
           \/ \E c \in Clients : \E mask \in Masks : SetOcBits(c, mask)
    PROVE  AgreeInv'
  <1>1. FramesSayOps'
    BY DEF AgreeInv, FramesSayOps
  <1>2. (\A s \in Slots : NcoGoal(s)' = NcoGoal(s)) /\ GainGoal' = GainGoal
    BY DEF NcoGoal, GainGoal, Sent
  <1>3. PumpKeepsAlive'
    <2>1. pump' = pump \/ pump'.pc # "send" \/ (PumpBuild /\ pump' = [pc |-> "send", frame |-> KeepAlive(pump.n)])
      BY DEF DropReceiver, PumpExit, PumpTick, PumpBuild, PumpSend, PumpReceive, PumpPush, PumpSocketError,
             LoseCommand, DeliverCommand, StreamFrame, LoseFrame, linkStep, vars, SetOcBits, clientStep, Polling
    <2> QED BY <2>1 DEF AgreeInv, PumpKeepsAlive, KeepAlive
  <1>4. ASSUME LinkKeeps PROVE AgreeInv'
    BY <1>1, <1>2, <1>3, <1>4, LinkCarries DEF AgreeInv
  <1>5. CASE PumpSend
    <2>1. pump.frame \in Frames /\ pump.frame.kind = "keepalive"
      BY <1>5 DEF PumpSend, ControlInv, TypeOK, PumpStates, AgreeInv, PumpKeepsAlive
    <2> QED BY <1>4, <1>5, <2>1 DEF PumpSend, Transmit, LinkKeeps
  <1>6. CASE LoseCommand
    BY <1>4, <1>6 DEF LoseCommand, LinkKeeps
  <1>7. CASE DeliverCommand
    <2>1. /\ toBoard # <<>> /\ toBoard' = Tail(toBoard) /\ board' = Applied(board, Head(toBoard))
          /\ mishap' = mishap /\ TypeOK
      BY <1>7 DEF DeliverCommand, ControlInv
    <2>2. WritesArrive'
      BY <1>2, <2>1, ArriveDelivered DEF AgreeInv, WritesArrive
    <2> QED BY <1>1, <1>3, <2>2 DEF AgreeInv
  <1>8. CASE ~(PumpSend \/ LoseCommand \/ DeliverCommand)
    <2>1. UNCHANGED <<toBoard, board, mishap>>
      BY <1>8 DEF DropReceiver, PumpExit, PumpTick, PumpBuild, PumpReceive, PumpPush, PumpSocketError,
             StreamFrame, LoseFrame, linkVars, vars, SetOcBits
    <2> QED BY <1>4, <2>1 DEF LinkKeeps
  <1> QED BY <1>5, <1>6, <1>7, <1>8

LEMMA InitAgrees == Init => AgreeInv
  <1> SUFFICES ASSUME Init PROVE AgreeInv
    OBVIOUS
  <1>1. FramesSayOps /\ PumpKeepsAlive
    BY DEF Init, FramesSayOps, PumpKeepsAlive, Idle, Polling
  <1>2. toBoard = <<>> /\ Len(toBoard) = 0 /\ writer \notin Clients
    BY ControlAssumption DEF Init
  <1>3. (\A s \in Slots : NcoGoal(s) = 0 /\ board.nco[s] = 0) /\ GainGoal = DefaultGain /\ board.gain = DefaultGain
    BY <1>2 DEF Init, NcoGoal, GainGoal
  <1>4. WritesArrive
    BY <1>2, <1>3 DEF WritesArrive, NcoArrives, GainArrives
  <1> QED BY <1>1, <1>4 DEF AgreeInv

LEMMA StepAgrees == ControlInv /\ AgreeInv /\ [Next]_vars => AgreeInv'
  <1> SUFFICES ASSUME ControlInv, AgreeInv, [Next]_vars PROVE AgreeInv'
    OBVIOUS
  <1>1. ControlInv'
    BY StepInv
  <1>2. ASSUME NEW c \in Clients,
               \/ \E op \in Writes : Ask(c, op)
               \/ \E slot \in Slots : LookUpRing(c, slot)
               \/ BuildStop(c) \/ SendFails(c) \/ SendStopFails(c) \/ Command(c)
        PROVE  AgreeInv'
    BY <1>1, <1>2, BeforeSendAgrees, SendAgrees, SettleAgrees DEF Command
  <1>3. CASE \/ DropReceiver \/ PumpExit \/ PumpTick \/ PumpBuild \/ PumpSend
             \/ PumpReceive \/ PumpPush \/ PumpSocketError
             \/ LoseCommand \/ DeliverCommand \/ StreamFrame \/ LoseFrame
             \/ UNCHANGED vars
             \/ \E c \in Clients : \E mask \in Masks : SetOcBits(c, mask)
    <2>1. UNCHANGED <<client, writer, tuned, lna>>
      BY <1>3 DEF DropReceiver, PumpExit, PumpTick, PumpBuild, PumpSend, PumpReceive, PumpPush, PumpSocketError,
             LoseCommand, DeliverCommand, StreamFrame, LoseFrame, linkStep, pumpStep, handleVars, historyVars,
             vars, SetOcBits
    <2> QED BY <1>1, <1>3, <2>1, OthersAgree
  <1> QED BY <1>2, <1>3 DEF Next

\* Whatever the clients' writes overtake before the lock, the board ends with
\* those of the last holder: when no write is under way or on the link, and
\* no frame was lost, its NCOs and its gain are what the handle remembers.
THEOREM BoardAgrees == Spec => []RegistersAgree
  <1>1. Init => ControlInv /\ AgreeInv
    BY InitInv, InitAgrees
  <1>2. ControlInv /\ AgreeInv /\ [Next]_vars => (ControlInv /\ AgreeInv)'
    BY StepInv, StepAgrees
  <1>3. ControlInv /\ AgreeInv => RegistersAgree
    <2> SUFFICES ASSUME ControlInv, AgreeInv, writer = NoClient, ~mishap,
                        \A i \in 1..Len(toBoard) : toBoard[i].kind \in {"keepalive", "stop"}
                 PROVE  board.nco = tuned /\ board.gain = lna
      BY DEF RegistersAgree
    <2>1. \A i \in 1..Len(toBoard) : ~WritesGain(toBoard[i]) /\ \A s : ~WritesNco(toBoard[i], s)
      BY DEF WritesGain, WritesNco
    <2>2. writer \notin Clients
      BY ControlAssumption
    <2>3. board.gain = lna /\ \A s \in Slots : board.nco[s] = tuned[s]
      BY <2>1, <2>2 DEF AgreeInv, WritesArrive, NcoArrives, GainArrives, NcoGoal, GainGoal
    <2>4. board.nco \in [Slots -> Freqs \union {0}] /\ tuned \in [Slots -> Freqs \union {0}]
      BY DEF ControlInv, TypeOK
    <2> QED BY <2>3, <2>4
  <1> QED BY <1>1, <1>2, <1>3, PTL DEF Spec
=============================================================================
