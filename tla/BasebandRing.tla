---------------------------- MODULE BasebandRing ----------------------------
(***************************************************************************)
(* One EP6 baseband ring (hl2/src/receiver/baseband_ring.rs), the pump     *)
(* that is its only writer (run_loop in hl2/src/hl2.rs) and the demod      *)
(* threads that peek it, each from its own cursor (spawn_vrx in            *)
(* api/src/hub.rs).  Every push and every peek happens under the ring's    *)
(* mutex, so each is one step.                                             *)
(*                                                                         *)
(* A sample is represented by its position in the stream: the i-th sample  *)
(* the pump ever pushes is the number i, counted from 0.                   *)
(***************************************************************************)
EXTENDS Integers, Sequences

CONSTANTS Cap,        \* slots of the ring (BASEBAND_RING_CAP in the code)
          MaxChunk,   \* most samples one EP6 chunk carries for a slot
          MaxRead,    \* most samples a demod thread peeks at once (1024)
          Readers,    \* demod threads bound to this ring
          MaxPushed   \* bound: the stream ends after this many samples

ASSUME RingAssumption ==
    /\ Cap \in Nat \ {0}
    /\ MaxChunk \in Nat
    /\ MaxRead \in Nat \ {0}
    /\ MaxPushed \in Nat

\* What the zero-initialised buffer holds before the first push.
Blank == -1

VARIABLES
    buf,      \* the physical slots 0..Cap-1
    base,     \* base_seq: sequence number of the oldest buffered sample
    count,    \* buffered samples
    pushed,   \* history: samples ever pushed
    running,  \* which demod threads are alive
    cursor,   \* next sequence number each thread wants
    out       \* iq_buf: the block each thread was last handed

ringVars == <<buf, base, count, pushed>>
readerVars == <<running, cursor, out>>
vars == <<buf, base, count, pushed, running, cursor, out>>

Slots == 0..(Cap - 1)

Lesser(a, b) == IF a <= b THEN a ELSE b

head == base + count

-----------------------------------------------------------------------------
(* The writer.                                                             *)

\* Mutant of Written: the first new samples are kept instead of the last.
WrittenHead(at, keep, n) ==
    [p \in Slots |->
        LET k == IF p >= at THEN p - at ELSE p + Cap - at
        IN  IF k < keep THEN pushed + k ELSE buf[p]]

\* The buffer after the last `keep` of the samples pushed..pushed+n-1 have
\* been written from slot `at` on, wrapping at the end of the storage.
Written(at, keep, n) ==
    [p \in Slots |->
        LET k == IF p >= at THEN p - at ELSE p + Cap - at
        IN  IF k < keep THEN pushed + n - keep + k ELSE buf[p]]

\* Mutants of Push: no limit on count; one slot is never used.
PushWith(n, limit) ==
    /\ pushed + n <= MaxPushed
    /\ LET newCount == Lesser(count + n, limit)
           dropped  == count + n - newCount
           keepNew  == Lesser(n, newCount)
       IN  /\ base' = base + dropped
           /\ count' = newCount
           /\ buf' = Written((base' + newCount - keepNew) % Cap, Lesser(keepNew, Cap), n)
    /\ pushed' = pushed + n
    /\ UNCHANGED readerVars

PushUncapped(n) == PushWith(n, Cap + n)
PushSpareSlot(n) == PushWith(n, Cap - 1)

Push(n) ==
    /\ pushed + n <= MaxPushed
    /\ LET newCount == Lesser(count + n, Cap)
           dropped  == count + n - newCount
           keepNew  == Lesser(n, newCount)
           keepOld  == newCount - keepNew
       IN  /\ base' = base + dropped
           /\ count' = newCount
           /\ buf' = Written((base + dropped + keepOld) % Cap, keepNew, n)
    /\ pushed' = pushed + n
    /\ UNCHANGED readerVars

-----------------------------------------------------------------------------
(* The demod threads.                                                      *)

\* The block of n samples at offset `off` from the oldest one: at most two
\* runs of the storage.
Window(off, n) ==
    LET phys  == (base + off) % Cap
        first == Lesser(Cap - phys, n)
    IN  [i \in 1..n |-> IF i <= first THEN buf[phys + i - 1] ELSE buf[i - first - 1]]

\* BasebandRing::peek for a cursor that is not behind the ring.
Peek(c) ==
    LET off == c - base
    IN  IF count = 0 \/ off >= count
        THEN <<>>
        ELSE Window(off, Lesser(count - off, MaxRead))

\* A new demod thread starts with cursor 0, whatever the ring holds.
Spawn(r) ==
    /\ ~running[r]
    /\ running' = [running EXCEPT ![r] = TRUE]
    /\ cursor' = [cursor EXCEPT ![r] = 0]
    /\ out' = [out EXCEPT ![r] = <<>>]
    /\ UNCHANGED ringVars

\* The thread sees its stop flag and returns.
Stop(r) ==
    /\ running[r]
    /\ running' = [running EXCEPT ![r] = FALSE]
    /\ UNCHANGED <<ringVars, cursor, out>>

\* Mutants of Resync: the cursor is left where it was; it moves to the head.
ResyncNever(r) ==
    /\ running[r]
    /\ cursor[r] < base
    /\ UNCHANGED vars

ResyncToHead(r) ==
    /\ running[r]
    /\ cursor[r] < base
    /\ cursor' = [cursor EXCEPT ![r] = head]
    /\ UNCHANGED <<ringVars, running, out>>

\* Lapped by the pump: the cursor moves to base_seq and nothing is read.
Resync(r) ==
    /\ running[r]
    /\ cursor[r] < base
    /\ cursor' = [cursor EXCEPT ![r] = base]
    /\ UNCHANGED <<ringVars, running, out>>

\* Otherwise the thread takes what peek returns and advances by that much.
Read(r) ==
    /\ running[r]
    /\ cursor[r] >= base
    /\ LET got == Peek(cursor[r])
       IN  /\ out' = [out EXCEPT ![r] = got]
           /\ cursor' = [cursor EXCEPT ![r] = @ + Len(got)]
    /\ UNCHANGED <<ringVars, running>>

Demod(r) == Resync(r) \/ Read(r)

-----------------------------------------------------------------------------
Init ==
    /\ buf = [p \in Slots |-> Blank]
    /\ base = 0
    /\ count = 0
    /\ pushed = 0
    /\ running = [r \in Readers |-> FALSE]
    /\ cursor = [r \in Readers |-> 0]
    /\ out = [r \in Readers |-> <<>>]

Next ==
    \/ \E n \in 0..MaxChunk : Push(n)
    \/ \E r \in Readers : Spawn(r) \/ Stop(r) \/ Demod(r)

Spec == Init /\ [][Next]_vars

\* A demod thread that is alive keeps polling its ring.
FairSpec == Spec /\ \A r \in Readers : WF_vars(Demod(r))

-----------------------------------------------------------------------------
(* Properties.                                                             *)

\* Type correctness: the ring never holds more than Cap samples and every
\* cursor and block is well formed.
TypeOK ==
    /\ buf \in [Slots -> Int]
    /\ base \in Nat
    /\ count \in 0..Cap
    /\ pushed \in Nat
    /\ running \in [Readers -> BOOLEAN]
    /\ cursor \in [Readers -> Nat]
    /\ out \in [Readers -> Seq(Int)]

\* The comment in push(): head_seq() is the total number of samples ever
\* pushed, also when one push is longer than the ring.
HeadIsTotal == head = pushed

\* The oldest sample is dropped only when there is no room for it: the ring
\* holds min(pushed, Cap) samples.
DropsOnlyWhenFull == count = Lesser(pushed, Cap)

\* Slot s % Cap of the storage holds sample s, for every sample in the
\* window [base_seq, head_seq), after any number of wraps.
WindowIntact ==
    \A s \in base..(head - 1) : buf[s % Cap] = s

\* No cursor runs ahead of the pump: a thread never waits for samples it
\* has counted but not been given.
CursorBehindHead == \A r \in Readers : cursor[r] <= head

\* The ring's account of the stream: nothing is lost while there is room, and
\* no thread is ahead of it.
Accounted == HeadIsTotal /\ DropsOnlyWhenFull /\ CursorBehindHead

\* A live thread's cursor only moves over samples it is handed in that very
\* step, or over samples the pump has already overwritten.
SkipsOnlyLost ==
    [][\A r \in Readers : (running[r] /\ cursor'[r] # cursor[r]) =>
          \/ out'[r] = [i \in 1..(cursor'[r] - cursor[r]) |-> cursor[r] + i - 1]
          \/ cursor[r] < cursor'[r] /\ cursor'[r] = base]_vars

\* A thread that stays alive catches up once the pump pauses, however far
\* behind it was: the resync makes progress.
CatchesUp ==
    \A r \in Readers :
        (pushed = MaxPushed /\ running[r]) ~> (cursor[r] = pushed \/ ~running[r])

\* The ring implements the buffer-free stream.
Stream == INSTANCE SampleStream
            WITH total <- pushed, block <- out
StreamSpec == Stream!Spec
=============================================================================
