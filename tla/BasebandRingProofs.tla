------------------------- MODULE BasebandRingProofs -------------------------
(***************************************************************************)
(* Proofs about BasebandRing, for every capacity, chunk size, read size    *)
(* and set of demod threads.                                               *)
(***************************************************************************)
EXTENDS BasebandRing, NumberFacts

\* The inductive invariant: what the pump and the threads rely on when they
\* take the ring's mutex.
RingInv ==
    /\ TypeOK
    /\ HeadIsTotal
    /\ DropsOnlyWhenFull
    /\ WindowIntact
    /\ CursorBehindHead

\* The slot of every position is a slot of the buffer.
LEMMA SlotInRange ==
    ASSUME NEW a \in Nat
    PROVE  a % Cap \in Slots
  BY DivMod, RingAssumption DEF Slots

\* Going k positions on from a position moves k slots on, modulo one turn.
LEMMA NextSlot ==
    ASSUME NEW a \in Nat, NEW k \in 0..Cap
    PROVE  (a + k) % Cap =
              IF (a % Cap) + k < Cap THEN (a % Cap) + k ELSE (a % Cap) + k - Cap
  BY SlotAfter, RingAssumption

\* What a peek copies, on either side of the wrap, is the stream itself.
LEMMA WindowIsStream ==
    ASSUME RingInv, NEW off \in Nat, NEW n \in Nat, off + n <= count
    PROVE  Window(off, n) = [i \in 1..n |-> base + off + i - 1]
  <1> DEFINE phys == (base + off) % Cap
             first == Lesser(Cap - phys, n)
  <1>1. base \in Nat /\ count \in 0..Cap /\ Cap \in Nat \ {0}
    BY RingAssumption DEF RingInv, TypeOK
  <1>2. base + off \in Nat
    BY <1>1
  <1>3. phys \in 0..(Cap - 1)
    BY <1>2, SlotInRange DEF Slots
  <1>4. ASSUME NEW i \in 1..n
        PROVE  (IF i <= first THEN buf[phys + i - 1] ELSE buf[i - first - 1])
                  = base + off + i - 1
    <2> DEFINE k == i - 1
    <2>1. k \in 0..Cap /\ (base + off) + k = base + off + i - 1
      BY <1>1
    <2>2. ((base + off) + k) % Cap =
             IF phys + k < Cap THEN phys + k ELSE phys + k - Cap
      BY <1>2, <2>1, NextSlot
    <2>3. (base + off) + k \in base..(head - 1)
      BY <1>1 DEF head
    <2>4. buf[((base + off) + k) % Cap] = (base + off) + k
      BY <2>3 DEF RingInv, WindowIntact
    <2> HIDE DEF phys
    <2>5. ((base + off) + k) % Cap = IF i <= first THEN phys + i - 1 ELSE i - first - 1
      BY <2>2, <1>1, <1>3 DEF Lesser
    <2> HIDE DEF first
    <2> QED BY <2>4, <2>5, <1>1
  <1> QED BY <1>4 DEF Window

\* A peek at or past base_seq returns the samples from the cursor on, at
\* most MaxRead, and none only when the cursor has caught up.
LEMMA PeekIsStream ==
    ASSUME RingInv, NEW c \in Nat, base <= c, c <= head
    PROVE  \E n \in 0..MaxRead :
              /\ c + n <= head
              /\ n = 0 => c = head
              /\ Peek(c) = [i \in 1..n |-> c + i - 1]
  <1>1. base \in Nat /\ count \in Nat /\ MaxRead \in Nat \ {0} /\ head = base + count
    BY RingAssumption DEF RingInv, TypeOK, head
  <1> DEFINE off == c - base
  <1>2. CASE count = 0 \/ off >= count
    <2>1. c = head
      BY <1>1, <1>2
    <2>2. Peek(c) = [i \in 1..0 |-> c + i - 1]
      BY <1>2 DEF Peek
    <2> QED BY <2>1, <2>2, <1>1
  <1>3. CASE ~(count = 0 \/ off >= count)
    <2> DEFINE n == Lesser(count - off, MaxRead)
    <2>1. off \in Nat /\ n \in 1..MaxRead /\ off + n <= count /\ base + off = c
      BY <1>1, <1>3 DEF Lesser
    <2>2. Peek(c) = Window(off, n)
      BY <1>3 DEF Peek
    <2> HIDE DEF off, n
    <2>3. Window(off, n) = [i \in 1..n |-> base + off + i - 1]
      BY <2>1, WindowIsStream
    <2>4. Peek(c) = [i \in 1..n |-> c + i - 1]
      BY <2>1, <2>2, <2>3
    <2> QED BY <2>1, <2>4, <1>1
  <1> QED BY <1>2, <1>3

-----------------------------------------------------------------------------
\* The initial state satisfies the invariant.
LEMMA InitInv == Init => RingInv
  <1> SUFFICES ASSUME Init PROVE RingInv
    OBVIOUS
  <1>1. TypeOK
    BY RingAssumption DEF Init, TypeOK, Slots, Blank
  <1>2. HeadIsTotal /\ DropsOnlyWhenFull /\ WindowIntact /\ CursorBehindHead
    BY RingAssumption DEF Init, HeadIsTotal, DropsOnlyWhenFull, WindowIntact,
                          CursorBehindHead, head, Lesser
  <1> QED BY <1>1, <1>2 DEF RingInv

\* A push, also one longer than the ring or one that wraps the storage,
\* leaves every sample of the new window in its slot.
LEMMA PushKeepsWindow ==
    ASSUME RingInv, NEW n \in Nat, Push(n)
    PROVE  WindowIntact'
  <1> DEFINE newCount == Lesser(count + n, Cap)
             dropped == count + n - newCount
             keepNew == Lesser(n, newCount)
             keepOld == newCount - keepNew
             first == base + dropped + keepOld
             at == first % Cap
  <1>1. /\ base \in Nat /\ count \in 0..Cap /\ Cap \in Nat \ {0} /\ pushed \in Nat
        /\ base + count = pushed
    BY RingAssumption DEF RingInv, TypeOK, HeadIsTotal, head
  <1>2. /\ base' = base + dropped /\ count' = newCount
        /\ buf' = Written(at, keepNew, n)
    BY DEF Push
  <1>3. /\ newCount \in 0..Cap /\ dropped \in Nat /\ keepNew \in 0..newCount
        /\ keepOld \in 0..(Cap - keepNew) /\ first \in Nat
        /\ first + keepNew = pushed + n /\ keepOld + keepNew = newCount
        /\ keepOld > 0 => keepNew = n
    BY <1>1 DEF Lesser
  <1> HIDE DEF newCount, dropped, keepNew, keepOld
  <1>4. base' + count' = pushed + n /\ base' \in Nat
    BY <1>1, <1>2, <1>3
  <1>. SUFFICES ASSUME NEW s \in base'..(head' - 1)
                PROVE  buf'[s % Cap] = s
    BY DEF WindowIntact
  <1>5. head' = pushed + n /\ s < pushed + n
    BY <1>1, <1>4 DEF head
  <1> DEFINE p == s % Cap
             k == IF p >= at THEN p - at ELSE p + Cap - at
  <1>6. s \in Nat /\ p \in 0..(Cap - 1) /\ at \in 0..(Cap - 1)
    BY <1>1, <1>3, <1>4, <1>5, SlotInRange DEF Slots
  <1>7. buf'[p] = IF k < keepNew THEN pushed + n - keepNew + k ELSE buf[p]
    BY <1>2, <1>6 DEF Written, Slots
  <1>8. CASE s >= first
    <2> DEFINE j == s - first
    <2>1. j \in 0..Cap /\ j < keepNew /\ first + j = s
      BY <1>1, <1>3, <1>5, <1>6, <1>8
    <2>2. p = IF at + j < Cap THEN at + j ELSE at + j - Cap
      BY <1>3, <2>1, NextSlot
    <2> HIDE DEF p, at, first
    <2>3. k = j
      BY <1>1, <1>3, <1>6, <2>1, <2>2
    <2> QED BY <1>1, <1>3, <1>6, <1>7, <2>1, <2>3 DEF p
  <1>9. CASE s < first
    <2> DEFINE j == first - s
    <2>1. j \in 1..keepOld /\ s + j = first
      BY <1>1, <1>2, <1>3, <1>4, <1>6, <1>9
    <2>2. j \in 0..Cap
      BY <2>1, <1>1, <1>3
    <2>3. at = IF p + j < Cap THEN p + j ELSE p + j - Cap
      BY <1>6, <2>1, <2>2, NextSlot
    <2>4. s \in base..(head - 1)
      BY <1>1, <1>2, <1>3, <1>6, <1>9, <2>1 DEF head
    <2>5. buf[p] = s
      BY <2>4 DEF RingInv, WindowIntact
    <2> HIDE DEF p, at, first
    <2>6. ~(k < keepNew)
      BY <1>1, <1>3, <1>6, <2>1, <2>2, <2>3
    <2> QED BY <1>7, <2>5, <2>6 DEF p
  <1> QED BY <1>1, <1>3, <1>6, <1>8, <1>9

\* A push preserves the invariant.
LEMMA PushInv ==
    ASSUME RingInv, NEW n \in Nat, Push(n)
    PROVE  RingInv'
  <1>1. /\ base \in Nat /\ count \in 0..Cap /\ Cap \in Nat \ {0} /\ pushed \in Nat
        /\ buf \in [Slots -> Int] /\ base + count = pushed
        /\ count = Lesser(pushed, Cap)
    BY RingAssumption DEF RingInv, TypeOK, HeadIsTotal, DropsOnlyWhenFull, head
  <1>2. /\ base' = base + (count + n - Lesser(count + n, Cap))
        /\ count' = Lesser(count + n, Cap) /\ pushed' = pushed + n
        /\ cursor' = cursor /\ running' = running /\ out' = out
    BY DEF Push, readerVars
  <1>3. buf' \in [Slots -> Int]
    <2> DEFINE newCount == Lesser(count + n, Cap)
               keepNew == Lesser(n, newCount)
               at == (base + (count + n - newCount) + (newCount - keepNew)) % Cap
    <2>1. base + (count + n - newCount) + (newCount - keepNew) \in Nat
          /\ keepNew \in Int
      BY <1>1 DEF Lesser
    <2>2. at \in Int
      BY <2>1, <1>1, SlotInRange DEF Slots
    <2>3. buf' = Written(at, keepNew, n)
      BY DEF Push
    <2> HIDE DEF newCount, keepNew, at
    <2> QED BY <2>1, <2>2, <2>3, <1>1 DEF Written, Slots
  <1>4. TypeOK'
    BY <1>1, <1>2, <1>3 DEF RingInv, TypeOK, Lesser
  <1>5. HeadIsTotal' /\ DropsOnlyWhenFull'
    BY <1>1, <1>2 DEF HeadIsTotal, DropsOnlyWhenFull, head, Lesser
  <1>6. CursorBehindHead'
    <2>1. head = pushed /\ head' = pushed + n
      BY <1>2, <1>5 DEF RingInv, HeadIsTotal
    <2>2. ASSUME NEW r \in Readers PROVE cursor[r] <= head'
      <3>1. cursor[r] \in Nat /\ cursor[r] <= pushed
        BY <2>1 DEF RingInv, TypeOK, CursorBehindHead
      <3> QED BY <3>1, <2>1, <1>1
    <2> QED BY <2>2, <1>2 DEF CursorBehindHead
  <1> QED BY <1>4, <1>5, <1>6, PushKeepsWindow DEF RingInv

\* What a demod thread does to its own cursor and block preserves the
\* invariant; the ring is not touched.
LEMMA ReaderInv ==
    ASSUME RingInv, NEW r \in Readers, Spawn(r) \/ Stop(r) \/ Demod(r)
    PROVE  RingInv'
  <1>1. UNCHANGED ringVars
    BY DEF Spawn, Stop, Demod, Resync, Read
  <1>2. HeadIsTotal' /\ DropsOnlyWhenFull' /\ head' = head
    BY <1>1 DEF RingInv, HeadIsTotal, DropsOnlyWhenFull, head, ringVars
  <1>3. WindowIntact'
    BY <1>1, <1>2 DEF RingInv, WindowIntact, ringVars
  <1>4. /\ base \in Nat /\ count \in 0..Cap /\ Cap \in Nat /\ pushed \in Nat
        /\ head = base + count /\ cursor[r] \in Nat /\ cursor[r] <= head
    BY RingAssumption DEF RingInv, TypeOK, CursorBehindHead, head
  <1>5. CASE Spawn(r)
    BY <1>1, <1>2, <1>3, <1>4, <1>5 DEF RingInv, TypeOK, CursorBehindHead, Spawn, ringVars
  <1>6. CASE Stop(r)
    BY <1>1, <1>2, <1>3, <1>4, <1>6 DEF RingInv, TypeOK, CursorBehindHead, Stop, ringVars
  <1>7. CASE Resync(r)
    BY <1>1, <1>2, <1>3, <1>4, <1>7 DEF RingInv, TypeOK, CursorBehindHead, Resync, ringVars
  <1>8. CASE Read(r)
    <2>1. PICK n \in 0..MaxRead :
             /\ cursor[r] + n <= head
             /\ Peek(cursor[r]) = [i \in 1..n |-> cursor[r] + i - 1]
      BY <1>4, <1>8, PeekIsStream DEF Read
    <2>2. n \in Nat /\ Len(Peek(cursor[r])) = n /\ Peek(cursor[r]) \in Seq(Int)
      BY <2>1, <1>4, RingAssumption
    <2>3. /\ cursor' = [cursor EXCEPT ![r] = cursor[r] + n]
          /\ out' = [out EXCEPT ![r] = Peek(cursor[r])]
          /\ running' = running
      BY <1>8, <2>2 DEF Read
    <2>4. TypeOK'
      BY <1>1, <1>4, <2>2, <2>3 DEF RingInv, TypeOK, ringVars
    <2>5. CursorBehindHead'
      BY <1>2, <1>4, <2>1, <2>2, <2>3 DEF RingInv, TypeOK, CursorBehindHead
    <2> QED BY <1>2, <1>3, <2>4, <2>5 DEF RingInv
  <1> QED BY <1>5, <1>6, <1>7, <1>8 DEF Demod

\* The invariant is preserved by every step.
LEMMA StepInv == RingInv /\ [Next]_vars => RingInv'
  <1> SUFFICES ASSUME RingInv, [Next]_vars PROVE RingInv'
    OBVIOUS
  <1>1. CASE \E n \in 0..MaxChunk : Push(n)
    BY <1>1, PushInv, RingAssumption
  <1>2. CASE \E r \in Readers : Spawn(r) \/ Stop(r) \/ Demod(r)
    BY <1>2, ReaderInv
  <1>3. CASE UNCHANGED vars
    BY <1>3 DEF vars, RingInv, TypeOK, HeadIsTotal, DropsOnlyWhenFull, WindowIntact,
                CursorBehindHead, head
  <1> QED BY <1>1, <1>2, <1>3 DEF Next

\* The inductive invariant holds in every reachable state.
LEMMA RingInvariant == Spec => []RingInv
  BY InitInv, StepInv, PTL DEF Spec

\* The ring never holds more than Cap samples, its base, count and cursors
\* stay natural numbers, and every block is a sequence of samples.
THEOREM TypeCorrect == Spec => []TypeOK
  BY RingInvariant, PTL DEF RingInv

\* The accounting of push() and of the threads: base_seq + count is the number
\* of samples ever pushed, samples are dropped only by a full ring, and no
\* cursor overtakes the pump.
THEOREM Accounting == Spec => []Accounted
  BY RingInvariant, PTL DEF RingInv, Accounted

\* Every sample of the window is in its slot, after any number of wraps and
\* pushes of any length.
THEOREM WindowAlwaysIntact == Spec => []WindowIntact
  BY RingInvariant, PTL DEF RingInv

\* A live thread's cursor moves in one step only over the samples it is
\* handed, or over samples already overwritten.
LEMMA StepSkips ==
    RingInv /\ [Next]_vars =>
      \A r \in Readers : (running[r] /\ cursor'[r] # cursor[r]) =>
          \/ out'[r] = [i \in 1..(cursor'[r] - cursor[r]) |-> cursor[r] + i - 1]
          \/ cursor[r] < cursor'[r] /\ cursor'[r] = base
  <1> SUFFICES ASSUME RingInv, [Next]_vars, NEW r \in Readers,
                      running[r], cursor'[r] # cursor[r]
               PROVE  \/ out'[r] = [i \in 1..(cursor'[r] - cursor[r]) |-> cursor[r] + i - 1]
                      \/ cursor[r] < cursor'[r] /\ cursor'[r] = base
    OBVIOUS
  <1>1. /\ base \in Nat /\ cursor \in [Readers -> Nat] /\ out \in [Readers -> Seq(Int)]
        /\ cursor[r] \in Nat /\ cursor[r] <= head
    BY DEF RingInv, TypeOK, CursorBehindHead
  <1>2. Resync(r) \/ Read(r)
    BY <1>1 DEF Next, vars, Push, readerVars, Spawn, Stop, Demod, Resync, Read
  <1>3. CASE Resync(r)
    BY <1>1, <1>3 DEF Resync
  <1>4. CASE Read(r)
    <2>1. PICK n \in 0..MaxRead :
             Peek(cursor[r]) = [i \in 1..n |-> cursor[r] + i - 1]
      BY <1>1, <1>4, PeekIsStream DEF Read
    <2>2. n \in Nat /\ Len(Peek(cursor[r])) = n
      BY <2>1, RingAssumption
    <2>3. cursor'[r] = cursor[r] + n /\ out'[r] = Peek(cursor[r])
      BY <1>1, <1>4, <2>2 DEF Read
    <2> QED BY <1>1, <2>1, <2>2, <2>3
  <1> QED BY <1>2, <1>3, <1>4

\* The action property: nothing is skipped but what overrun destroyed.
THEOREM OnlyLostSkipped == Spec => SkipsOnlyLost
  BY RingInvariant, StepSkips, PTL DEF Spec, SkipsOnlyLost

-----------------------------------------------------------------------------
(* Refinement: every step of the ring is a step of the stream.             *)

\* The oldest retained sample of the stream is base_seq.
LEMMA OldestIsBase == RingInv => Stream!Oldest = base
  BY RingAssumption DEF RingInv, TypeOK, HeadIsTotal, DropsOnlyWhenFull, head, Lesser,
                        Stream!Oldest

\* One step of the ring, seen through the refinement mapping.
LEMMA StepRefines == RingInv /\ [Next]_vars => [Stream!Next]_Stream!vars
  <1> SUFFICES ASSUME RingInv, [Next]_vars PROVE [Stream!Next]_Stream!vars
    OBVIOUS
  <1>1. /\ base \in Nat /\ count \in Nat /\ pushed \in Nat /\ head = pushed
        /\ head = base + count
        /\ \A r \in Readers : cursor[r] \in Nat /\ cursor[r] <= head
    BY DEF RingInv, TypeOK, HeadIsTotal, CursorBehindHead, head
  <1>2. ASSUME NEW n \in 0..MaxChunk, Push(n) PROVE Stream!Appended
    <2>1. n \in Nat /\ pushed' = pushed + n
      BY <1>2, RingAssumption DEF Push
    <2>2. UNCHANGED <<running, cursor, out>>
      BY <1>2 DEF Push, readerVars
    <2>3. pushed \in Nat
      BY <1>1
    <2>4. pushed' \in Nat /\ pushed' >= pushed
      BY <2>1, <2>3
    <2> QED BY <2>2, <2>4, Zenon DEF Stream!Appended
  <1>3. ASSUME NEW r \in Readers, Spawn(r) PROVE Stream!Joined(r)
    BY <1>3 DEF Spawn, ringVars, Stream!Joined
  <1>4. ASSUME NEW r \in Readers, Stop(r) PROVE Stream!Left(r)
    BY <1>4 DEF Stop, ringVars, Stream!Left
  <1>5. ASSUME NEW r \in Readers, Resync(r) PROVE Stream!Lapped(r)
    BY <1>5, OldestIsBase DEF Resync, ringVars, Stream!Lapped
  <1>6. ASSUME NEW r \in Readers, Read(r) PROVE Stream!Delivered(r)
    <2>1. running[r] /\ base <= cursor[r] /\ cursor[r] \in Nat
      BY <1>1, <1>6 DEF Read
    <2>2. PICK n \in 0..MaxRead :
             /\ cursor[r] + n <= head
             /\ n = 0 => cursor[r] = head
             /\ Peek(cursor[r]) = [i \in 1..n |-> cursor[r] + i - 1]
      BY <1>1, <2>1, PeekIsStream
    <2>3. n \in Nat /\ Len(Peek(cursor[r])) = n
          /\ Peek(cursor[r]) = Stream!Run(cursor[r], n)
      BY <2>2, RingAssumption DEF Stream!Run
    <2>4. /\ cursor' = [cursor EXCEPT ![r] = @ + n]
          /\ out' = [out EXCEPT ![r] = Stream!Run(cursor[r], n)]
          /\ UNCHANGED <<pushed, running>>
      BY <1>6, <2>3 DEF Read, ringVars
    <2> QED BY <1>1, <2>1, <2>2, <2>4, OldestIsBase DEF Stream!Delivered
  <1>7. CASE UNCHANGED vars
    BY <1>7 DEF vars, Stream!vars
  <1> QED BY <1>2, <1>3, <1>4, <1>5, <1>6, <1>7 DEF Next, Demod, Stream!Next

\* The ring, its pump and its demod threads implement the buffer-free
\* stream: readers of one slot never see torn, repeated or reordered samples.
THEOREM RefinesStream == Spec => StreamSpec
  <1>1. Init => Stream!Init
    BY DEF Init, Stream!Init
  <1> QED BY <1>1, StepRefines, RingInvariant, PTL DEF Spec, StreamSpec, Stream!Spec
=============================================================================
