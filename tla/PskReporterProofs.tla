-------------------------- MODULE PskReporterProofs --------------------------
(***************************************************************************)
(* Proofs about PskReporter, for any callsigns, frequencies, lengths and   *)
(* limits: spots are respaced, keep their order, and come in datagrams     *)
(* that a collector can read.                                              *)
(***************************************************************************)
EXTENDS PskReporter, NumberFacts, TLAPS

-----------------------------------------------------------------------------
(* The duplicate cache. *)

\* Each spot knows its place and its time ...
Numbered ==
    /\ elapsed \in Nat /\ now \in 0..elapsed /\ elapsed <= MaxElapsed
    /\ queued \in Seq(Spots) /\ Len(queued) <= MaxSpots
    /\ \A i \in DOMAIN queued : queued[i].nr = i /\ queued[i].at <= elapsed

\* ... and is remembered until it may be repeated, with an age by the clock
\* that is no more than its real one: a clock set back only makes it younger.
Remembered ==
    /\ \A k \in DOMAIN cache : cache[k] \in 0..MaxElapsed
    /\ \A i \in DOMAIN queued :
          \/ elapsed - queued[i].at >= DedupTtl
          \/ /\ Key(queued[i]) \in DOMAIN cache
             /\ now - cache[Key(queued[i])] <= elapsed - queued[i].at

SpotInv == Numbered /\ Remembered /\ Respaced

LEMMA Inserted ==
    ASSUME NEW k
    PROVE  LET c == Pruned(Stamped(k))
           IN  /\ DOMAIN c \subseteq DOMAIN cache \cup {k}
               /\ \A x \in DOMAIN c : c[x] = IF x = k THEN now ELSE cache[x]
               /\ \A x \in DOMAIN cache \cup {k} :
                     x \in DOMAIN c \/ ~(Age(IF x = k THEN now ELSE cache[x]) <= CachePrune)
PROOF
  <1> DEFINE s == Stamped(k)
             S == {x \in DOMAIN s : Age(s[x]) <= CachePrune}
  <1>1. Pruned(s) = [x \in S |-> s[x]]
    BY DEF Pruned, RestrictValues, Restrict
  <1>2. /\ DOMAIN s = DOMAIN cache \cup {k}
        /\ \A x \in DOMAIN s : s[x] = IF x = k THEN now ELSE cache[x]
    BY DEF Stamped
  <1> QED BY <1>1, <1>2

LEMMA SpotInit == Init => SpotInv
PROOF
  BY PskAssumption DEF Init, SpotInv, Numbered, Remembered, Respaced

LEMMA StampsInRange ==
    ASSUME Numbered
    PROVE  \A i \in DOMAIN queued : queued[i] \in Spots /\ queued[i].at \in 0..elapsed
PROOF
  <1> SUFFICES ASSUME NEW i \in DOMAIN queued
               PROVE  queued[i] \in Spots /\ queued[i].at \in 0..elapsed
    OBVIOUS
  <1>1. queued[i] \in Spots
    BY DEF Numbered
  <1>2. PICK t \in 0..MaxElapsed : queued[i].at = t
    BY <1>1 DEF Spots
  <1>3. elapsed \in Nat /\ queued[i].at <= elapsed
    BY DEF Numbered
  <1>4. MaxElapsed \in Nat
    BY PskAssumption
  <1> QED BY <1>1, <1>2, <1>3, <1>4

\* The step that queues a spot: the entry it writes is of age 0, an entry it
\* prunes belongs to a spot that may be repeated, and so does an entry of the
\* spot's own key that did not make it a duplicate.
LEMMA SpotQueued ==
    ASSUME SpotInv, NEW call \in Calls, NEW hz \in Frequencies, Add(call, hz)
    PROVE  SpotInv'
PROOF
  <1> DEFINE spot == [call |-> call, hz |-> hz, nr |-> Len(queued) + 1, at |-> elapsed]
             k == Key(spot)
             n == Len(queued)
  <1>1. /\ cache' = Pruned(Stamped(k)) /\ queued' = Append(queued, spot)
        /\ now' = now /\ elapsed' = elapsed /\ n < MaxSpots /\ ~Duplicate(spot)
    BY DEF Add, clock
  <1>2. /\ {MaxSpots, MaxElapsed, DedupTtl, CachePrune} \subseteq Nat
        /\ DedupTtl <= CachePrune /\ DedupTtl > 0
    BY PskAssumption
  <1>3. n \in Nat /\ queued \in Seq(Spots) /\ DOMAIN queued = 1..n /\ elapsed \in Nat /\ now \in 0..elapsed
    BY DEF SpotInv, Numbered
  <1>4. spot \in Spots
    <2>1. Len(queued) + 1 \in 1..MaxSpots /\ elapsed \in 0..MaxElapsed
      BY <1>1, <1>2, <1>3 DEF SpotInv, Numbered
    <2> QED BY <2>1 DEF Spots
  <1>5. /\ queued' \in Seq(Spots) /\ Len(queued') = n + 1 /\ DOMAIN queued' = 1..(n + 1)
        /\ queued'[n + 1] = spot
        /\ \A i \in 1..n : queued'[i] = queued[i]
    BY <1>1, <1>3, <1>4
  <1>6. Numbered'
    BY <1>1, <1>2, <1>3, <1>5 DEF SpotInv, Numbered
  <1>7. /\ DOMAIN cache' \subseteq DOMAIN cache \cup {k}
        /\ \A x \in DOMAIN cache' : cache'[x] = IF x = k THEN now ELSE cache[x]
        /\ \A x \in DOMAIN cache \cup {k} :
              x \in DOMAIN cache' \/ ~(Age(IF x = k THEN now ELSE cache[x]) <= CachePrune)
    BY <1>1, Inserted
  <1>8. \A x \in DOMAIN cache : cache[x] \in 0..MaxElapsed
    BY DEF SpotInv, Remembered
  <1>9. k \in DOMAIN cache' /\ cache'[k] = now
    BY <1>2, <1>3, <1>7 DEF Age
  <1>10. \A i \in 1..n : Key(queued'[i]) = Key(queued[i])
    BY <1>5
  <1>11. \A i \in 1..n : queued[i].at \in 0..elapsed
    BY <1>3, StampsInRange DEF SpotInv
  <1>12. ASSUME NEW i \in 1..n
         PROVE  \/ elapsed - queued[i].at >= DedupTtl
                \/ /\ Key(queued[i]) \in DOMAIN cache'
                   /\ now - cache'[Key(queued[i])] <= elapsed - queued[i].at
    <2> DEFINE x == Key(queued[i])
    <2>1. queued[i].at \in Int /\ queued[i].at <= elapsed
      BY <1>11, <1>3
    <2>2. CASE x = k
      BY <2>1, <2>2, <1>9, <1>3
    <2>3. CASE x # k
      <3>1. \/ elapsed - queued[i].at >= DedupTtl
            \/ x \in DOMAIN cache /\ now - cache[x] <= elapsed - queued[i].at
        BY <1>3 DEF SpotInv, Remembered
      <3>2. ASSUME x \in DOMAIN cache, now - cache[x] <= elapsed - queued[i].at
            PROVE  \/ elapsed - queued[i].at >= DedupTtl
                   \/ x \in DOMAIN cache' /\ cache'[x] = cache[x]
        <4>1. x \in DOMAIN cache' \/ ~(Age(cache[x]) <= CachePrune)
          BY <2>3, <3>2, <1>7
        <4>2. cache[x] \in Nat
          BY <3>2, <1>8, <1>2
        <4>3. ~(Age(cache[x]) <= CachePrune) => now - cache[x] > CachePrune
          BY <4>2, <1>2, <1>3 DEF Age
        <4> QED BY <4>1, <4>2, <4>3, <3>2, <2>1, <2>3, <1>2, <1>3, <1>7
      <3> QED BY <3>1, <3>2
    <2> QED BY <2>2, <2>3
  <1>13. Remembered'
    <2>1. \A x \in DOMAIN cache' : cache'[x] \in 0..MaxElapsed
      BY <1>2, <1>3, <1>7, <1>8 DEF SpotInv, Numbered
    <2>2. ASSUME NEW i \in 1..(n + 1)
          PROVE  \/ elapsed' - queued'[i].at >= DedupTtl
                 \/ /\ Key(queued'[i]) \in DOMAIN cache'
                    /\ now' - cache'[Key(queued'[i])] <= elapsed' - queued'[i].at
      <3>1. CASE i = n + 1
        <4>1. now' - cache'[k] = 0 /\ elapsed' - queued'[n + 1].at = 0
          BY <1>1, <1>3, <1>5, <1>9
        <4>2. Key(queued'[i]) = k
          BY <3>1, <1>5
        <4> QED BY <3>1, <4>1, <4>2, <1>9
      <3>2. CASE i \in 1..n
        <4>1. queued'[i] = queued[i] /\ Key(queued'[i]) = Key(queued[i])
          BY <3>2, <1>5
        <4> QED BY <4>1, <3>2, <1>1, <1>12
      <3> QED BY <3>1, <3>2, <1>3
    <2> QED BY <2>1, <2>2, <1>5 DEF Remembered, Key
  <1>14. Respaced'
    <2> SUFFICES ASSUME NEW i \in 1..(n + 1), NEW j \in 1..(n + 1), i < j,
                        Key(queued'[i]) = Key(queued'[j]), ~Exempt(queued'[j].hz)
                 PROVE  queued'[j].at - queued'[i].at >= DedupTtl
      BY <1>5 DEF Respaced, Key, Exempt
    <2>1. CASE j \in 1..n
      <3>1. i \in 1..n
        BY <2>1, <1>3
      <3>2. queued'[i] = queued[i] /\ queued'[j] = queued[j]
        BY <3>1, <2>1, <1>5
      <3> QED BY <3>1, <3>2, <2>1, <1>3 DEF SpotInv, Respaced
    <2>2. CASE j = n + 1
      <3>1. i \in 1..n
        BY <2>2, <1>3
      <3>2. queued'[i] = queued[i] /\ queued'[j] = spot /\ queued'[j].at = elapsed
        BY <3>1, <2>2, <1>5
      <3>3. Key(queued[i]) = k /\ ~Exempt(spot.hz)
        BY <3>2
      <3>4. k \notin DOMAIN cache \/ ~(Age(cache[k]) < DedupTtl)
        BY <3>3, <1>1 DEF Duplicate
      <3>5. \/ elapsed - queued[i].at >= DedupTtl
            \/ k \in DOMAIN cache /\ now - cache[k] <= elapsed - queued[i].at
        BY <3>1, <3>3, <1>3 DEF SpotInv, Remembered
      <3>6. k \in DOMAIN cache => cache[k] \in Nat
        BY <1>8, <1>2
      <3>7. ~(Age(cache[k]) < DedupTtl) /\ k \in DOMAIN cache => now - cache[k] >= DedupTtl
        BY <3>6, <1>2, <1>3 DEF Age
      <3>8. queued[i].at \in Int
        BY <3>1, <1>11, <1>3
      <3> QED BY <3>2, <3>4, <3>5, <3>6, <3>7, <3>8, <1>2, <1>3
    <2> QED BY <2>1, <2>2, <1>3
  <1> QED BY <1>6, <1>13, <1>14 DEF SpotInv

LEMMA SpotStep == SpotInv /\ [Next]_vars => SpotInv'
PROOF
  <1> SUFFICES ASSUME SpotInv, [Next]_vars PROVE SpotInv'
    OBVIOUS
  <1> USE DEF SpotInv
  <1>0. {MaxElapsed, DedupTtl} \subseteq Nat
    BY PskAssumption
  <1>1. ASSUME NEW call \in Calls, NEW hz \in Frequencies, Add(call, hz) PROVE SpotInv'
    BY <1>1, SpotQueued
  <1>2. CASE UNCHANGED <<now, elapsed, cache, queued>>
    BY <1>2 DEF Numbered, Remembered, Respaced, Key, Exempt
  <1>3. ASSUME elapsed' \in Nat, now' \in 0..elapsed', elapsed' <= MaxElapsed,
               UNCHANGED <<cache, queued>>,
               elapsed' >= elapsed, now' - now <= elapsed' - elapsed
        PROVE  SpotInv'
    <2>0. elapsed \in Nat /\ now \in Int /\ elapsed' \in Int /\ now' \in Int
      BY <1>3 DEF Numbered
    <2>1. \A i \in DOMAIN queued : queued[i].at \in Int
      BY <2>0, StampsInRange
    <2>2. \A k \in DOMAIN cache : cache[k] \in Int
      BY <1>0 DEF Remembered
    <2>3. Numbered'
      BY <2>0, <2>1, <1>3, <1>0 DEF Numbered
    <2>4. Remembered'
      <3> SUFFICES ASSUME NEW i \in DOMAIN queued
                   PROVE  \/ elapsed' - queued[i].at >= DedupTtl
                          \/ /\ Key(queued[i]) \in DOMAIN cache
                             /\ now' - cache[Key(queued[i])] <= elapsed' - queued[i].at
        BY <1>3 DEF Remembered, Key
      <3>1. \/ elapsed - queued[i].at >= DedupTtl
            \/ /\ Key(queued[i]) \in DOMAIN cache
               /\ now - cache[Key(queued[i])] <= elapsed - queued[i].at
        BY DEF Remembered
      <3>2. queued[i].at \in Int
        BY <2>1
      <3>3. CASE elapsed - queued[i].at >= DedupTtl
        BY <3>3, <3>2, <2>0, <1>3, <1>0
      <3>4. CASE Key(queued[i]) \in DOMAIN cache /\ now - cache[Key(queued[i])] <= elapsed - queued[i].at
        <4>1. PICK c \in Int : c = cache[Key(queued[i])]
          BY <3>4, <2>2
        <4>2. PICK t \in Int : t = queued[i].at
          BY <3>2
        <4>3. now - c <= elapsed - t
          BY <3>4, <4>1, <4>2
        <4>4. now' - now <= elapsed' - elapsed
          BY <1>3
        <4>5. \A n, e, m, f \in Int : n - c <= e - t /\ m - n <= f - e => m - c <= f - t
          OBVIOUS
        <4>6. now \in Int /\ elapsed \in Int /\ now' \in Int /\ elapsed' \in Int
          BY <2>0
        <4>7. now' - c <= elapsed' - t
          BY <4>3, <4>4, <4>5, <4>6
        <4> QED BY <4>1, <4>2, <4>7, <3>4
      <3> QED BY <3>1, <3>3, <3>4
    <2> QED BY <2>3, <2>4, <1>3 DEF Respaced, Key, Exempt
  <1>4. CASE Elapse
    BY <1>4, <1>3, <1>0 DEF Elapse, spots, Numbered
  <1>5. CASE SetBack
    <2>1. elapsed \in Nat /\ now \in 0..elapsed /\ elapsed <= MaxElapsed /\ elapsed' = elapsed
      BY <1>5 DEF SetBack, Numbered
    <2>2. now' \in 0..(now - 1) /\ UNCHANGED <<cache, queued>>
      BY <1>5 DEF SetBack, spots
    <2>3. PICK t \in 0..(now - 1) : now' = t
      BY <2>2
    <2>4. t \in 0..elapsed /\ t - now <= elapsed - elapsed
      BY <2>1
    <2>5. now' \in 0..elapsed' /\ now' - now <= elapsed' - elapsed
      BY <2>1, <2>3, <2>4
    <2> QED BY <2>1, <2>2, <2>5, <1>3
  <1>6. CASE Sender
    BY <1>6, <1>2 DEF Sender, Connect, Tick, Send, SendFails, Finish, clock, spots
  <1>7. CASE UNCHANGED vars
    BY <1>7, <1>2 DEF vars, clock, spots
  <1> QED BY <1>1, <1>4, <1>5, <1>6, <1>7 DEF Next

LEMMA SpotHolds == Spec => []SpotInv
PROOF
  BY SpotInit, SpotStep, PTL DEF Spec

\* A callsign is not queued on an HF band again before DedupTtl has really
\* passed (PskReporter::add), for any clock that is set back at any time and
\* any age at which the cache is pruned that is not below DedupTtl.
THEOREM SpotsRespaced == Spec => []Respaced
PROOF
  <1>1. SpotInv => Respaced
    BY DEF SpotInv
  <1> QED BY <1>1, SpotHolds, PTL

-----------------------------------------------------------------------------
(* The datagrams of a report. *)

SumOf(g, f) ==
    /\ f \in [0..Len(g) -> Nat] /\ f[0] = 0
    /\ \A n \in 1..Len(g) : f[n] = f[n - 1] + RecordBytes[g[n].call]

LEMMA SpotBytes ==
    \A spot \in Spots : RecordBytes[spot.call] \in Nat
PROOF
  <1> SUFFICES ASSUME NEW spot \in Spots PROVE RecordBytes[spot.call] \in Nat
    OBVIOUS
  <1>1. spot.call \in Calls
    BY DEF Spots
  <1>2. RecordBytes \in [Calls -> Nat \ {0}]
    BY PskAssumption
  <1> QED BY <1>1, <1>2

LEMMA BytesIsSum ==
    ASSUME NEW g \in Seq(Spots)
    PROVE  \E f : SumOf(g, f) /\ Bytes(g) = f[Len(g)]
PROOF
  <1> DEFINE N == Len(g)
             body(f) == [n \in 0..N |-> IF n = 0 THEN 0 ELSE f[n - 1] + RecordBytes[g[n].call]]
             step == [n \in 1..N |-> [s \in Nat |-> s + RecordBytes[g[n].call]]]
  <1>1. N \in Nat /\ DOMAIN g = 1..N
    OBVIOUS
  <1>2. \A n \in 1..N : RecordBytes[g[n].call] \in Nat
    BY <1>1, SpotBytes
  <1>3. step \in [1..N -> [Nat -> Nat]]
    BY <1>2
  <1>4. PICK h : IsRecursion(h, Nat, 0, N, step)
    <2> HIDE DEF step, N
    <2>1. 0 \in Nat
      OBVIOUS
    <2> QED BY <1>1, <1>3, <2>1, RecursionTo, Zenon
  <1>5. ASSUME NEW n \in 1..N PROVE h[n] = h[n - 1] + RecordBytes[g[n].call] /\ n # 0
    <2>1. h[n - 1] \in Nat /\ n # 0
      BY <1>1, <1>4 DEF IsRecursion
    <2>2. \A s \in Nat : step[n][s] = s + RecordBytes[g[n].call]
      OBVIOUS
    <2>3. h[n] = step[n][h[n - 1]]
      BY <1>4 DEF IsRecursion
    <2> HIDE DEF step
    <2> QED BY <2>1, <2>2, <2>3
  <1>6. h = body(h)
    <2>1. \A n \in 0..N : h[n] = body(h)[n]
      <3> SUFFICES ASSUME NEW n \in 0..N PROVE h[n] = body(h)[n]
        OBVIOUS
      <3>1. CASE n = 0
        BY <3>1, <1>4 DEF IsRecursion
      <3>2. CASE n # 0
        <4>1. n \in 1..N
          BY <3>2, <1>1
        <4> QED BY <4>1, <1>5
      <3> QED BY <3>1, <3>2
    <2> QED BY <2>1, <1>4 DEF IsRecursion
  <1> DEFINE f == CHOOSE f : f = body(f)
  <1>7. f = body(f)
    BY <1>6
  <1>8. Bytes(g) = f[N]
    BY DEF Bytes
  <1> HIDE DEF f
  <1>9. f[0] = 0 /\ \A n \in 1..N : f[n] = f[n - 1] + RecordBytes[g[n].call]
    <2>1. 0 \in 0..N /\ \A n \in 1..N : n \in 0..N /\ n # 0
      BY <1>1
    <2> QED BY <2>1, <1>7
  <1>10. f \in [0..N -> Nat]
    <2> DEFINE G == {n \in 0..N : f[n] \in Nat}
    <2>1. 0 \in G
      BY <1>1, <1>9
    <2>2. \A n \in 1..N : n - 1 \in G => n \in G
      BY <1>1, <1>2, <1>9
    <2>3. \A n \in 0..N : n \in G
      <3> HIDE DEF G
      <3> QED BY <1>1, <2>1, <2>2, UpTo
    <2>4. \A n \in 0..N : f[n] \in Nat
      BY <2>3
    <2>5. DOMAIN f = 0..N /\ f = [n \in DOMAIN f |-> f[n]]
      BY <1>7
    <2> QED BY <2>4, <2>5
  <1> QED BY <1>8, <1>9, <1>10 DEF SumOf

LEMMA BytesGrow ==
    ASSUME NEW g \in Seq(Spots), NEW spot \in Spots
    PROVE  /\ Bytes(g) \in Nat
           /\ Bytes(Append(g, spot)) = Bytes(g) + RecordBytes[spot.call]
PROOF
  <1> DEFINE N == Len(g)
             h == Append(g, spot)
  <1>1. PICK s : SumOf(g, s) /\ Bytes(g) = s[N]
    BY BytesIsSum
  <1>2. h \in Seq(Spots) /\ Len(h) = N + 1 /\ N \in Nat /\ h[N + 1] = spot
        /\ \A n \in 1..N : h[n] = g[n]
    OBVIOUS
  <1>3. PICK t : SumOf(h, t) /\ Bytes(h) = t[Len(h)]
    BY <1>2, BytesIsSum
  <1> DEFINE G == {n \in 0..N : t[n] = s[n]}
  <1>4. 0 \in G
    BY <1>1, <1>2, <1>3 DEF SumOf
  <1>5. ASSUME NEW n \in 1..N, n - 1 \in G PROVE n \in G
    <2>1. n \in 1..Len(g) /\ n \in 1..Len(h) /\ n \in 0..N /\ h[n] = g[n]
      BY <1>2
    <2>2. t[n - 1] = s[n - 1]
      BY <1>5
    <2>3. t[n] = t[n - 1] + RecordBytes[h[n].call] /\ s[n] = s[n - 1] + RecordBytes[g[n].call]
      BY <1>1, <1>3, <2>1 DEF SumOf
    <2> QED BY <2>1, <2>2, <2>3
  <1>6. \A n \in 0..N : n \in G
    <2> HIDE DEF G
    <2>1. \A n \in 1..N : n - 1 \in G => n \in G
      BY <1>5
    <2> QED BY <1>2, <1>4, <2>1, UpTo
  <1>7. t[N] = s[N] /\ N \in 0..N
    BY <1>2, <1>6
  <1>8. t[N + 1] = t[N + 1 - 1] + RecordBytes[h[N + 1].call]
    BY <1>2, <1>3 DEF SumOf
  <1>9. N + 1 - 1 = N
    BY <1>2
  <1>10. s[N] \in Nat
    BY <1>1, <1>7 DEF SumOf
  <1> QED BY <1>1, <1>2, <1>3, <1>7, <1>8, <1>9, <1>10

LEMMA EmptyBytes == Bytes(<< >>) = 0
PROOF
  <1>1. << >> \in Seq(Spots) /\ Len(<< >>) = 0
    OBVIOUS
  <1>2. PICK s : SumOf(<< >>, s) /\ Bytes(<< >>) = s[0]
    BY <1>1, BytesIsSum
  <1> QED BY <1>2 DEF SumOf

\* Datagrams of any number: the sequence counter is not bounded in them.
AnyPackets == [descriptors : BOOLEAN, seq : Nat, spots : Seq(Spots)]

\* The number after a datagram's spots.
After(packet) == packet.seq + Len(packet.spots)

Fits(packet) ==
    \/ DatagramBytes(packet.descriptors, packet.spots) <= MaxPayload
    \/ Len(packet.spots) = 1

\* Datagrams of one socket: they are numbered without a gap and each fits.
InSequence(q) ==
    /\ q \in Seq(AnyPackets)
    /\ \A i, j \in 1..Len(q) : i < j => After(q[i]) <= q[j].seq
    /\ \A i \in 1..Len(q), j \in 1..Len(q) : j = i + 1 => q[j].seq = After(q[i])
    /\ \A i \in 1..Len(q) : Fits(q[i])

\* The datagrams q hold the first n spots of a batch, from the number `first'.
Holds(withDescriptors, batch, first, n, q) ==
    /\ InSequence(q)
    /\ n = 0 => q = << >>
    /\ n > 0 => /\ Len(q) > 0
                /\ q[1].descriptors = withDescriptors /\ q[1].seq = first
                /\ After(q[Len(q)]) = first + n
    /\ \A i \in 1..Len(q) : \A k \in 1..Len(q[i].spots) :
          /\ q[i].seq - first + k \in 1..n
          /\ q[i].spots[k] = batch[q[i].seq - first + k]

PacketStarted(wd, first, q, spot, r) ==
    LET p == r[Len(q) + 1]
    IN  /\ Len(r) = Len(q) + 1
        /\ \A i \in 1..Len(q) : r[i] = q[i]
        /\ p.descriptors = (wd /\ q = << >>)
        /\ p.seq = IF q = << >> THEN first ELSE After(q[Len(q)])
        /\ p.spots = <<spot>>

PacketExtended(q, spot, r) ==
    LET L == Len(q)
    IN  /\ L > 0 /\ Len(r) = L
        /\ \A i \in 1..L : i # L => r[i] = q[i]
        /\ r[L].descriptors = q[L].descriptors /\ r[L].seq = q[L].seq
        /\ r[L].spots = Append(q[L].spots, spot)
        /\ Fits(r[L])

LEMMA JoinShape ==
    ASSUME NEW wd \in BOOLEAN, NEW first \in Nat, NEW q \in Seq(AnyPackets), NEW spot \in Spots
    PROVE  LET r == Joined(wd, first, q, spot)
           IN  /\ r \in Seq(AnyPackets)
               /\ PacketStarted(wd, first, q, spot, r) \/ PacketExtended(q, spot, r)
PROOF
  <1> DEFINE r == Joined(wd, first, q, spot)
             L == Len(q)
             last == q[L]
             grown == Append(last.spots, spot)
             full == \/ q = << >>
                     \/ Fit(last.descriptors, Bytes(last.spots) + RecordBytes[spot.call]) > MaxPayload
             p == [descriptors |-> wd /\ q = << >>,
                   seq |-> IF q = << >> THEN first ELSE After(last),
                   spots |-> <<spot>>]
             l == [last EXCEPT !.spots = grown]
  <1>1. r = IF full THEN Append(q, p) ELSE [q EXCEPT ![L] = l]
    BY DEF Joined, Last, After
  <1>2. L \in Nat /\ DOMAIN q = 1..L /\ (q # << >> => L > 0 /\ L \in 1..L)
    OBVIOUS
  <1>3. ASSUME L > 0
        PROVE  /\ last \in AnyPackets /\ last.descriptors \in BOOLEAN /\ last.seq \in Nat
               /\ last.spots \in Seq(Spots) /\ Len(last.spots) \in Nat /\ After(last) \in Nat
    <2>1. last \in AnyPackets
      BY <1>2, <1>3
    <2>2. last.descriptors \in BOOLEAN /\ last.seq \in Nat /\ last.spots \in Seq(Spots)
      BY <2>1 DEF AnyPackets
    <2>3. Len(last.spots) \in Nat
      BY <2>2
    <2> QED BY <2>1, <2>2, <2>3 DEF After
  <1>4. CASE full
    <2>1. p \in AnyPackets
      <3>1. (IF q = << >> THEN first ELSE After(last)) \in Nat
        BY <1>2, <1>3
      <3>2. <<spot>> \in Seq(Spots) /\ (wd /\ q = << >>) \in BOOLEAN
        OBVIOUS
      <3> HIDE DEF last
      <3> QED BY <3>1, <3>2 DEF AnyPackets
    <2>2. p.descriptors = (wd /\ q = << >>) /\ p.spots = <<spot>>
          /\ p.seq = IF q = << >> THEN first ELSE After(last)
      OBVIOUS
    <2> HIDE DEF p
    <2>3. r = Append(q, p)
      BY <1>1, <1>4
    <2>4. r \in Seq(AnyPackets) /\ Len(r) = L + 1 /\ r[L + 1] = p /\ \A i \in 1..L : r[i] = q[i]
      BY <2>1, <2>3, <1>2
    <2> QED BY <2>2, <2>4 DEF PacketStarted
  <1>5. CASE ~full
    <2>0. L > 0 /\ L \in 1..L
      BY <1>2, <1>5
    <2>1. grown \in Seq(Spots)
      BY <2>0, <1>3
    <2>2. PICK z \in AnyPackets : z = last
      BY <2>0, <1>3
    <2>3. l \in AnyPackets /\ l.descriptors = last.descriptors /\ l.seq = last.seq /\ l.spots = grown
      <3>1. l = [z EXCEPT !.spots = grown]
        BY <2>2
      <3> HIDE DEF grown, l, last
      <3> QED BY <2>1, <2>2, <3>1 DEF AnyPackets
    <2>4. Bytes(last.spots) \in Nat /\ Bytes(grown) = Bytes(last.spots) + RecordBytes[spot.call]
      BY <2>0, <1>3, BytesGrow
    <2>5. Fits(l)
      <3>1. ~(Fit(last.descriptors, Bytes(grown)) > MaxPayload)
        BY <1>5, <2>4
      <3>2. ReceiverBytes \in Nat /\ DescriptorBytes \in Nat /\ MaxPayload \in Nat
        BY PskAssumption
      <3>3. RecordBytes[spot.call] \in Nat
        BY SpotBytes
      <3>4. PICK b \in Nat : b = BaseBytes(last.descriptors)
        BY <3>2 DEF BaseBytes
      <3>5. PICK m \in Nat : m = Bytes(grown)
        BY <2>4, <3>3
      <3>6. \A x \in Nat : Padded(x) \in Nat
        BY DEF Padded
      <3>7. Fit(last.descriptors, Bytes(grown)) = Padded(HeaderBytes + b + Padded(4 + m))
        BY <3>4, <3>5 DEF Fit
      <3>8. Fit(last.descriptors, Bytes(grown)) \in Nat
        <4>1. Padded(4 + m) \in Nat
          BY <3>6
        <4>2. HeaderBytes + b + Padded(4 + m) \in Nat
          BY <4>1 DEF HeaderBytes
        <4> QED BY <4>2, <3>6, <3>7
      <3>9. Fit(last.descriptors, Bytes(grown)) <= MaxPayload
        BY <3>1, <3>2, <3>8
      <3>10. DatagramBytes(l.descriptors, l.spots) = Fit(last.descriptors, Bytes(grown))
        BY <2>3 DEF DatagramBytes, Fit
      <3> QED BY <3>9, <3>10 DEF Fits
    <2> HIDE DEF l, grown
    <2>6. r = [q EXCEPT ![L] = l]
      BY <1>1, <1>5
    <2>7. r \in Seq(AnyPackets) /\ Len(r) = L /\ r[L] = l /\ \A i \in 1..L : i # L => r[i] = q[i]
      BY <2>0, <2>3, <2>6, <1>2
    <2> QED BY <2>0, <2>3, <2>5, <2>7 DEF PacketExtended, grown
  <1> QED BY <1>4, <1>5

\* What the readers of a datagram need to know of its fields.
LEMMA PacketFields ==
    ASSUME NEW q \in Seq(AnyPackets), NEW i \in 1..Len(q)
    PROVE  /\ q[i] \in AnyPackets /\ q[i].descriptors \in BOOLEAN /\ q[i].seq \in Nat
           /\ q[i].spots \in Seq(Spots) /\ Len(q[i].spots) \in Nat /\ After(q[i]) \in Nat
           /\ q[i].seq <= After(q[i])
PROOF
  <1>1. q[i] \in AnyPackets
    OBVIOUS
  <1>2. q[i].descriptors \in BOOLEAN /\ q[i].seq \in Nat /\ q[i].spots \in Seq(Spots)
    BY <1>1 DEF AnyPackets
  <1>3. Len(q[i].spots) \in Nat
    BY <1>2
  <1> QED BY <1>1, <1>2, <1>3 DEF After

LEMMA JoinHolds ==
    ASSUME NEW wd \in BOOLEAN, NEW first \in Nat, NEW batch \in Seq(Spots),
           NEW n \in 1..Len(batch), NEW q, Holds(wd, batch, first, n - 1, q)
    PROVE  Holds(wd, batch, first, n, Joined(wd, first, q, batch[n]))
PROOF
  <1> DEFINE spot == batch[n]
             r == Joined(wd, first, q, spot)
             L == Len(q)
  <1>1. q \in Seq(AnyPackets) /\ InSequence(q) /\ spot \in Spots /\ n \in Nat /\ L \in Nat
    BY DEF Holds, InSequence
  <1>2. /\ r \in Seq(AnyPackets)
        /\ PacketStarted(wd, first, q, spot, r) \/ PacketExtended(q, spot, r)
    BY <1>1, JoinShape
  <1> HIDE DEF r, L, spot
  <1>3. /\ L = 0 => n = 1 /\ q = << >>
        /\ L > 0 => After(q[L]) = first + n - 1 /\ q[1].descriptors = wd /\ q[1].seq = first /\ q # << >>
    <2>1. L = 0 => n - 1 = 0 /\ q = << >>
      BY <1>1 DEF Holds, L
    <2>2. L > 0 => n - 1 > 0 /\ q # << >>
      BY <1>1 DEF Holds, L
    <2> QED BY <2>1, <2>2, <1>1 DEF Holds, L
  <1>4. \A i \in 1..L : /\ q[i].descriptors \in BOOLEAN /\ q[i].seq \in Nat /\ q[i].spots \in Seq(Spots)
                        /\ Len(q[i].spots) \in Nat /\ After(q[i]) \in Nat /\ q[i].seq <= After(q[i])
    BY <1>1, PacketFields DEF L
  <1>5. \A i \in 1..L : \A k \in 1..Len(q[i].spots) :
           /\ q[i].seq - first + k \in 1..(n - 1)
           /\ q[i].spots[k] = batch[q[i].seq - first + k]
    BY DEF Holds, L
  <1>6. \A i \in 1..L : After(q[i]) <= first + n - 1
    <2> SUFFICES ASSUME NEW i \in 1..L PROVE After(q[i]) <= first + n - 1
      OBVIOUS
    <2>1. L \in 1..L /\ L > 0
      BY <1>1
    <2>2. CASE i = L
      BY <2>1, <2>2, <1>1, <1>3
    <2>3. CASE i # L
      <3>1. i < L
        BY <2>3, <1>1
      <3>2. After(q[i]) <= q[L].seq
        BY <2>1, <3>1, <1>1 DEF InSequence, L
      <3> QED BY <2>1, <3>2, <1>1, <1>3, <1>4
    <2> QED BY <2>2, <2>3
  <1>7. CASE PacketStarted(wd, first, q, spot, r)
    <2>1. /\ Len(r) = L + 1 /\ \A i \in 1..L : r[i] = q[i]
          /\ r[L + 1].descriptors = (wd /\ q = << >>) /\ r[L + 1].spots = <<spot>>
          /\ r[L + 1].seq = IF q = << >> THEN first ELSE After(q[L])
      BY <1>7 DEF PacketStarted, L
    <2>2. r[L + 1].seq = first + n - 1 /\ Len(r[L + 1].spots) = 1 /\ After(r[L + 1]) = first + n
      <3>1. r[L + 1].seq = first + n - 1
        BY <2>1, <1>1, <1>3
      <3>2. Len(r[L + 1].spots) = 1
        BY <2>1
      <3> QED BY <3>1, <3>2, <1>1 DEF After
    <2>3. InSequence(r)
      <3>1. \A i, j \in 1..(L + 1) : i < j => After(r[i]) <= r[j].seq
        <4> SUFFICES ASSUME NEW i \in 1..(L + 1), NEW j \in 1..(L + 1), i < j
                     PROVE  After(r[i]) <= r[j].seq
          OBVIOUS
        <4>1. i \in 1..L /\ r[i] = q[i]
          BY <1>1, <2>1
        <4>2. CASE j = L + 1
          BY <4>1, <4>2, <1>6, <2>2
        <4>3. CASE j \in 1..L
          BY <4>1, <4>3, <1>1, <2>1 DEF InSequence, L
        <4> QED BY <4>2, <4>3, <1>1
      <3>2. \A i, j \in 1..(L + 1) : j = i + 1 => r[j].seq = After(r[i])
        <4> SUFFICES ASSUME NEW i \in 1..(L + 1), NEW j \in 1..(L + 1), j = i + 1
                     PROVE  r[j].seq = After(r[i])
          OBVIOUS
        <4>1. i \in 1..L /\ r[i] = q[i]
          BY <1>1, <2>1
        <4>2. CASE j = L + 1
          <5>1. i = L /\ L > 0
            BY <4>1, <4>2, <1>1
          <5> QED BY <5>1, <4>1, <4>2, <1>3, <2>2
        <4>3. CASE j \in 1..L
          BY <4>1, <4>3, <1>1, <2>1 DEF InSequence, L
        <4> QED BY <4>2, <4>3, <1>1
      <3>3. \A i \in 1..(L + 1) : Fits(r[i])
        <4> SUFFICES ASSUME NEW i \in 1..(L + 1) PROVE Fits(r[i])
          OBVIOUS
        <4>1. CASE i = L + 1
          BY <4>1, <2>2 DEF Fits
        <4>2. CASE i \in 1..L
          BY <4>2, <2>1, <1>1 DEF InSequence, L
        <4> QED BY <4>1, <4>2, <1>1
      <3> QED BY <1>2, <2>1, <3>1, <3>2, <3>3 DEF InSequence
    <2>4. r[1].descriptors = wd /\ r[1].seq = first
      <3>1. CASE L = 0
        BY <3>1, <1>3, <2>1
      <3>2. CASE L > 0
        <4>1. r[1] = q[1]
          BY <3>2, <2>1, <1>1
        <4> QED BY <4>1, <3>2, <1>3
      <3> QED BY <3>1, <3>2, <1>1
    <2>5. ASSUME NEW i \in 1..(L + 1), NEW k \in 1..Len(r[i].spots)
          PROVE  r[i].seq - first + k \in 1..n /\ r[i].spots[k] = batch[r[i].seq - first + k]
      <3>1. CASE i = L + 1
        <4>1. k = 1 /\ r[i].seq - first + k = n
          BY <3>1, <2>2, <1>1
        <4>2. r[i].spots[k] = spot
          BY <3>1, <4>1, <2>1
        <4> QED BY <4>1, <4>2, <1>1 DEF spot
      <3>2. CASE i \in 1..L
        <4>1. r[i] = q[i]
          BY <3>2, <2>1
        <4>2. q[i].seq - first + k \in 1..(n - 1) /\ q[i].spots[k] = batch[q[i].seq - first + k]
          BY <3>2, <4>1, <1>5
        <4> QED BY <4>1, <4>2, <1>1
      <3> QED BY <3>1, <3>2, <1>1
    <2> QED BY <2>1, <2>2, <2>3, <2>4, <2>5, <1>1 DEF Holds, r, spot
  <1>8. CASE PacketExtended(q, spot, r)
    <2>1. /\ L > 0 /\ Len(r) = L /\ \A i \in 1..L : i # L => r[i] = q[i]
          /\ r[L].descriptors = q[L].descriptors /\ r[L].seq = q[L].seq
          /\ r[L].spots = Append(q[L].spots, spot) /\ Fits(r[L]) /\ L \in 1..L
      BY <1>8, <1>1 DEF PacketExtended, L
    <2>2. /\ Len(r[L].spots) = Len(q[L].spots) + 1 /\ After(r[L]) = first + n
          /\ r[L].spots[Len(q[L].spots) + 1] = spot
          /\ \A k \in 1..Len(q[L].spots) : r[L].spots[k] = q[L].spots[k]
      <3>1. q[L].spots \in Seq(Spots) /\ Len(q[L].spots) \in Nat /\ q[L].seq \in Nat
        BY <2>1, <1>4
      <3>2. /\ Len(r[L].spots) = Len(q[L].spots) + 1
            /\ r[L].spots[Len(q[L].spots) + 1] = spot
            /\ \A k \in 1..Len(q[L].spots) : r[L].spots[k] = q[L].spots[k]
        BY <2>1, <3>1, <1>1
      <3>3. q[L].seq + Len(q[L].spots) = first + n - 1
        BY <2>1, <1>3 DEF After
      <3>4. r[L].seq + (Len(q[L].spots) + 1) = first + n
        <4>1. PICK a \in Nat : a = q[L].seq
          BY <3>1
        <4>2. PICK b \in Nat : b = Len(q[L].spots)
          BY <3>1
        <4>3. a + b = first + n - 1 /\ r[L].seq = a
          BY <4>1, <4>2, <3>3, <2>1
        <4>4. a + (b + 1) = first + n
          BY <4>3, <1>1
        <4> QED BY <4>2, <4>3, <4>4
      <3> QED BY <3>2, <3>4 DEF After
    <2>3. \A i \in 1..L : r[i].seq = q[i].seq
      BY <2>1
    <2>4. InSequence(r)
      <3>1. \A i, j \in 1..L : i < j => r[i] = q[i] /\ After(r[i]) <= r[j].seq
        <4> SUFFICES ASSUME NEW i \in 1..L, NEW j \in 1..L, i < j
                     PROVE  r[i] = q[i] /\ After(r[i]) <= r[j].seq
          OBVIOUS
        <4>1. i # L
          BY <1>1
        <4>2. After(q[i]) <= q[j].seq
          BY <1>1 DEF InSequence, L
        <4> QED BY <4>1, <4>2, <2>1, <2>3
      <3>2. \A i, j \in 1..L : j = i + 1 => r[j].seq = After(r[i])
        <4> SUFFICES ASSUME NEW i \in 1..L, NEW j \in 1..L, j = i + 1
                     PROVE  r[j].seq = After(r[i])
          OBVIOUS
        <4>1. i < j
          BY <1>1
        <4>2. q[j].seq = After(q[i])
          BY <1>1 DEF InSequence, L
        <4> QED BY <4>1, <4>2, <3>1, <2>3
      <3>3. \A i \in 1..L : Fits(r[i])
        BY <2>1, <1>1 DEF InSequence, L
      <3> QED BY <1>2, <2>1, <3>1, <3>2, <3>3 DEF InSequence
    <2>5. r[1].descriptors = wd /\ r[1].seq = first
      BY <2>1, <1>1, <1>3
    <2>6. ASSUME NEW i \in 1..L, NEW k \in 1..Len(r[i].spots)
          PROVE  r[i].seq - first + k \in 1..n /\ r[i].spots[k] = batch[r[i].seq - first + k]
      <3>1. CASE i = L /\ k = Len(q[L].spots) + 1
        <4>1. q[L].seq + Len(q[L].spots) = first + n - 1 /\ q[L].seq \in Nat /\ Len(q[L].spots) \in Nat
          BY <2>1, <1>3, <1>4 DEF After
        <4>2. PICK a \in Nat : a = q[L].seq
          BY <4>1
        <4>3. PICK b \in Nat : b = Len(q[L].spots)
          BY <4>1
        <4>4. a + b = first + n - 1 /\ r[i].seq = a /\ k = b + 1
          BY <4>1, <4>2, <4>3, <3>1, <2>1
        <4>5. a - first + (b + 1) = n
          BY <4>4, <1>1
        <4>6. r[i].seq - first + k = n
          BY <4>4, <4>5
        <4> QED BY <4>6, <3>1, <2>2, <1>1 DEF spot
      <3>2. CASE ~(i = L /\ k = Len(q[L].spots) + 1)
        <4>1. k \in 1..Len(q[i].spots) /\ r[i].spots[k] = q[i].spots[k]
          <5>1. CASE i = L
            <6>1. Len(q[L].spots) \in Nat /\ Len(r[L].spots) = Len(q[L].spots) + 1
              BY <2>1, <2>2, <1>4
            <6>2. k \in 1..(Len(q[L].spots) + 1) /\ k # Len(q[L].spots) + 1
              BY <5>1, <6>1, <3>2
            <6>3. k \in 1..Len(q[L].spots)
              BY <6>1, <6>2
            <6> QED BY <5>1, <6>3, <2>2
          <5>2. CASE i # L
            <6>1. r[i] = q[i]
              BY <5>2, <2>1
            <6> QED BY <6>1
          <5> QED BY <5>1, <5>2
        <4>2. q[i].seq - first + k \in 1..(n - 1) /\ q[i].spots[k] = batch[q[i].seq - first + k]
          BY <4>1, <1>5
        <4>3. q[i].seq - first + k \in 1..n
          BY <4>2, <1>1
        <4>4. r[i].seq = q[i].seq
          BY <2>3
        <4> QED BY <4>1, <4>2, <4>3, <4>4
      <3> QED BY <3>1, <3>2
    <2> QED BY <2>1, <2>2, <2>4, <2>5, <2>6, <1>1 DEF Holds, r, spot
  <1> QED BY <1>2, <1>7, <1>8

\* What build_packets returns: all of the batch, each spot once and in order,
\* in datagrams that fit and are numbered without a gap.
LEMMA BuildHolds ==
    ASSUME NEW wd \in BOOLEAN, NEW first \in Nat, NEW batch \in Seq(Spots)
    PROVE  Holds(wd, batch, first, Len(batch), BuildPackets(wd, batch, first))
PROOF
  <1> DEFINE N == Len(batch)
             S == Seq(AnyPackets)
             body(f) == [n \in 0..N |->
                            IF n = 0 THEN << >> ELSE Joined(wd, first, f[n - 1], batch[n])]
             step == [n \in 1..N |-> [q \in S |-> Joined(wd, first, q, batch[n])]]
  <1>1. N \in Nat /\ DOMAIN batch = 1..N /\ \A n \in 1..N : batch[n] \in Spots
    OBVIOUS
  <1>2. step \in [1..N -> [S -> S]]
    <2>1. \A n \in 1..N : \A q \in S : Joined(wd, first, q, batch[n]) \in S
      BY <1>1, JoinShape
    <2> HIDE DEF S
    <2> QED BY <2>1
  <1>3. PICK h : IsRecursion(h, S, << >>, N, step)
    <2> HIDE DEF step, N
    <2>1. << >> \in S
      OBVIOUS
    <2> HIDE DEF S
    <2> QED BY <1>1, <1>2, <2>1, RecursionTo, Zenon
  <1>4. ASSUME NEW n \in 1..N PROVE h[n] = Joined(wd, first, h[n - 1], batch[n]) /\ n # 0
    <2>1. h[n - 1] \in S /\ n # 0
      BY <1>1, <1>3, SMTT(30) DEF IsRecursion
    <2>2. \A q \in S : step[n][q] = Joined(wd, first, q, batch[n])
      OBVIOUS
    <2>3. h[n] = step[n][h[n - 1]]
      BY <1>3 DEF IsRecursion
    <2> HIDE DEF step, S
    <2> QED BY <2>1, <2>2, <2>3
  <1>5. h = body(h)
    <2>1. \A n \in 0..N : h[n] = body(h)[n]
      <3> SUFFICES ASSUME NEW n \in 0..N PROVE h[n] = body(h)[n]
        OBVIOUS
      <3>1. CASE n = 0
        BY <3>1, <1>3 DEF IsRecursion
      <3>2. CASE n # 0
        <4>1. n \in 1..N
          BY <3>2, <1>1
        <4> QED BY <4>1, <1>4
      <3> QED BY <3>1, <3>2
    <2> QED BY <2>1, <1>3 DEF IsRecursion
  <1> DEFINE f == CHOOSE f : f = body(f)
  <1>6. f = body(f)
    BY <1>5
  <1>7. BuildPackets(wd, batch, first) = f[N]
    BY DEF BuildPackets
  <1> HIDE DEF f
  <1>8. f[0] = << >> /\ \A n \in 1..N : f[n] = Joined(wd, first, f[n - 1], batch[n])
    <2>1. 0 \in 0..N /\ \A n \in 1..N : n \in 0..N /\ n # 0
      BY <1>1
    <2> QED BY <2>1, <1>6
  <1> DEFINE G == {n \in 0..N : Holds(wd, batch, first, n, f[n])}
  <1>9. 0 \in G
    <2>1. f[0] = << >> /\ Len(f[0]) = 0 /\ f[0] \in S
      BY <1>8
    <2>2. InSequence(f[0])
      BY <2>1 DEF InSequence
    <2>3. Holds(wd, batch, first, 0, f[0])
      BY <2>1, <2>2 DEF Holds
    <2> QED BY <2>3, <1>1
  <1>10. ASSUME NEW n \in 1..N, n - 1 \in G PROVE n \in G
    <2>1. Holds(wd, batch, first, n - 1, f[n - 1])
      BY <1>10
    <2>2. Holds(wd, batch, first, n, Joined(wd, first, f[n - 1], batch[n]))
      BY <2>1, JoinHolds
    <2>3. n \in 0..N
      BY <1>1
    <2> QED BY <2>2, <2>3, <1>8
  <1>11. \A n \in 0..N : n \in G
    <2> HIDE DEF G
    <2>1. \A n \in 1..N : n - 1 \in G => n \in G
      BY <1>10
    <2> QED BY <1>1, <1>9, <2>1, UpTo
  <1>12. N \in 0..N
    BY <1>1
  <1> QED BY <1>7, <1>11, <1>12

-----------------------------------------------------------------------------
(* The inductive invariant of the sender. *)

SenderTypes ==
    /\ sender \in {"connect", "wait", "sending"}
    /\ descLeft \in 0..Descriptors /\ seq \in Nat /\ seqAdv \in 0..MaxSpots
    /\ failures \in 0..MaxFailures
    /\ socket = IF sender = "connect" THEN failures ELSE failures + 1
    /\ wire \in Seq(SentPackets)
    /\ InSequence(report)
    /\ Len(report) > 0 => sender = "sending"

\* The queue holds the newest spots; what was drained is counted once at most.
Queueing ==
    /\ queue \in Seq(Spots) /\ Len(queue) <= MaxPending /\ Len(queue) <= Len(queued)
    /\ \A i \in 1..Len(queue) : queue[i].nr = Len(queued) - Len(queue) + i
    /\ seq + Len(queue) <= Len(queued)
    /\ sender = "sending" => seq + seqAdv + Len(queue) <= Len(queued)
    /\ Len(report) > 0 => /\ report[1].seq = seq + seqAdv
                          /\ After(report[Len(report)]) + Len(queue) <= Len(queued)

\* The spots of q are in order, and those of w come before them.
Sorted(q) ==
    \A i, j \in 1..Len(q) :
        \A k \in 1..Len(q[i].spots), l \in 1..Len(q[j].spots) :
            i < j \/ (i = j /\ k < l) => q[i].spots[k].nr < q[j].spots[l].nr
Before(w, q) ==
    \A i \in 1..Len(w), j \in 1..Len(q) :
        \A k \in 1..Len(w[i].spots), l \in 1..Len(q[j].spots) :
            w[i].spots[k].nr < q[j].spots[l].nr
Drained(q) ==
    \A i \in 1..Len(q) : \A k \in 1..Len(q[i].spots) :
        q[i].spots[k].nr <= Len(queued) - Len(queue)

Order ==
    /\ Sorted(wire) /\ Sorted(report) /\ Before(wire, report)
    /\ Drained(wire) /\ Drained(report)

\* What a socket has carried ends where the counter stands, and until it has
\* carried something, descriptors are due.
Numbering ==
    /\ \A i \in 1..Len(wire) : wire[i].socket <= socket
    /\ sender # "connect" /\ Len(wire) > 0 /\ wire[Len(wire)].socket = socket
          => After(wire[Len(wire)]) = IF sender = "sending" THEN seq + seqAdv ELSE seq
    /\ sender # "connect" /\ (\A i \in 1..Len(wire) : wire[i].socket # socket)
          => IF sender = "wait" THEN descLeft > 0 ELSE Len(report) > 0 /\ report[1].descriptors
    /\ \A i \in 1..Len(wire) : Fits(wire[i])
    /\ DescribedFirst /\ SequenceCounts

PskInv == SpotInv /\ SenderTypes /\ Queueing /\ Order /\ Numbering

LEMMA Numbers ==
    ASSUME PskInv
    PROVE  /\ {Len(queue), Len(queued), Len(report), Len(wire), seq, seqAdv, socket, failures, descLeft} \subseteq Nat
           /\ {MaxSpots, MaxPending, MaxFailures, Descriptors} \subseteq Nat /\ MaxPending > 0 /\ Descriptors > 0
           /\ Len(queued) <= MaxSpots /\ Len(queue) <= Len(queued)
PROOF
  <1>1. {MaxSpots, MaxPending, MaxFailures, Descriptors} \subseteq Nat /\ MaxPending > 0 /\ Descriptors > 0
    BY PskAssumption
  <1>2. {Len(queue), Len(queued), Len(report), Len(wire)} \subseteq Nat
    BY DEF PskInv, SpotInv, Numbered, SenderTypes, Queueing, InSequence
  <1>3. seq \in Nat /\ seqAdv \in Nat /\ failures \in Nat /\ descLeft \in Nat /\ socket \in Nat
    BY <1>1 DEF PskInv, SenderTypes
  <1>4. Len(queued) <= MaxSpots /\ Len(queue) <= Len(queued)
    BY DEF PskInv, SpotInv, Numbered, Queueing
  <1> QED BY <1>1, <1>2, <1>3, <1>4

LEMMA SentFields ==
    ASSUME NEW w \in Seq(SentPackets), NEW i \in 1..Len(w)
    PROVE  /\ w[i].descriptors \in BOOLEAN /\ w[i].seq \in Nat /\ w[i].spots \in Seq(Spots)
           /\ Len(w[i].spots) \in Nat /\ w[i].socket \in Nat
PROOF
  <1>1. PICK p \in SentPackets : p = w[i]
    OBVIOUS
  <1>2. /\ p.descriptors \in BOOLEAN /\ p.seq \in 0..MaxSpots /\ p.spots \in Seq(Spots)
        /\ p.socket \in 1..(MaxFailures + 1)
    BY DEF SentPackets
  <1>3. p.seq \in Nat /\ p.socket \in Nat /\ Len(p.spots) \in Nat
    BY <1>2, PskAssumption, SMTT(30)
  <1> QED BY <1>1, <1>2, <1>3

LEMMA TailFacts ==
    ASSUME NEW q, InSequence(q), Len(q) > 0
    PROVE  /\ InSequence(Tail(q)) /\ Len(Tail(q)) = Len(q) - 1 /\ Head(q) = q[1]
           /\ \A i \in 1..(Len(q) - 1) : Tail(q)[i] = q[i + 1]
PROOF
  <1>1. q \in Seq(AnyPackets) /\ q # << >> /\ Len(q) \in Nat
    BY DEF InSequence
  <1>2. /\ Tail(q) \in Seq(AnyPackets) /\ Len(Tail(q)) = Len(q) - 1 /\ Head(q) = q[1]
        /\ \A i \in 1..(Len(q) - 1) : Tail(q)[i] = q[i + 1]
    BY <1>1
  <1> DEFINE t == Tail(q)
             L == Len(q)
  <1> HIDE DEF t, L
  <1>3. \A i \in 1..(L - 1) : i + 1 \in 1..L /\ t[i] = q[i + 1]
    BY <1>1, <1>2 DEF t, L
  <1>4. \A i, j \in 1..(L - 1) : i < j => After(t[i]) <= t[j].seq
    <2> SUFFICES ASSUME NEW i \in 1..(L - 1), NEW j \in 1..(L - 1), i < j
                 PROVE  After(t[i]) <= t[j].seq
      OBVIOUS
    <2>1. i + 1 < j + 1 /\ i + 1 \in 1..L /\ j + 1 \in 1..L
      BY <1>1, <1>3 DEF L
    <2>2. After(q[i + 1]) <= q[j + 1].seq
      BY <2>1 DEF InSequence, L
    <2> QED BY <2>2, <1>3
  <1>5. \A i, j \in 1..(L - 1) : j = i + 1 => t[j].seq = After(t[i])
    <2> SUFFICES ASSUME NEW i \in 1..(L - 1), NEW j \in 1..(L - 1), j = i + 1
                 PROVE  t[j].seq = After(t[i])
      OBVIOUS
    <2>1. j + 1 = i + 1 + 1 /\ i + 1 \in 1..L /\ j + 1 \in 1..L
      BY <1>1, <1>3 DEF L
    <2>2. q[j + 1].seq = After(q[i + 1])
      BY <2>1 DEF InSequence, L
    <2> QED BY <2>2, <1>3
  <1>6. \A i \in 1..(L - 1) : Fits(t[i])
    BY <1>3 DEF InSequence, L
  <1> QED BY <1>2, <1>4, <1>5, <1>6 DEF InSequence, t, L

LEMMA LastIsLast ==
    ASSUME NEW q, InSequence(q), NEW i \in 1..Len(q)
    PROVE  After(q[i]) <= After(q[Len(q)])
PROOF
  <1>1. Len(q) \in 1..Len(q) /\ Len(q) \in Nat /\ q \in Seq(AnyPackets)
    BY DEF InSequence
  <1>2. After(q[i]) \in Nat /\ After(q[Len(q)]) \in Nat /\ q[Len(q)].seq \in Nat
        /\ q[Len(q)].seq <= After(q[Len(q)])
    BY <1>1, PacketFields
  <1>3. CASE i = Len(q)
    BY <1>2, <1>3
  <1>4. CASE i # Len(q)
    <2>1. i < Len(q)
      BY <1>1, <1>4
    <2>2. After(q[i]) <= q[Len(q)].seq
      BY <2>1, <1>1 DEF InSequence
    <2> QED BY <2>2, <1>2
  <1> QED BY <1>3, <1>4

LEMMA OrderStays ==
    ASSUME PskInv, UNCHANGED <<wire, report>>,
           Len(queue') \in Nat, Len(queued') \in Nat,
           Len(queued') - Len(queue') >= Len(queued) - Len(queue)
    PROVE  Order'
PROOF
  <1> DEFINE D == Len(queued) - Len(queue)
             E == Len(queued') - Len(queue')
  <1>0. D \in Int /\ E \in Int /\ D <= E
    BY Numbers
  <1> HIDE DEF D, E
  <1>1. ASSUME NEW q, Drained(q), \A i \in 1..Len(q) : q[i].spots \in Seq(Spots)
        PROVE  \A i \in 1..Len(q) : \A k \in 1..Len(q[i].spots) : q[i].spots[k].nr <= E
    <2> SUFFICES ASSUME NEW i \in 1..Len(q), NEW k \in 1..Len(q[i].spots)
                 PROVE  q[i].spots[k].nr <= E
      OBVIOUS
    <2>1. q[i].spots[k] \in Spots
      BY <1>1
    <2>2. PICK x \in Int : x = q[i].spots[k].nr
      BY <2>1 DEF Spots
    <2>3. x <= D
      BY <1>1, <2>2 DEF Drained, D
    <2> QED BY <2>2, <2>3, <1>0, SMTT(30)
  <1>2. \A i \in 1..Len(wire) : wire[i].spots \in Seq(Spots)
    BY SentFields DEF PskInv, SenderTypes
  <1>3. \A i \in 1..Len(report) : report[i].spots \in Seq(Spots)
    BY PacketFields DEF PskInv, SenderTypes, InSequence
  <1>4. Drained(wire)' /\ Drained(report)'
    <2>1. Drained(wire) /\ Drained(report)
      BY DEF PskInv, Order
    <2>2. \A i \in 1..Len(wire) : \A k \in 1..Len(wire[i].spots) : wire[i].spots[k].nr <= E
      BY <2>1, <1>1, <1>2
    <2>3. \A i \in 1..Len(report) : \A k \in 1..Len(report[i].spots) : report[i].spots[k].nr <= E
      BY <2>1, <1>1, <1>3
    <2> QED BY <2>2, <2>3 DEF Drained, E
  <1>5. Sorted(wire)' /\ Sorted(report)' /\ Before(wire, report)'
    <2>1. Sorted(wire) /\ Sorted(report) /\ Before(wire, report)
      BY DEF PskInv, Order
    <2>2. wire' = wire /\ report' = report
      OBVIOUS
    <2> QED BY <2>1, <2>2
  <1> QED BY <1>4, <1>5 DEF Order

SenderInv == SenderTypes /\ Queueing /\ Order /\ Numbering

LEMMA NumberingStays ==
    ASSUME Numbering, UNCHANGED <<sender, descLeft, seq, seqAdv, report, socket, wire>>
    PROVE  Numbering'
PROOF
  BY DEF Numbering, After, Fits, DescribedFirst, SequenceCounts

LEMMA AddStep ==
    ASSUME PskInv, SpotInv', NEW call \in Calls, NEW hz \in Frequencies, Add(call, hz)
    PROVE  SenderInv'
PROOF
  <1> DEFINE spot == [call |-> call, hz |-> hz, nr |-> Len(queued) + 1, at |-> elapsed]
             Q == Len(queue)
             N == Len(queued)
             app == Append(queue, spot)
  <1>1. queue' = Capped(app) /\ queued' = Append(queued, spot) /\ UNCHANGED sending /\ N < MaxSpots
    BY DEF Add
  <1>2. Q \in Nat /\ N \in Nat /\ Q <= N /\ MaxPending \in Nat /\ MaxPending > 0 /\ MaxSpots \in Nat
        /\ seq \in Nat /\ seqAdv \in Nat
    BY Numbers
  <1>3. queue \in Seq(Spots) /\ queued \in Seq(Spots) /\ Q <= MaxPending
        /\ \A i \in 1..Q : queue[i].nr = N - Q + i
    BY DEF PskInv, SpotInv, Numbered, Queueing
  <1>4. spot \in Spots
    <2>1. queued' \in Seq(Spots) /\ Len(queued') = N + 1 /\ queued'[N + 1] = spot
      BY <1>1, <1>3, <1>2 DEF SpotInv, Numbered
    <2> QED BY <2>1, <1>2
  <1>5. spot.nr = N + 1
    OBVIOUS
  <1> HIDE DEF spot
  <1>6. Len(queued') = N + 1
    BY <1>1, <1>3, <1>4
  <1>7. /\ app \in Seq(Spots) /\ Len(app) = Q + 1 /\ app[Q + 1] = spot
        /\ \A i \in 1..Q : app[i] = queue[i]
    BY <1>3, <1>4, <1>2
  <1>8. \A i \in 1..(Q + 1) : app[i].nr = N - Q + i
    <2> SUFFICES ASSUME NEW i \in 1..(Q + 1) PROVE app[i].nr = N - Q + i
      OBVIOUS
    <2>1. CASE i = Q + 1
      BY <2>1, <1>7, <1>5, <1>2
    <2>2. CASE i \in 1..Q
      BY <2>2, <1>7, <1>3
    <2> QED BY <2>1, <2>2, <1>2
  <1> HIDE DEF app, Q, N
  <1>9. /\ queue' \in Seq(Spots) /\ Len(queue') <= MaxPending /\ Len(queue') <= N + 1
        /\ \A i \in 1..Len(queue') : queue'[i].nr = N + 1 - Len(queue') + i
        /\ Len(queue') <= Q + 1 /\ Len(queue') \in Nat
    <2>1. CASE Q + 1 > MaxPending
      <3>1. queue' = Tail(app) /\ app # << >>
        BY <2>1, <1>1, <1>2, <1>7 DEF Capped
      <3>2. /\ queue' \in Seq(Spots) /\ Len(queue') = Q
            /\ \A i \in 1..Q : queue'[i] = app[i + 1]
        BY <3>1, <1>7, <1>2
      <3>3. \A i \in 1..Q : i + 1 \in 1..(Q + 1) /\ N - Q + (i + 1) = N + 1 - Q + i
        BY <1>2
      <3>4. \A i \in 1..Q : queue'[i].nr = N + 1 - Q + i
        BY <3>2, <3>3, <1>8
      <3> QED BY <3>2, <3>4, <1>2, <1>3 DEF Q
    <2>2. CASE ~(Q + 1 > MaxPending)
      <3>1. queue' = app
        BY <2>2, <1>1, <1>7 DEF Capped
      <3>2. N - Q = N + 1 - (Q + 1)
        BY <1>2
      <3> QED BY <2>2, <3>1, <3>2, <1>2, <1>7, <1>8
    <2> QED BY <2>1, <2>2
  <1>10. UNCHANGED <<sender, descLeft, seq, report, seqAdv, socket, wire, failures>>
    BY <1>1 DEF sending
  <1>11. Queueing'
    <2>1. seq + Len(queue') <= N + 1
      <3>1. seq + Q <= N
        BY DEF PskInv, Queueing, Q, N
      <3> QED BY <3>1, <1>2, <1>9
    <2>2. sender = "sending" => seq + seqAdv + Len(queue') <= N + 1
      <3>1. sender = "sending" => seq + seqAdv + Q <= N
        BY DEF PskInv, Queueing, Q, N
      <3> QED BY <3>1, <1>2, <1>9
    <2>3. ASSUME Len(report) > 0
          PROVE  report[1].seq = seq + seqAdv /\ After(report[Len(report)]) + Len(queue') <= N + 1
      <3>1. report[1].seq = seq + seqAdv /\ After(report[Len(report)]) + Q <= N
        BY <2>3 DEF PskInv, Queueing, Q, N
      <3>2. Len(report) \in 1..Len(report) /\ report \in Seq(AnyPackets)
        BY <2>3 DEF PskInv, SenderTypes, InSequence
      <3>3. PICK a \in Nat : a = After(report[Len(report)])
        BY <3>2, PacketFields
      <3>4. a + Len(queue') <= N + 1
        BY <3>1, <3>3, <1>2, <1>9
      <3> QED BY <3>1, <3>3, <3>4
    <2>4. Len(queue') <= Len(queued') /\ N + 1 = Len(queued')
      BY <1>6, <1>9
    <2>5. (Len(report) > 0 => /\ report[1].seq = seq + seqAdv
                              /\ After(report[Len(report)]) + Len(queue) <= Len(queued))'
      BY <2>3, <2>4, <1>10
    <2>6. (seq + Len(queue) <= Len(queued))'
          /\ (sender = "sending" => seq + seqAdv + Len(queue) <= Len(queued))'
      BY <2>1, <2>2, <2>4, <1>10
    <2>7. (\A i \in 1..Len(queue) : queue[i].nr = Len(queued) - Len(queue) + i)'
      <3> SUFFICES ASSUME NEW i \in 1..Len(queue')
                   PROVE  queue'[i].nr = Len(queued') - Len(queue') + i
        OBVIOUS
      <3>1. queue'[i].nr = N + 1 - Len(queue') + i
        BY <1>9
      <3>2. N + 1 - Len(queue') + i = (N + 1) - Len(queue') + i
        BY <1>2, <1>9
      <3> QED BY <3>1, <3>2, <2>4
    <2>8. (queue \in Seq(Spots) /\ Len(queue) <= MaxPending /\ Len(queue) <= Len(queued))'
      BY <2>4, <1>9
    <2> QED BY <2>5, <2>6, <2>7, <2>8 DEF Queueing
  <1>12. Order'
    <2>1. Len(queued') - Len(queue') >= N - Q
      BY <1>2, <1>6, <1>9
    <2>2. Len(queued') \in Nat
      BY <1>6, <1>2
    <2> QED BY <2>1, <2>2, <1>9, <1>10, OrderStays DEF Q, N
  <1>13. SenderTypes'
    BY <1>10 DEF PskInv, SenderTypes, InSequence, After, Fits
  <1>14. Numbering'
    BY <1>10, NumberingStays DEF PskInv
  <1> QED BY <1>11, <1>12, <1>13, <1>14 DEF SenderInv

LEMMA QuietStep ==
    ASSUME PskInv, UNCHANGED <<queue, queued, sender, descLeft, seq, report, seqAdv, socket, wire, failures>>
    PROVE  SenderInv'
PROOF
  <1>1. Order'
    BY Numbers, OrderStays
  <1>2. Numbering'
    BY NumberingStays DEF PskInv
  <1>3. SenderTypes' /\ Queueing'
    BY DEF PskInv, SenderTypes, Queueing, InSequence, After, Fits
  <1> QED BY <1>1, <1>2, <1>3 DEF SenderInv

LEMMA ConnectStep ==
    ASSUME PskInv, Connect
    PROVE  SenderInv'
PROOF
  <1>1. /\ sender = "connect" /\ sender' = "wait" /\ descLeft' = Descriptors /\ socket' = socket + 1
        /\ UNCHANGED <<queue, queued, seq, report, seqAdv, wire, failures>>
    BY DEF Connect, spots
  <1>2. Order'
    BY <1>1, Numbers, OrderStays
  <1>3. socket \in Nat /\ Descriptors \in Nat /\ Descriptors > 0 /\ Len(wire) \in Nat /\ failures \in Nat
    BY Numbers
  <1>4. ~(Len(report) > 0)
    BY <1>1 DEF PskInv, SenderTypes
  <1>5. SenderTypes'
    <2>1. socket = failures
      BY <1>1 DEF PskInv, SenderTypes
    <2> QED BY <2>1, <1>1, <1>3, <1>4 DEF PskInv, SenderTypes
  <1>6. Queueing'
    BY <1>1, <1>4 DEF PskInv, Queueing
  <1>7. \A i \in 1..Len(wire) : wire[i].socket <= socket /\ wire[i].socket \in Nat
    BY SentFields DEF PskInv, Numbering, SenderTypes
  <1>8. \A i \in 1..Len(wire) : wire[i].socket <= socket + 1 /\ wire[i].socket # socket + 1
    BY <1>3, <1>7
  <1>9. ~(Len(wire) > 0 /\ wire[Len(wire)].socket = socket + 1)
    BY <1>3, <1>8
  <1>10. Fits(wire[1])' = Fits(wire[1]) /\ DescribedFirst' /\ SequenceCounts'
    BY <1>1 DEF PskInv, Numbering, Fits, DescribedFirst, SequenceCounts
  <1>11. \A i \in 1..Len(wire) : Fits(wire[i])
    BY DEF PskInv, Numbering
  <1>12. Numbering'
    BY <1>1, <1>3, <1>8, <1>9, <1>10, <1>11 DEF Numbering
  <1> QED BY <1>2, <1>5, <1>6, <1>12 DEF SenderInv

LEMMA FinishStep ==
    ASSUME PskInv, Finish
    PROVE  SenderInv'
PROOF
  <1>1. /\ sender = "sending" /\ sender' = "wait" /\ report = << >> /\ seq' = seq + seqAdv
        /\ UNCHANGED <<queue, queued, descLeft, report, seqAdv, socket, wire, failures>>
    BY DEF Finish, spots
  <1>2. Order'
    BY <1>1, Numbers, OrderStays
  <1>3. seq \in Nat /\ seqAdv \in Nat /\ ~(Len(report) > 0)
    BY <1>1, Numbers
  <1>4. SenderTypes'
    BY <1>1, <1>3 DEF PskInv, SenderTypes
  <1>5. Queueing'
    BY <1>1, <1>3 DEF PskInv, Queueing
  <1>6. DescribedFirst' /\ SequenceCounts'
    BY <1>1 DEF PskInv, Numbering, DescribedFirst, SequenceCounts
  <1>7. \A i \in 1..Len(wire) : Fits(wire[i])
    BY DEF PskInv, Numbering
  <1>8. Numbering'
    BY <1>1, <1>3, <1>6, <1>7 DEF PskInv, Numbering
  <1> QED BY <1>2, <1>4, <1>5, <1>8 DEF SenderInv

LEMMA SendFailsStep ==
    ASSUME PskInv, SendFails
    PROVE  SenderInv'
PROOF
  <1>1. /\ sender = "sending" /\ sender' = "connect" /\ report' = << >>
        /\ failures < MaxFailures /\ failures' = failures + 1
        /\ UNCHANGED <<queue, queued, descLeft, seq, seqAdv, socket, wire>>
    BY DEF SendFails, spots
  <1>2. seq \in Nat /\ seqAdv \in Nat /\ failures \in Nat /\ MaxFailures \in Nat /\ Len(report') = 0
    BY <1>1, Numbers
  <1>3. InSequence(report')
    BY <1>1 DEF InSequence
  <1>4. SenderTypes'
    BY <1>1, <1>2, <1>3 DEF PskInv, SenderTypes
  <1>5. Queueing'
    BY <1>1, <1>2 DEF PskInv, Queueing
  <1>6. Order'
    <2>1. 1..Len(report') = {}
      BY <1>2
    <2>2. Sorted(report)' /\ Drained(report)'
      BY <2>1 DEF Sorted, Drained
    <2>3. Before(wire, report)'
      BY <2>1 DEF Before
    <2>4. Drained(wire)'
      BY <1>1 DEF PskInv, Order, Drained
    <2>5. Sorted(wire)'
      <3>1. Sorted(wire) /\ wire' = wire
        BY <1>1 DEF PskInv, Order
      <3> QED BY <3>1
    <2> QED BY <2>2, <2>3, <2>4, <2>5 DEF Order
  <1>7. DescribedFirst' /\ SequenceCounts'
    BY <1>1 DEF PskInv, Numbering, DescribedFirst, SequenceCounts
  <1>8. \A i \in 1..Len(wire) : Fits(wire[i])
    BY DEF PskInv, Numbering
  <1>9. Numbering'
    BY <1>1, <1>7, <1>8 DEF PskInv, Numbering
  <1> QED BY <1>4, <1>5, <1>6, <1>9 DEF SenderInv

LEMMA TickStep ==
    ASSUME PskInv, Tick
    PROVE  SenderInv'
PROOF
  <1> DEFINE Q == Len(queue)
             N == Len(queued)
             r == report'
  <1>1. /\ sender = "wait" /\ sender' = "sending" /\ queue # << >> /\ queue' = << >> /\ seqAdv' = 0
        /\ descLeft' = (IF descLeft > 0 THEN descLeft - 1 ELSE 0)
        /\ r = BuildPackets(descLeft > 0, queue, seq)
        /\ UNCHANGED <<queued, seq, socket, wire, failures>>
    BY DEF Tick
  <1>2. /\ Q \in Nat /\ N \in Nat /\ Q <= N /\ seq \in Nat /\ descLeft \in Nat /\ MaxPending \in Nat
        /\ Descriptors \in Nat /\ MaxSpots \in Nat /\ Len(wire) \in Nat
    BY Numbers
  <1>3. queue \in Seq(Spots) /\ Q > 0 /\ seq + Q <= N /\ \A i \in 1..Q : queue[i].nr = N - Q + i
    BY <1>1 DEF PskInv, Queueing
  <1>4. Holds(descLeft > 0, queue, seq, Q, r)
    <2> DEFINE wd == descLeft > 0
    <2>1. wd \in BOOLEAN /\ r = BuildPackets(wd, queue, seq)
      BY <1>1
    <2> HIDE DEF wd, r
    <2>2. Holds(wd, queue, seq, Len(queue), BuildPackets(wd, queue, seq))
      BY <2>1, <1>2, <1>3, BuildHolds
    <2>3. Holds(wd, queue, seq, Q, r)
      BY <2>1, <2>2
    <2> QED BY <2>3 DEF wd
  <1>5. Len(queue') = 0
    BY <1>1
  <1> HIDE DEF r, Q, N
  <1>6. /\ InSequence(r) /\ Len(r) > 0 /\ r[1].descriptors = (descLeft > 0) /\ r[1].seq = seq
        /\ After(r[Len(r)]) = seq + Q
        /\ \A i \in 1..Len(r) : \A k \in 1..Len(r[i].spots) :
              /\ r[i].seq - seq + k \in 1..Q
              /\ r[i].spots[k] = queue[r[i].seq - seq + k]
    BY <1>3, <1>4 DEF Holds
  <1>7. r \in Seq(AnyPackets)
    BY <1>6 DEF InSequence
  <1>8. \A i \in 1..Len(r) : r[i].seq \in Nat /\ Len(r[i].spots) \in Nat /\ After(r[i]) \in Nat
    BY <1>7, PacketFields
  <1>9. ASSUME NEW i \in 1..Len(r), NEW k \in 1..Len(r[i].spots)
        PROVE  r[i].spots[k].nr = N - Q + (r[i].seq - seq + k)
    BY <1>3, <1>6
  <1>10. SenderTypes'
    <2>1. seqAdv' \in 0..MaxSpots /\ descLeft' \in 0..Descriptors
      BY <1>1, <1>2 DEF PskInv, SenderTypes
    <2> QED BY <2>1, <1>1, <1>6 DEF PskInv, SenderTypes, r
  <1>11. Queueing'
    <2>1. (queue \in Seq(Spots) /\ Len(queue) <= MaxPending /\ Len(queue) <= Len(queued))'
      BY <1>1, <1>2, <1>5 DEF N
    <2>2. (\A i \in 1..Len(queue) : queue[i].nr = Len(queued) - Len(queue) + i)'
      BY <1>5
    <2>3. (seq + Len(queue) <= Len(queued))' /\ (seq + seqAdv + Len(queue) <= Len(queued))'
      BY <1>1, <1>2, <1>3, <1>5 DEF N
    <2>4. (report[1].seq = seq + seqAdv)'
      BY <1>1, <1>2, <1>6 DEF r
    <2>5. (After(report[Len(report)]) + Len(queue) <= Len(queued))'
      <3>1. After(r[Len(r)]) + Len(queue') <= N
        BY <1>2, <1>3, <1>5, <1>6
      <3> QED BY <3>1, <1>1 DEF r, N
    <2> QED BY <2>1, <2>2, <2>3, <2>4, <2>5 DEF Queueing
  <1>12. Order'
    <2>1. ASSUME NEW i \in 1..Len(wire), NEW k \in 1..Len(wire[i].spots)
          PROVE  wire[i].spots[k].nr \in Int /\ wire[i].spots[k].nr <= N - Q
      <3>1. wire[i].spots[k] \in Spots
        BY SentFields DEF PskInv, SenderTypes
      <3>2. wire[i].spots[k].nr \in Int
        BY <3>1 DEF Spots
      <3> QED BY <3>2 DEF PskInv, Order, Drained, N, Q
    <2>2. Sorted(wire)'
      <3>1. Sorted(wire) /\ wire' = wire
        BY <1>1 DEF PskInv, Order
      <3> QED BY <3>1
    <2>3. Sorted(r)
      <3> SUFFICES ASSUME NEW i \in 1..Len(r), NEW j \in 1..Len(r),
                          NEW k \in 1..Len(r[i].spots), NEW l \in 1..Len(r[j].spots),
                          i < j \/ (i = j /\ k < l)
                   PROVE  r[i].spots[k].nr < r[j].spots[l].nr
        BY DEF Sorted
      <3>1. r[i].seq \in Nat /\ r[j].seq \in Nat /\ k \in Nat /\ l \in Nat /\ l > 0
            /\ Len(r[i].spots) \in Nat /\ k <= Len(r[i].spots)
        BY <1>8
      <3>2. PICK a \in Nat : a = r[i].seq
        BY <3>1
      <3>3. PICK b \in Nat : b = r[j].seq
        BY <3>1
      <3>4. PICK d \in Int : d = N - Q
        BY <1>2
      <3>5. PICK m \in Nat : m = Len(r[i].spots)
        BY <3>1
      <3>6. a + k < b + l
        <4>1. CASE i < j
          <5>1. a + m <= b
            BY <4>1, <3>2, <3>3, <3>5, <1>6 DEF InSequence, After
          <5>2. k \in Nat /\ l \in Nat /\ k <= m /\ l > 0
            BY <3>1, <3>5
          <5> QED BY <5>1, <5>2
        <4>2. CASE i = j /\ k < l
          <5>1. a = b /\ k \in Nat /\ l \in Nat
            BY <4>2, <3>1, <3>2, <3>3
          <5> QED BY <4>2, <5>1
        <4> QED BY <4>1, <4>2
      <3>7. k \in Nat /\ l \in Nat /\ seq \in Nat
        BY <3>1, <1>2
      <3>8. d + (a - seq + k) < d + (b - seq + l)
        BY <3>6, <3>7
      <3>9. r[i].spots[k].nr = d + (a - seq + k) /\ r[j].spots[l].nr = d + (b - seq + l)
        BY <3>2, <3>3, <3>4, <1>9
      <3> QED BY <3>8, <3>9
    <2>4. Before(wire, r)
      <3> SUFFICES ASSUME NEW i \in 1..Len(wire), NEW j \in 1..Len(r),
                          NEW k \in 1..Len(wire[i].spots), NEW l \in 1..Len(r[j].spots)
                   PROVE  wire[i].spots[k].nr < r[j].spots[l].nr
        BY DEF Before
      <3>1. r[j].seq - seq + l \in 1..Q
        BY <1>6
      <3>2. PICK x \in 1..Q : x = r[j].seq - seq + l
        BY <3>1
      <3>3. r[j].spots[l].nr = N - Q + x
        BY <3>2, <1>9
      <3> QED BY <3>3, <2>1, <1>2
    <2>5. Drained(wire)'
      <3> SUFFICES ASSUME NEW i \in 1..Len(wire), NEW k \in 1..Len(wire[i].spots)
                   PROVE  wire[i].spots[k].nr <= Len(queued') - Len(queue')
        BY <1>1 DEF Drained
      <3> QED BY <2>1, <1>1, <1>2, <1>5 DEF N
    <2>6. Drained(report)'
      <3> SUFFICES ASSUME NEW i \in 1..Len(r), NEW k \in 1..Len(r[i].spots)
                   PROVE  r[i].spots[k].nr <= Len(queued') - Len(queue')
        BY DEF Drained, r
      <3>1. PICK x \in 1..Q : x = r[i].seq - seq + k
        BY <1>6
      <3>2. r[i].spots[k].nr = N - Q + x
        BY <3>1, <1>9
      <3>3. Len(queued') - Len(queue') = N
        BY <1>1, <1>2, <1>5 DEF N
      <3> QED BY <3>2, <3>3, <1>2
    <2>7. Sorted(report)' /\ Before(wire, report)'
      <3>1. wire' = wire
        BY <1>1
      <3> QED BY <2>3, <2>4, <3>1 DEF r
    <2> QED BY <2>2, <2>5, <2>6, <2>7 DEF Order
  <1>13. Numbering'
    <2>1. \A i \in 1..Len(wire) : wire[i].socket <= socket
      BY DEF PskInv, Numbering
    <2>2. Len(wire) > 0 /\ wire[Len(wire)].socket = socket => After(wire[Len(wire)]) = seq
      BY <1>1 DEF PskInv, Numbering
    <2>3. (\A i \in 1..Len(wire) : wire[i].socket # socket) => descLeft > 0
      BY <1>1 DEF PskInv, Numbering
    <2>4. DescribedFirst' /\ SequenceCounts'
      BY <1>1 DEF PskInv, Numbering, DescribedFirst, SequenceCounts
    <2>5. \A i \in 1..Len(wire) : Fits(wire[i])
      BY DEF PskInv, Numbering
    <2>6. seq' + seqAdv' = seq
      BY <1>1, <1>2
    <2>7. Len(report') > 0 /\ (descLeft > 0 => report'[1].descriptors)
      BY <1>6 DEF r
    <2> QED BY <1>1, <2>1, <2>2, <2>3, <2>4, <2>5, <2>6, <2>7 DEF Numbering
  <1> QED BY <1>10, <1>11, <1>12, <1>13 DEF SenderInv

LEMMA SendStep ==
    ASSUME PskInv, Send
    PROVE  SenderInv'
PROOF
  <1> DEFINE p == report[1]
             sent == [descriptors |-> p.descriptors, seq |-> p.seq, spots |-> p.spots, socket |-> socket]
             L == Len(report)
             W == Len(wire)
             N == Len(queued)
  <1>1. /\ sender = "sending" /\ report # << >> /\ report' = Tail(report)
        /\ wire' = Append(wire, [descriptors |-> Head(report).descriptors, seq |-> Head(report).seq,
                                 spots |-> Head(report).spots, socket |-> socket])
        /\ seqAdv' = seqAdv + Len(Head(report).spots)
        /\ UNCHANGED <<queue, queued, sender, descLeft, seq, socket, failures>>
    BY DEF Send, spots
  <1>2. /\ Len(queue) \in Nat /\ N \in Nat /\ Len(queue) <= N /\ N <= MaxSpots /\ seq \in Nat
        /\ seqAdv \in Nat /\ socket \in Nat /\ L \in Nat /\ W \in Nat /\ MaxSpots \in Nat
        /\ MaxFailures \in Nat /\ failures \in Nat
    BY Numbers
  <1>3. InSequence(report) /\ wire \in Seq(SentPackets) /\ report \in Seq(AnyPackets)
    BY DEF PskInv, SenderTypes, InSequence
  <1>4. L > 0 /\ 1 \in 1..L
    <2>1. L > 0
      BY <1>1, <1>3
    <2> QED BY <2>1, <1>2
  <1>5. /\ InSequence(report') /\ Len(report') = L - 1 /\ Head(report) = p
        /\ \A i \in 1..(L - 1) : report'[i] = report[i + 1]
    BY <1>1, <1>3, <1>4, TailFacts
  <1>6. wire' = Append(wire, sent) /\ seqAdv' = seqAdv + Len(p.spots)
    BY <1>1, <1>5
  <1>7. /\ p.descriptors \in BOOLEAN /\ p.seq \in Nat /\ p.spots \in Seq(Spots)
        /\ Len(p.spots) \in Nat /\ After(p) \in Nat /\ p.seq <= After(p)
    BY <1>3, <1>4, PacketFields
  <1>8. p.seq = seq + seqAdv /\ After(report[L]) + Len(queue) <= N
    BY <1>4 DEF PskInv, Queueing
  <1>9. After(p) <= After(report[L]) /\ After(report[L]) \in Nat
    BY <1>3, <1>4, LastIsLast, PacketFields
  <1>10. After(p) = seq + seqAdv' /\ seqAdv' \in Nat
    <2>1. PICK a \in Nat : a = Len(p.spots)
      BY <1>7
    <2>2. seqAdv' = seqAdv + a /\ After(p) = seq + seqAdv + a
      BY <2>1, <1>6, <1>8 DEF After
    <2> QED BY <2>2, <1>2
  <1>11. After(p) + Len(queue) <= N
    BY <1>2, <1>7, <1>8, <1>9
  <1>12. sent \in SentPackets /\ sent.spots = p.spots /\ sent.descriptors = p.descriptors
         /\ sent.seq = p.seq /\ sent.socket = socket
    <2>1. p.seq \in 0..MaxSpots
      BY <1>2, <1>7, <1>11
    <2>2. socket \in 1..(MaxFailures + 1)
      <3>1. socket = failures + 1 /\ failures \in 0..MaxFailures
        BY <1>1 DEF PskInv, SenderTypes
      <3> QED BY <3>1, <1>2
    <2> HIDE DEF p
    <2> QED BY <2>1, <2>2, <1>7 DEF SentPackets
  <1> HIDE DEF sent, p, L, W, N
  <1>13. /\ wire' \in Seq(SentPackets) /\ Len(wire') = W + 1 /\ wire'[W + 1] = sent
         /\ \A i \in 1..W : wire'[i] = wire[i]
    BY <1>2, <1>3, <1>6, <1>12 DEF W
  <1>14. SenderTypes'
    <2>1. seqAdv' \in 0..MaxSpots
      BY <1>2, <1>10, <1>11
    <2> QED BY <2>1, <1>1, <1>5, <1>13 DEF PskInv, SenderTypes
  <1>15. \A i \in 1..(L - 1) : i + 1 \in 1..L
    BY <1>2
  <1>16. Queueing'
    <2>1. (queue \in Seq(Spots) /\ Len(queue) <= MaxPending /\ Len(queue) <= Len(queued))'
          /\ (\A i \in 1..Len(queue) : queue[i].nr = Len(queued) - Len(queue) + i)'
          /\ (seq + Len(queue) <= Len(queued))'
      BY <1>1 DEF PskInv, Queueing
    <2>2. (seq + seqAdv + Len(queue) <= Len(queued))'
      BY <1>1, <1>2, <1>10, <1>11 DEF N
    <2>3. ASSUME Len(report') > 0
          PROVE  (report[1].seq = seq + seqAdv /\ After(report[Len(report)]) + Len(queue) <= Len(queued))'
      <3>1. 1 \in 1..(L - 1) /\ 2 \in 1..L /\ L - 1 \in 1..(L - 1) /\ L - 1 + 1 = L
        BY <2>3, <1>2, <1>5
      <3>2. report'[1] = report[2] /\ report'[L - 1] = report[L]
        <4>1. report'[1] = report[1 + 1] /\ report'[L - 1] = report[L - 1 + 1]
          BY <3>1, <1>5
        <4> QED BY <4>1, <3>1
      <3>3. report[2].seq = After(p)
        BY <3>1, <1>3, <1>4 DEF InSequence, L, p
      <3> QED BY <3>2, <3>3, <1>1, <1>5, <1>8, <1>10 DEF N
    <2> QED BY <2>1, <2>2, <2>3 DEF Queueing
  <1>17. Order'
    <2>0. Sorted(wire) /\ Sorted(report) /\ Before(wire, report) /\ Drained(wire) /\ Drained(report)
      BY DEF PskInv, Order
    <2>1. \A i \in 1..(W + 1) : wire'[i].spots = IF i = W + 1 THEN report[1].spots ELSE wire[i].spots
      BY <1>2, <1>12, <1>13 DEF p
    <2>2. Sorted(wire')
      <3> SUFFICES ASSUME NEW i \in 1..(W + 1), NEW j \in 1..(W + 1),
                          NEW k \in 1..Len(wire'[i].spots), NEW l \in 1..Len(wire'[j].spots),
                          i < j \/ (i = j /\ k < l)
                   PROVE  wire'[i].spots[k].nr < wire'[j].spots[l].nr
        BY <1>13 DEF Sorted
      <3>1. CASE i \in 1..W /\ j \in 1..W
        <4>1. wire'[i] = wire[i] /\ wire'[j] = wire[j]
          BY <3>1, <1>13
        <4> QED BY <3>1, <4>1, <2>0 DEF Sorted, W
      <3>2. CASE i \in 1..W /\ j = W + 1
        <4>1. wire'[i] = wire[i] /\ wire'[j].spots = report[1].spots
          BY <3>2, <1>13, <2>1
        <4> QED BY <3>2, <4>1, <2>0, <1>4 DEF Before, W, L
      <3>3. CASE i = W + 1 /\ j = W + 1
        <4>1. wire'[i].spots = report[1].spots /\ wire'[j].spots = report[1].spots /\ k < l
          BY <3>3, <2>1, <1>2
        <4> QED BY <4>1, <2>0, <1>4 DEF Sorted, L
      <3> QED BY <3>1, <3>2, <3>3, <1>2
    <2>3. Sorted(report')
      <3> SUFFICES ASSUME NEW i \in 1..(L - 1), NEW j \in 1..(L - 1),
                          NEW k \in 1..Len(report'[i].spots), NEW l \in 1..Len(report'[j].spots),
                          i < j \/ (i = j /\ k < l)
                   PROVE  report'[i].spots[k].nr < report'[j].spots[l].nr
        BY <1>5 DEF Sorted
      <3>1. report'[i] = report[i + 1] /\ report'[j] = report[j + 1]
        BY <1>5
      <3>2. i + 1 \in 1..L /\ j + 1 \in 1..L /\ (i + 1 < j + 1 \/ (i + 1 = j + 1 /\ k < l))
        BY <1>15, <1>2
      <3> QED BY <3>1, <3>2, <2>0 DEF Sorted, L
    <2>4. Before(wire', report')
      <3> SUFFICES ASSUME NEW i \in 1..(W + 1), NEW j \in 1..(L - 1),
                          NEW k \in 1..Len(wire'[i].spots), NEW l \in 1..Len(report'[j].spots)
                   PROVE  wire'[i].spots[k].nr < report'[j].spots[l].nr
        BY <1>5, <1>13 DEF Before
      <3>1. report'[j] = report[j + 1] /\ j + 1 \in 1..L /\ 1 < j + 1
        BY <1>5, <1>15
      <3>2. CASE i \in 1..W
        <4>1. wire'[i] = wire[i]
          BY <3>2, <1>13
        <4> QED BY <3>1, <3>2, <4>1, <2>0 DEF Before, W, L
      <3>3. CASE i = W + 1
        <4>1. wire'[i].spots = report[1].spots
          BY <3>3, <2>1
        <4> QED BY <3>1, <4>1, <2>0, <1>4 DEF Sorted, L
      <3> QED BY <3>2, <3>3, <1>2
    <2>5. Drained(wire)'
      <3> SUFFICES ASSUME NEW i \in 1..(W + 1), NEW k \in 1..Len(wire'[i].spots)
                   PROVE  wire'[i].spots[k].nr <= Len(queued) - Len(queue)
        BY <1>1, <1>13 DEF Drained
      <3>1. CASE i \in 1..W
        <4>1. wire'[i] = wire[i]
          BY <3>1, <1>13
        <4> QED BY <3>1, <4>1, <2>0 DEF Drained, W
      <3>2. CASE i = W + 1
        <4>1. wire'[i].spots = report[1].spots
          BY <3>2, <2>1
        <4> QED BY <4>1, <2>0, <1>4 DEF Drained, L
      <3> QED BY <3>1, <3>2, <1>2
    <2>6. Drained(report)'
      <3> SUFFICES ASSUME NEW i \in 1..(L - 1), NEW k \in 1..Len(report'[i].spots)
                   PROVE  report'[i].spots[k].nr <= Len(queued) - Len(queue)
        BY <1>1, <1>5 DEF Drained
      <3>1. report'[i] = report[i + 1] /\ i + 1 \in 1..L
        BY <1>5, <1>15
      <3> QED BY <3>1, <2>0 DEF Drained, L
    <2> QED BY <2>2, <2>3, <2>4, <2>5, <2>6 DEF Order
  <1>18. Numbering'
    <2>0. /\ \A i \in 1..W : wire[i].socket <= socket /\ Fits(wire[i])
          /\ W > 0 /\ wire[W].socket = socket => After(wire[W]) = seq + seqAdv
          /\ (\A i \in 1..W : wire[i].socket # socket) => report[1].descriptors
          /\ DescribedFirst /\ SequenceCounts
      BY <1>1 DEF PskInv, Numbering, W
    <2>1. \A i \in 1..(W + 1) : wire'[i].socket <= socket
      BY <2>0, <1>2, <1>12, <1>13
    <2>2. After(sent) = After(p) /\ Fits(sent)
      <3>1. After(sent) = After(p)
        BY <1>12 DEF After
      <3>2. Fits(p)
        BY <1>3, <1>4 DEF InSequence, p, L
      <3>3. Fits(sent)
        BY <3>2, <1>12 DEF Fits
      <3> QED BY <3>1, <3>3
    <2>3. After(wire'[W + 1]) = seq + seqAdv'
      BY <2>2, <1>10, <1>13
    <2>4. \A i \in 1..(W + 1) : Fits(wire'[i])
      BY <2>0, <2>2, <1>2, <1>13
    <2>5. wire'[W + 1].socket = socket /\ W + 1 \in 1..(W + 1)
      BY <1>2, <1>12, <1>13
    <2>6. DescribedFirst'
      <3> SUFFICES ASSUME NEW i \in 1..(W + 1),
                          \A j \in 1..(i - 1) : wire'[j].socket # wire'[i].socket
                   PROVE  wire'[i].descriptors
        BY <1>13 DEF DescribedFirst
      <3>1. CASE i \in 1..W
        <4>1. wire'[i] = wire[i] /\ \A j \in 1..(i - 1) : wire'[j] = wire[j]
          BY <3>1, <1>2, <1>13
        <4>2. i \in DOMAIN wire
          BY <3>1, <1>3 DEF W
        <4> QED BY <4>1, <4>2, <2>0 DEF DescribedFirst
      <3>2. CASE i = W + 1
        <4>1. \A j \in 1..W : j \in 1..(i - 1) /\ wire'[j] = wire[j]
          BY <3>2, <1>2, <1>13
        <4>2. \A j \in 1..W : wire[j].socket # socket
          BY <3>2, <4>1, <2>5
        <4>3. p.descriptors
          BY <4>2, <2>0 DEF p
        <4> QED BY <3>2, <4>3, <1>12, <1>13
      <3> QED BY <3>1, <3>2, <1>2
    <2>7. SequenceCounts'
      <3> SUFFICES ASSUME NEW i \in 1..W, wire'[i].socket = wire'[i + 1].socket
                   PROVE  wire'[i + 1].seq = wire'[i].seq + Len(wire'[i].spots)
        <4>1. Len(wire') - 1 = W
          BY <1>2, <1>13
        <4> QED BY <4>1 DEF SequenceCounts
      <3>1. wire'[i] = wire[i]
        BY <1>13
      <3>2. CASE i = W
        <4>1. After(wire[W]) = seq + seqAdv
          BY <3>1, <3>2, <2>0, <2>5, <1>2
        <4>2. wire'[i + 1].seq = p.seq
          BY <3>2, <1>12, <1>13
        <4> QED BY <3>1, <3>2, <4>1, <4>2, <1>8 DEF After
      <3>3. CASE i # W
        <4>1. i \in 1..(W - 1) /\ i + 1 \in 1..W
          BY <3>3, <1>2
        <4>2. wire'[i + 1] = wire[i + 1]
          BY <4>1, <1>13
        <4> QED BY <3>1, <4>1, <4>2, <2>0 DEF SequenceCounts, W
      <3> QED BY <3>2, <3>3
    <2> QED BY <2>1, <2>3, <2>4, <2>5, <2>6, <2>7, <1>1, <1>13 DEF Numbering
  <1> QED BY <1>14, <1>16, <1>17, <1>18 DEF SenderInv

LEMMA PskInit == Init => PskInv
PROOF
  <1> SUFFICES ASSUME Init PROVE PskInv
    OBVIOUS
  <1>1. /\ queue = << >> /\ queued = << >> /\ report = << >> /\ wire = << >>
        /\ sender = "connect" /\ descLeft = Descriptors /\ seq = 0 /\ seqAdv = 0
        /\ socket = 0 /\ failures = 0
    BY DEF Init
  <1>2. Descriptors \in Nat /\ MaxSpots \in Nat /\ MaxFailures \in Nat /\ MaxPending \in Nat
    BY PskAssumption
  <1>3. Len(<< >>) = 0 /\ 1..0 = {} /\ 1..(0 - 1) = {} /\ DOMAIN << >> = {}
    OBVIOUS
  <1>4. SenderTypes
    BY <1>1, <1>2, <1>3 DEF SenderTypes, InSequence
  <1>5. Queueing
    BY <1>1, <1>2, <1>3 DEF Queueing
  <1>6. Order
    BY <1>1, <1>3 DEF Order, Sorted, Before, Drained
  <1>7. Numbering
    BY <1>1, <1>3 DEF Numbering, DescribedFirst, SequenceCounts
  <1> QED BY <1>4, <1>5, <1>6, <1>7, SpotInit DEF PskInv

LEMMA PskStep == PskInv /\ [Next]_vars => PskInv'
PROOF
  <1> SUFFICES ASSUME PskInv, [Next]_vars PROVE PskInv'
    OBVIOUS
  <1>1. SpotInv'
    BY SpotStep DEF PskInv
  <1>2. SenderInv'
    <2>1. ASSUME NEW call \in Calls, NEW hz \in Frequencies, Add(call, hz) PROVE SenderInv'
      BY <2>1, <1>1, AddStep
    <2>2. CASE Elapse
      BY <2>2, QuietStep DEF Elapse, spots, sending
    <2>3. CASE SetBack
      BY <2>3, QuietStep DEF SetBack, spots, sending
    <2>4. CASE UNCHANGED vars
      BY <2>4, QuietStep DEF vars, spots, sending
    <2>5. CASE Sender
      BY <2>5, ConnectStep, TickStep, SendStep, SendFailsStep, FinishStep DEF Sender
    <2> QED BY <2>1, <2>2, <2>3, <2>4, <2>5 DEF Next
  <1> QED BY <1>1, <1>2 DEF PskInv, SenderInv

LEMMA PskHolds == Spec => []PskInv
PROOF
  BY PskInit, PskStep, PTL DEF Spec

\* The types, the cap of the queue and the counters' bound: what is drained is
\* counted at most once, so the sequence counter is no more than the spots.
THEOREM TypeCorrect == Spec => []TypeOK
PROOF
  <1>1. PskInv => TypeOK
    <2> SUFFICES ASSUME PskInv PROVE TypeOK
      OBVIOUS
    <2>1. /\ {Len(queue), Len(queued), Len(report), seq, seqAdv} \subseteq Nat
          /\ MaxSpots \in Nat /\ Len(queued) <= MaxSpots /\ Len(queue) <= Len(queued)
          /\ MaxFailures \in Nat /\ failures \in Nat
      BY Numbers
    <2>2. elapsed \in 0..MaxElapsed /\ now \in 0..elapsed
      <3>1. elapsed \in Nat /\ elapsed <= MaxElapsed /\ now \in 0..elapsed /\ MaxElapsed \in Nat
        BY PskAssumption DEF PskInv, SpotInv, Numbered
      <3> QED BY <3>1
    <2>3. Range(cache) \subseteq 0..MaxElapsed
      BY DEF PskInv, SpotInv, Remembered, Range
    <2>4. {queue, queued} \subseteq Seq(Spots) /\ wire \in Seq(SentPackets) /\ Len(queue) <= MaxPending
      BY DEF PskInv, SpotInv, Numbered, Queueing, SenderTypes
    <2>5. report \in Seq(Packets)
      <3>1. InSequence(report) /\ report \in Seq(AnyPackets)
        BY DEF PskInv, SenderTypes, InSequence
      <3>2. ASSUME NEW i \in 1..Len(report) PROVE report[i] \in Packets
        <4>1. /\ report[i] \in AnyPackets /\ report[i].seq \in Nat /\ After(report[i]) \in Nat
              /\ report[i].seq <= After(report[i])
          BY <3>1, PacketFields
        <4>2. Len(report) \in 1..Len(report) /\ Len(report) > 0
          BY <2>1
        <4>3. After(report[i]) <= After(report[Len(report)]) /\ After(report[Len(report)]) \in Nat
          BY <3>1, <4>2, LastIsLast, PacketFields
        <4>4. After(report[Len(report)]) + Len(queue) <= Len(queued)
          BY <4>2 DEF PskInv, Queueing
        <4>5. report[i].seq \in 0..MaxSpots
          BY <4>1, <4>3, <4>4, <2>1
        <4> QED BY <4>1, <4>5 DEF AnyPackets, Packets
      <3> QED BY <3>1, <3>2
    <2>6. seq \in 0..MaxSpots
      <3>1. seq + Len(queue) <= Len(queued)
        BY DEF PskInv, Queueing
      <3> QED BY <3>1, <2>1
    <2>7. socket \in 0..(MaxFailures + 1)
      <3>1. socket = (IF sender = "connect" THEN failures ELSE failures + 1) /\ failures \in 0..MaxFailures
        BY DEF PskInv, SenderTypes
      <3> QED BY <3>1, <2>1
    <2>8. report # << >> => sender = "sending"
      BY <2>5, <2>1 DEF PskInv, SenderTypes
    <2> QED BY <2>1, <2>2, <2>3, <2>4, <2>5, <2>6, <2>7, <2>8 DEF PskInv, SenderTypes, TypeOK
  <1> QED BY <1>1, PskHolds, PTL

\* Spots leave in the order they were queued and none twice, whatever is
\* lost on the way (add, drain, build_packets, run_sender).
THEOREM OrderKept == Spec => []InOrderOnce
PROOF
  <1>1. PskInv => InOrderOnce
    <2> SUFFICES ASSUME PskInv PROVE InOrderOnce
      OBVIOUS
    <2> DEFINE f == wire \o report
               W == Len(wire)
               L == Len(report)
    <2>1. /\ wire \in Seq(SentPackets) /\ report \in Seq(AnyPackets) /\ W \in Nat /\ L \in Nat
          /\ queue \in Seq(Spots) /\ Len(queue) \in Nat
      BY Numbers DEF PskInv, SenderTypes, InSequence, Queueing
    <2>2. DOMAIN f = 1..(W + L) /\ \A i \in 1..(W + L) : f[i] = IF i <= W THEN wire[i] ELSE report[i - W]
      BY <2>1
    <2>3. \A i \in 1..(W + L) : i \in 1..W \/ (i - W \in 1..L /\ ~(i <= W))
      BY <2>1
    <2>4. Sorted(wire) /\ Sorted(report) /\ Before(wire, report) /\ Drained(wire) /\ Drained(report)
      BY DEF PskInv, Order
    <2>5. \A i \in 1..Len(wire) : DOMAIN wire[i].spots = 1..Len(wire[i].spots)
      BY <2>1, SentFields
    <2>6. \A i \in 1..Len(report) : DOMAIN report[i].spots = 1..Len(report[i].spots)
      BY <2>1, PacketFields
    <2> HIDE DEF f, W, L
    <2>7. ASSUME NEW i \in 1..(W + L), NEW j \in 1..(W + L),
                 NEW k \in DOMAIN f[i].spots, NEW l \in DOMAIN f[j].spots, i < j \/ (i = j /\ k < l)
          PROVE  f[i].spots[k].nr < f[j].spots[l].nr
      <3>1. CASE i \in 1..W /\ j \in 1..W
        <4>1. f[i] = wire[i] /\ f[j] = wire[j]
          BY <3>1, <2>1, <2>2
        <4> QED BY <4>1, <3>1, <2>4, <2>5, <2>7 DEF Sorted, W
      <3>2. CASE i \in 1..W /\ j - W \in 1..L /\ ~(j <= W)
        <4>1. f[i] = wire[i] /\ f[j] = report[j - W]
          BY <3>2, <2>1, <2>2
        <4> QED BY <4>1, <3>2, <2>4, <2>5, <2>6 DEF Before, W, L
      <3>3. CASE i - W \in 1..L /\ ~(i <= W) /\ j - W \in 1..L /\ ~(j <= W)
        <4>1. f[i] = report[i - W] /\ f[j] = report[j - W]
          BY <3>3, <2>2
        <4>2. i - W < j - W \/ (i - W = j - W /\ k < l)
          BY <2>1, <2>7
        <4> QED BY <4>1, <4>2, <3>3, <2>4, <2>6 DEF Sorted, L
      <3>4. CASE i - W \in 1..L /\ ~(i <= W) /\ j \in 1..W
        BY <3>4, <2>1, <2>7
      <3> QED BY <3>1, <3>2, <3>3, <3>4, <2>3
    <2>8. ASSUME NEW i \in 1..(W + L), NEW k \in DOMAIN f[i].spots
          PROVE  f[i].spots[k].nr <= Len(queued) - Len(queue)
      <3>1. CASE i \in 1..W
        <4>1. f[i] = wire[i]
          BY <3>1, <2>1, <2>2
        <4> QED BY <4>1, <3>1, <2>4, <2>5 DEF Drained, W
      <3>2. CASE i - W \in 1..L /\ ~(i <= W)
        <4>1. f[i] = report[i - W]
          BY <3>2, <2>2
        <4> QED BY <4>1, <3>2, <2>4, <2>6 DEF Drained, L
      <3> QED BY <3>1, <3>2, <2>3
    <2>9. \A i \in DOMAIN queue : queue[i].nr = Len(queued) - Len(queue) + i
      BY <2>1, SMTT(30) DEF PskInv, Queueing
    <2>10. Ordered(f)
      BY <2>2, <2>7 DEF Ordered
    <2> QED BY <2>2, <2>8, <2>9, <2>10 DEF InOrderOnce, f
  <1> QED BY <1>1, PskHolds, PTL

\* A collector can read what a socket carries: descriptors first, numbers
\* without a gap from a report to the next, and payloads of the length that
\* the cost model of build_packets promises, for records of any length.
THEOREM CollectorCanRead == Spec => []CollectorReads
PROOF
  <1>1. PskInv => CollectorReads
    <2> SUFFICES ASSUME PskInv PROVE CollectorReads
      OBVIOUS
    <2>1. DOMAIN wire = 1..Len(wire)
      BY DEF PskInv, SenderTypes
    <2>2. PayloadFits
      BY <2>1 DEF PskInv, Numbering, PayloadFits, Fits
    <2> QED BY <2>2 DEF PskInv, Numbering, CollectorReads
  <1> QED BY <1>1, PskHolds, PTL
=============================================================================
