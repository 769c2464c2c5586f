---------------------------- MODULE DecoderProofs ----------------------------
(***************************************************************************)
(* Proofs about the decoders.                                              *)
(*                                                                         *)
(* DecodeSlots (FT8, FT4), for any slot length, any cap, any decode that   *)
(* is shorter than a slot by two ticks, any frequencies and any pattern of *)
(* stalls, tunes, retunes and settings of the clock: every slot that was   *)
(* heard as a whole is reported once and in time, and a spot that nothing  *)
(* disturbed is posted at the frequency it was heard on.                   *)
(*                                                                         *)
(* Js8Window, for any speeds and station with the timing that the code's   *)
(* constants have, polled in any rhythm: the cycles of a station that are  *)
(* lost are those that end among slow polls, a second row of a             *)
(* transmission is at another frequency, and a suppression ends.           *)
(***************************************************************************)
EXTENDS DecodeSlots, Js8Window, NumberFacts

\* What was heard lies in the order of time, each sample a tick of its own.
Ordered ==
    /\ \A i \in 1..Len(heard) : heard[i].at + (Len(heard) - i) < clock
    /\ \A i, j \in 1..Len(heard) : i < j => heard[i].at + (j - i) <= heard[j].at

\* Without a stall no tick is missing.
Unbroken ==
    stalls = {} => \A i \in 1..Len(heard) : heard[i].at + (Len(heard) - i) + 1 = clock

\* What was heard after the latest step of a Tune was heard on this board.
OnBoard ==
    /\ moved \in Nat
    /\ \A i \in 1..Len(heard) : heard[i].at > moved => heard[i].on = board + heard[i].by

\* A burst's window is a stretch of what was heard.
WindowHeard ==
    burst # None =>
        \E n \in Nat :
            /\ n + SlotTicks <= Len(heard)
            /\ \A i \in 1..SlotTicks : burst.window[i] = heard[n + i]

\* As long as nobody sets the wall clock, the thread looks at a slot within a
\* tick of its end, decodes it before it could miss the next, and so never
\* falls behind by more than one slot.
Punctual ==
    sets = 0 =>
        /\ ahead = 0
        /\ clock >= SlotTicks
        /\ burst = None => marked <= last
        /\ burst = None /\ stop = "no" =>
              /\ last \in {ClosedSlot(clock), ClosedSlot(clock) - SlotTicks}
              /\ last # ClosedSlot(clock) =>
                    /\ clock <= looked + 2
                    /\ looked < ClosedSlot(clock) \/ (heard = <<>> /\ clock = looked + 2)
        /\ burst # None =>
              /\ burst.slot = ClosedSlot(clock)
              /\ last = ClosedSlot(clock) - SlotTicks
              /\ looked \in {burst.slot, burst.slot + 1}
              /\ clock <= looked + BurstTicks

\* A report has the transmission m, under the end e of its slot.
HasRow(e, m) == \E i \in 1..Len(reports) : reports[i].slot = e /\ m \in reports[i].found

\* A slot heard as a whole is in the window of its burst, and has its row
\* when the thread has left it behind.
Complete ==
    stop = "no" /\ sets = 0 =>
        \A m \in Found(heard) :
            Arrived(m.slot) =>
                /\ (m.slot + 1) * SlotTicks <= last => HasRow((m.slot + 1) * SlotTicks, m)
                /\ burst # None /\ (m.slot + 1) * SlotTicks = burst.slot => m \in Found(burst.window)

\* Without a stall a window holds the transmission of one slot, the one its
\* burst is for.
OwnSlot ==
    stalls = {} /\ sets = 0 =>
        /\ \A i \in 1..Len(reports) : \A m \in reports[i].found : reports[i].slot = (m.slot + 1) * SlotTicks
        /\ burst # None => \A m \in Found(burst.window) : burst.slot = (m.slot + 1) * SlotTicks

Reports == [slot : Nat, epoch : Nat, found : SUBSET [slot : Nat, on : Nat]]

\* In an epoch the stamps of the reports grow, and the thread's last slot is
\* between them and what the clock shows.
Growing ==
    /\ reports \in Seq(Reports)
    /\ \A i, j \in 1..Len(reports) :
          i < j /\ reports[i].epoch = reports[j].epoch => reports[i].slot < reports[j].slot
    /\ \A i \in 1..Len(reports) :
          /\ reports[i].epoch <= epoch
          /\ reports[i].epoch = epoch => reports[i].slot <= last /\ last <= ClosedSlot(Now)
          /\ burst # None =>
                /\ reports[i].epoch <= burst.epoch
                /\ reports[i].epoch = burst.epoch => reports[i].slot < burst.slot
    /\ burst # None => burst.epoch <= epoch /\ (burst.epoch = epoch => burst.slot <= ClosedSlot(Now))

\* The Tune that is trusted is the only one and is on the board; when it has
\* updated the map too, board and map agree.
Trusted ==
    /\ trust \in Tuners \union {"agreed", "unsure"}
    /\ trust = "agreed" => (tuning # 0 => board = tuning) /\ \A t \in Tuners : pending[t] = None
    /\ \A t \in Tuners : trust = t => pending[t] = board /\ \A u \in Tuners \ {t} : pending[u] = None

DecodeInv ==
    /\ TypeOK /\ Ordered /\ Unbroken /\ OnBoard /\ WindowHeard
    /\ Punctual /\ Complete /\ OwnSlot /\ Growing /\ Trusted /\ SpotAsHeard

-----------------------------------------------------------------------------
(* The clock and its slots. *)

LEMMA Constants ==
    /\ SlotTicks \in Nat \ {0} /\ SlotTicks >= 3
    /\ Cap \in Nat /\ Cap >= SlotTicks
    /\ BurstTicks \in Nat /\ BurstTicks + 2 <= SlotTicks
    /\ Ncos \subseteq Nat /\ Nco \in Ncos /\ 0 \notin Ncos
    /\ Offsets \subseteq Nat /\ Offset \in Offsets
    /\ None \notin Bursts /\ None \notin Nat
    /\ "agreed" \notin Tuners /\ "unsure" \notin Tuners
  BY DecodeAssumption

\* The closed slot is the last multiple of the slot length.
LEMMA Closed ==
    ASSUME NEW t \in Nat
    PROVE  /\ ClosedSlot(t) \in Nat
           /\ ClosedSlot(t) <= t
           /\ t < ClosedSlot(t) + SlotTicks
           /\ t % SlotTicks = t - ClosedSlot(t)
           /\ \E q \in Nat : ClosedSlot(t) = q * SlotTicks
  <1>1. SlotTicks \in Nat \ {0}
    BY Constants
  <1>2. PICK q : q = t \div SlotTicks
    OBVIOUS
  <1>3. /\ t % SlotTicks \in 0..(SlotTicks - 1)
        /\ q \in Nat
        /\ t = SlotTicks * q + (t % SlotTicks)
    BY <1>1, <1>2, DivMod
  <1>4. PICK x : x = SlotTicks * q
    OBVIOUS
  <1>5. ClosedSlot(t) = x /\ x \in Nat /\ x = q * SlotTicks
    BY <1>1, <1>2, <1>3, <1>4 DEF ClosedSlot
  <1>6. x <= t /\ t < x + SlotTicks /\ t % SlotTicks = t - x
    BY <1>1, <1>3, <1>4, <1>5
  <1> QED BY <1>3, <1>5, <1>6

\* Two ends of slots less than a slot apart are the same.
LEMMA SameEnd ==
    ASSUME NEW p \in Int, NEW q \in Int,
           p * SlotTicks < q * SlotTicks + SlotTicks, q * SlotTicks < p * SlotTicks + SlotTicks
    PROVE  p * SlotTicks = q * SlotTicks
  <1>1. SlotTicks \in Nat \ {0}
    BY Constants
  <1>2. /\ SlotTicks * p = p * SlotTicks /\ SlotTicks * q = q * SlotTicks
        /\ p * SlotTicks \in Int /\ q * SlotTicks \in Int
    BY <1>1
  <1>3. ~ p < q
    BY <1>1, <1>2, MultipleGap
  <1>4. ~ q < p
    BY <1>1, <1>2, MultipleGap
  <1> QED BY <1>3, <1>4

\* A multiple of the slot length is its own closed slot.
LEMMA ClosedMultiple ==
    ASSUME NEW t \in Nat, NEW q \in Int, t - SlotTicks < q * SlotTicks, q * SlotTicks <= t
    PROVE  ClosedSlot(t) = q * SlotTicks
  <1>1. SlotTicks \in Nat \ {0}
    BY Constants
  <1>2. PICK p \in Nat : ClosedSlot(t) = p * SlotTicks
    BY Closed
  <1>3. ClosedSlot(t) \in Nat /\ ClosedSlot(t) <= t /\ t < ClosedSlot(t) + SlotTicks
    BY Closed
  <1>4. q * SlotTicks \in Int
    BY <1>1
  <1>5. p * SlotTicks < q * SlotTicks + SlotTicks /\ q * SlotTicks < p * SlotTicks + SlotTicks
    BY <1>1, <1>2, <1>3, <1>4
  <1> QED BY <1>2, <1>5, SameEnd

\* A tick later the same slot is closed, or the next.
LEMMA ClosedNext ==
    ASSUME NEW t \in Nat
    PROVE  \/ ClosedSlot(t + 1) = ClosedSlot(t) /\ t + 1 < ClosedSlot(t) + SlotTicks
           \/ ClosedSlot(t + 1) = ClosedSlot(t) + SlotTicks /\ t + 1 = ClosedSlot(t) + SlotTicks
  <1>1. SlotTicks \in Nat \ {0}
    BY Constants
  <1>2. PICK q \in Nat : ClosedSlot(t) = q * SlotTicks
    BY Closed
  <1>3. ClosedSlot(t) \in Nat /\ ClosedSlot(t) <= t /\ t < ClosedSlot(t) + SlotTicks
    BY Closed
  <1>4. (q + 1) * SlotTicks = q * SlotTicks + SlotTicks /\ q * SlotTicks \in Int
    BY <1>1
  <1>5. CASE t + 1 < ClosedSlot(t) + SlotTicks
    BY <1>1, <1>2, <1>3, <1>4, <1>5, ClosedMultiple
  <1>6. CASE ~ t + 1 < ClosedSlot(t) + SlotTicks
    <2>1. t + 1 = ClosedSlot(t) + SlotTicks
      BY <1>1, <1>3, <1>6
    <2>2. ClosedSlot(t + 1) = (q + 1) * SlotTicks
      BY <1>1, <1>2, <1>3, <1>4, <2>1, ClosedMultiple
    <2> QED BY <1>2, <1>4, <2>1, <2>2
  <1> QED BY <1>5, <1>6

\* A later clock shows no earlier slot.
LEMMA ClosedGrows ==
    ASSUME NEW t \in Nat, NEW u \in Nat, t <= u
    PROVE  ClosedSlot(t) <= ClosedSlot(u)
  <1>1. SlotTicks \in Nat \ {0}
    BY Constants
  <1>2. PICK p \in Nat : ClosedSlot(t) = p * SlotTicks
    BY Closed
  <1>3. PICK q \in Nat : ClosedSlot(u) = q * SlotTicks
    BY Closed
  <1>4. PICK x \in Nat : x = ClosedSlot(t) /\ x <= t
    BY Closed
  <1>5. PICK y \in Nat : y = ClosedSlot(u) /\ u < y + SlotTicks
    BY Closed
  <1>6. x < y + SlotTicks
    BY <1>1, <1>4, <1>5
  <1>7. y < x + SlotTicks => x = y
    BY <1>2, <1>3, <1>4, <1>5, <1>6, SameEnd
  <1>8. x <= y
    BY <1>1, <1>4, <1>5, <1>7
  <1> QED BY <1>4, <1>5, <1>8

-----------------------------------------------------------------------------
(* What was heard, the buffer and the window. *)

LEMMA Stretch ==
    ASSUME NEW s \in Seq(Samples), NEW m \in Nat, NEW k \in Nat, m + k <= Len(s),
           NEW d, d = SubSeq(s, m + 1, m + k)
    PROVE  /\ d \in Seq(Samples)
           /\ Len(d) = k
           /\ \A i \in 1..k : d[i] = s[m + i]
  <1>1. \A i \in (m + 1)..(m + k) : s[i] \in Samples
    OBVIOUS
  <1>2. d \in Seq(Samples)
    BY <1>1
  <1> QED BY <1>2

LEMMA SameSeq ==
    ASSUME NEW s \in Seq(Samples), NEW d \in Seq(Samples), Len(s) = Len(d),
           \A i \in 1..Len(s) : s[i] = d[i]
    PROVE  s = d
  OBVIOUS

LEMMA Smaller ==
    ASSUME NEW n \in Nat, NEW c \in Nat, NEW l, l = IF n <= c THEN n ELSE c
    PROVE  l \in Nat /\ l <= n /\ l <= c /\ n - l \in Nat
  <1>1. CASE n <= c
    BY <1>1
  <1>2. CASE ~ n <= c
    BY <1>2
  <1> QED BY <1>1, <1>2

\* The buffer's samples are the last that were heard.
LEMMA LatestFacts ==
    ASSUME NEW h \in Seq(Samples), NEW b, Latest(b, h)
    PROVE  /\ b \in Seq(Samples)
           /\ Len(b) = IF Len(h) <= Cap THEN Len(h) ELSE Cap
           /\ \A i \in 1..Len(b) : b[i] = h[Len(h) - Len(b) + i]
  <1>1. Cap \in Nat
    BY Constants
  <1>2. PICK n \in Nat : n = Len(h)
    OBVIOUS
  <1>3. PICK l \in Nat : l = Len(b)
    BY <1>1, <1>2 DEF Latest
  <1>4. l = IF n <= Cap THEN n ELSE Cap
    BY <1>2, <1>3 DEF Latest
  <1>5. PICK m \in Nat : m = n - l
    <2>1. n - l \in Nat
      BY <1>1, <1>4, Smaller
    <2> QED BY <2>1
  <1>6. b = SubSeq(h, m + 1, m + l)
    <2>1. b = SubSeq(h, n - l + 1, n)
      BY <1>2, <1>3 DEF Latest
    <2>2. n - l + 1 = m + 1 /\ n = m + l
      BY <1>5
    <2> QED BY <2>1, <2>2
  <1>7. m + l <= Len(h)
    BY <1>2, <1>5
  <1>8. b \in Seq(Samples) /\ \A i \in 1..l : b[i] = h[m + i]
    BY <1>6, <1>7, Stretch
  <1> QED BY <1>2, <1>3, <1>4, <1>5, <1>8

\* Whatever ends h like this is the buffer.
LEMMA LatestIs ==
    ASSUME NEW h \in Seq(Samples), NEW b \in Seq(Samples),
           Len(b) = IF Len(h) <= Cap THEN Len(h) ELSE Cap,
           \A i \in 1..Len(b) : b[i] = h[Len(h) - Len(b) + i]
    PROVE  Latest(b, h)
  <1>1. Cap \in Nat
    BY Constants
  <1>2. PICK n \in Nat : n = Len(h)
    OBVIOUS
  <1>3. PICK l \in Nat : l = Len(b)
    OBVIOUS
  <1>4. PICK m \in Nat : m = n - l
    <2>1. l = IF n <= Cap THEN n ELSE Cap
      BY <1>2, <1>3
    <2>2. n - l \in Nat
      BY <1>1, <2>1, Smaller
    <2> QED BY <2>2
  <1>5. PICK d : d = SubSeq(h, m + 1, m + l)
    OBVIOUS
  <1>6. m + l <= Len(h)
    BY <1>2, <1>4
  <1>7. d \in Seq(Samples) /\ Len(d) = l /\ \A i \in 1..l : d[i] = h[m + i]
    BY <1>5, <1>6, Stretch
  <1>8. \A i \in 1..l : b[i] = d[i]
    BY <1>2, <1>3, <1>4, <1>7
  <1>9. b = d
    BY <1>3, <1>7, <1>8, SameSeq
  <1>10. m + 1 = Len(h) - Len(b) + 1 /\ m + l = Len(h)
    BY <1>2, <1>3, <1>4
  <1> QED BY <1>5, <1>9, <1>10 DEF Latest

LEMMA Longer ==
    ASSUME NEW s \in Seq(Samples), NEW x \in Samples, NEW a, a = Append(s, x)
    PROVE  /\ a \in Seq(Samples)
           /\ Len(a) = Len(s) + 1
           /\ a[Len(s) + 1] = x
           /\ \A i \in 1..Len(s) : a[i] = s[i]
  OBVIOUS

\* Another sample keeps it so.
LEMMA LatestTrim ==
    ASSUME NEW h \in Seq(Samples), NEW b, Latest(b, h), NEW x \in Samples
    PROVE  Latest(Trim(Append(b, x)), Append(h, x))
  <1>1. Cap \in Nat \ {0}
    BY Constants
  <1>2. PICK n \in Nat : n = Len(h)
    OBVIOUS
  <1>3. PICK g : g = Append(h, x)
    OBVIOUS
  <1>4. g \in Seq(Samples) /\ Len(g) = n + 1 /\ g[n + 1] = x /\ \A i \in 1..n : g[i] = h[i]
    BY <1>2, <1>3, Longer
  <1>5. b \in Seq(Samples)
    BY LatestFacts
  <1>6. PICK l \in Nat : l = Len(b)
    BY <1>5
  <1>7. l = (IF n <= Cap THEN n ELSE Cap) /\ \A i \in 1..l : b[i] = h[n - l + i]
    BY <1>2, <1>6, LatestFacts
  <1>8. PICK a : a = Append(b, x)
    OBVIOUS
  <1>9. a \in Seq(Samples) /\ Len(a) = l + 1 /\ a[l + 1] = x /\ \A i \in 1..l : a[i] = b[i]
    BY <1>5, <1>6, <1>8, Longer
  <1>10. ASSUME NEW i \in 1..(l + 1)
         PROVE  a[i] = g[n - l + i]
    <2>1. CASE i = l + 1
      <3>1. n - l + i = n + 1
        BY <2>1
      <3> QED BY <1>4, <1>9, <2>1, <3>1
    <2>2. CASE i # l + 1
      <3>1. i \in 1..l /\ n - l + i \in 1..n
        BY <1>1, <1>7, <2>2
      <3> QED BY <1>4, <1>7, <1>9, <3>1
    <2> QED BY <2>1, <2>2
  <1>11. CASE l + 1 <= Cap
    <2>1. Trim(a) = a
      BY <1>1, <1>9, <1>11 DEF Trim
    <2>2. n + 1 <= Cap /\ l = n
      BY <1>1, <1>7, <1>11
    <2>3. Latest(a, g)
      <3>1. Len(a) = IF Len(g) <= Cap THEN Len(g) ELSE Cap
        BY <1>4, <1>9, <2>2
      <3>2. ASSUME NEW i \in 1..Len(a)
            PROVE  a[i] = g[Len(g) - Len(a) + i]
        <4>1. i \in 1..(l + 1) /\ Len(g) - Len(a) + i = n - l + i
          BY <1>4, <1>9
        <4> QED BY <1>10, <4>1
      <3> QED BY <1>4, <1>9, <3>1, <3>2, LatestIs
    <2> QED BY <1>3, <1>8, <2>1, <2>3
  <1>12. CASE ~ l + 1 <= Cap
    <2>1. l = Cap /\ n >= Cap
      BY <1>1, <1>7, <1>12
    <2>2. Trim(a) = SubSeq(a, 1 + 1, 1 + Cap)
      <3>1. Len(a) > Cap /\ Len(a) - Cap + 1 = 1 + 1 /\ Len(a) = 1 + Cap
        BY <1>1, <1>9, <2>1
      <3> QED BY <3>1 DEF Trim
    <2>3. PICK t : t = Trim(a)
      OBVIOUS
    <2>4. t \in Seq(Samples) /\ Len(t) = Cap /\ \A i \in 1..Cap : t[i] = a[1 + i]
      <3>1. 1 + Cap <= Len(a)
        BY <1>1, <1>9, <2>1
      <3> QED BY <1>1, <1>9, <2>2, <2>3, <3>1, Stretch
    <2>5. ASSUME NEW i \in 1..Cap
          PROVE  t[i] = g[n + 1 - Cap + i]
      <3>1. 1 + i \in 1..(l + 1) /\ n - l + (1 + i) = n + 1 - Cap + i
        BY <1>1, <2>1
      <3> QED BY <1>10, <2>4, <3>1
    <2>6. Len(t) = IF Len(g) <= Cap THEN Len(g) ELSE Cap
      BY <1>1, <1>4, <2>1, <2>4
    <2>7. Latest(t, g)
      <3>1. ASSUME NEW i \in 1..Len(t)
            PROVE  t[i] = g[Len(g) - Len(t) + i]
        <4>1. i \in 1..Cap /\ Len(g) - Len(t) + i = n + 1 - Cap + i
          BY <1>1, <1>4, <2>4
        <4> QED BY <2>5, <4>1
      <3> QED BY <1>4, <2>4, <2>6, <3>1, LatestIs
    <2> QED BY <1>3, <1>8, <2>3, <2>7
  <1> QED BY <1>11, <1>12

\* The window is a stretch of what was heard, the latest one.
LEMMA SnapshotFacts ==
    ASSUME heard \in Seq(Samples), Latest(buf, heard), Len(heard) >= SlotTicks
    PROVE  /\ Snapshot \in Seq(Samples)
           /\ Len(Snapshot) = SlotTicks
           /\ \A i \in 1..SlotTicks : Snapshot[i] = heard[Len(heard) - SlotTicks + i]
  <1>1. Cap \in Nat /\ SlotTicks \in Nat /\ SlotTicks <= Cap
    BY Constants
  <1>2. buf \in Seq(Samples)
    BY LatestFacts
  <1>3. PICK n \in Nat : n = Len(heard)
    OBVIOUS
  <1>4. PICK l \in Nat : l = Len(buf)
    BY <1>2
  <1>5. l = (IF n <= Cap THEN n ELSE Cap) /\ \A i \in 1..l : buf[i] = heard[n - l + i]
    BY <1>3, <1>4, LatestFacts
  <1>6. l >= SlotTicks
    BY <1>1, <1>3, <1>5
  <1>7. PICK m \in Nat : m = l - SlotTicks
    BY <1>1, <1>6
  <1>8. PICK w : w = Snapshot
    OBVIOUS
  <1>9. w = SubSeq(buf, m + 1, m + SlotTicks)
    <2>1. w = SubSeq(buf, l - SlotTicks + 1, l)
      BY <1>4, <1>8 DEF Snapshot
    <2>2. l - SlotTicks + 1 = m + 1 /\ l = m + SlotTicks
      BY <1>1, <1>7
    <2> QED BY <2>1, <2>2
  <1>10. m + SlotTicks <= Len(buf)
    BY <1>1, <1>4, <1>7
  <1>11. w \in Seq(Samples) /\ Len(w) = SlotTicks /\ \A i \in 1..SlotTicks : w[i] = buf[m + i]
    <2>1. SlotTicks \in Nat /\ m \in Nat /\ buf \in Seq(Samples)
      BY <1>1, <1>2
    <2> QED BY <1>9, <1>10, <2>1, Stretch
  <1>12. ASSUME NEW i \in 1..SlotTicks
         PROVE  w[i] = heard[n - SlotTicks + i]
    <2>1. m + i \in 1..l /\ n - l + (m + i) = n - SlotTicks + i
      BY <1>1, <1>6, <1>7
    <2> QED BY <1>5, <1>11, <2>1
  <1> QED BY <1>3, <1>8, <1>11, <1>12

LEMMA HeardFacts ==
    ASSUME heard \in Seq(Samples), NEW i \in 1..Len(heard)
    PROVE  heard[i] \in Samples /\ heard[i].at \in Nat /\ heard[i].on \in Nat /\ heard[i].by \in Offsets
  <1>1. heard[i] \in Samples
    OBVIOUS
  <1> QED BY <1>1 DEF Samples

\* A run of ticks that were all heard lies in one piece in what was heard: a
\* first tick of it out of place would be heard before its turn or not at all.
LEMMA OnePiece ==
    ASSUME heard \in Seq(Samples), Ordered, NEW a \in Nat, NEW n \in Nat,
           \A t \in a..(a + n) : \E i \in 1..Len(heard) : heard[i].at = t
    PROVE  \E p \in 1..Len(heard) :
              \A j \in 0..n : p + j \in 1..Len(heard) /\ heard[p + j].at = a + j
  <1>1. PICK l \in Nat : l = Len(heard)
    OBVIOUS
  <1>2. /\ \A i \in 1..l : heard[i].at \in Nat
        /\ \A i, j \in 1..l : i < j => heard[i].at + (j - i) <= heard[j].at
    <2>1. \A i \in 1..l : heard[i].at \in Nat
      BY <1>1, HeardFacts
    <2>2. \A i, j \in 1..l : i < j => heard[i].at + (j - i) <= heard[j].at
      BY <1>1 DEF Ordered
    <2> QED BY <2>1, <2>2
  <1>3. PICK p \in 1..l : heard[p].at = a
    BY <1>1
  <1>4. PICK Bad : Bad = {j \in 0..n : ~ (p + j \in 1..l /\ heard[p + j].at = a + j)}
    OBVIOUS
  <1>5. CASE Bad = {}
    <2>1. \A j \in 0..n : p + j \in 1..l /\ heard[p + j].at = a + j
      BY <1>4, <1>5
    <2> QED BY <1>1, <2>1
  <1>6. CASE Bad # {}
    <2>1. PICK j \in Bad : \A y \in Bad : j <= y
      <3>1. Bad \in SUBSET Nat
        BY <1>4
      <3> QED BY <1>6, <3>1, LeastNatural
    <2>2. j \in 0..n /\ ~ (p + j \in 1..l /\ heard[p + j].at = a + j)
      BY <1>4
    <2>3. j # 0
      BY <1>1, <1>3, <2>2
    <2>4. j - 1 \in 0..n /\ ~ (j - 1) \in Bad
      BY <2>1, <2>2, <2>3
    <2>5. PICK q : q = p + (j - 1)
      OBVIOUS
    <2>6. q \in 1..l /\ heard[q].at = a + (j - 1)
      BY <1>4, <2>4, <2>5
    <2>7. PICK r \in 1..l : heard[r].at = a + j
      <3>1. a + j \in a..(a + n)
        BY <2>2
      <3> QED BY <1>1, <3>1
    <2>8. q < r
      <3>1. CASE r < q
        <4>1. heard[r].at + (q - r) <= heard[q].at
          BY <1>2, <2>6, <3>1
        <4> QED BY <1>1, <2>2, <2>6, <2>7, <3>1, <4>1
      <3>2. CASE r = q
        BY <2>2, <2>6, <2>7, <3>2
      <3> QED BY <1>1, <2>6, <3>1, <3>2
    <2>9. q + 1 \in 1..l /\ q + 1 = p + j
      BY <1>1, <1>3, <2>2, <2>5, <2>6, <2>8
    <2>10. heard[q].at + 1 <= heard[q + 1].at
      <3>1. heard[q].at + ((q + 1) - q) <= heard[q + 1].at
        BY <1>1, <1>2, <2>6, <2>9
      <3>2. (q + 1) - q = 1
        BY <2>6
      <3> QED BY <3>1, <3>2
    <2>11. CASE r = q + 1
      BY <2>2, <2>7, <2>9, <2>11
    <2>12. CASE r # q + 1
      <3>1. q + 1 < r
        BY <1>1, <2>6, <2>8, <2>12
      <3>2. heard[q + 1].at + (r - (q + 1)) <= heard[r].at
        BY <1>2, <2>9, <3>1
      <3>3. heard[q + 1].at \in Nat /\ heard[q + 1].at >= a + j
        BY <1>2, <2>2, <2>6, <2>9, <2>10
      <3>4. heard[q + 1].at + (r - (q + 1)) <= a + j /\ r - (q + 1) > 0
        BY <2>6, <2>7, <3>1, <3>2
      <3>5. FALSE
        BY <2>2, <2>6, <3>3, <3>4
      <3> QED BY <3>5
    <2> QED BY <2>11, <2>12
  <1> QED BY <1>5, <1>6

-----------------------------------------------------------------------------
(* Transmissions. *)

\* A transmission is in a sequence of samples if every tick of its body is.
LEMMA FoundIs ==
    ASSUME NEW w \in Seq(Samples), NEW m
    PROVE  m \in Found(w) <=>
              /\ m \in [slot : 0..(MaxClock \div SlotTicks), on : Nat]
              /\ m.slot \in Nat
              /\ \A at \in Body(m.slot) : \E i \in 1..Len(w) : w[i].at = at /\ w[i].on = m.on
  <1>1. SlotTicks \in Nat \ {0} /\ SlotTicks >= 3 /\ MaxClock \in Nat
    BY DecodeAssumption
  <1>2. PICK d : d = MaxClock \div SlotTicks
    OBVIOUS
  <1>3. d \in Nat
    BY <1>1, <1>2, DivMod
  <1>4. PICK T : T = ToSet(w)
    OBVIOUS
  <1>5. T = {w[i] : i \in 1..Len(w)}
    BY <1>4 DEF ToSet
  <1>6. \A s \in T : s.on \in Nat
    <2>1. \A i \in 1..Len(w) : w[i] \in Samples
      OBVIOUS
    <2> QED BY <1>5, <2>1 DEF Samples
  <1>7. Found(w) = {x \in [slot : 0..d, on : {s.on : s \in T}] :
                      \A at \in Body(x.slot) : \E s \in T : s.at = at /\ s.on = x.on}
    BY <1>2, <1>4 DEF Found
  <1>8. ASSUME m \in Found(w)
        PROVE  /\ m \in [slot : 0..d, on : Nat]
               /\ m.slot \in Nat
               /\ \A at \in Body(m.slot) : \E i \in 1..Len(w) : w[i].at = at /\ w[i].on = m.on
    <2>1. m \in [slot : 0..d, on : {s.on : s \in T}]
      BY <1>7, <1>8
    <2>2. m \in [slot : 0..d, on : Nat] /\ m.slot \in Nat
      BY <1>3, <1>6, <2>1
    <2>3. \A at \in Body(m.slot) : \E s \in T : s.at = at /\ s.on = m.on
      BY <1>7, <1>8
    <2> QED BY <1>5, <2>2, <2>3
  <1>9. ASSUME m \in [slot : 0..d, on : Nat], m.slot \in Nat,
               \A at \in Body(m.slot) : \E i \in 1..Len(w) : w[i].at = at /\ w[i].on = m.on
        PROVE  m \in Found(w)
    <2>1. m.slot * SlotTicks + 1 \in Body(m.slot)
      <3>1. PICK a \in Nat : a = m.slot * SlotTicks
        BY <1>1, <1>9
      <3>2. Body(m.slot) = (a + 1)..(a + SlotTicks - 1)
        BY <3>1 DEF Body
      <3> QED BY <1>1, <3>1, <3>2
    <2>2. \A at \in Body(m.slot) : \E s \in T : s.at = at /\ s.on = m.on
      BY <1>5, <1>9
    <2>3. m.on \in {s.on : s \in T}
      BY <2>1, <2>2
    <2>4. m \in [slot : 0..d, on : {s.on : s \in T}]
      BY <1>9, <2>3
    <2> QED BY <1>7, <2>2, <2>4
  <1> QED BY <1>2, <1>8, <1>9

\* The ticks of a transmission, from the number a of its first.
LEMMA Ticks ==
    ASSUME NEW k \in Nat
    PROVE  \E a \in Nat : /\ a = k * SlotTicks
                          /\ (k + 1) * SlotTicks = a + SlotTicks
                          /\ Body(k) = (a + 1)..(a + SlotTicks - 1)
  <1>1. SlotTicks \in Nat
    BY Constants
  <1>2. PICK a \in Nat : a = k * SlotTicks
    BY <1>1
  <1>3. (k + 1) * SlotTicks = a + SlotTicks
    BY <1>1, <1>2
  <1> QED BY <1>2, <1>3 DEF Body

\* At most one sample follows the slot's last.
LEMMA OneMore ==
    ASSUME NEW a \in Nat, NEW l \in Nat, NEW n \in Nat, NEW q \in Nat, NEW p \in Nat,
           NEW b \in Nat, NEW c \in Nat,
           b = a + l + 1, q = p + l, c <= b + 1, (a + l) + (n - q) < c
    PROVE  n <= p + l + 1
  OBVIOUS

\* The window taken at the end of a slot that arrived, or a tick later, holds
\* the slot's transmission.
LEMMA InWindow ==
    ASSUME heard \in Seq(Samples), Latest(buf, heard), Ordered, clock \in Nat,
           NEW m \in Found(heard), Arrived(m.slot),
           NEW b, b = (m.slot + 1) * SlotTicks, clock \in {b, b + 1}
    PROVE  Len(heard) >= SlotTicks /\ m \in Found(Snapshot)
  <1>1. SlotTicks \in Nat \ {0} /\ SlotTicks >= 3
    BY Constants
  <1>2. /\ m \in [slot : 0..(MaxClock \div SlotTicks), on : Nat]
        /\ m.slot \in Nat
        /\ \A at \in Body(m.slot) : \E i \in 1..Len(heard) : heard[i].at = at /\ heard[i].on = m.on
    BY FoundIs, ZenonT(40)
  <1>3. PICK a \in Nat : /\ a = m.slot * SlotTicks
                         /\ b = a + SlotTicks
                         /\ Body(m.slot) = (a + 1)..(a + SlotTicks - 1)
    BY <1>2, Ticks
  <1>4. PICK l \in Nat : l = SlotTicks - 1
    BY <1>1
  <1>5. \A t \in a..(a + l) : \E i \in 1..Len(heard) : heard[i].at = t
    <2>1. a..(a + l) = (m.slot * SlotTicks)..(m.slot * SlotTicks + SlotTicks - 1)
      BY <1>1, <1>3, <1>4
    <2>2. \A t \in a..(a + l) : \E s \in ToSet(heard) : s.at = t
      BY <2>1 DEF Arrived
    <2> QED BY <2>2, SMTT(30) DEF ToSet
  <1>6. PICK p \in 1..Len(heard) : \A j \in 0..l : p + j \in 1..Len(heard) /\ heard[p + j].at = a + j
    BY <1>5, OnePiece
  <1>7. PICK n \in Nat : n = Len(heard)
    OBVIOUS
  <1>8. p + l <= n /\ heard[p + l].at = a + l
    BY <1>4, <1>6, <1>7
  <1>9. n <= p + SlotTicks
    <2>1. PICK q \in 1..n : q = p + l /\ heard[q].at = a + l
      <3>1. l \in 0..l
        BY <1>4
      <3> QED BY <1>6, <1>7, <3>1
    <2>2. heard[q].at + (n - q) < clock
      BY <1>7, <2>1 DEF Ordered
    <2>3. b \in Nat /\ b = a + l + 1 /\ SlotTicks = l + 1
      BY <1>1, <1>3, <1>4
    <2>4. clock <= b + 1
      BY <2>3
    <2>5. (a + l) + (n - q) < clock
      BY <2>1, <2>2
    <2>6. q \in Nat /\ p \in Nat
      BY <1>6, <1>7, <2>1
    <2>7. n <= p + l + 1
      BY <2>1, <2>3, <2>4, <2>5, <2>6, OneMore
    <2> QED BY <2>3, <2>7
  <1>10. n >= SlotTicks
    BY <1>1, <1>4, <1>6, <1>8
  <1>11. /\ Snapshot \in Seq(Samples) /\ Len(Snapshot) = SlotTicks
         /\ \A i \in 1..SlotTicks : Snapshot[i] = heard[n - SlotTicks + i]
    BY <1>7, <1>10, SnapshotFacts
  <1>12. ASSUME NEW at \in Body(m.slot)
         PROVE  \E i \in 1..SlotTicks : Snapshot[i].at = at /\ Snapshot[i].on = m.on
    <2>1. PICK j \in 1..l : at = a + j
      <3>1. at \in (a + 1)..(a + SlotTicks - 1)
        BY <1>3
      <3>2. at - a \in 1..l /\ at = a + (at - a)
        BY <1>1, <1>4, <3>1
      <3> QED BY <3>2
    <2>2. PICK r \in 1..n : heard[r].at = at /\ heard[r].on = m.on
      BY <1>2, <1>7
    <2>3. PICK q \in 1..n : q = p + j /\ heard[q].at = a + j
      BY <1>6, <1>7, <2>1
    <2>4. r = q
      <3>1. ~ r < q
        <4>1. r < q => heard[r].at + (q - r) <= heard[q].at
          BY <1>7, <2>2, <2>3 DEF Ordered
        <4> QED BY <2>1, <2>2, <2>3, <4>1
      <3>2. ~ q < r
        <4>1. q < r => heard[q].at + (r - q) <= heard[r].at
          BY <1>7, <2>2, <2>3 DEF Ordered
        <4> QED BY <2>1, <2>2, <2>3, <4>1
      <3> QED BY <2>2, <2>3, <3>1, <3>2
    <2>5. PICK i \in 1..SlotTicks : n - SlotTicks + i = q
      <3>1. q - n + SlotTicks \in 1..SlotTicks
        BY <1>1, <1>4, <1>6, <1>8, <1>9, <2>1, <2>3
      <3>2. n - SlotTicks + (q - n + SlotTicks) = q
        BY <1>1, <2>3
      <3> QED BY <3>1, <3>2
    <2> QED BY <1>11, <2>2, <2>4, <2>5
  <1>13. m \in Found(Snapshot)
    BY <1>2, <1>11, <1>12, FoundIs, ZenonT(40)
  <1> QED BY <1>7, <1>10, <1>13

\* Without a stall that window holds the transmission of no other slot.
LEMMA OnlyOwn ==
    ASSUME heard \in Seq(Samples), Latest(buf, heard), Unbroken, clock \in Nat, stalls = {},
           Len(heard) >= SlotTicks, clock <= ClosedSlot(clock) + 1,
           NEW m \in Found(Snapshot)
    PROVE  ClosedSlot(clock) = (m.slot + 1) * SlotTicks
  <1>1. SlotTicks \in Nat \ {0} /\ SlotTicks >= 3
    BY Constants
  <1>2. PICK n \in Nat : n = Len(heard)
    OBVIOUS
  <1>3. /\ Snapshot \in Seq(Samples) /\ Len(Snapshot) = SlotTicks
        /\ \A i \in 1..SlotTicks : Snapshot[i] = heard[n - SlotTicks + i]
    BY <1>2, SnapshotFacts
  <1>4. /\ m.slot \in Nat
        /\ \A at \in Body(m.slot) : \E i \in 1..Len(Snapshot) : Snapshot[i].at = at /\ Snapshot[i].on = m.on
    BY <1>3, FoundIs, ZenonT(40)
  <1>5. ASSUME NEW at \in Body(m.slot), at \in Nat
        PROVE  at + SlotTicks >= clock /\ at < clock
    <2>1. PICK i \in 1..SlotTicks : Snapshot[i].at = at
      BY <1>3, <1>4
    <2>2. PICK j \in 1..n : j = n - SlotTicks + i
      <3>1. SlotTicks <= n
        BY <1>2
      <3>2. n - SlotTicks + i \in Int
        BY <1>1
      <3>3. PICK j \in Int : j = n - SlotTicks + i
        BY <3>2
      <3>4. 1 <= i /\ i <= SlotTicks
        BY <1>1
      <3>5. 1 <= j /\ j <= n
        BY <1>1, <3>1, <3>3, <3>4
      <3> QED BY <3>3, <3>5
    <2>3. heard[j].at = at
      BY <1>3, <2>1, <2>2
    <2>4. heard[j].at + (n - j) + 1 = clock
      BY <1>2, <2>2 DEF Unbroken
    <2>5. at + (SlotTicks - i) + 1 = clock
      BY <1>1, <1>2, <2>1, <2>2, <2>3, <2>4
    <2> QED BY <1>1, <1>5, <2>1, <2>5
  <1>6. PICK a \in Nat : /\ a = m.slot * SlotTicks
                         /\ (m.slot + 1) * SlotTicks = a + SlotTicks
                         /\ Body(m.slot) = (a + 1)..(a + SlotTicks - 1)
    BY <1>4, Ticks
  <1>7. a + 1 \in Body(m.slot) /\ a + SlotTicks - 1 \in Body(m.slot) /\ a + 1 \in Nat /\ a + SlotTicks - 1 \in Nat
    BY <1>1, <1>6, SMTT(30)
  <1>8. a + 1 + SlotTicks >= clock /\ a + SlotTicks - 1 < clock
    BY <1>5, <1>7
  <1>9. PICK q \in Nat : ClosedSlot(clock) = q * SlotTicks
    BY Closed
  <1>10. ClosedSlot(clock) \in Nat /\ ClosedSlot(clock) <= clock /\ clock <= ClosedSlot(clock) + 1
    BY Closed
  <1>11. PICK k \in Nat : k = m.slot + 1
    BY <1>4
  <1>12. PICK e \in Nat : e = a + SlotTicks
    BY <1>1
  <1>13. PICK s \in Nat : s = ClosedSlot(clock)
    BY <1>10
  <1>14. s < e + SlotTicks /\ e < s + SlotTicks
    BY <1>1, <1>8, <1>10, <1>12, <1>13
  <1>15. e = k * SlotTicks /\ s = q * SlotTicks
    BY <1>6, <1>9, <1>11, <1>12, <1>13
  <1>16. s = e
    BY <1>14, <1>15, SameEnd
  <1> QED BY <1>6, <1>12, <1>13, <1>16

-----------------------------------------------------------------------------
(* A window stays what it is while more is heard. *)

\* The transmissions of a longer record: what is found in the shorter one, if
\* the sample that was added came after their bodies.
LEMMA FoundEarlier ==
    ASSUME NEW h \in Seq(Samples), NEW x \in Samples, NEW g, g = Append(h, x),
           NEW m \in Found(g), (m.slot + 1) * SlotTicks <= x.at
    PROVE  m \in Found(h)
  <1>1. SlotTicks \in Nat \ {0}
    BY Constants
  <1>2. g \in Seq(Samples) /\ Len(g) = Len(h) + 1 /\ g[Len(h) + 1] = x /\ \A i \in 1..Len(h) : g[i] = h[i]
    BY Longer
  <1>3. /\ m \in [slot : 0..(MaxClock \div SlotTicks), on : Nat]
        /\ m.slot \in Nat
        /\ \A at \in Body(m.slot) : \E i \in 1..Len(g) : g[i].at = at /\ g[i].on = m.on
    <2>1. g \in Seq(Samples)
      BY <1>2
    <2> QED BY ONLY m \in Found(g), <2>1, FoundIs, ZenonT(40)
  <1>4. PICK a \in Nat : /\ (m.slot + 1) * SlotTicks = a + SlotTicks
                         /\ Body(m.slot) = (a + 1)..(a + SlotTicks - 1)
    BY <1>3, Ticks
  <1>5. ASSUME NEW at \in Body(m.slot)
        PROVE  \E i \in 1..Len(h) : h[i].at = at /\ h[i].on = m.on
    <2>1. PICK i \in 1..Len(g) : g[i].at = at /\ g[i].on = m.on
      BY <1>3
    <2>2. at < a + SlotTicks /\ a + SlotTicks <= x.at
      BY <1>1, <1>4
    <2>3. i # Len(h) + 1
      <3>1. x.at \in Nat /\ at \in Nat
        BY <1>1, <1>4 DEF Samples
      <3> QED BY <1>1, <1>2, <2>1, <2>2, <3>1
    <2>4. i \in 1..Len(h) /\ g[i] = h[i]
      BY <1>2, <2>1, <2>3
    <2> QED BY <2>1, <2>4
  <1> QED BY <1>3, <1>5, FoundIs

-----------------------------------------------------------------------------
(* The invariant is kept: commands and the stop. *)

\* Nothing of the decoder or of its thread moves, and a step of a Tune is
\* noted when it is taken.
Aside ==
    /\ UNCHANGED <<clock, wall, heard, decoder, thread, stalls>>
    /\ stop' \in {"no", "asked", "joined"} /\ (stop' = "no" => stop = "no")
    /\ board' \in Ncos
    /\ tuning' \in Ncos \union {0}
    /\ pending' \in [Tuners -> Ncos \union {None}]
    /\ offset' \in Offsets
    /\ mailbox' \in Offsets \union {None}
    /\ mutex' \in {"free", "held", "joiner"}
    /\ moved' = clock \/ (moved' = moved /\ board' = board)

LEMMA KeptAside ==
    ASSUME DecodeInv, Aside, Trusted'
    PROVE  DecodeInv'
  <1>1. /\ TypeOK /\ Ordered /\ Unbroken /\ OnBoard /\ WindowHeard /\ Punctual
        /\ Complete /\ OwnSlot /\ Growing /\ SpotAsHeard
    BY DEF DecodeInv
  <1>2. /\ clock' = clock /\ heard' = heard /\ buf' = buf /\ marked' = marked /\ last' = last
        /\ burst' = burst /\ reports' = reports /\ spots' = spots /\ stalls' = stalls
        /\ ahead' = ahead /\ sets' = sets /\ epoch' = epoch /\ looked' = looked
    BY DEF Aside, wall, decoder, thread
  <1>3. TypeOK'
    BY <1>1, <1>2 DEF Aside, TypeOK, Now
  <1>4. Ordered'
    BY <1>1, <1>2 DEF Ordered
  <1>5. Unbroken'
    BY <1>1, <1>2 DEF Unbroken
  <1>6. OnBoard'
    <2>1. CASE moved' = moved /\ board' = board
      BY <1>1, <1>2, <2>1 DEF OnBoard
    <2>2. CASE moved' = clock
      <3>1. ASSUME NEW i \in 1..Len(heard)
            PROVE  ~ heard[i].at > clock
        <4>1. heard[i].at \in Nat /\ clock \in Nat /\ Len(heard) \in Nat
          BY <1>1, HeardFacts DEF TypeOK
        <4>2. heard[i].at + (Len(heard) - i) < clock
          BY <1>1 DEF Ordered
        <4> QED BY <4>1, <4>2
      <3>2. clock \in Nat
        BY <1>1 DEF TypeOK
      <3> QED BY <1>2, <2>2, <3>1, <3>2 DEF OnBoard
    <2> QED BY <2>1, <2>2 DEF Aside
  <1>7. WindowHeard'
    BY <1>1, <1>2 DEF WindowHeard
  <1>8. Punctual'
    BY <1>1, <1>2 DEF Punctual, Aside
  <1>9. Complete'
    BY <1>1, <1>2 DEF Complete, Aside, Arrived, HasRow
  <1>10. OwnSlot' /\ Growing'
    BY <1>1, <1>2 DEF OwnSlot, Growing, Now
  <1>11. SpotAsHeard'
    BY <1>1, <1>2 DEF SpotAsHeard
  <1> QED BY <1>3, <1>4, <1>5, <1>6, <1>7, <1>8, <1>9, <1>10, <1>11 DEF DecodeInv

\* The first step of a Tune is trusted if it arrives and no other is going on.
LEMMA KeptTuneRadio ==
    ASSUME DecodeInv, NEW t \in Tuners, NEW f \in Ncos, NEW arrives \in BOOLEAN, TuneRadio(t, f, arrives)
    PROVE  DecodeInv'
  <1>1. TypeOK /\ Trusted
    BY DEF DecodeInv
  <1>2. /\ pending' = [pending EXCEPT ![t] = f]
        /\ board' = IF arrives THEN f ELSE board
        /\ trust' = IF arrives /\ \A u \in Tuners : pending[u] = None THEN t ELSE "unsure"
        /\ tuning' = tuning /\ moved' = clock
    BY DEF TuneRadio
  <1>3. pending \in [Tuners -> Ncos \union {None}]
    BY <1>1 DEF TypeOK
  <1>4. pending'[t] = f /\ \A u \in Tuners \ {t} : pending'[u] = pending[u]
    BY <1>2, <1>3
  <1>5. Trusted'
    <2>1. CASE arrives /\ \A u \in Tuners : pending[u] = None
      <3>1. trust' = t /\ board' = f
        BY <1>2, <2>1
      <3> QED BY <1>4, <2>1, <3>1, Constants DEF Trusted
    <2>2. CASE ~ (arrives /\ \A u \in Tuners : pending[u] = None)
      <3>1. trust' = "unsure"
        BY <1>2, <2>2
      <3> QED BY <3>1, Constants DEF Trusted
    <2> QED BY <2>1, <2>2
  <1>6. Aside
    <2>1. board' \in Ncos /\ pending' \in [Tuners -> Ncos \union {None}]
      BY <1>1, <1>2, <1>3 DEF TypeOK
    <2> QED BY <1>1, <1>2, <2>1 DEF TuneRadio, TypeOK, Aside
  <1> QED BY <1>5, <1>6, KeptAside

\* A trusted Tune that updates the map is what the board is on.
LEMMA KeptTuneMap ==
    ASSUME DecodeInv, NEW t \in Tuners, TuneMap(t)
    PROVE  DecodeInv'
  <1>1. TypeOK /\ Trusted
    BY DEF DecodeInv
  <1>2. /\ pending[t] # None /\ tuning' = pending[t]
        /\ pending' = [pending EXCEPT ![t] = None]
        /\ trust' = IF trust = t THEN "agreed" ELSE "unsure"
        /\ board' = board /\ moved' = clock
    BY DEF TuneMap
  <1>3. pending \in [Tuners -> Ncos \union {None}]
    BY <1>1 DEF TypeOK
  <1>4. pending'[t] = None /\ \A u \in Tuners \ {t} : pending'[u] = pending[u]
    BY <1>2, <1>3
  <1>5. Trusted'
    <2>1. CASE trust = t
      <3>1. trust' = "agreed" /\ pending[t] = board /\ \A u \in Tuners \ {t} : pending[u] = None
        BY <1>1, <1>2, <2>1 DEF Trusted
      <3>2. \A u \in Tuners : pending'[u] = None
        BY <1>4, <3>1
      <3> QED BY <1>2, <3>1, <3>2, Constants DEF Trusted
    <2>2. CASE trust # t
      <3>1. trust' = "unsure"
        BY <1>2, <2>2
      <3> QED BY <3>1, Constants DEF Trusted
    <2> QED BY <2>1, <2>2
  <1>6. Aside
    <2>1. tuning' \in Ncos /\ pending' \in [Tuners -> Ncos \union {None}]
      BY <1>2, <1>3
    <2> QED BY <1>1, <1>2, <2>1 DEF TuneMap, TypeOK, Aside
  <1> QED BY <1>5, <1>6, KeptAside

LEMMA KeptCommands ==
    ASSUME DecodeInv,
           \/ Exit \/ Hold \/ Release
           \/ \E o \in Offsets : Retune(o)
           \/ \E holding \in BOOLEAN : Stop(holding)
    PROVE  DecodeInv'
  <1>1. /\ board \in Ncos /\ tuning \in Ncos \union {0} /\ offset \in Offsets
        /\ pending \in [Tuners -> Ncos \union {None}]
        /\ mailbox \in Offsets \union {None} /\ mutex \in {"free", "held", "joiner"}
        /\ stop \in {"no", "asked", "joined"}
    BY DEF DecodeInv, TypeOK
  <1>2. UNCHANGED <<board, tuning, pending, trust>> => Trusted'
    BY DEF DecodeInv, Trusted
  <1> USE DEF Aside, radio
  <1>3. CASE Exit
    BY <1>1, <1>2, <1>3, KeptAside DEF Exit
  <1>4. CASE Hold
    BY <1>1, <1>2, <1>4, KeptAside DEF Hold
  <1>5. CASE Release
    BY <1>1, <1>2, <1>5, KeptAside DEF Release
  <1>6. ASSUME NEW o \in Offsets, Retune(o) PROVE DecodeInv'
    BY <1>1, <1>2, <1>6, KeptAside DEF Retune
  <1>7. ASSUME NEW holding \in BOOLEAN, Stop(holding) PROVE DecodeInv'
    BY <1>1, <1>2, <1>7, KeptAside DEF Stop
  <1> QED BY <1>3, <1>4, <1>5, <1>6, <1>7

\* The wall clock is set: what was promised for a clock that nobody sets is
\* void, and a clock that is set back begins an epoch without reports.
LEMMA KeptSetClock ==
    ASSUME DecodeInv, NEW by \in Jumps, SetClock(by)
    PROVE  DecodeInv'
  <1>1. /\ TypeOK /\ Ordered /\ Unbroken /\ OnBoard /\ WindowHeard
        /\ Growing /\ Trusted /\ SpotAsHeard
    BY DEF DecodeInv
  <1>2. /\ clock' = clock /\ heard' = heard /\ buf' = buf /\ marked' = marked /\ last' = last
        /\ burst' = burst /\ reports' = reports /\ spots' = spots /\ stalls' = stalls /\ looked' = looked
        /\ board' = board /\ tuning' = tuning /\ pending' = pending /\ trust' = trust /\ offset' = offset
        /\ mailbox' = mailbox /\ moved' = moved /\ mutex' = mutex /\ stop' = stop
    BY DEF SetClock, decoder, thread, radio
  <1>3. by \in Int /\ ahead \in Int /\ clock \in Nat /\ sets \in Nat /\ epoch \in 0..sets /\ Now \in Nat
    BY <1>1, DecodeAssumption DEF TypeOK
  <1>4. /\ ahead' = ahead + by /\ sets' = sets + 1 /\ Now + by >= 0
        /\ epoch' = IF by < 0 THEN epoch + 1 ELSE epoch
    BY DEF SetClock
  <1>5. PICK n \in Nat : n = Now + by
    BY <1>3, <1>4
  <1>6. Now' = n /\ ahead' \in Int
    BY <1>2, <1>3, <1>4, <1>5 DEF Now
  <1>7. sets' \in Nat /\ epoch' \in 0..sets' /\ sets' # 0
    BY <1>3, <1>4
  <1>8. TypeOK'
    BY <1>1, <1>2, <1>6, <1>7 DEF TypeOK
  <1>9. Ordered' /\ Unbroken' /\ OnBoard' /\ WindowHeard' /\ Trusted' /\ SpotAsHeard'
    BY <1>1, <1>2 DEF Ordered, Unbroken, OnBoard, WindowHeard, Trusted, SpotAsHeard
  <1>10. Punctual' /\ Complete' /\ OwnSlot'
    BY <1>7 DEF Punctual, Complete, OwnSlot
  <1>11. Growing'
    <2>1. reports \in Seq(Reports) /\ Len(reports) \in Nat
      BY <1>1 DEF Growing
    <2>2. \A i \in 1..Len(reports) : reports[i].epoch \in Nat /\ reports[i].slot \in Nat
      <3>1. ASSUME NEW i \in 1..Len(reports) PROVE reports[i] \in Reports
        BY <2>1, <3>1
      <3> QED BY <3>1 DEF Reports
    <2>3. burst # None => burst.epoch \in Nat /\ burst.slot \in Nat
      BY <1>1 DEF TypeOK, Bursts
    <2>4. last \in Nat /\ ClosedSlot(Now) \in Nat /\ ClosedSlot(n) \in Nat
      BY <1>1, <1>3, <1>5, Closed DEF TypeOK
    <2>5. CASE by < 0
      <3>1. epoch' = epoch + 1
        BY <1>4, <2>5
      <3>2. \A i \in 1..Len(reports) : reports[i].epoch <= epoch + 1 /\ reports[i].epoch # epoch + 1
        BY <1>1, <1>3, <2>2 DEF Growing
      <3>3. burst # None => burst.epoch <= epoch + 1 /\ burst.epoch # epoch + 1
        BY <1>1, <1>3, <2>3 DEF Growing
      <3> QED BY <1>1, <1>2, <3>1, <3>2, <3>3 DEF Growing
    <2>6. CASE ~ by < 0
      <3>1. epoch' = epoch /\ Now <= n
        BY <1>3, <1>4, <1>5, <2>6
      <3>2. ClosedSlot(Now) <= ClosedSlot(n)
        BY <1>3, <3>1, ClosedGrows
      <3>3. last <= ClosedSlot(Now) => last <= ClosedSlot(n)
        BY <2>4, <3>2
      <3>4. burst # None /\ burst.slot <= ClosedSlot(Now) => burst.slot <= ClosedSlot(n)
        BY <2>3, <2>4, <3>2
      <3> QED BY <1>1, <1>2, <1>6, <3>1, <3>3, <3>4 DEF Growing
    <2> QED BY <2>5, <2>6
  <1> QED BY <1>8, <1>9, <1>10, <1>11 DEF DecodeInv

-----------------------------------------------------------------------------
(* The invariant is kept: a tick of the clock. *)

LEMMA TickPunctual ==
    ASSUME DecodeInv, Prompt, clock' = clock + 1, heard' = heard \/ heard' # <<>>,
           UNCHANGED <<ahead, sets, marked, last, looked, burst, stop>>
    PROVE  Punctual'
  <1>1. SlotTicks \in Nat \ {0} /\ SlotTicks >= 3 /\ BurstTicks \in Nat /\ BurstTicks + 2 <= SlotTicks
    BY Constants
  <1>2. TypeOK /\ Punctual
    BY DEF DecodeInv
  <1>3. PICK t \in Nat : t = clock
    BY <1>2 DEF TypeOK
  <1>4. PICK s \in Nat : s = ClosedSlot(t)
    BY Closed
  <1>5. s <= t /\ t < s + SlotTicks
    BY <1>4, Closed
  <1>6. PICK z : z = ClosedSlot(t + 1)
    OBVIOUS
  <1>7. (z = s /\ t + 1 < s + SlotTicks) \/ (z = s + SlotTicks /\ t + 1 = s + SlotTicks)
    BY <1>4, <1>6, ClosedNext
  <1>8. PICK k \in Nat : k = looked /\ k <= t
    BY <1>2, <1>3 DEF TypeOK
  <1>9. SUFFICES ASSUME sets = 0
                 PROVE  Punctual'
    BY DEF Punctual
  <1>10. t >= SlotTicks /\ t + 1 >= SlotTicks /\ ahead = 0
    BY <1>1, <1>2, <1>3, <1>9 DEF Punctual
  <1>11. ASSUME burst = None, stop = "no"
         PROVE  /\ last \in {z, z - SlotTicks}
                /\ last # z => t + 1 <= k + 2 /\ k < z
    <2>1. last \in {s, s - SlotTicks}
      BY <1>2, <1>3, <1>4, <1>9, <1>11 DEF Punctual
    <2>2. t < k + 2
      BY <1>3, <1>8, <1>11 DEF Prompt
    <2>3. t + 1 <= k + 2
      BY <1>8, <2>2
    <2>4. CASE last = s
      <3>1. k < s + SlotTicks
        BY <1>1, <1>5, <1>8
      <3>2. z = s + SlotTicks => last = z - SlotTicks
        BY <1>1, <2>4
      <3> QED BY <1>7, <2>3, <2>4, <3>1, <3>2
    <2>5. CASE last # s
      <3>1. k < s
        BY <1>2, <1>3, <1>4, <1>8, <1>9, <1>11, <2>2, <2>5 DEF Punctual
      <3>2. t + 1 < s + SlotTicks
        BY <1>1, <1>8, <2>2, <3>1
      <3>3. z = s
        BY <1>7, <3>2
      <3> QED BY <2>1, <2>3, <3>1, <3>3
    <2> QED BY <2>4, <2>5
  <1>12. ASSUME burst # None
         PROVE  /\ burst.slot = z
                /\ last = z - SlotTicks
                /\ looked \in {burst.slot, burst.slot + 1}
                /\ t + 1 <= looked + BurstTicks
    <2>1. /\ burst.slot = s /\ last = s - SlotTicks /\ k \in {s, s + 1}
      BY <1>2, <1>3, <1>4, <1>8, <1>9, <1>12 DEF Punctual
    <2>2. t < k + BurstTicks
      BY <1>3, <1>8, <1>12 DEF Prompt
    <2>3. t + 1 <= k + BurstTicks /\ k <= s + 1
      BY <1>1, <1>8, <2>1, <2>2
    <2>4. t + 1 < s + SlotTicks
      BY <1>1, <2>3
    <2>5. z = s
      BY <1>7, <2>4
    <2> QED BY <1>8, <2>1, <2>3, <2>5
  <1>13. burst = None => marked <= last
    BY <1>2, <1>9 DEF Punctual
  <1>14. clock' = t + 1 /\ ClosedSlot(clock') = z /\ looked' = k
    BY <1>3, <1>6, <1>8
  <1>15. marked' = marked /\ last' = last /\ burst' = burst /\ stop' = stop /\ ahead' = ahead /\ looked' = looked
    OBVIOUS
  <1> QED BY <1>10, <1>11, <1>12, <1>13, <1>14, <1>15 DEF Punctual

LEMMA TickGrowing ==
    ASSUME DecodeInv, clock' = clock + 1,
           UNCHANGED <<ahead, epoch, last, burst, reports>>
    PROVE  Growing' /\ Now' \in Nat
  <1>1. TypeOK /\ Growing
    BY DEF DecodeInv
  <1>2. PICK n \in Nat : n = Now
    BY <1>1 DEF TypeOK
  <1>3. Now' = n + 1
    <2>1. clock \in Nat /\ ahead \in Int
      BY <1>1 DEF TypeOK
    <2>2. n = clock + ahead /\ Now' = (clock + 1) + ahead
      BY <1>2 DEF Now
    <2> QED BY <2>1, <2>2
  <1>4. ClosedSlot(n) <= ClosedSlot(n + 1)
    <2>1. n + 1 \in Nat /\ n <= n + 1
      OBVIOUS
    <2> QED BY <2>1, ClosedGrows
  <1>5. ClosedSlot(n) \in Nat /\ ClosedSlot(n + 1) \in Nat /\ last \in Nat
    <2>1. n + 1 \in Nat
      OBVIOUS
    <2>2. ClosedSlot(n) \in Nat /\ ClosedSlot(n + 1) \in Nat
      BY <2>1, Closed
    <2>3. last \in Nat
      BY <1>1 DEF TypeOK
    <2> QED BY <2>2, <2>3
  <1>6. last <= ClosedSlot(n) => last <= ClosedSlot(n + 1)
    BY <1>4, <1>5
  <1>7. burst # None /\ burst.slot <= ClosedSlot(n) => burst.slot <= ClosedSlot(n + 1)
    <2>1. burst # None => burst.slot \in Nat
      BY <1>1 DEF TypeOK, Bursts
    <2> QED BY <1>4, <1>5, <2>1
  <1>8. Growing'
    <2>1. Now' = n + 1 /\ Now = n
      BY <1>2, <1>3
    <2>2. ASSUME NEW i \in 1..Len(reports), reports[i].epoch = epoch
          PROVE  reports[i].slot <= last /\ last <= ClosedSlot(n + 1)
      BY <1>1, <1>2, <1>6, <2>2 DEF Growing
    <2>3. burst # None => burst.epoch <= epoch /\ (burst.epoch = epoch => burst.slot <= ClosedSlot(n + 1))
      BY <1>1, <1>2, <1>7 DEF Growing
    <2> QED BY <1>1, <2>1, <2>2, <2>3 DEF Growing
  <1> QED BY <1>3, <1>8

\* No audio for a tick.
LEMMA KeptStall ==
    ASSUME DecodeInv, Stall
    PROVE  DecodeInv'
  <1>1. /\ TypeOK /\ Ordered /\ Unbroken /\ OnBoard /\ WindowHeard /\ Punctual
        /\ Complete /\ OwnSlot /\ Growing /\ Trusted /\ SpotAsHeard
    BY DEF DecodeInv
  <1>2. /\ clock' = clock + 1 /\ heard' = heard /\ buf' = buf /\ marked' = marked /\ last' = last
        /\ burst' = burst /\ reports' = reports /\ spots' = spots /\ stop' = stop /\ Prompt
        /\ board' = board /\ tuning' = tuning /\ pending' = pending /\ trust' = trust
        /\ offset' = offset /\ mailbox' = mailbox /\ looked' = looked
        /\ ahead' = ahead /\ sets' = sets /\ epoch' = epoch
        /\ moved' = moved /\ mutex' = mutex /\ stalls' # {}
    BY DEF Stall, wall, decoder, thread, radio
  <1>3. clock \in Nat /\ heard \in Seq(Samples)
    BY <1>1 DEF TypeOK
  <1>4. TypeOK'
    <2>1. looked \in 0..(clock + 1)
      BY <1>1, <1>3 DEF TypeOK
    <2>2. Now' \in Nat
      BY <1>2, TickGrowing
    <2> QED BY <1>1, <1>2, <1>3, <2>1, <2>2 DEF TypeOK
  <1>5. Ordered'
    <2>1. ASSUME NEW i \in 1..Len(heard)
          PROVE  heard[i].at + (Len(heard) - i) < clock + 1
      <3>1. heard[i].at \in Nat /\ Len(heard) \in Nat
        BY <1>3, HeardFacts
      <3>2. heard[i].at + (Len(heard) - i) < clock
        BY <1>1 DEF Ordered
      <3> QED BY <1>3, <3>1, <3>2
    <2> QED BY <1>1, <1>2, <2>1 DEF Ordered
  <1>6. Unbroken' /\ OwnSlot'
    BY <1>2 DEF Unbroken, OwnSlot
  <1>7. OnBoard'
    BY <1>1, <1>2 DEF OnBoard
  <1>8. WindowHeard'
    BY <1>1, <1>2 DEF WindowHeard
  <1>9. Punctual'
    BY <1>2, TickPunctual
  <1>10. Complete'
    BY <1>1, <1>2 DEF Complete, Arrived, HasRow
  <1>11. SpotAsHeard' /\ Trusted'
    BY <1>1, <1>2 DEF SpotAsHeard, Trusted
  <1>12. Growing'
    BY <1>2, TickGrowing
  <1> QED BY <1>4, <1>5, <1>6, <1>7, <1>8, <1>9, <1>10, <1>11, <1>12 DEF DecodeInv

\* A sample arrives.
LEMMA KeptHear ==
    ASSUME DecodeInv, Hear
    PROVE  DecodeInv'
  <1>1. /\ TypeOK /\ Ordered /\ Unbroken /\ OnBoard /\ WindowHeard /\ Punctual
        /\ Complete /\ OwnSlot /\ Growing /\ Trusted /\ SpotAsHeard
    BY DEF DecodeInv
  <1>2. /\ clock' = clock + 1 /\ marked' = marked /\ last' = last
        /\ burst' = burst /\ reports' = reports /\ spots' = spots /\ stop' = stop /\ Prompt
        /\ board' = board /\ tuning' = tuning /\ pending' = pending /\ trust' = trust
        /\ mailbox' = None /\ looked' = looked
        /\ ahead' = ahead /\ sets' = sets /\ epoch' = epoch
        /\ moved' = moved /\ mutex' = mutex /\ stalls' = stalls
    BY DEF Hear, wall, thread
  <1>3. clock \in Nat /\ heard \in Seq(Samples) /\ Latest(buf, heard) /\ board \in Nat
    BY <1>1, Constants DEF TypeOK
  <1>4. PICK o \in Offsets : o = IF mailbox = None THEN offset ELSE mailbox
    BY <1>1 DEF TypeOK
  <1>5. PICK x : x = [at |-> clock, on |-> board + o, by |-> o]
    OBVIOUS
  <1>6. x \in Samples /\ x.at = clock /\ x.on = board + x.by
    <2>1. o \in Nat
      BY Constants
    <2>2. board + o \in Nat
      BY <1>3, <2>1
    <2> QED BY <1>3, <1>5, <2>2 DEF Samples
  <1>7. offset' = o /\ heard' = Append(heard, x) /\ buf' = Trim(Append(buf, x))
    BY <1>4, <1>5 DEF Hear
  <1>8. PICK n \in Nat : n = Len(heard)
    BY <1>3
  <1>9. PICK h : h = heard'
    OBVIOUS
  <1>10. h \in Seq(Samples) /\ Len(h) = n + 1 /\ h[n + 1] = x /\ \A i \in 1..n : h[i] = heard[i]
    BY <1>3, <1>6, <1>7, <1>8, <1>9, Longer
  <1>11. ASSUME NEW i \in 1..(n + 1), i \notin 1..n
         PROVE  i = n + 1
    BY <1>8, <1>11
  <1>12. ASSUME NEW i \in 1..n
         PROVE  heard[i].at \in Nat /\ heard[i].at + (n - i) < clock
    BY <1>1, <1>3, <1>8, HeardFacts DEF Ordered
  <1>13. TypeOK'
    <2>1. Latest(buf', heard')
      BY <1>3, <1>6, <1>7, LatestTrim
    <2>2. looked \in 0..(clock + 1)
      BY <1>1, <1>3 DEF TypeOK
    <2>3. Now' \in Nat
      BY <1>2, TickGrowing
    <2> QED BY <1>1, <1>2, <1>3, <1>7, <1>9, <1>10, <2>1, <2>2, <2>3 DEF TypeOK
  <1>14. Ordered'
    <2>1. ASSUME NEW i \in 1..(n + 1)
          PROVE  h[i].at + (n + 1 - i) < clock + 1
      <3>1. CASE i \in 1..n
        <4>1. heard[i].at \in Nat /\ heard[i].at + (n - i) < clock
          BY <1>12, <3>1
        <4> QED BY <1>3, <1>10, <3>1, <4>1, SMTT(30)
      <3>2. CASE i \notin 1..n
        BY <1>3, <1>6, <1>8, <1>10, <1>11, <3>2
      <3> QED BY <3>1, <3>2
    <2>2. ASSUME NEW i \in 1..(n + 1), NEW j \in 1..(n + 1), i < j
          PROVE  h[i].at + (j - i) <= h[j].at
      <3>1. i \in 1..n
        BY <1>8, <2>2
      <3>2. CASE j \in 1..n
        <4>1. heard[i].at + (j - i) <= heard[j].at
          BY <1>1, <1>8, <2>2, <3>1, <3>2 DEF Ordered
        <4> QED BY <1>10, <3>1, <3>2, <4>1
      <3>3. CASE j \notin 1..n
        <4>1. j = n + 1
          BY <1>11, <3>3
        <4>2. heard[i].at \in Nat /\ heard[i].at + (n - i) < clock
          BY <1>12, <3>1
        <4>3. h[i].at = heard[i].at /\ h[j].at = clock
          BY <1>6, <1>10, <3>1, <4>1
        <4> QED BY <1>3, <3>1, <4>1, <4>2, <4>3
      <3> QED BY <3>2, <3>3
    <2>3. /\ \A i \in 1..(n + 1) : h[i].at + (n + 1 - i) < clock + 1
          /\ \A i, j \in 1..(n + 1) : i < j => h[i].at + (j - i) <= h[j].at
      BY <2>1, <2>2
    <2>4. heard' = h /\ Len(h) = n + 1 /\ clock' = clock + 1
      BY <1>2, <1>9, <1>10
    <2> QED BY ONLY <2>3, <2>4 DEF Ordered
  <1>15. Unbroken'
    <2>1. ASSUME stalls = {}, NEW i \in 1..(n + 1)
          PROVE  h[i].at + (n + 1 - i) + 1 = clock + 1
      <3>1. CASE i \in 1..n
        <4>1. heard[i].at \in Nat /\ heard[i].at + (n - i) + 1 = clock
          BY <1>1, <1>8, <1>12, <2>1, <3>1 DEF Unbroken
        <4>2. h[i].at = heard[i].at
          BY <1>10, <3>1
        <4>3. (n + 1 - i) + 1 = (n - i) + 1 + 1
          BY <1>8, <3>1
        <4> QED BY <1>3, <1>8, <3>1, <4>1, <4>2, <4>3, SMTT(30)
      <3>2. CASE i \notin 1..n
        BY <1>3, <1>6, <1>8, <1>10, <1>11, <3>2
      <3> QED BY <3>1, <3>2
    <2> QED BY <1>2, <1>9, <1>10, <2>1 DEF Unbroken
  <1>16. OnBoard'
    <2>1. ASSUME NEW i \in 1..(n + 1), h[i].at > moved
          PROVE  h[i].on = board + h[i].by
      <3>1. CASE i \in 1..n
        BY <1>1, <1>8, <1>10, <2>1, <3>1 DEF OnBoard
      <3>2. CASE i \notin 1..n
        BY <1>6, <1>10, <1>11, <3>2
      <3> QED BY <3>1, <3>2
    <2> QED BY <1>1, <1>2, <1>9, <1>10, <2>1 DEF OnBoard
  <1>17. WindowHeard'
    <2>1. SUFFICES ASSUME burst # None
                   PROVE  \E k \in Nat : /\ k + SlotTicks <= Len(h)
                                         /\ \A i \in 1..SlotTicks : burst.window[i] = h[k + i]
      BY <1>2, <1>9 DEF WindowHeard
    <2>2. PICK k \in Nat : /\ k + SlotTicks <= n
                           /\ \A i \in 1..SlotTicks : burst.window[i] = heard[k + i]
      BY <1>1, <1>8, <2>1 DEF WindowHeard
    <2>3. SlotTicks \in Nat
      BY Constants
    <2>4. \A i \in 1..SlotTicks : k + i \in 1..n
      BY <1>8, <2>2, <2>3
    <2>5. k + SlotTicks <= Len(h)
      BY <1>8, <1>10, <2>2, <2>3
    <2>6. \A i \in 1..SlotTicks : burst.window[i] = h[k + i]
      BY <1>10, <2>2, <2>4
    <2> QED BY <2>5, <2>6
  <1>18. Punctual'
    <2>1. heard' # <<>>
      <3>1. Len(heard') # 0
        BY <1>8, <1>9, <1>10
      <3> QED BY <3>1
    <2> QED BY <1>2, <2>1, TickPunctual
  <1>19. ASSUME NEW m \in Found(h), Arrived(m.slot)', (m.slot + 1) * SlotTicks <= clock
         PROVE  m \in Found(heard) /\ Arrived(m.slot)
    <2>1. m \in Found(heard)
      BY <1>3, <1>6, <1>7, <1>9, <1>19, FoundEarlier
    <2>2. m.slot \in Nat
      BY <1>10, FoundIs
    <2>3. PICK a \in Nat : a = m.slot * SlotTicks /\ (m.slot + 1) * SlotTicks = a + SlotTicks
      BY <2>2, Ticks
    <2>4. SlotTicks \in Nat
      BY Constants
    <2>5. ASSUME NEW at \in a..(a + SlotTicks - 1)
          PROVE  \E s \in ToSet(heard) : s.at = at
      <3>1. \E s \in ToSet(h) : s.at = at
        BY <1>9, <1>19, <2>3 DEF Arrived
      <3>2. PICK i \in 1..(n + 1) : h[i].at = at
        BY <1>10, <3>1 DEF ToSet
      <3>3. at < clock
        BY <1>3, <1>19, <2>3, <2>4
      <3>4. i \in 1..n
        BY <1>6, <1>10, <1>11, <3>2, <3>3
      <3>5. heard[i] \in ToSet(heard) /\ heard[i].at = at
        BY <1>3, <1>8, <1>10, <3>2, <3>4 DEF ToSet
      <3> QED BY <3>5
    <2> QED BY <2>1, <2>3, <2>5 DEF Arrived
  <1>20. Complete'
    <2>1. SUFFICES ASSUME stop = "no", sets = 0, NEW m \in Found(h), Arrived(m.slot)'
                   PROVE  /\ (m.slot + 1) * SlotTicks <= last => HasRow((m.slot + 1) * SlotTicks, m)
                          /\ burst # None /\ (m.slot + 1) * SlotTicks = burst.slot => m \in Found(burst.window)
      BY <1>2, <1>9 DEF Complete, HasRow
    <2>2. m.slot \in Nat
      BY <1>10, FoundIs
    <2>3. PICK e \in Nat : e = (m.slot + 1) * SlotTicks
      <3>1. SlotTicks \in Nat
        BY Constants
      <3>2. (m.slot + 1) * SlotTicks \in Nat
        BY <2>2, <3>1
      <3> QED BY <3>2
    <2>4. e <= last => e <= clock
      <3>1. PICK s \in Nat : s = ClosedSlot(clock) /\ s <= clock
        BY <1>3, Closed
      <3>2. SlotTicks \in Nat
        BY Constants
      <3>3. last \in {s, s - SlotTicks}
        BY <1>1, <2>1, <3>1 DEF Punctual
      <3> QED BY <1>3, <3>1, <3>2, <3>3
    <2>5. burst # None /\ e = burst.slot => e <= clock
      BY <1>1, <1>3, <2>1, Closed DEF Punctual
    <2>6. e <= clock => m \in Found(heard) /\ Arrived(m.slot)
      BY <1>19, <2>1, <2>3
    <2> QED BY <1>1, <2>1, <2>3, <2>4, <2>5, <2>6 DEF Complete
  <1>21. OwnSlot'
    BY <1>1, <1>2 DEF OwnSlot
  <1>22. SpotAsHeard' /\ Trusted'
    BY <1>1, <1>2 DEF SpotAsHeard, Trusted
  <1>23. Growing'
    BY <1>2, TickGrowing
  <1> QED BY <1>13, <1>14, <1>15, <1>16, <1>17, <1>18, <1>20, <1>21, <1>22, <1>23 DEF DecodeInv

-----------------------------------------------------------------------------
(* The invariant is kept: the decode thread. *)

\* A slot that is looked at without a burst is one that is behind the thread,
\* or of which too little was heard.
LEMMA CheckIdle ==
    ASSUME DecodeInv, burst = None, stop = "no", sets = 0,
           NEW s \in Nat, s = ClosedSlot(clock), Repeated(s) \/ ~ Len(buf) >= SlotTicks
    PROVE  /\ marked <= s
           /\ \A m \in Found(heard) :
                 Arrived(m.slot) /\ (m.slot + 1) * SlotTicks <= s => HasRow((m.slot + 1) * SlotTicks, m)
  <1>1. TypeOK /\ Ordered /\ Punctual /\ Complete
    BY DEF DecodeInv
  <1>2. clock \in Nat /\ heard \in Seq(Samples) /\ Latest(buf, heard) /\ looked \in 0..clock
    BY <1>1 DEF TypeOK
  <1>3. SlotTicks \in Nat \ {0} /\ SlotTicks >= 3
    BY Constants
  <1>4. /\ marked <= last /\ last \in {s, s - SlotTicks}
        /\ last # s =>
              /\ clock <= looked + 2
              /\ looked < s \/ (heard = <<>> /\ clock = looked + 2)
    BY <1>1 DEF Punctual
  <1>5. last \in Nat /\ marked \in Nat /\ s <= clock
    BY <1>1, <1>2, Closed DEF TypeOK
  <1>6. marked <= s
    BY <1>3, <1>4, <1>5
  <1>7. CASE last = s
    BY <1>1, <1>6, <1>7 DEF Complete
  <1>8. CASE last # s
    <2>1. ~ Repeated(s)
      BY <1>3, <1>4, <1>5, <1>8 DEF Repeated
    <2>2. clock <= s + 1 \/ heard = <<>>
      BY <1>2, <1>4, <1>5, <1>8
    <2>3. SUFFICES ASSUME NEW m \in Found(heard), Arrived(m.slot), (m.slot + 1) * SlotTicks <= s
                   PROVE  HasRow((m.slot + 1) * SlotTicks, m)
      BY <1>6
    <2>4. m.slot \in Nat
      BY <1>2, FoundIs
    <2>5. PICK k \in Nat : k = m.slot + 1
      BY <2>4
    <2>6. PICK e \in Nat : e = k * SlotTicks
      BY <1>3
    <2>7. PICK q \in Nat : s = q * SlotTicks
      BY <1>2, Closed
    <2>8. e <= s
      BY <2>3, <2>5, <2>6
    <2>9. CASE e = s
      <3>1. heard # <<>>
        <4>1. ASSUME heard = <<>> PROVE FALSE
          <5>1. PICK a \in Nat : Body(m.slot) = (a + 1)..(a + SlotTicks - 1)
            BY <2>4, Ticks
          <5>2. a + 1 \in Body(m.slot)
            BY <1>3, <5>1
          <5>3. \A at \in Body(m.slot) : \E i \in 1..Len(heard) : heard[i].at = at /\ heard[i].on = m.on
            BY <1>2, FoundIs
          <5>4. PICK i \in 1..Len(heard) : heard[i].at = a + 1
            BY <5>2, <5>3
          <5>5. Len(heard) = 0
            BY <4>1
          <5> QED BY <5>4, <5>5
        <4> QED BY <4>1
      <3>2. clock \in {e, e + 1}
        BY <1>2, <1>5, <2>2, <2>9, <3>1
      <3>3. Len(heard) >= SlotTicks
        BY <1>1, <1>2, <2>3, <2>5, <2>6, <3>2, InWindow
      <3>4. Len(buf) = IF Len(heard) <= Cap THEN Len(heard) ELSE Cap
        BY <1>2, LatestFacts
      <3>5. Len(buf) >= SlotTicks
        BY <1>2, <1>3, <3>3, <3>4, Constants
      <3> QED BY <2>1, <3>5
    <2>10. CASE e # s
      <3>1. e <= s - SlotTicks
        <4>1. ~ (s < e + SlotTicks)
          BY <1>3, <2>6, <2>7, <2>8, <2>10, SameEnd
        <4> QED BY <1>3, <4>1
      <3>2. e <= last
        BY <1>4, <1>8, <3>1
      <3> QED BY <1>1, <2>3, <2>5, <2>6, <3>2 DEF Complete
    <2> QED BY <2>9, <2>10
  <1> QED BY <1>7, <1>8

\* The thread looks at the clock: a burst begins, or there is nothing to do.
LEMMA KeptCheck ==
    ASSUME DecodeInv, Check
    PROVE  DecodeInv'
  <1>1. /\ TypeOK /\ Ordered /\ Unbroken /\ OnBoard /\ WindowHeard /\ Punctual
        /\ Complete /\ OwnSlot /\ Growing /\ Trusted /\ SpotAsHeard
    BY DEF DecodeInv
  <1>2. /\ clock' = clock /\ heard' = heard /\ buf' = buf
        /\ reports' = reports /\ spots' = spots /\ stop' = stop /\ looked' = clock
        /\ ahead' = ahead /\ sets' = sets /\ epoch' = epoch
        /\ board' = board /\ tuning' = tuning /\ pending' = pending /\ trust' = trust
        /\ mailbox' = mailbox /\ offset' = offset
        /\ moved' = moved /\ mutex' = mutex /\ stalls' = stalls
    BY DEF Check, radio, wall
  <1>3. clock \in Nat /\ heard \in Seq(Samples) /\ Latest(buf, heard) /\ Now \in Nat /\ looked \in 0..clock
        /\ last \in Nat /\ marked \in Nat /\ epoch \in Nat
    BY <1>1 DEF TypeOK
  <1>4. PICK s \in Nat : s = ClosedSlot(Now)
    BY <1>3, Closed
  <1>5. SlotTicks \in Nat \ {0} /\ SlotTicks >= 3 /\ BurstTicks \in Nat
    BY Constants
  <1>6. burst = None /\ stop = "no" /\ clock > looked
    BY DEF Check
  <1>7. s % SlotTicks = 0
    <2>1. PICK q \in Nat : s = q * SlotTicks
      BY <1>3, <1>4, Closed
    <2>2. s = SlotTicks * q
      BY <1>5, <2>1
    <2> QED BY <1>5, <2>2
  <1>8. sets = 0 => s = ClosedSlot(clock) /\ s <= clock /\ clock < s + SlotTicks
    <2>1. sets = 0 => ahead = 0
      BY <1>1 DEF Punctual
    <2>2. sets = 0 => Now = clock
      BY <1>3, <2>1 DEF Now
    <2> QED BY <1>3, <1>4, <2>2, Closed
  <1>9. Ordered' /\ Unbroken' /\ OnBoard' /\ Trusted' /\ SpotAsHeard'
    BY <1>1, <1>2 DEF Ordered, Unbroken, OnBoard, Trusted, SpotAsHeard
  <1>10. \A i \in 1..Len(reports) : reports[i].slot \in Nat /\ reports[i].epoch \in Nat
    <2>1. ASSUME NEW i \in 1..Len(reports) PROVE reports[i] \in Reports
      BY <1>1, <2>1 DEF Growing
    <2> QED BY <2>1 DEF Reports
  <1>11. CASE Repeated(s) \/ ~ Len(buf) >= SlotTicks
    <2>1. last' = s /\ burst' = None /\ marked' = marked
      <3>1. Len(buf) \in Nat
        BY <1>3, LatestFacts
      <3>2. Repeated(ClosedSlot(Now)) \/ Len(buf) < SlotTicks
        BY <1>4, <1>5, <1>11, <3>1
      <3> QED BY <1>4, <1>6, <3>2 DEF Check
    <2>2. TypeOK'
      <3>1. s \in {t \in Nat : t % SlotTicks = 0}
        BY <1>7
      <3> QED BY <1>1, <1>2, <1>3, <2>1, <3>1 DEF TypeOK, Now
    <2>3. WindowHeard' /\ OwnSlot'
      BY <1>1, <1>2, <2>1 DEF WindowHeard, OwnSlot
    <2>4. sets = 0 =>
            /\ marked <= s
            /\ \A m \in Found(heard) :
                  Arrived(m.slot) /\ (m.slot + 1) * SlotTicks <= s => HasRow((m.slot + 1) * SlotTicks, m)
      BY <1>6, <1>8, <1>11, CheckIdle
    <2>5. Punctual'
      <3>1. sets = 0 => ahead = 0 /\ clock >= SlotTicks
        BY <1>1 DEF Punctual
      <3> QED BY <1>2, <1>8, <2>1, <2>4, <3>1 DEF Punctual
    <2>6. Complete'
      BY <1>2, <2>1, <2>4 DEF Complete, Arrived, HasRow
    <2>7. Growing'
      <3>1. \A i \in 1..Len(reports) : reports[i].epoch = epoch => reports[i].slot <= s
        BY <1>1, <1>3, <1>4, <1>10 DEF Growing
      <3>2. Now' = Now
        BY <1>2 DEF Now
      <3> QED BY <1>1, <1>2, <1>4, <2>1, <3>1, <3>2 DEF Growing
    <2> QED BY <1>9, <2>2, <2>3, <2>5, <2>6, <2>7 DEF DecodeInv
  <1>12. CASE ~ (Repeated(s) \/ ~ Len(buf) >= SlotTicks)
    <2>1. PICK b : b = [slot |-> s, window |-> Snapshot, epoch |-> epoch]
      OBVIOUS
    <2>2. burst' = b /\ marked' = s /\ last' = last
      <3>1. Len(buf) \in Nat
        BY <1>3, LatestFacts
      <3>2. ~ (Repeated(ClosedSlot(Now)) \/ Len(buf) < SlotTicks)
        BY <1>4, <1>5, <1>12, <3>1
      <3> QED BY <1>4, <2>1, <3>2 DEF Check
    <2>3. Len(heard) >= SlotTicks /\ Len(heard) \in Nat
      <3>1. Len(buf) = IF Len(heard) <= Cap THEN Len(heard) ELSE Cap
        BY <1>3, LatestFacts
      <3>2. Cap \in Nat /\ Len(heard) \in Nat
        BY <1>3, Constants
      <3>3. Len(buf) <= Len(heard) /\ Len(buf) \in Nat
        BY <3>1, <3>2
      <3> QED BY <1>5, <1>12, <3>2, <3>3
    <2>4. PICK w \in Seq(Samples) : w = Snapshot
      BY <1>3, <2>3, SnapshotFacts
    <2>5. Len(w) = SlotTicks /\ \A i \in 1..SlotTicks : w[i] = heard[Len(heard) - SlotTicks + i]
      BY <1>3, <2>3, <2>4, SnapshotFacts
    <2>6. b.slot = s /\ b.window = w /\ b.epoch = epoch /\ b \in Bursts
      BY <1>3, <2>1, <2>4 DEF Bursts
    <2>7. b # None
      BY <2>6, Constants
    <2>8. sets = 0 => last = s - SlotTicks /\ clock <= s + 1 /\ clock >= SlotTicks
      <3>1. SUFFICES ASSUME sets = 0
                     PROVE  last = s - SlotTicks /\ clock <= s + 1 /\ clock >= SlotTicks
        OBVIOUS
      <3>2. heard # <<>>
        BY <1>5, <2>3
      <3>3. last # s
        BY <1>12 DEF Repeated
      <3>4. /\ last \in {s, s - SlotTicks} /\ clock >= SlotTicks
            /\ clock <= looked + 2 /\ looked < s
        BY <1>1, <1>6, <1>8, <3>1, <3>2, <3>3 DEF Punctual
      <3> QED BY <1>3, <3>3, <3>4
    <2>9. TypeOK'
      <3>1. s \in {t \in Nat : t % SlotTicks = 0}
        BY <1>7
      <3> QED BY <1>1, <1>2, <1>3, <2>2, <2>5, <2>6, <3>1 DEF TypeOK, Now
    <2>10. WindowHeard'
      <3>1. PICK n \in Nat : n = Len(heard) - SlotTicks
        BY <1>5, <2>3
      <3>2. n + SlotTicks <= Len(heard)
        BY <1>5, <2>3, <3>1
      <3>3. \A i \in 1..SlotTicks : w[i] = heard[n + i]
        BY <2>5, <3>1
      <3> QED BY <1>2, <2>2, <2>6, <3>2, <3>3 DEF WindowHeard
    <2>11. Punctual'
      <3>1. sets = 0 => clock \in {s, s + 1} /\ clock <= clock + BurstTicks /\ ahead = 0
        BY <1>1, <1>3, <1>5, <1>8, <2>8 DEF Punctual
      <3> QED BY <1>2, <1>8, <2>2, <2>6, <2>7, <2>8, <3>1 DEF Punctual
    <2>12. Complete'
      <3>1. ASSUME sets = 0, NEW m \in Found(heard), Arrived(m.slot), (m.slot + 1) * SlotTicks = s
            PROVE  m \in Found(w)
        <4>1. PICK e : e = (m.slot + 1) * SlotTicks
          OBVIOUS
        <4>2. clock \in {e, e + 1}
          BY <1>3, <1>8, <2>8, <3>1, <4>1
        <4> QED BY <1>1, <1>3, <2>4, <3>1, <4>1, <4>2, InWindow
      <3> QED BY <1>1, <1>2, <1>6, <2>2, <2>6, <3>1 DEF Complete, Arrived, HasRow
    <2>13. OwnSlot'
      <3>1. ASSUME stalls = {}, sets = 0, NEW m \in Found(w)
            PROVE  s = (m.slot + 1) * SlotTicks
        <4>1. s = ClosedSlot(clock) /\ clock <= ClosedSlot(clock) + 1
          BY <1>8, <2>8, <3>1
        <4> QED BY <1>1, <1>3, <2>3, <2>4, <3>1, <4>1, OnlyOwn
      <3> QED BY <1>1, <1>2, <2>2, <2>6, <3>1 DEF OwnSlot
    <2>14. Growing'
      <3>1. last # s
        BY <1>12 DEF Repeated
      <3>2. \A i \in 1..Len(reports) :
               /\ reports[i].epoch <= epoch
               /\ reports[i].epoch = epoch => reports[i].slot <= last /\ last <= s
        BY <1>1, <1>4 DEF Growing
      <3>3. \A i \in 1..Len(reports) : reports[i].epoch = epoch => reports[i].slot < s
        BY <1>3, <1>10, <3>1, <3>2
      <3>4. Now' = Now
        BY <1>2 DEF Now
      <3>5. epoch <= epoch /\ s <= s
        BY <1>3
      <3> QED BY <1>1, <1>2, <1>4, <2>2, <2>6, <3>2, <3>3, <3>4, <3>5 DEF Growing
    <2> QED BY <1>9, <2>9, <2>10, <2>11, <2>12, <2>13, <2>14 DEF DecodeInv
  <1> QED BY <1>11, <1>12

\* What a window holds was heard on the frequency its spot is reported at, if
\* board and map agree since before the window and the receiver kept its offset.
LEMMA HeardOnRf ==
    ASSUME DecodeInv, burst # None, Undisturbed, Rf # 0, NEW m \in Found(burst.window)
    PROVE  Rf = m.on
  <1>1. TypeOK /\ Ordered /\ OnBoard /\ WindowHeard /\ Trusted
    BY DEF DecodeInv
  <1>2. heard \in Seq(Samples) /\ burst \in Bursts /\ Len(burst.window) = SlotTicks
    BY <1>1 DEF TypeOK
  <1>3. SlotTicks \in Nat \ {0} /\ SlotTicks >= 3 /\ moved \in Nat
    BY <1>1, Constants DEF OnBoard
  <1>4. PICK w \in Seq(Samples) : w = burst.window /\ Len(w) = SlotTicks
    BY <1>2 DEF Bursts
  <1>5. PICK n \in Nat : /\ n + SlotTicks <= Len(heard)
                         /\ \A i \in 1..SlotTicks : w[i] = heard[n + i]
    BY <1>1, <1>4 DEF WindowHeard
  <1>6. tuning # 0 /\ Rf = tuning + Offset
    BY DEF Rf
  <1>7. board = tuning /\ moved < w[1].at /\ \A x \in ToSet(w) : x.by = Offset
    BY <1>1, <1>4, <1>6 DEF Undisturbed, Trusted
  <1>8. PICK i \in 1..SlotTicks : w[i].on = m.on
    <2>0. m \in Found(w)
      BY <1>4
    <2>1. m.slot \in Nat
          /\ \A at \in Body(m.slot) : \E i \in 1..Len(w) : w[i].at = at /\ w[i].on = m.on
      BY <2>0, FoundIs
    <2>2. PICK a \in Nat : Body(m.slot) = (a + 1)..(a + SlotTicks - 1)
      BY <2>1, Ticks
    <2>3. a + 1 \in Body(m.slot)
      BY <1>3, <2>2
    <2> QED BY <1>4, <2>1, <2>3
  <1>9. PICK j \in 1..Len(heard) : j = n + i /\ heard[j] = w[i]
    <2>1. n + i \in 1..Len(heard)
      BY <1>2, <1>3, <1>5
    <2> QED BY <1>5, <2>1
  <1>10. PICK f \in 1..Len(heard) : f = n + 1 /\ heard[f] = w[1]
    <2>1. n + 1 \in 1..Len(heard) /\ 1 \in 1..SlotTicks
      BY <1>2, <1>3, <1>5
    <2> QED BY <1>5, <2>1
  <1>11. heard[f].at \in Nat /\ heard[j].at \in Nat
    BY <1>2, HeardFacts
  <1>12. heard[f].at <= heard[j].at
    <2>1. CASE f = j
      BY <1>11, <2>1
    <2>2. CASE f # j
      <3>1. f < j
        BY <1>3, <1>9, <1>10, <2>2
      <3>2. heard[f].at + (j - f) <= heard[j].at
        BY <1>1, <3>1 DEF Ordered
      <3> QED BY <1>11, <3>1, <3>2
    <2> QED BY <2>1, <2>2
  <1>13. heard[j].at > moved
    BY <1>3, <1>7, <1>10, <1>11, <1>12
  <1>14. heard[j].on = board + heard[j].by
    BY <1>1, <1>13 DEF OnBoard
  <1>15. heard[j].by = Offset
    <2>1. w[i] \in ToSet(w)
      BY <1>4 DEF ToSet
    <2> QED BY <1>7, <1>9, <2>1
  <1> QED BY <1>6, <1>7, <1>8, <1>9, <1>14, <1>15

\* A report is added, or none.
LEMMA Added ==
    ASSUME DecodeInv, Report
    PROVE  /\ reports' \in Seq(Reports)
           /\ Len(reports) \in Nat
           /\ \A i \in 1..Len(reports) : i \in 1..Len(reports') /\ reports'[i] = reports[i]
           /\ \A i \in 1..Len(reports') :
                 i \notin 1..Len(reports) =>
                    i = Len(reports) + 1
                    /\ reports'[i] = [slot |-> burst.slot, epoch |-> burst.epoch, found |-> Found(burst.window)]
           /\ Found(burst.window) # {} =>
                 \E i \in 1..Len(reports') :
                    reports'[i] = [slot |-> burst.slot, epoch |-> burst.epoch, found |-> Found(burst.window)]
  <1>1. TypeOK /\ Growing
    BY DEF DecodeInv
  <1>2. burst # None /\ burst \in Bursts
    BY <1>1 DEF Report, TypeOK
  <1>3. PICK w \in Seq(Samples) : w = burst.window
    BY <1>2 DEF Bursts
  <1>4. PICK F : F = Found(w)
    OBVIOUS
  <1>5. F \in SUBSET [slot : Nat, on : Nat]
    <2>1. ASSUME NEW m \in F PROVE m \in [slot : Nat, on : Nat]
      <3>1. m \in [slot : 0..(MaxClock \div SlotTicks), on : Nat] /\ m.slot \in Nat
        BY <1>3, <1>4, <2>1, FoundIs
      <3> QED BY <3>1
    <2> QED BY <2>1
  <1>6. PICK r : r = [slot |-> burst.slot, epoch |-> burst.epoch, found |-> F]
    OBVIOUS
  <1>7. r \in Reports
    BY <1>2, <1>5, <1>6 DEF Bursts, Reports
  <1>8. reports' = IF F = {} THEN reports ELSE Append(reports, r)
    BY <1>3, <1>4, <1>6 DEF Report, Reported
  <1>9. reports \in Seq(Reports)
    BY <1>1 DEF Growing
  <1>10. CASE F = {}
    BY <1>3, <1>4, <1>8, <1>9, <1>10
  <1>11. CASE F # {}
    <2>1. reports' = Append(reports, r)
      BY <1>8, <1>11
    <2>2. /\ reports' \in Seq(Reports) /\ Len(reports) \in Nat
          /\ Len(reports') = Len(reports) + 1 /\ reports'[Len(reports) + 1] = r
          /\ \A i \in 1..Len(reports) : reports'[i] = reports[i]
      BY <1>7, <1>9, <2>1
    <2>3. /\ \A i \in 1..Len(reports) : i \in 1..Len(reports')
          /\ \A i \in 1..Len(reports') : i \notin 1..Len(reports) => i = Len(reports) + 1
          /\ Len(reports) + 1 \in 1..Len(reports')
      BY <2>2
    <2> QED BY <1>3, <1>4, <1>6, <2>2, <2>3
  <1> QED BY <1>10, <1>11

\* The decode is done.
LEMMA KeptReport ==
    ASSUME DecodeInv, Report
    PROVE  DecodeInv'
  <1>1. /\ TypeOK /\ Ordered /\ Unbroken /\ OnBoard /\ WindowHeard /\ Punctual
        /\ Complete /\ OwnSlot /\ Growing /\ Trusted /\ SpotAsHeard
    BY DEF DecodeInv
  <1>2. /\ clock' = clock /\ heard' = heard /\ buf' = buf /\ marked' = marked /\ stop' = stop
        /\ ahead' = ahead /\ sets' = sets /\ epoch' = epoch /\ looked' = looked
        /\ board' = board /\ tuning' = tuning /\ pending' = pending /\ trust' = trust
        /\ mailbox' = mailbox /\ offset' = offset
        /\ moved' = moved /\ mutex' = mutex /\ stalls' = stalls
        /\ last' = burst.slot /\ burst' = None /\ burst # None
    BY DEF Report, Reported, radio, decoder, wall
  <1>3. clock \in Nat /\ heard \in Seq(Samples) /\ SlotTicks \in Nat \ {0} /\ epoch \in Nat
    BY <1>1, Constants DEF TypeOK
  <1>4. burst \in Bursts /\ burst.slot = marked /\ burst.slot \in Nat /\ burst.epoch \in Nat
    BY <1>1, <1>2 DEF TypeOK, Bursts
  <1>5. PICK s \in Nat : s = ClosedSlot(clock)
    BY <1>3, Closed
  <1>6. PICK F : F = Found(burst.window)
    OBVIOUS
  <1>7. PICK r : r = [slot |-> burst.slot, epoch |-> burst.epoch, found |-> F]
    OBVIOUS
  <1>8. /\ reports' \in Seq(Reports)
        /\ Len(reports) \in Nat
        /\ \A i \in 1..Len(reports) : i \in 1..Len(reports') /\ reports'[i] = reports[i]
        /\ \A i \in 1..Len(reports') : i \notin 1..Len(reports) => i = Len(reports) + 1 /\ reports'[i] = r
        /\ F # {} => \E i \in 1..Len(reports') : reports'[i] = r
    BY <1>6, <1>7, Added
  <1>9. TypeOK'
    BY <1>1, <1>2, <1>4 DEF TypeOK, Now
  <1>10. Ordered' /\ Unbroken' /\ OnBoard' /\ WindowHeard' /\ Trusted'
    BY <1>1, <1>2 DEF Ordered, Unbroken, OnBoard, WindowHeard, Trusted
  <1>11. sets = 0 => burst.slot = s /\ last = s - SlotTicks
    BY <1>1, <1>2, <1>5 DEF Punctual
  <1>12. Punctual'
    <2>1. marked <= burst.slot
      BY <1>4
    <2> QED BY <1>1, <1>2, <1>5, <1>11, <2>1 DEF Punctual
  <1>13. Complete'
    <2>1. SUFFICES ASSUME stop = "no", sets = 0, NEW m \in Found(heard), Arrived(m.slot),
                          (m.slot + 1) * SlotTicks <= s
                   PROVE  HasRow((m.slot + 1) * SlotTicks, m)'
      BY <1>2, <1>11 DEF Complete, Arrived, HasRow
    <2>2. m.slot \in Nat
      BY <1>3, FoundIs
    <2>3. PICK k \in Nat : k = m.slot + 1
      BY <2>2
    <2>4. PICK e \in Nat : e = k * SlotTicks
      BY <1>3
    <2>5. PICK q \in Nat : s = q * SlotTicks
      BY <1>3, <1>5, Closed
    <2>6. e <= s
      BY <2>1, <2>3, <2>4
    <2>7. CASE e = s
      <3>1. m \in F
        BY <1>1, <1>2, <1>6, <1>11, <2>1, <2>3, <2>4, <2>7 DEF Complete
      <3>2. r.slot = e /\ m \in r.found
        BY <1>7, <1>11, <2>1, <2>7, <3>1
      <3> QED BY <1>8, <2>3, <2>4, <3>1, <3>2 DEF HasRow
    <2>8. CASE e # s
      <3>1. ~ (s < e + SlotTicks)
        BY <1>3, <2>4, <2>5, <2>6, <2>8, SameEnd
      <3>2. e <= s - SlotTicks
        BY <1>3, <3>1
      <3>3. e <= last
        BY <1>11, <2>1, <3>2
      <3>4. HasRow(e, m)
        BY <1>1, <2>1, <2>3, <2>4, <3>3 DEF Complete
      <3> QED BY <1>8, <2>3, <2>4, <3>4 DEF HasRow
    <2> QED BY <2>7, <2>8
  <1>14. OwnSlot'
    <2>1. ASSUME stalls = {}, sets = 0, NEW i \in 1..Len(reports'), NEW m \in reports'[i].found
          PROVE  reports'[i].slot = (m.slot + 1) * SlotTicks
      <3>1. CASE i \in 1..Len(reports)
        <4>1. reports'[i] = reports[i]
          BY <1>8, <3>1
        <4> QED BY <1>1, <2>1, <3>1, <4>1 DEF OwnSlot
      <3>2. CASE i \notin 1..Len(reports)
        <4>1. reports'[i] = r
          BY <1>8, <3>2
        <4>2. m \in F /\ reports'[i].slot = burst.slot
          BY <1>7, <2>1, <4>1
        <4> QED BY <1>1, <1>2, <1>6, <2>1, <4>2 DEF OwnSlot
      <3> QED BY <3>1, <3>2
    <2> QED BY <1>2, <2>1 DEF OwnSlot
  <1>15. Growing'
    <2>1. ASSUME NEW i \in 1..Len(reports)
          PROVE  /\ reports'[i] = reports[i] /\ reports[i].slot \in Nat /\ reports[i].epoch \in Nat
                 /\ reports[i].epoch <= epoch
                 /\ reports[i].epoch = burst.epoch => reports[i].slot < burst.slot
                 /\ reports[i].epoch = epoch =>
                       reports[i].slot <= burst.slot /\ burst.slot <= ClosedSlot(Now)
      <3>1. reports[i] \in Reports
        BY <1>1 DEF Growing
      <3>2. reports[i].slot \in Nat /\ reports[i].epoch \in Nat
        BY <3>1 DEF Reports
      <3>3. /\ reports[i].epoch <= burst.epoch /\ burst.epoch <= epoch
            /\ reports[i].epoch = burst.epoch => reports[i].slot < burst.slot
            /\ burst.epoch = epoch => burst.slot <= ClosedSlot(Now)
        BY <1>1, <1>2 DEF Growing
      <3> QED BY <1>3, <1>4, <1>8, <3>2, <3>3
    <2>2. ASSUME NEW i \in 1..Len(reports'), i \notin 1..Len(reports)
          PROVE  /\ i = Len(reports) + 1
                 /\ reports'[i].epoch = burst.epoch /\ reports'[i].slot = burst.slot
                 /\ burst.epoch <= epoch
                 /\ burst.epoch = epoch => burst.slot <= ClosedSlot(Now)
      <3>1. i = Len(reports) + 1 /\ reports'[i] = r
        BY <1>8, <2>2
      <3>2. burst.epoch <= epoch /\ (burst.epoch = epoch => burst.slot <= ClosedSlot(Now))
        BY <1>1, <1>2 DEF Growing
      <3> QED BY <1>7, <3>1, <3>2
    <2>3. ASSUME NEW i \in 1..Len(reports'), NEW j \in 1..Len(reports'), i < j,
                 reports'[i].epoch = reports'[j].epoch
          PROVE  reports'[i].slot < reports'[j].slot
      <3>1. CASE j \in 1..Len(reports)
        <4>1. i \in 1..Len(reports)
          BY <1>8, <2>3, <3>1
        <4> QED BY <1>1, <1>8, <2>3, <3>1, <4>1 DEF Growing
      <3>2. CASE j \notin 1..Len(reports)
        <4>1. j = Len(reports) + 1 /\ reports'[j].epoch = burst.epoch /\ reports'[j].slot = burst.slot
          BY <2>2, <3>2
        <4>2. i \in 1..Len(reports)
          BY <1>8, <2>3, <4>1
        <4> QED BY <2>1, <2>3, <4>1, <4>2
      <3> QED BY <3>1, <3>2
    <2>4. ASSUME NEW i \in 1..Len(reports')
          PROVE  /\ reports'[i].epoch <= epoch
                 /\ reports'[i].epoch = epoch =>
                       reports'[i].slot <= burst.slot /\ burst.slot <= ClosedSlot(Now)
      <3>1. CASE i \in 1..Len(reports)
        BY <2>1, <3>1
      <3>2. CASE i \notin 1..Len(reports)
        BY <1>4, <2>2, <3>2
      <3> QED BY <3>1, <3>2
    <2>5. Now' = Now
      BY <1>2 DEF Now
    <2> QED BY <1>2, <1>8, <2>3, <2>4, <2>5 DEF Growing
  <1>16. SpotAsHeard'
    <2>1. SUFFICES ASSUME NEW s1 \in spots', s1.undisturbed
                   PROVE  s1.freq = s1.heard.on
      BY DEF SpotAsHeard
    <2>2. CASE s1 \in spots
      BY <1>1, <2>1, <2>2 DEF SpotAsHeard
    <2>3. CASE s1 \notin spots
      <3>1. Rf # 0 /\ s1 \in {[heard |-> m, freq |-> Rf, undisturbed |-> Undisturbed] : m \in Found(burst.window)}
        BY <2>1, <2>3 DEF Report, Reported
      <3>2. PICK m \in Found(burst.window) :
               s1 = [heard |-> m, freq |-> Rf, undisturbed |-> Undisturbed]
        BY <3>1
      <3>3. s1.freq = Rf /\ s1.heard = m /\ s1.undisturbed = Undisturbed
        BY <3>2
      <3>4. Undisturbed
        BY <2>1, <3>3
      <3> QED BY <1>2, <3>1, <3>3, <3>4, HeardOnRf
    <2> QED BY <2>2, <2>3
  <1> QED BY <1>9, <1>10, <1>12, <1>13, <1>14, <1>15, <1>16 DEF DecodeInv

-----------------------------------------------------------------------------
LEMMA InitDecode ==
    ASSUME Init
    PROVE  DecodeInv
  <1>1. SlotTicks \in Nat \ {0} /\ SlotTicks >= 3 /\ Cap \in Nat
    BY Constants
  <1>2. clock \in Nat /\ clock >= SlotTicks /\ clock < 2 * SlotTicks
    BY <1>1 DEF Init
  <1>3. ClosedSlot(clock) = SlotTicks
    <2>1. 1 * SlotTicks = SlotTicks /\ clock - SlotTicks < 1 * SlotTicks
      BY <1>1, <1>2
    <2> QED BY <1>2, <2>1, ClosedMultiple
  <1>4. heard = <<>> /\ Len(heard) = 0 /\ heard \in Seq(Samples) /\ burst = None
    BY DEF Init
  <1>5. TypeOK
    <2>1. Latest(buf, heard)
      <3>1. PICK e : e = <<>>
        OBVIOUS
      <3>2. e \in Seq(Samples) /\ Len(e) = 0
        BY <3>1
      <3>3. Len(e) = IF Len(e) <= Cap THEN Len(e) ELSE Cap
        BY <1>1, <3>2
      <3>4. \A i \in 1..Len(e) : FALSE
        BY <3>2
      <3>5. Latest(e, e)
        BY <3>2, <3>3, <3>4, LatestIs
      <3> QED BY <3>1, <3>5 DEF Init
    <2>2. 0 \in {t \in Nat : t % SlotTicks = 0}
      <3>1. 0 % SlotTicks = 0
        BY <1>1
      <3> QED BY <3>1
    <2>3. Now = clock /\ looked \in 0..clock
      BY <1>1, <1>2 DEF Init, Now
    <2>4. pending \in [Tuners -> Ncos \union {None}]
      BY DEF Init
    <2> QED BY <1>2, <1>4, <2>1, <2>2, <2>3, <2>4, Constants DEF Init, TypeOK
  <1>6. \A i \in 1..Len(heard) : FALSE
    BY <1>4
  <1>7. Ordered /\ Unbroken /\ OnBoard /\ WindowHeard
    BY <1>4, <1>6 DEF Ordered, Unbroken, OnBoard, WindowHeard, Init
  <1>8. Punctual
    <2>1. last = 0 /\ marked = 0 /\ ahead = 0 /\ looked = clock - 2
      BY DEF Init
    <2>2. last = SlotTicks - SlotTicks /\ clock <= looked + 2 /\ clock = looked + 2 /\ marked <= last
      BY <1>1, <1>2, <2>1
    <2> QED BY <1>2, <1>3, <1>4, <2>1, <2>2 DEF Punctual
  <1>9. \A m \in Found(heard) : FALSE
    <2>1. ASSUME NEW m \in Found(heard) PROVE FALSE
      <3>0. heard \in Seq(Samples) /\ m \in Found(heard)
        BY <1>4, <2>1
      <3>1. m.slot \in Nat
            /\ \A at \in Body(m.slot) : \E i \in 1..Len(heard) : heard[i].at = at /\ heard[i].on = m.on
        BY <3>0, FoundIs, ZenonT(40)
      <3>2. PICK a \in Nat : Body(m.slot) = (a + 1)..(a + SlotTicks - 1)
        BY <3>1, Ticks
      <3>3. a + 1 \in Body(m.slot)
        BY <1>1, <3>2
      <3> QED BY <1>6, <3>1, <3>3
    <2> QED BY <2>1
  <1>10. Complete
    BY <1>9 DEF Complete
  <1>11. reports = <<>> /\ Len(reports) = 0 /\ reports \in Seq(Reports)
    BY DEF Init
  <1>12. \A i \in 1..Len(reports) : FALSE
    BY <1>11
  <1>13. OwnSlot /\ Growing /\ SpotAsHeard
    BY <1>4, <1>11, <1>12 DEF Init, OwnSlot, Growing, SpotAsHeard
  <1>14. Trusted
    <2>1. trust = "agreed" /\ board = Nco /\ tuning \in {Nco, 0} /\ pending = [t \in Tuners |-> None]
      BY DEF Init
    <2>2. \A t \in Tuners : pending[t] = None /\ trust # t
      BY <2>1, Constants
    <2> QED BY <2>1, <2>2 DEF Trusted
  <1> QED BY <1>5, <1>7, <1>8, <1>10, <1>13, <1>14 DEF DecodeInv

LEMMA StepDecode ==
    ASSUME DecodeInv, [Next]_vars
    PROVE  DecodeInv'
  <1>1. CASE UNCHANGED vars
    <2>1. Trusted'
      BY <1>1 DEF vars, radio, DecodeInv, Trusted
    <2>2. Aside
      BY <1>1 DEF vars, Aside, wall, decoder, thread, radio, DecodeInv, TypeOK
    <2> QED BY <2>1, <2>2, KeptAside
  <1>2. CASE Next
    BY <1>2, KeptHear, KeptStall, KeptCheck, KeptReport, KeptSetClock, KeptTuneRadio, KeptTuneMap,
       KeptCommands DEF Next, Thread
  <1> QED BY <1>1, <1>2

THEOREM DecodeHolds == Spec => []DecodeInv
  BY InitDecode, StepDecode, PTL DEF Spec

\* Types; the buffer ends as what was heard does (add_samples), and a burst
\* has a window of one slot (snapshot_for_slot).
THEOREM TypeCorrect == Spec => []TypeOK
  <1>1. DecodeInv => TypeOK
    BY DEF DecodeInv
  <1> QED BY <1>1, DecodeHolds, PTL

\* Whichever Tunes overlap and whichever of their frames are lost, a spot that
\* is not marked as disturbed is posted at the frequency its transmission was
\* heard on (Hl2::tune, the tune command, on_decodes, rf_for_vrx).
THEOREM SpotsHeard == Spec => []SpotAsHeard
  <1>1. DecodeInv => SpotAsHeard
    BY DEF DecodeInv
  <1> QED BY <1>1, DecodeHolds, PTL

\* While nobody sets the clock, whatever the phase a receiver is spawned at, a
\* slot that arrived is in a report that has its end for a stamp, BurstTicks + 2
\* ticks later at most, and in no other if no audio is missing; and whatever
\* happens, the stamps grow until the clock is set back (spawn_ft8_decode,
\* snapshot_for_slot).
THEOREM SlotsOnce == Spec => []EachSlotOnce
  <1>1. ASSUME DecodeInv, stop = "no", sets = 0, NEW m \in Found(heard), Arrived(m.slot),
               clock >= (m.slot + 1) * SlotTicks + BurstTicks + 2
        PROVE  HasRow((m.slot + 1) * SlotTicks, m)
    <2>1. TypeOK /\ Punctual /\ Complete
      BY <1>1 DEF DecodeInv
    <2>2. /\ clock \in Nat /\ heard \in Seq(Samples) /\ looked \in 0..clock
          /\ SlotTicks \in Nat \ {0} /\ BurstTicks \in Nat
      BY <2>1, Constants DEF TypeOK
    <2>3. m.slot \in Nat
          /\ \A at \in Body(m.slot) : \E i \in 1..Len(heard) : heard[i].at = at /\ heard[i].on = m.on
      BY <1>1, <2>2, FoundIs, ZenonT(40)
    <2>4. heard # <<>>
      <3>1. PICK a \in Nat : Body(m.slot) = (a + 1)..(a + SlotTicks - 1)
        BY <2>3, Ticks
      <3>2. a + 1 \in Body(m.slot)
        BY <3>1, Constants
      <3>3. \E i \in 1..Len(heard) : TRUE
        BY <2>3, <3>2
      <3>4. Len(heard) # 0
        BY <3>3
      <3> QED BY <3>4
    <2>5. PICK k \in Nat : k = m.slot + 1
      BY <2>3
    <2>6. PICK e \in Nat : e = k * SlotTicks
      BY <2>2
    <2>7. PICK s \in Nat : s = ClosedSlot(clock)
      BY <2>2, Closed
    <2>8. PICK q \in Nat : s = q * SlotTicks
      BY <2>2, <2>7, Closed
    <2>9. clock < s + SlotTicks /\ clock >= e + BurstTicks + 2
      BY <1>1, <2>2, <2>5, <2>6, <2>7, Closed
    <2>10. e <= s
      <3>1. ASSUME s < e PROVE FALSE
        <4>1. ~ (e < s + SlotTicks)
          BY <2>2, <2>6, <2>8, <3>1, SameEnd
        <4> QED BY <2>2, <2>9, <3>1, <4>1
      <3> QED BY <3>1
    <2>11. e # s => e <= s - SlotTicks
      <3>1. e # s => ~ (s < e + SlotTicks)
        BY <2>2, <2>6, <2>8, <2>10, SameEnd
      <3> QED BY <2>2, <3>1
    <2>12. e <= last
      <3>1. CASE burst = None
        <4>1. /\ last \in {s, s - SlotTicks}
              /\ last # s => clock <= looked + 2 /\ looked < s
          BY <1>1, <2>1, <2>4, <2>7, <3>1 DEF Punctual
        <4>2. CASE last = s
          BY <2>10, <4>2
        <4>3. CASE last # s
          <5>1. clock <= s + 1
            BY <2>2, <4>1, <4>3
          <5>2. e # s
            BY <2>2, <2>9, <5>1
          <5> QED BY <2>11, <4>1, <4>3, <5>2
        <4> QED BY <4>2, <4>3
      <3>2. CASE burst # None
        <4>1. /\ burst.slot = s /\ last = s - SlotTicks
              /\ looked \in {burst.slot, burst.slot + 1}
              /\ clock <= looked + BurstTicks
          BY <1>1, <2>1, <2>7, <3>2 DEF Punctual
        <4>2. looked <= s + 1 /\ clock <= looked + BurstTicks
          BY <4>1
        <4>3. e # s
          BY <2>2, <2>9, <4>2
        <4> QED BY <2>11, <4>1, <4>3
      <3> QED BY <3>1, <3>2
    <2> QED BY <1>1, <2>1, <2>5, <2>6, <2>12 DEF Complete
  <1>2. ASSUME DecodeInv, stalls = {}, sets = 0
        PROVE  \A i \in 1..Len(reports) : \A m \in reports[i].found : reports[i].slot = (m.slot + 1) * SlotTicks
    BY <1>2 DEF DecodeInv, OwnSlot
  <1>3. ASSUME DecodeInv
        PROVE  \A i, j \in 1..Len(reports) :
                  i < j /\ reports[i].epoch = reports[j].epoch => reports[i].slot < reports[j].slot
    BY <1>3 DEF DecodeInv, Growing
  <1>4. DecodeInv => EachSlotOnce
    BY <1>1, <1>2, <1>3 DEF EachSlotOnce, HasRow
  <1> QED BY <1>4, DecodeHolds, PTL
-----------------------------------------------------------------------------
(* The JS8 decoder. *)

\* The values of the variables.
Js8Values ==
    /\ mode \in Modes
    /\ phase \in Nat /\ phase < mode.nmax
    /\ total \in Nat /\ total <= MaxTotal
    /\ armed \in Nat /\ armed <= total
    /\ decoded \in Nat \union {-1}
    /\ row \in Nat \union {-1}
    /\ emitted \in Int
    /\ bin \in Bins
    /\ entered \in Nat

\* Given where the cycle began (s), what a decode needs of it (d), how much has
\* arrived (n), the latest snapshot (a) and the gap that entered the last part
\* (e): either the last part is still to come and no snapshot stands in its way,
\* or one was taken too early in it and the next is due.
Chances(d, s, n, a, e) ==
    \/ n - s < d - Rearm /\ a - s < Rearm
    \/ /\ a - s >= d - Rearm
       /\ a - s < d - Rearm + e
       /\ n - a < Rearm

\* The cycle that ended was decoded if its polls were not slow, and the one that
\* runs is decoded or has a chance left.
Prepared ==
    total = 0 \/
    /\ ~slow => decoded >= Ended
    /\ decoded >= Ended + 1 \/ Chances(Needed(mode), CycleStart(total), total, armed, entered)

\* The latest row is of a transmission that ended less than a cycle before.
Rowed ==
    /\ row = -1 <=> emitted = -1
    /\ row # -1 =>
          /\ emitted <= total
          /\ emitted - mode.nmax <= First(row)
          /\ First(row) + mode.span <= emitted

Js8Inv ==
    /\ Js8Values
    /\ phase <= Margin => Prepared
    /\ Straddles => decoded = -1
    /\ Rowed
    /\ OneRowThenAnother
-----------------------------------------------------------------------------
\* The code's constants at the speed that is followed.
LEMMA Speed ==
    ASSUME mode \in Modes
    PROVE  /\ mode.nmax \in Nat \ {0} /\ mode.span \in Nat \ {0} /\ mode.astart \in Nat \ {0}
           /\ Margin \in Nat /\ Rearm \in Nat \ {0} /\ Rearm >= 2 /\ Kept \in Nat /\ Dedup \in Nat /\ MaxTotal \in Nat
           /\ Needed(mode) = mode.span + Margin + mode.astart
           /\ Needed(mode) \in Nat
           /\ Needed(mode) <= mode.nmax /\ mode.nmax <= Kept
           /\ 3 * Rearm <= Needed(mode)
           /\ \A g \in Gaps : g \in Nat \ {0}
           /\ mode.nmax <= Dedup /\ Dedup % mode.nmax <= mode.span
PROOF
  <1>1. /\ mode.nmax \in Nat \ {0} /\ mode.span \in Nat \ {0} /\ mode.astart \in Nat \ {0}
        /\ Margin \in Nat /\ Rearm \in Nat \ {0} /\ Rearm >= 2
        /\ Kept \in Nat /\ Dedup \in Nat /\ MaxTotal \in Nat
        /\ Gaps \subseteq Nat \ {0}
    BY Js8Assumption DEF Timing, Types
  <1>2. /\ Needed(mode) <= mode.nmax /\ mode.nmax <= Kept
        /\ 3 * Rearm <= Needed(mode)
        /\ mode.nmax <= Dedup /\ Dedup % mode.nmax <= mode.span
    BY Js8Assumption DEF Timing
  <1>3. /\ Needed(mode) = mode.span + Margin + mode.astart
        /\ Needed(mode) \in Nat
    BY <1>1 DEF Needed
  <1>4. \A g \in Gaps : g \in Nat \ {0}
    BY <1>1
  <1> QED BY <1>1, <1>2, <1>3, <1>4

\* Cycle c of the samples, and where it begins.
LEMMA CycleOf ==
    ASSUME mode \in Modes, NEW n \in Nat \ {0}
    PROVE  \E c \in Nat :
             /\ (n - 1) \div mode.nmax = c
             /\ CycleStart(n) = mode.nmax * c
             /\ Ready(n) = n - mode.nmax * c
             /\ mode.nmax * c \in Nat
             /\ mode.nmax * c < n /\ n <= mode.nmax * c + mode.nmax
PROOF
  <1>1. mode.nmax \in Nat \ {0}
    BY Speed
  <1>2. PICK N : N = mode.nmax
    OBVIOUS
  <1>3. PICK c : c = (n - 1) \div N
    OBVIOUS
  <1>4. n - 1 \in Nat /\ N \in Nat \ {0}
    BY <1>1, <1>2
  <1>5. (n - 1) % N \in 0..(N - 1) /\ c \in Nat /\ n - 1 = N * c + ((n - 1) % N)
    BY <1>3, <1>4, DivMod
  <1>6. PICK r : r = (n - 1) % N
    OBVIOUS
  <1>7. PICK s : s = N * c
    OBVIOUS
  <1>8. s \in Nat /\ c * N = s
    BY <1>4, <1>5, <1>7
  <1>9. s < n /\ n <= s + N
    BY <1>4, <1>5, <1>6, <1>7, <1>8
  <1>10. CycleStart(n) = s
    <2>1. n # 0
      OBVIOUS
    <2> QED BY <1>2, <1>3, <1>8, <2>1 DEF CycleStart
  <1>11. Ready(n) = n - s
    BY <1>10 DEF Ready
  <1> QED BY <1>2, <1>3, <1>5, <1>7, <1>8, <1>9, <1>10, <1>11

\* The window of a snapshot is what the cycle has so far.
LEMMA WindowOf ==
    ASSUME mode \in Modes, NEW n \in Nat \ {0}
    PROVE  SnapshotReady(n) = [from |-> CycleStart(n), to |-> n]
PROOF
  <1>1. PICK c \in Nat :
             /\ Ready(n) = n - mode.nmax * c
             /\ CycleStart(n) = mode.nmax * c
             /\ mode.nmax * c \in Nat
             /\ mode.nmax * c < n /\ n <= mode.nmax * c + mode.nmax
    BY CycleOf
  <1>2. PICK s : s = mode.nmax * c
    OBVIOUS
  <1>3. mode.nmax \in Nat /\ Kept \in Nat /\ mode.nmax <= Kept
    BY Speed
  <1>4. Ready(n) = n - s /\ s \in Nat /\ s < n /\ n <= s + mode.nmax /\ CycleStart(n) = s
    BY <1>1, <1>2
  <1>5. Buffered(n) = IF n < Kept THEN n ELSE Kept
    BY DEF Buffered
  <1>6. n - s <= Buffered(n) /\ Buffered(n) \in Nat
    BY <1>3, <1>4, <1>5
  <1>7. CASE n - s < Buffered(n)
    <2>1. SnapshotReady(n) = [from |-> n - (n - s), to |-> n]
      BY <1>4, <1>7 DEF SnapshotReady
    <2>2. n - (n - s) = s
      BY <1>4
    <2> QED BY <2>1, <2>2, <1>4
  <1>8. CASE n - s = Buffered(n)
    <2>1. SnapshotReady(n) = [from |-> n - Buffered(n), to |-> n]
      BY <1>4, <1>8 DEF SnapshotReady
    <2>2. n - Buffered(n) = s
      BY <1>4, <1>8
    <2> QED BY <2>1, <2>2, <1>4
  <1> QED BY <1>6, <1>7, <1>8, <1>4

\* Transmission k lies in the window from s to n.
LEMMA TransmissionIn ==
    ASSUME mode \in Modes, phase \in Nat, NEW s, NEW n, NEW k \in Nat
    PROVE  /\ mode.nmax * k \in Nat
           /\ First(k) = mode.nmax * k + phase + mode.astart
           /\ Covers([from |-> s, to |-> n], k) <=>
                  s <= First(k) /\ First(k) + mode.span <= n
PROOF
  <1>1. mode.nmax \in Nat
    BY Speed
  <1>2. mode.nmax * k \in Nat /\ k * mode.nmax = mode.nmax * k
    BY <1>1
  <1> QED BY <1>2 DEF First, Covers

\* The latest transmission of a window is one of it.
LEMMA LatestFound ==
    ASSUME mode \in Modes, NEW w, Transmissions(w) # {}
    PROVE  Max(Transmissions(w)) \in Transmissions(w)
PROOF
  <1>1. MaxTotal \div mode.nmax \in Nat
    BY Speed, DivMod
  <1>2. Transmissions(w) \in SUBSET (0..(MaxTotal \div mode.nmax))
    BY DEF Transmissions
  <1>3. \E m \in Transmissions(w) : \A y \in Transmissions(w) : m >= y
    BY <1>1, <1>2, GreatestNatural
  <1> QED BY <1>3 DEF Max

\* A poll that finds something finds a transmission that ended in the cycle.
LEMMA FoundInCycle ==
    ASSUME mode \in Modes, phase \in Nat, NEW n \in Nat \ {0},
           NEW k \in Transmissions(SnapshotReady(n))
    PROVE  /\ k \in Nat
           /\ n - mode.nmax <= First(k)
           /\ First(k) + mode.span <= n
           /\ phase <= Margin => k = (n - 1) \div mode.nmax
           /\ ~Straddles
PROOF
  <1>1. PICK c \in Nat :
             /\ (n - 1) \div mode.nmax = c
             /\ CycleStart(n) = mode.nmax * c
             /\ mode.nmax * c \in Nat
             /\ mode.nmax * c < n /\ n <= mode.nmax * c + mode.nmax
    BY CycleOf
  <1>2. k \in Nat /\ Covers([from |-> CycleStart(n), to |-> n], k)
    <2>1. MaxTotal \div mode.nmax \in Nat
      BY Speed, DivMod
    <2> QED BY <2>1, WindowOf DEF Transmissions
  <1>3. PICK N : N = mode.nmax
    OBVIOUS
  <1>4. PICK s : s = N * c
    OBVIOUS
  <1>5. PICK t : t = N * k
    OBVIOUS
  <1>6. /\ t \in Nat
        /\ First(k) = t + phase + mode.astart
        /\ s <= t + phase + mode.astart /\ t + phase + mode.astart + mode.span <= n
    BY <1>1, <1>2, <1>3, <1>4, <1>5, TransmissionIn
  <1>7. /\ N \in Nat \ {0} /\ mode.span \in Nat \ {0} /\ mode.astart \in Nat \ {0} /\ Margin \in Nat
        /\ mode.span + Margin + mode.astart <= N
    BY <1>3, Speed
  <1>8. s \in Nat /\ s < n /\ n <= s + N
    BY <1>1, <1>3, <1>4
  <1>9. n - N <= First(k) /\ First(k) + mode.span <= n
    BY <1>6, <1>7, <1>8
  <1>10. ASSUME phase <= Margin PROVE k = c
    <2>1. ~ k < c
      <3>1. k < c => t + N <= s
        BY <1>2, <1>4, <1>5, <1>7, MultipleGap
      <3> QED BY <3>1, <1>6, <1>7, <1>8, <1>10
    <2>2. ~ c < k
      <3>1. c < k => s + N <= t
        BY <1>2, <1>4, <1>5, <1>7, MultipleGap
      <3> QED BY <3>1, <1>6, <1>7, <1>8, <1>10
    <2> QED BY <2>1, <2>2, <1>2
  <1>11. ASSUME Straddles PROVE FALSE
    <2>1. phase + mode.astart < N /\ phase + mode.astart + mode.span > N
      BY <1>3, <1>11 DEF Straddles
    <2>2. ~ k < c
      <3>1. k < c => t + N <= s
        BY <1>2, <1>4, <1>5, <1>7, MultipleGap
      <3> QED BY <3>1, <2>1, <1>6, <1>7, <1>8
    <2>3. ~ c < k
      <3>1. c < k => s + N <= t
        BY <1>2, <1>4, <1>5, <1>7, MultipleGap
      <3> QED BY <3>1, <2>1, <1>6, <1>7, <1>8
    <2>4. t = s
      BY <2>2, <2>3, <1>2, <1>4, <1>5
    <2> QED BY <2>1, <2>4, <1>6, <1>7, <1>8
  <1> QED BY <1>1, <1>2, <1>3, <1>9, <1>10, <1>11

\* Once the cycle has what a decode needs, its transmission is in the window.
LEMMA FoundWhenReady ==
    ASSUME mode \in Modes, phase \in Nat, phase <= Margin,
           NEW n \in Nat \ {0}, n <= MaxTotal, Ready(n) >= Needed(mode)
    PROVE  Transmissions(SnapshotReady(n)) # {}
PROOF
  <1>1. PICK c \in Nat :
             /\ CycleStart(n) = mode.nmax * c
             /\ Ready(n) = n - mode.nmax * c
             /\ mode.nmax * c \in Nat
             /\ mode.nmax * c < n
    BY CycleOf
  <1>2. /\ mode.nmax \in Nat \ {0} /\ mode.span \in Nat /\ mode.astart \in Nat /\ Margin \in Nat
        /\ MaxTotal \in Nat
        /\ Needed(mode) = mode.span + Margin + mode.astart
    BY Speed
  <1>3. PICK N : N = mode.nmax
    OBVIOUS
  <1>4. PICK s : s = N * c
    OBVIOUS
  <1>5. Covers([from |-> s, to |-> n], c)
    <2>1. First(c) = s + phase + mode.astart /\ s \in Nat
      BY <1>3, <1>4, TransmissionIn
    <2>2. n - s >= mode.span + Margin + mode.astart
      BY <1>1, <1>2, <1>3, <1>4
    <2>3. s <= First(c) /\ First(c) + mode.span <= n
      BY <2>1, <2>2, <1>2
    <2> QED BY <2>3, TransmissionIn
  <1>6. c \in 0..(MaxTotal \div mode.nmax)
    <2>1. PICK q : q = MaxTotal \div N
      OBVIOUS
    <2>2. q \in Nat /\ MaxTotal = N * q + (MaxTotal % N) /\ MaxTotal % N \in 0..(N - 1)
      BY <2>1, <1>2, <1>3, DivMod
    <2>3. q < c => N * q + N <= s
      <3>1. N \in Nat \ {0} /\ q \in Int /\ c \in Int
        BY <2>2, <1>2, <1>3
      <3>2. q < c => N * q + N <= N * c
        BY <3>1, MultipleGap
      <3> QED BY <3>2, <1>4
    <2>4. PICK x : x = N * q
      OBVIOUS
    <2>5. x \in Nat
      BY <2>2, <2>4, <1>2, <1>3
    <2>6. s <= MaxTotal /\ s \in Nat
      BY <1>1, <1>2, <1>3, <1>4
    <2>7. ~ q < c
      BY <2>2, <2>3, <2>4, <2>5, <2>6, <1>2, <1>3
    <2> QED BY <2>1, <2>2, <2>7, <1>3
  <1>7. c \in Transmissions([from |-> s, to |-> n])
    BY <1>5, <1>6 DEF Transmissions
  <1> QED BY <1>7, <1>1, <1>3, <1>4, WindowOf
-----------------------------------------------------------------------------
(* The steps. *)

LEMMA Js8Initial ==
    ASSUME Js8Init
    PROVE  Js8Inv
PROOF
  <1>1. /\ mode \in Modes /\ total = 0 /\ armed = 0 /\ decoded = -1 /\ emitted = -1 /\ row = -1
        /\ bin \in Bins /\ entered = 0
        /\ twice = FALSE /\ phase \in Phases /\ phase < mode.nmax
    BY DEF Js8Init
  <1>2. phase \in Nat /\ MaxTotal \in Nat
    BY <1>1, Js8Assumption DEF Timing, Types
  <1> QED BY <1>1, <1>2 DEF Js8Inv, Js8Values, Prepared, Rowed, OneRowThenAnother

\* What a poll does, by whether its snapshot has a transmission.
LEMMA PollCases ==
    ASSUME Js8Values, NEW g \in Gaps, Poll(g)
    PROVE  \E n \in Nat \ {0} :
             /\ n = total + g /\ n <= MaxTotal /\ total' = n
             /\ mode' = mode /\ phase' = phase
             /\ armed' = IF Fired(n) THEN n ELSE armed
             /\ Paced(n, g)
             /\ \/ /\ UNCHANGED <<decoded, emitted, bin, row, twice>>
                   /\ Fired(n) => Transmissions(SnapshotReady(n)) = {}
                \/ /\ decoded' \in Transmissions(SnapshotReady(n))
                   /\ \E b \in Bins : Emits(n, b)
PROOF
  <1>1. g \in Nat \ {0} /\ total \in Nat
    BY Speed DEF Js8Values
  <1>2. PICK n \in Nat \ {0} : n = total + g
    BY <1>1
  <1>3. PICK found : found = IF Fired(n) THEN Transmissions(SnapshotReady(n)) ELSE {}
    OBVIOUS
  <1>4. /\ n <= MaxTotal /\ total' = n
        /\ Rearmed(n)
        /\ IF found # {} THEN decoded' = Max(found) /\ \E b \in Bins : Emits(n, b)
                         ELSE UNCHANGED <<decoded, emitted, bin, row, twice>>
        /\ Paced(n, g)
        /\ UNCHANGED <<mode, phase>>
    BY <1>2, <1>3 DEF Poll
  <1>5. armed' = IF Fired(n) THEN n ELSE armed
    BY <1>4 DEF Rearmed
  <1>6. CASE found # {}
    <2>1. found = Transmissions(SnapshotReady(n))
      BY <1>3, <1>6
    <2>2. decoded' \in Transmissions(SnapshotReady(n))
      BY <2>1, <1>4, <1>6, LatestFound DEF Js8Values
    <2> QED BY <2>2, <1>2, <1>4, <1>5, <1>6
  <1>7. CASE found = {}
    BY <1>2, <1>3, <1>4, <1>5, <1>7
  <1> QED BY <1>6, <1>7

LEMMA PollValues ==
    ASSUME Js8Inv, NEW g \in Gaps, Poll(g)
    PROVE  Js8Values' /\ (Straddles' => decoded' = -1)
PROOF
  <1> USE DEF Js8Values
  <1>1. Js8Values
    BY DEF Js8Inv
  <1>2. PICK n \in Nat \ {0} :
             /\ n = total + g /\ n <= MaxTotal /\ total' = n
             /\ mode' = mode /\ phase' = phase
             /\ armed' = IF Fired(n) THEN n ELSE armed
             /\ Paced(n, g)
             /\ \/ UNCHANGED <<decoded, emitted, bin, row, twice>>
                \/ /\ decoded' \in Transmissions(SnapshotReady(n))
                   /\ \E b \in Bins : Emits(n, b)
    BY <1>1, PollCases
  <1>3. g \in Nat
    BY <1>1, Speed
  <1>4. armed' \in Nat /\ armed' <= total'
    BY <1>1, <1>2, <1>3
  <1>5. /\ decoded' \in Nat \union {-1}
        /\ row' \in Nat \union {-1}
        /\ emitted' \in Int
        /\ bin' \in Bins
    <2>1. CASE UNCHANGED <<decoded, emitted, bin, row, twice>>
      BY <2>1, <1>1
    <2>2. ASSUME decoded' \in Transmissions(SnapshotReady(n)), NEW b \in Bins, Emits(n, b)
          PROVE  /\ decoded' \in Nat \union {-1}
                 /\ row' \in Nat \union {-1}
                 /\ emitted' \in Int
                 /\ bin' \in Bins
      <3>1. decoded' \in Nat
        BY <2>2, <1>1, FoundInCycle
      <3>2. \/ emitted' = n /\ row' = decoded' /\ bin' = b
            \/ UNCHANGED <<emitted, bin, row>>
        BY <2>2 DEF Emits
      <3> QED BY <3>1, <3>2, <1>1, <1>2
    <2> QED BY <2>1, <2>2, <1>2
  <1>6. entered' \in Nat
    BY <1>1, <1>2, <1>3 DEF Paced
  <1>7. Straddles' => decoded' = -1
    <2>1. Straddles' = Straddles
      BY <1>2 DEF Straddles
    <2>2. Straddles => decoded = -1
      BY DEF Js8Inv
    <2>3. decoded' \in Transmissions(SnapshotReady(n)) => ~Straddles
      BY <1>1, FoundInCycle
    <2> QED BY <2>1, <2>2, <2>3, <1>2
  <1> QED BY <1>1, <1>2, <1>4, <1>5, <1>6, <1>7

\* A second row of a transmission is at another frequency, and the suppression
\* does not grow.
LEMMA PollRows ==
    ASSUME Js8Inv, NEW g \in Gaps, Poll(g)
    PROVE  Rowed' /\ OneRowThenAnother'
PROOF
  <1>1. Js8Values /\ Rowed /\ OneRowThenAnother
    BY DEF Js8Inv
  <1>2. PICK n \in Nat \ {0} :
             /\ n = total + g /\ n <= MaxTotal /\ total' = n
             /\ mode' = mode /\ phase' = phase
             /\ \/ UNCHANGED <<decoded, emitted, bin, row, twice>>
                \/ /\ decoded' \in Transmissions(SnapshotReady(n))
                   /\ \E b \in Bins : Emits(n, b)
    BY <1>1, PollCases
  <1>3. mode \in Modes /\ phase \in Nat /\ total \in Nat /\ total < n
    <2>1. g \in Nat \ {0}
      BY <1>1, Speed DEF Js8Values
    <2> QED BY <2>1, <1>1, <1>2 DEF Js8Values
  <1>4. \A k : First(k)' = First(k)
    BY <1>2 DEF First
  <1>5. CASE UNCHANGED <<decoded, emitted, bin, row, twice>>
    <2>1. emitted <= total => emitted <= n
      BY <1>1, <1>3 DEF Js8Values
    <2> QED BY <2>1, <1>1, <1>2, <1>4, <1>5 DEF Rowed, OneRowThenAnother
  <1>6. ASSUME decoded' \in Transmissions(SnapshotReady(n)), NEW b \in Bins, Emits(n, b)
        PROVE  Rowed' /\ OneRowThenAnother'
    <2>1. PICK k \in Nat : k = decoded'
      BY <1>3, <1>6, FoundInCycle
    <2>2. n - mode.nmax <= First(k) /\ First(k) + mode.span <= n
      BY <2>1, <1>3, <1>6, FoundInCycle
    <2>3. /\ mode.nmax * k \in Nat
          /\ First(k) = mode.nmax * k + phase + mode.astart
      BY <1>3, TransmissionIn
    <2>4. /\ mode.nmax \in Nat \ {0} /\ mode.span \in Nat \ {0} /\ mode.astart \in Nat /\ Dedup \in Nat
          /\ mode.nmax <= Dedup /\ Dedup % mode.nmax <= mode.span
      BY <1>3, Speed
    <2>5. CASE emitted = -1 \/ n - emitted >= Dedup \/ b # bin
      <3>1. emitted' = n /\ row' = k /\ twice' = (twice \/ (row = k /\ b = bin))
        BY <2>1, <2>5, <1>6 DEF Emits
      <3>2. ~ (row = k /\ b = bin)
        <4> SUFFICES ASSUME row = k, b = bin PROVE FALSE
          OBVIOUS
        <4>1. row # -1 /\ emitted # -1
          BY <2>1, <1>1 DEF Rowed
        <4>2. First(k) + mode.span <= emitted /\ emitted \in Int
          BY <4>1, <1>1 DEF Rowed, Js8Values
        <4>3. n - emitted >= Dedup
          BY <4>1, <2>5
        <4> QED BY <4>2, <4>3, <2>2, <2>3, <2>4, <1>3
      <3>3. ~twice'
        BY <3>1, <3>2, <1>1 DEF OneRowThenAnother
      <3>4. (decoded' - row') * mode'.nmax <= Dedup
        <4>1. decoded' - row' = 0
          <5>1. k - k = 0
            OBVIOUS
          <5> QED BY <5>1, <2>1, <3>1
        <4> QED BY <4>1, <2>4, <1>2
      <3>5. emitted' # -1 /\ row' # -1
        BY <3>1, <1>2, <2>1
      <3>6. Rowed'
        BY <3>1, <3>5, <2>2, <1>2, <1>4 DEF Rowed
      <3> QED BY <3>3, <3>4, <3>6 DEF OneRowThenAnother
    <2>6. CASE ~(emitted = -1 \/ n - emitted >= Dedup \/ b # bin)
      <3>1. UNCHANGED <<emitted, bin, row, twice>>
        BY <2>6, <1>6 DEF Emits
      <3>2. emitted \in Int /\ row \in Nat
        BY <2>6, <1>1 DEF Rowed, Js8Values
      <3>3. /\ emitted <= total
            /\ emitted - mode.nmax <= First(row)
            /\ First(row) + mode.span <= emitted
        BY <2>6, <1>1 DEF Rowed
      <3>4. /\ mode.nmax * row \in Nat
            /\ First(row) = mode.nmax * row + phase + mode.astart
        BY <3>2, <1>3, TransmissionIn
      <3>5. (k - row) * mode.nmax <= Dedup
        <4>1. PICK N : N = mode.nmax
          OBVIOUS
        <4>2. PICK q : q = Dedup \div N
          OBVIOUS
        <4>3. PICK r : r = Dedup % N
          OBVIOUS
        <4>4. q \in Nat /\ r \in 0..(N - 1) /\ Dedup = N * q + r /\ r <= mode.span
          BY <4>1, <4>2, <4>3, <2>4, DivMod
        <4>5. PICK x : x = N * q
          OBVIOUS
        <4>6. N \in Nat \ {0} /\ x \in Nat
          BY <4>1, <4>4, <4>5, <2>4
        <4>7. PICK d : d = k - row
          OBVIOUS
        <4>8. PICK y : y = N * d
          OBVIOUS
        <4>9. d \in Int /\ y \in Int /\ y = mode.nmax * k - mode.nmax * row
          BY <4>1, <4>6, <4>7, <4>8, <3>2, <2>1
        <4>10. y < x + N
          <5>1. n - emitted < Dedup
            BY <2>4, <2>6, <3>2
          <5>2. y = First(k) - First(row)
            BY <4>9, <2>3, <3>4, <2>4, <1>3
          <5>3. First(k) \in Nat /\ First(row) \in Nat
            BY <2>3, <3>4, <2>4, <1>3
          <5>4. y <= n - mode.span - (emitted - N)
            BY <5>2, <5>3, <2>2, <3>3, <3>2, <2>4, <4>1
          <5>5. y < x + r + N - mode.span
            BY <5>1, <5>4, <3>2, <2>4, <4>4, <4>5, <4>6, <4>9
          <5> QED BY <5>5, <4>4, <4>6, <4>9, <2>4
        <4>11. ~ q < d
          <5>1. q < d => N * q + N <= N * d
            BY <4>4, <4>6, <4>9, MultipleGap
          <5> QED BY <5>1, <4>5, <4>6, <4>8, <4>9, <4>10
        <4>12. y <= x
          <5>1. d < q => N * d + N <= N * q
            BY <4>4, <4>6, <4>9, MultipleGap
          <5>2. d = q => y = x
            BY <4>5, <4>8
          <5>3. d < q \/ d = q
            BY <4>4, <4>9, <4>11
          <5> QED BY <5>1, <5>2, <5>3, <4>5, <4>6, <4>8, <4>9
        <4>13. d * mode.nmax = y
          BY <4>1, <4>6, <4>8, <4>9
        <4> QED BY <4>7, <4>12, <4>13, <4>4, <4>5, <4>6, <4>9, <2>4
      <3>6. Rowed'
        <4>1. emitted' <= total'
          BY <3>1, <3>2, <3>3, <1>2, <1>3
        <4> QED BY <4>1, <3>1, <3>3, <1>1, <1>2, <1>4 DEF Rowed
      <3>7. OneRowThenAnother'
        BY <3>1, <3>5, <2>1, <1>1, <1>2 DEF OneRowThenAnother
      <3> QED BY <3>6, <3>7
    <2> QED BY <2>5, <2>6
  <1> QED BY <1>2, <1>5, <1>6

\* No cycle is lost among polls that are not slow.
LEMMA PollPrepared ==
    ASSUME Js8Inv, phase <= Margin, NEW g \in Gaps, Poll(g)
    PROVE  Prepared'
PROOF
  <1>1. Js8Values /\ Prepared
    BY DEF Js8Inv
  <1>2. PICK n \in Nat \ {0} :
             /\ n = total + g /\ n <= MaxTotal /\ total' = n
             /\ mode' = mode /\ phase' = phase
             /\ armed' = IF Fired(n) THEN n ELSE armed
             /\ Paced(n, g)
             /\ \/ /\ UNCHANGED <<decoded, emitted, bin, row, twice>>
                   /\ Fired(n) => Transmissions(SnapshotReady(n)) = {}
                \/ decoded' \in Transmissions(SnapshotReady(n))
    BY <1>1, PollCases
  <1>3. /\ mode \in Modes /\ phase \in Nat /\ total \in Nat /\ armed \in Nat /\ armed <= total
        /\ decoded \in Int /\ decoded >= -1 /\ entered \in Nat
    BY <1>1 DEF Js8Values
  <1>4. PICK c \in Nat :
             /\ (n - 1) \div mode.nmax = c
             /\ CycleStart(n) = mode.nmax * c
             /\ Ready(n) = n - mode.nmax * c
             /\ mode.nmax * c \in Nat
             /\ mode.nmax * c < n /\ n <= mode.nmax * c + mode.nmax
    BY <1>3, CycleOf
  <1>5. PICK N : N = mode.nmax
    OBVIOUS
  <1>6. PICK s : s = N * c
    OBVIOUS
  <1>7. PICK d : d = Needed(mode)
    OBVIOUS
  <1>8. /\ N \in Nat \ {0} /\ d \in Nat /\ d <= N /\ Rearm \in Nat \ {0} /\ Rearm >= 2 /\ 3 * Rearm <= d
        /\ g \in Nat \ {0}
    BY <1>3, <1>5, <1>7, Speed
  <1>9. s \in Nat /\ s < n /\ n <= s + N /\ Ready(n) = n - s /\ CycleStart(n) = s
    BY <1>4, <1>5, <1>6
  <1>10. Prepared' <=>
           /\ ~slow' => decoded' >= c - 1
           /\ decoded' >= c \/ Chances(d, s, n, armed', entered')
    <2>1. total' = n /\ n # 0
      BY <1>2
    <2>2. Ended' = c - 1 /\ c - 1 + 1 = c
      BY <1>2, <1>4 DEF Ended
    <2>3. CycleStart(total)' = s
      BY <1>2, <1>9 DEF CycleStart
    <2>4. Needed(mode)' = d
      BY <1>2, <1>7 DEF Needed
    <2> QED BY <2>1, <2>2, <2>3, <2>4 DEF Prepared, Chances
  <1>11. CASE decoded' \in Transmissions(SnapshotReady(n))
    <2>1. decoded' = c
      BY <1>3, <1>4, <1>11, FoundInCycle
    <2> QED BY <2>1, <1>10
  <1>12. CASE UNCHANGED decoded /\ (Fired(n) => Transmissions(SnapshotReady(n)) = {})
    <2>1. Fired(n) => n - s < d
      BY <1>2, <1>3, <1>7, <1>8, <1>9, <1>12, FoundWhenReady
    <2>2. LastPart(n) <=> n - s >= d - Rearm
      BY <1>7, <1>9 DEF LastPart
    <2>3. Fired(n) <=> /\ armed = 0 \/ n - armed >= Rearm
                       /\ n - s < Rearm \/ n - s >= d - Rearm
      BY <1>9, <2>2 DEF Fired
    <2>4. /\ entered' = IF ~LastPart(n) THEN 0
                        ELSE IF LastPart(total) /\ CycleStart(total) = s THEN entered ELSE g
          /\ slow' = IF CycleStart(total) = s THEN slow ELSE entered + g > N - d + 2
      BY <1>2, <1>5, <1>7, <1>9 DEF Paced
    <2>5. CASE total <= s
      \* The first poll of a cycle.
      <3>1. ~ (LastPart(total) /\ CycleStart(total) = s)
        <4>1. CASE total = 0
          <5>1. Ready(total) = 0
            BY <4>1 DEF Ready, CycleStart
          <5> QED BY <5>1, <1>7, <1>8 DEF LastPart
        <4>2. CASE total # 0
          <5>1. CycleStart(total) < total /\ CycleStart(total) \in Nat
            BY <4>2, <1>3, CycleOf
          <5> QED BY <5>1, <2>5, <1>3, <1>9
        <4> QED BY <4>1, <4>2
      <3>2. Chances(d, s, n, armed', entered')
        <4>1. CASE n - s < d - Rearm
          <5>1. armed' - s < Rearm
            BY <4>1, <2>3, <2>5, <1>2, <1>3, <1>8, <1>9
          <5> QED BY <4>1, <5>1 DEF Chances
        <4>2. CASE n - s >= d - Rearm
          <5>1. armed' = n
            BY <4>2, <2>3, <2>5, <1>2, <1>3, <1>8, <1>9
          <5>2. entered' = g
            BY <4>2, <2>2, <2>4, <3>1
          <5>3. n - s < d - Rearm + g
            BY <4>2, <2>5, <1>2, <1>3, <1>8, <1>9
          <5>4. n - n < Rearm
            BY <1>8
          <5> QED BY <4>2, <5>1, <5>2, <5>3, <5>4 DEF Chances
        <4> QED BY <4>1, <4>2, <1>8, <1>9
      <3>3. ~slow' => decoded >= c - 1
        <4>1. CASE c = 0
          BY <4>1, <1>3
        <4>2. CASE c # 0 /\ total = 0
          <5>1. N <= s
            <6>1. 0 < c => N * 0 + N <= N * c
              BY <1>8, MultipleGap
            <6> QED BY <6>1, <4>2, <1>6, <1>8, <1>9
          <5>2. CycleStart(total) = 0
            BY <4>2 DEF CycleStart
          <5>3. slow' = (entered + g > N - d + 2)
            BY <2>4, <5>1, <5>2, <1>8
          <5>4. g > N
            BY <4>2, <5>1, <1>2, <1>8, <1>9
          <5>5. entered + g > N - d + 2
            BY <5>4, <1>3, <1>8
          <5> QED BY <5>3, <5>5
        <4>3. CASE total # 0
          <5>1. PICK b \in Nat :
                   /\ (total - 1) \div N = b /\ CycleStart(total) = N * b
                   /\ N * b \in Nat /\ N * b < total /\ total <= N * b + N
            BY <4>3, <1>3, <1>5, CycleOf
          <5>2. PICK t : t = N * b
            OBVIOUS
          <5>3. t \in Nat /\ t < total /\ total <= t + N /\ CycleStart(total) = t
            BY <5>1, <5>2
          <5>4. decoded >= b \/ Chances(d, t, total, armed, entered)
            <6>1. Ended + 1 = b
              BY <5>1, <1>5 DEF Ended
            <6> QED BY <6>1, <5>3, <4>3, <1>1, <1>7 DEF Prepared
          <5>5. slow' = (entered + g > N - d + 2)
            BY <2>4, <2>5, <5>3, <1>3, <1>9
          <5>6. b < c
            <6>1. c < b => s + N <= t
              BY <5>2, <1>6, <1>8, MultipleGap
            <6>2. ~ c < b
              BY <6>1, <5>3, <2>5, <1>3, <1>8, <1>9
            <6>3. c # b
              BY <5>2, <5>3, <2>5, <1>3, <1>6, <1>9
            <6> QED BY <6>2, <6>3
          <5>7. CASE b + 1 < c
            <6>1. N * (b + 1) + N <= N * c
              BY <5>7, <1>8, MultipleGap
            <6>2. N * (b + 1) = t + N
              BY <5>2, <1>8
            <6>3. g > N
              BY <6>1, <6>2, <5>3, <1>2, <1>3, <1>6, <1>8, <1>9
            <6>4. entered + g > N - d + 2
              BY <6>3, <1>3, <1>8
            <6> QED BY <5>5, <6>4
          <5>8. CASE ~ b + 1 < c
            <6>1. c = b + 1
              BY <5>6, <5>8
            <6>2. N * (b + 1) = t + N
              BY <5>2, <1>8
            <6>3. s = t + N /\ b = c - 1
              BY <6>1, <6>2, <1>6
            <6>4. g >= t + N + 1 - total
              BY <6>3, <1>2, <1>3, <1>8, <1>9
            <6>5. CASE total - t < d - Rearm
              <7>1. g > N - d + 2
                BY <6>4, <6>5, <5>3, <1>3, <1>8
              <7>2. entered + g > N - d + 2
                BY <7>1, <1>3, <1>8
              <7> QED BY <5>5, <7>2
            <6>6. CASE armed - t < d - Rearm + entered /\ total - armed < Rearm
              <7>1. entered + g > N - d + 2
                BY <6>4, <6>6, <5>3, <1>3, <1>8
              <7> QED BY <5>5, <7>1
            <6> QED BY <6>3, <6>5, <6>6, <5>4 DEF Chances
          <5> QED BY <5>7, <5>8
        <4> QED BY <4>1, <4>2, <4>3
      <3> QED BY <3>2, <3>3, <1>10, <1>12
    <2>6. CASE total > s
      \* A later poll of the cycle.
      <3>1. total \in Nat \ {0}
        BY <2>6, <1>3, <1>9
      <3>2. PICK b \in Nat :
               /\ (total - 1) \div N = b /\ CycleStart(total) = N * b
               /\ N * b \in Nat /\ N * b < total /\ total <= N * b + N
        BY <3>1, <1>3, <1>5, CycleOf
      <3>3. b = c
        <4>1. PICK t : t = N * b
          OBVIOUS
        <4>2. t \in Nat /\ t < total /\ total <= t + N
          BY <3>2, <4>1
        <4>3. b < c => t + N <= s
          BY <4>1, <1>6, <1>8, MultipleGap
        <4>4. c < b => s + N <= t
          BY <4>1, <1>6, <1>8, MultipleGap
        <4>5. ~ b < c
          BY <4>2, <4>3, <2>6, <1>3, <1>8, <1>9
        <4>6. ~ c < b
          BY <4>2, <4>4, <1>2, <1>3, <1>8, <1>9
        <4> QED BY <4>5, <4>6
      <3>4. CycleStart(total) = s /\ Ended = c - 1 /\ Ended + 1 = c
        BY <3>2, <3>3, <1>5, <1>6 DEF Ended
      <3>5. /\ ~slow => decoded >= c - 1
            /\ decoded >= c \/ Chances(d, s, total, armed, entered)
        BY <3>1, <3>4, <1>1, <1>7 DEF Prepared
      <3>6. slow' = slow
        BY <3>4, <2>4
      <3>7. LastPart(total) <=> total - s >= d - Rearm
        BY <3>4, <1>7 DEF LastPart, Ready
      <3>8. ASSUME total - s < d - Rearm, armed - s < Rearm PROVE Chances(d, s, n, armed', entered')
        <4>1. CASE n - s < d - Rearm
          <5>1. armed' - s < Rearm
            BY <4>1, <3>8, <2>3, <1>2, <1>3, <1>8, <1>9
          <5> QED BY <4>1, <5>1 DEF Chances
        <4>2. CASE n - s >= d - Rearm
          <5>1. armed' = n
            BY <4>2, <3>8, <2>3, <1>2, <1>3, <1>8, <1>9
          <5>2. entered' = g
            BY <4>2, <3>7, <3>8, <2>2, <2>4, <1>3, <1>8, <1>9
          <5>3. n - s < d - Rearm + g
            BY <3>8, <1>2, <1>3, <1>8, <1>9
          <5>4. n - n < Rearm
            BY <1>8
          <5> QED BY <4>2, <5>1, <5>2, <5>3, <5>4 DEF Chances
        <4> QED BY <4>1, <4>2, <1>8, <1>9
      <3>9. ASSUME armed - s >= d - Rearm, armed - s < d - Rearm + entered, total - armed < Rearm
            PROVE  Chances(d, s, n, armed', entered')
        <4>1. n - s >= d - Rearm /\ total - s >= d - Rearm
          BY <3>9, <1>2, <1>3, <1>8, <1>9
        <4>2. ~Fired(n)
          <5>1. armed # 0
            BY <3>9, <1>3, <1>8, <1>9
          <5>2. n - armed >= Rearm => n - s >= d
            BY <3>9, <1>3, <1>8, <1>9
          <5> QED BY <5>1, <5>2, <2>1, <2>3, <1>8, <1>9
        <4>3. armed' = armed /\ n - armed < Rearm
          <5>1. armed # 0
            BY <3>9, <1>3, <1>8, <1>9
          <5> QED BY <4>1, <4>2, <5>1, <2>3, <1>2, <1>3, <1>8
        <4>4. entered' = entered
          BY <4>1, <3>4, <3>7, <2>2, <2>4
        <4> QED BY <4>3, <4>4, <3>9 DEF Chances
      <3> QED BY <3>5, <3>6, <3>8, <3>9, <1>10, <1>12 DEF Chances
    <2> QED BY <2>5, <2>6, <1>3, <1>9
  <1> QED BY <1>2, <1>11, <1>12

\* The invariant that carries both properties of the JS8 decoder holds.
THEOREM Js8Invariant == Js8Spec => []Js8Inv
  <1>1. Js8Init => Js8Inv
    BY Js8Initial
  <1>2. Js8Inv /\ [Js8Next]_js8vars => Js8Inv'
    <2> SUFFICES ASSUME Js8Inv, [Js8Next]_js8vars PROVE Js8Inv'
      OBVIOUS
    <2>1. CASE Js8Next
      <3>1. PICK g \in Gaps : Poll(g)
        BY <2>1 DEF Js8Next
      <3>2. UNCHANGED phase
        BY <3>1 DEF Poll
      <3>3. (phase <= Margin => Prepared)'
        BY <3>1, <3>2, PollPrepared
      <3>4. Js8Values' /\ (Straddles => decoded = -1)' /\ Rowed' /\ OneRowThenAnother'
        BY <3>1, PollValues, PollRows
      <3> QED BY <3>3, <3>4 DEF Js8Inv
    <2>2. CASE UNCHANGED js8vars
      <3>1. UNCHANGED <<mode, phase, total, armed, decoded, emitted, bin, row, twice, entered, slow>>
        BY <2>2 DEF js8vars
      <3>2. Js8Values' = Js8Values
        BY <3>1 DEF Js8Values
      <3>3. (phase <= Margin => Prepared)'
        BY <3>1 DEF Js8Inv, Prepared, Ended, Chances, CycleStart, Needed
      <3>4. Rowed' /\ (Straddles => decoded = -1)'
        BY <3>1 DEF Js8Inv, Rowed, First, Straddles
      <3>5. OneRowThenAnother'
        BY <3>1 DEF Js8Inv, OneRowThenAnother
      <3> QED BY <3>2, <3>3, <3>4, <3>5 DEF Js8Inv
    <2> QED BY <2>1, <2>2
  <1> QED BY <1>1, <1>2, PTL DEF Js8Spec

\* The four speeds of JS8 and any other with the same timing, polled in any
\* rhythm: a station whose symbols end in time is decoded in every cycle that
\* does not end among slow polls, and one that straddles two cycles never.
THEOREM CyclesDecoded == Js8Spec => []CycleDecoded
  <1>1. Js8Inv => CycleDecoded
    <2>1. ASSUME Js8Inv, total > 0, phase <= Margin, ~slow PROVE decoded >= Ended
      <3>1. Prepared /\ total \in Nat
        BY <2>1 DEF Js8Inv, Js8Values
      <3> QED BY <2>1, <3>1 DEF Prepared
    <2>2. ASSUME Js8Inv, Straddles PROVE decoded = -1
      BY <2>2 DEF Js8Inv
    <2> QED BY <2>1, <2>2 DEF CycleDecoded
  <1> QED BY <1>1, Js8Invariant, PTL

\* Whatever frequencies a transmission is decoded at, its second row is at
\* another than its first, and the suppression of its repeats ends, however the
\* windows of the polls overlap.
THEOREM RowsSpaced == Js8Spec => []OneRowThenAnother
  <1>1. Js8Inv => OneRowThenAnother
    BY DEF Js8Inv
  <1> QED BY <1>1, Js8Invariant, PTL
=============================================================================
