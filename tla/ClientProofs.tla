---------------------------- MODULE ClientProofs ----------------------------
(***************************************************************************)
(* Proofs about what the browsers are told.                                *)
(*                                                                         *)
(* WsFeed, for any pages, capacities and numbers of commands, restarts and *)
(* cuts: a page that has handled everything shows the hub's state unless   *)
(* the channel has lost the last word.                                     *)
(*                                                                         *)
(* ClientSync, for any browsers, slots and commands that overlap at every  *)
(* await and fail at will: a page that still has commands to send is about *)
(* to hear from the hub; and a page shows what the hub has when nothing is *)
(* in flight, unless a snapshot hid the hub's last change under as new a   *)
(* stamp or a rebuild failed.                                              *)
(***************************************************************************)
EXTENDS WsFeed, ClientSync, TLAPS

Messages == [kind : {"state", "frame"}, rev : Nat, val : Nat]
Connections == [pc : {"off", "accepted", "welcome", "loop"}, behind : Nat, rev : Nat, val : Nat]

FeedTypes ==
    /\ hub \in [rev : Nat, val : Nat, discovers : Nat]
    /\ ring \in Seq(Messages)
    /\ conn \in [Clients -> Connections]
    /\ wire \in [Clients -> Seq(Messages)]
    /\ page \in [Clients -> [open : BOOLEAN, last : Nat, view : Int]]

\* A revision and a state that belong together for a hub h: it was in that
\* state at that revision, and it is its present state exactly if the revision
\* is not older than the state, whose name is the revision that brought it.
Belongs(h, r, v) ==
    /\ r <= h.rev
    /\ v <= h.val
    /\ r >= h.val <=> v = h.val

\* Every snapshot that is on its way, waits for its task or was applied on
\* the page's present connection belongs to this life of the server.
Genuine ==
    /\ hub.val <= hub.rev
    /\ \A i \in 1..Len(ring) : ring[i].kind = "state" => Belongs(hub, ring[i].rev, ring[i].val)
    /\ \A c \in Clients :
          /\ \A i \in 1..Len(wire[c]) : wire[c][i].kind = "state" => Belongs(hub, wire[c][i].rev, wire[c][i].val)
          /\ conn[c].pc = "welcome" => Belongs(hub, conn[c].rev, conn[c].val)
          /\ page[c].open /\ page[c].last > 0 => Belongs(hub, page[c].last, page[c].view)

\* No more than the channel retains is waiting for a subscriber, unless it
\* has lagged.
Retained ==
    /\ Len(ring) <= Cap
    /\ \A c \in Clients :
          conn[c].pc \in {"welcome", "loop"} =>
             conn[c].behind <= Len(ring) \/ (conn[c].behind = Cap + 1 /\ Len(ring) = Cap)

\* A snapshot of the hub's present state.
Current(m) == m.kind = "state" /\ m.val = hub.val

Shows(c) == page[c].view = hub.val /\ page[c].last >= hub.val

\* The last word has reached page c, is on the wire to it, or waits for its
\* task, unless the channel retains no last word at all.
Coming(c) ==
    \/ ~ \E i \in 1..Len(ring) : Current(ring[i])
    \/ Shows(c)
    \/ \E i \in 1..Len(wire[c]) : Current(wire[c][i])
    \/ \E i \in 1..Len(ring) : Current(ring[i]) /\ i + conn[c].behind > Len(ring)

LastWordComes ==
    \A c \in Clients :
       /\ conn[c].pc = "loop" => Coming(c)
       /\ conn[c].pc = "welcome" => conn[c].val = hub.val \/ Coming(c)

FeedInv == FeedTypes /\ Genuine /\ Retained /\ LastWordComes

-----------------------------------------------------------------------------
(* What a message does to the channel. *)

\* What the channel retains after a message: the message last, before it what
\* it retained, without the oldest if it was full.
LEMMA PushFacts ==
    ASSUME NEW q \in Seq(Messages), Len(q) <= Cap, NEW m \in Messages
    PROVE  \E k \in {0, 1}, r \in Seq(Messages) :
              /\ r = Last(Append(q, m), Cap)
              /\ k = 1 <=> Len(q) = Cap
              /\ Len(r) = Len(q) + 1 - k
              /\ r[Len(r)] = m
              /\ \A i \in 1..(Len(r) - 1) : r[i] = q[i + k]
  <1>1. Cap \in Nat \ {0} /\ Len(q) \in Nat
    BY FeedAssumption
  <1>2. PICK a : a = Append(q, m)
    OBVIOUS
  <1>3. /\ a \in Seq(Messages)
        /\ Len(a) = Len(q) + 1
        /\ a[Len(q) + 1] = m
        /\ \A i \in 1..Len(q) : a[i] = q[i]
    BY <1>2
  <1>4. CASE Len(q) < Cap
    <2>1. Last(a, Cap) = a
      BY <1>1, <1>3, <1>4 DEF Last
    <2> QED BY <1>1, <1>2, <1>3, <1>4, <2>1, SMTT(30)
  <1>5. CASE Len(q) = Cap
    <2>1. PICK r : r = SubSeq(a, 2, Cap + 1)
      OBVIOUS
    <2>2. Last(a, Cap) = r
      BY <1>1, <1>3, <1>5, <2>1 DEF Last
    <2>3. r \in Seq(Messages) /\ Len(r) = Cap /\ \A i \in 1..Cap : r[i] = a[i + 1]
      BY <1>1, <1>3, <1>5, <2>1
    <2>4. r[Cap] = m /\ \A i \in 1..(Cap - 1) : r[i] = q[i + 1]
      BY <1>1, <1>3, <1>5, <2>3
    <2> QED BY <1>1, <1>2, <1>5, <2>2, <2>3, <2>4
  <1> QED BY <1>1, <1>4, <1>5

Subscribed(c) == conn[c].pc \in {"welcome", "loop"}

\* A message m is broadcast to tasks that stand as cs says: at the same place
\* of the channel as before.
SentTo(m, cs) ==
    /\ m \in Messages
    /\ cs \in [Clients -> Connections]
    /\ \A c \in Clients : /\ cs[c].behind = conn[c].behind
                          /\ cs[c].pc \in {"welcome", "loop"} <=> Subscribed(c)
    /\ Broadcast(m, cs)
    /\ UNCHANGED <<wire, page>>

\* The channel after it: the new message is the last, the others have moved by
\* k; and how far behind the subscribers are.
Pushed(m, k) ==
    /\ k = 1 <=> Len(ring) = Cap
    /\ Len(ring') = Len(ring) + 1 - k
    /\ ring'[Len(ring')] = m
    /\ \A i \in 1..(Len(ring') - 1) : ring'[i] = ring[i + k]

LEMMA SentFacts ==
    ASSUME FeedTypes, Retained, NEW m, NEW cs, SentTo(m, cs)
    PROVE  /\ ring' \in Seq(Messages)
           /\ conn' \in [Clients -> Connections]
           /\ \A c \in Clients :
                 /\ conn'[c].pc = cs[c].pc /\ conn'[c].rev = cs[c].rev /\ conn'[c].val = cs[c].val
                 /\ Subscribed(c) =>
                       \/ conn[c].behind <= Cap /\ conn'[c].behind = conn[c].behind + 1
                       \/ conn[c].behind > Cap /\ conn'[c].behind = conn[c].behind
           /\ \E k \in {0, 1} : Pushed(m, k)
  <1>1. Cap \in Nat \ {0}
    BY FeedAssumption
  <1>2. \A c \in Clients : cs[c] \in Connections
    BY DEF SentTo
  <1>3. conn' = [c \in Clients |->
           IF cs[c].pc \in {"welcome", "loop"} /\ cs[c].behind <= Cap
           THEN [cs[c] EXCEPT !.behind = @ + 1] ELSE cs[c]]
    BY DEF SentTo, Broadcast
  <1>4. ASSUME NEW c \in Clients
        PROVE  /\ conn'[c] \in Connections
               /\ conn'[c].pc = cs[c].pc /\ conn'[c].rev = cs[c].rev /\ conn'[c].val = cs[c].val
               /\ cs[c].pc \in {"welcome", "loop"} =>
                       \/ cs[c].behind <= Cap /\ conn'[c].behind = cs[c].behind + 1
                       \/ cs[c].behind > Cap /\ conn'[c].behind = cs[c].behind
    <2>1. PICK r \in Connections : r = cs[c]
      BY <1>2
    <2>2. conn'[c] = IF r.pc \in {"welcome", "loop"} /\ r.behind <= Cap
                     THEN [r EXCEPT !.behind = @ + 1] ELSE r
      BY <1>3, <2>1
    <2> QED BY <1>1, <2>1, <2>2 DEF Connections
  <1>5. conn' \in [Clients -> Connections]
    <2>1. conn' = [c \in Clients |-> conn'[c]]
      BY <1>3
    <2> QED BY <1>4, <2>1
  <1>6. \A c \in Clients : cs[c].behind = conn[c].behind /\ (cs[c].pc \in {"welcome", "loop"} <=> Subscribed(c))
    BY DEF SentTo
  <1>7. ring' \in Seq(Messages) /\ \E k \in {0, 1} : Pushed(m, k)
    <2>1. ring \in Seq(Messages) /\ Len(ring) <= Cap /\ m \in Messages
      BY DEF FeedTypes, Retained, SentTo
    <2>2. ring' = Last(Append(ring, m), Cap)
      BY DEF SentTo, Broadcast
    <2>3. PICK k \in {0, 1}, r \in Seq(Messages) :
              /\ r = Last(Append(ring, m), Cap)
              /\ k = 1 <=> Len(ring) = Cap
              /\ Len(r) = Len(ring) + 1 - k
              /\ r[Len(r)] = m
              /\ \A i \in 1..(Len(r) - 1) : r[i] = ring[i + k]
      BY <2>1, PushFacts
    <2>4. r = ring'
      BY <2>2, <2>3
    <2> QED BY <2>3, <2>4 DEF Pushed
  <1> QED BY <1>4, <1>5, <1>6, <1>7

\* A broadcast leaves no subscriber further behind than the channel reaches,
\* or it has lagged.
LEMMA SentRetained ==
    ASSUME FeedTypes, Retained, NEW m, NEW cs, SentTo(m, cs)
    PROVE  Retained'
  <1>1. PICK k \in {0, 1} : Pushed(m, k)
    BY SentFacts
  <1>2. Cap \in Nat \ {0} /\ Len(ring) \in Nat /\ Len(ring) <= Cap
    BY FeedAssumption DEF FeedTypes, Retained
  <1>3. Len(ring') = Len(ring) + 1 - k /\ (k = 1 <=> Len(ring) = Cap)
    BY <1>1 DEF Pushed
  <1>4. Len(ring') <= Cap
    BY <1>2, <1>3
  <1>5. ASSUME NEW c \in Clients, conn'[c].pc \in {"welcome", "loop"}
        PROVE  conn'[c].behind <= Len(ring') \/ (conn'[c].behind = Cap + 1 /\ Len(ring') = Cap)
    <2>1. conn'[c].pc = cs[c].pc
      BY SentFacts
    <2>2. Subscribed(c)
      BY <1>5, <2>1 DEF SentTo
    <2>3. conn[c].behind <= Len(ring) \/ (conn[c].behind = Cap + 1 /\ Len(ring) = Cap)
      BY <2>2 DEF Retained, Subscribed
    <2>4. \/ conn[c].behind <= Cap /\ conn'[c].behind = conn[c].behind + 1
          \/ conn[c].behind > Cap /\ conn'[c].behind = conn[c].behind
      BY <2>2, SentFacts
    <2>5. conn[c].behind \in Nat
      BY DEF FeedTypes, Connections
    <2> QED BY <1>2, <1>3, <2>3, <2>4, <2>5
  <1> QED BY <1>4, <1>5 DEF Retained

\* The snapshot of the hub's present state is coming to every subscriber once
\* it is broadcast ...
LEMMA SentComes ==
    ASSUME FeedTypes, Retained, NEW m, NEW cs, SentTo(m, cs),
           m.kind = "state", m.val = hub'.val,
           NEW c \in Clients, Subscribed(c)
    PROVE  Coming(c)'
  <1>1. PICK k \in {0, 1} : Pushed(m, k)
    BY SentFacts
  <1>2. Cap \in Nat \ {0} /\ Len(ring) \in Nat
    BY FeedAssumption DEF FeedTypes
  <1>3. Len(ring') \in Nat /\ Len(ring') >= 1 /\ ring'[Len(ring')] = m
    BY <1>1, <1>2 DEF Pushed
  <1>4. conn[c].behind \in Nat
    BY DEF FeedTypes, Connections
  <1>5. conn'[c].behind \in Nat /\ conn'[c].behind > 0
    <2>1. \/ conn[c].behind <= Cap /\ conn'[c].behind = conn[c].behind + 1
          \/ conn[c].behind > Cap /\ conn'[c].behind = conn[c].behind
      BY SentFacts
    <2> QED BY <1>2, <1>4, <2>1
  <1>6. Len(ring') \in 1..Len(ring') /\ Len(ring') + conn'[c].behind > Len(ring')
    BY <1>3, <1>5
  <1>7. Current(ring[Len(ring)])'
    BY <1>3 DEF Current
  <1> QED BY <1>6, <1>7 DEF Coming

\* ... and another message takes it from nobody to whom it was coming, unless
\* the channel loses the last one.
LEMMA SentLeaves ==
    ASSUME FeedTypes, Retained, NEW m, NEW cs, SentTo(m, cs),
           m.kind = "state" => m.val # hub.val, hub'.val = hub.val,
           NEW c \in Clients, Subscribed(c), Coming(c)
    PROVE  Coming(c)'
  <1>1. PICK k \in {0, 1} : Pushed(m, k)
    BY SentFacts
  <1>2. Cap \in Nat \ {0} /\ Len(ring) \in Nat /\ Len(ring) <= Cap
    BY FeedAssumption DEF FeedTypes, Retained
  <1>3. /\ k = 1 <=> Len(ring) = Cap
        /\ Len(ring') = Len(ring) + 1 - k
        /\ ring'[Len(ring')] = m
        /\ \A i \in 1..(Len(ring') - 1) : ring'[i] = ring[i + k]
    BY <1>1 DEF Pushed
  <1>4. wire' = wire /\ page' = page
    BY DEF SentTo
  <1>5. SUFFICES ASSUME NEW i \in 1..Len(ring'), Current(ring[i])',
                        ~ Shows(c), ~ \E j \in 1..Len(wire[c]) : Current(wire[c][j])
                 PROVE  \E j \in 1..Len(ring') : Current(ring[j])' /\ j + conn'[c].behind > Len(ring')
    <2>1. \A j : Current(wire[c][j]) <=> Current(wire[c][j])'
      BY <1>4 DEF Current
    <2>2. Shows(c) <=> Shows(c)'
      BY <1>4 DEF Shows
    <2>3. Len(wire'[c]) = Len(wire[c])
      BY <1>4
    <2> QED BY <2>1, <2>2, <2>3 DEF Coming
  <1>6. i <= Len(ring') - 1 /\ i + k \in 1..Len(ring) /\ Current(ring[i + k])
    <2>1. ring'[i].kind = "state" /\ ring'[i].val = hub.val
      BY <1>5 DEF Current
    <2>2. ring'[i] # m
      BY <2>1
    <2>3. i # Len(ring')
      BY <1>3, <2>2
    <2>4. i \in 1..(Len(ring') - 1) /\ i + k \in 1..Len(ring)
      BY <1>2, <1>3, <2>3
    <2>5. ring[i + k] = ring'[i]
      BY <1>3, <2>4
    <2> QED BY <1>2, <1>3, <2>1, <2>4, <2>5 DEF Current
  <1>7. PICK j \in 1..Len(ring) : Current(ring[j]) /\ j + conn[c].behind > Len(ring)
    BY <1>5, <1>6 DEF Coming
  <1>8. /\ conn[c].behind \in Nat
        /\ \/ conn[c].behind <= Cap /\ conn'[c].behind = conn[c].behind + 1
           \/ conn[c].behind > Cap /\ conn'[c].behind = conn[c].behind
    BY SentFacts DEF FeedTypes, Connections
  <1>9. CASE j - k >= 1
    <2>1. j - k \in 1..(Len(ring') - 1)
      BY <1>2, <1>3, <1>9
    <2>2. ring'[j - k] = ring[j]
      BY <1>3, <2>1
    <2>3. Current(ring[j - k])'
      BY <1>7, <2>2 DEF Current
    <2>4. j - k + conn'[c].behind > Len(ring')
      BY <1>2, <1>3, <1>7, <1>8, SMTT(30)
    <2>5. j - k \in 1..Len(ring')
      BY <1>2, <1>3, <1>9
    <2> QED BY <2>3, <2>4, <2>5
  <1>10. CASE ~ j - k >= 1
    <2>1. k = 1 /\ j = 1
      BY <1>2, <1>10
    <2>2. Len(ring) = Cap /\ Len(ring') = Cap
      BY <1>2, <1>3, <2>1
    <2>3. conn[c].behind >= Cap
      BY <1>2, <1>7, <1>8, <2>1, <2>2
    <2>4. conn'[c].behind \in Nat /\ conn'[c].behind >= Cap
      BY <1>2, <1>8, <2>3
    <2>5. i + conn'[c].behind > Len(ring')
      BY <1>2, <2>2, <2>4
    <2> QED BY <1>5, <2>5
  <1> QED BY <1>9, <1>10

-----------------------------------------------------------------------------
(* What a broadcast does to the rest of the invariant. *)

\* The hub's revision goes up, and its state stays or is a new one, named for
\* the new revision.
HubGoesOn ==
    /\ hub' \in [rev : Nat, val : Nat, discovers : Nat]
    /\ hub'.rev >= hub.rev
    /\ hub'.val = hub.val \/ (hub'.val = hub.rev + 1 /\ hub'.rev = hub.rev + 1)

\* What belonged together does so for the hub that has gone on.
LEMMA BelongsOn ==
    ASSUME FeedTypes, Genuine, HubGoesOn
    PROVE  /\ hub'.val <= hub'.rev
           /\ \A r \in Nat, v \in Int : Belongs(hub, r, v) => Belongs(hub', r, v)
  <1>1. hub.val <= hub.rev /\ hub.rev \in Nat /\ hub.val \in Nat
    BY DEF FeedTypes, Genuine
  <1>2. hub'.rev \in Nat /\ hub'.val \in Nat
    BY DEF HubGoesOn
  <1>3. hub'.rev >= hub.rev /\ (hub'.val = hub.val \/ (hub'.val = hub.rev + 1 /\ hub'.rev = hub.rev + 1))
    BY DEF HubGoesOn
  <1>4. ASSUME NEW r \in Nat, NEW v \in Int, Belongs(hub, r, v)
        PROVE  Belongs(hub', r, v)
    <2>1. r <= hub.rev /\ v <= hub.val /\ (r >= hub.val <=> v = hub.val)
      BY <1>4 DEF Belongs
    <2>2. r <= hub'.rev /\ v <= hub'.val /\ (r >= hub'.val <=> v = hub'.val)
      BY <1>1, <1>2, <1>3, <2>1
    <2> QED BY <2>2 DEF Belongs
  <1> QED BY <1>1, <1>2, <1>3, <1>4

\* A broadcast of a frame or of a snapshot that belongs to the hub keeps the
\* types, what the channel retains and what everything on its way belongs to.
LEMMA SentGenuine ==
    ASSUME FeedTypes, Genuine, Retained, NEW m, NEW cs, SentTo(m, cs), HubGoesOn,
           m.kind = "state" => Belongs(hub', m.rev, m.val),
           \A c \in Clients : cs[c].pc = "welcome" => cs[c] = conn[c]
    PROVE  FeedTypes' /\ Genuine' /\ Retained'
  <1>1. FeedTypes'
    BY SentFacts DEF FeedTypes, SentTo, HubGoesOn
  <1>2. Retained'
    BY SentRetained
  <1>3. \A r \in Nat, v \in Int : Belongs(hub, r, v) => Belongs(hub', r, v)
    BY BelongsOn
  <1>4. ASSUME NEW i \in 1..Len(ring'), ring'[i].kind = "state"
        PROVE  Belongs(hub', ring'[i].rev, ring'[i].val)
    <2>1. PICK k \in {0, 1} : Pushed(m, k)
      BY SentFacts
    <2>2. Len(ring) \in Nat /\ ring \in Seq(Messages) /\ ring' \in Seq(Messages)
      BY SentFacts DEF FeedTypes
    <2>3. Len(ring') = Len(ring) + 1 - k /\ ring'[Len(ring')] = m
          /\ \A j \in 1..(Len(ring') - 1) : ring'[j] = ring[j + k]
      BY <2>1 DEF Pushed
    <2>4. CASE i = Len(ring')
      BY <1>4, <2>3, <2>4
    <2>5. CASE i # Len(ring')
      <3>1. i \in 1..(Len(ring') - 1) /\ i + k \in 1..Len(ring)
        BY <2>2, <2>3, <2>5
      <3>2. PICK old \in Messages : old = ring[i + k]
        BY <2>2, <3>1
      <3>3. ring'[i] = old
        BY <2>3, <3>1, <3>2
      <3>4. Belongs(hub, old.rev, old.val)
        BY <1>4, <3>1, <3>2, <3>3 DEF Genuine
      <3>5. old.rev \in Nat /\ old.val \in Nat
        BY DEF Messages
      <3> QED BY <1>3, <3>3, <3>4, <3>5
    <2> QED BY <2>4, <2>5
  <1>5. ASSUME NEW c \in Clients, NEW i \in 1..Len(wire'[c]), wire'[c][i].kind = "state"
        PROVE  Belongs(hub', wire'[c][i].rev, wire'[c][i].val)
    <2>1. wire' = wire /\ wire[c] \in Seq(Messages)
      BY DEF SentTo, FeedTypes
    <2>2. PICK old \in Messages : old = wire[c][i]
      BY <2>1
    <2>3. Belongs(hub, old.rev, old.val)
      BY <1>5, <2>1, <2>2 DEF Genuine
    <2>4. old.rev \in Nat /\ old.val \in Nat
      BY DEF Messages
    <2> QED BY <1>3, <2>1, <2>2, <2>3, <2>4
  <1>6. ASSUME NEW c \in Clients, conn'[c].pc = "welcome"
        PROVE  Belongs(hub', conn'[c].rev, conn'[c].val)
    <2>1. conn'[c].pc = cs[c].pc /\ conn'[c].rev = cs[c].rev /\ conn'[c].val = cs[c].val
      BY SentFacts
    <2>2. cs[c] = conn[c]
      BY <1>6, <2>1
    <2>3. PICK old \in Connections : old = conn[c]
      BY DEF FeedTypes
    <2>4. Belongs(hub, old.rev, old.val)
      BY <1>6, <2>1, <2>2, <2>3 DEF Genuine
    <2>5. old.rev \in Nat /\ old.val \in Nat
      BY DEF Connections
    <2> QED BY <1>3, <2>1, <2>2, <2>3, <2>4, <2>5
  <1>7. ASSUME NEW c \in Clients, page'[c].open, page'[c].last > 0
        PROVE  Belongs(hub', page'[c].last, page'[c].view)
    <2>1. page' = page
      BY DEF SentTo
    <2>2. PICK old \in [open : BOOLEAN, last : Nat, view : Int] : old = page[c]
      BY DEF FeedTypes
    <2>3. Belongs(hub, old.last, old.view)
      BY <1>7, <2>1, <2>2 DEF Genuine
    <2> QED BY <1>3, <2>1, <2>2, <2>3
  <1> QED BY <1>1, <1>2, <1>4, <1>5, <1>6, <1>7, BelongsOn DEF Genuine

\* A broadcast keeps the last word coming: it carries it, or the hub's state
\* stays and nobody misses it.
LEMMA SentLastWord ==
    ASSUME FeedTypes, Retained, NEW m, NEW cs, SentTo(m, cs),
           \/ m.kind = "state" /\ m.val = hub'.val
           \/ /\ m.kind = "state" => m.val # hub.val
              /\ hub'.val = hub.val
              /\ \A c \in Clients : Subscribed(c) =>
                    Coming(c) \/ (cs[c].pc = "welcome" /\ cs[c].val = hub.val)
    PROVE  LastWordComes'
  <1>1. ASSUME NEW c \in Clients, conn'[c].pc \in {"welcome", "loop"}
        PROVE  Coming(c)' \/ (conn'[c].pc = "welcome" /\ conn'[c].val = hub'.val)
    <2>1. conn'[c].pc = cs[c].pc /\ conn'[c].val = cs[c].val
      BY SentFacts
    <2>2. Subscribed(c)
      BY <1>1, <2>1 DEF SentTo
    <2>3. CASE m.kind = "state" /\ m.val = hub'.val
      BY <2>2, <2>3, SentComes
    <2>4. CASE /\ m.kind = "state" => m.val # hub.val
               /\ hub'.val = hub.val
               /\ Coming(c) \/ (cs[c].pc = "welcome" /\ cs[c].val = hub.val)
      BY <2>1, <2>2, <2>4, SentLeaves
    <2> QED BY <2>2, <2>3, <2>4
  <1> QED BY <1>1 DEF LastWordComes

\* When every task stays where it was.
LEMMA SentByOthers ==
    ASSUME FeedTypes, NEW m \in Messages, Broadcast(m, conn), UNCHANGED <<wire, page>>
    PROVE  /\ SentTo(m, conn)
           /\ \A c \in Clients : conn[c].pc = "welcome" => conn[c] = conn[c]
  BY DEF FeedTypes, SentTo, Subscribed

LEMMA KeptCommand ==
    ASSUME FeedInv, Command
    PROVE  FeedInv'
  <1>1. hub \in [rev : Nat, val : Nat, discovers : Nat] /\ hub.val <= hub.rev
    BY DEF FeedInv, FeedTypes, Genuine
  <1>2. PICK m : m = [kind |-> "state", rev |-> hub.rev + 1, val |-> hub.rev + 1]
    OBVIOUS
  <1>3. m \in Messages
    BY <1>1, <1>2 DEF Messages
  <1>4. /\ hub'.rev = hub.rev + 1 /\ hub'.val = hub.rev + 1
        /\ hub' \in [rev : Nat, val : Nat, discovers : Nat]
    <2>1. PICK h \in [rev : Nat, val : Nat, discovers : Nat] : h = hub
      BY <1>1
    <2>2. hub' = [h EXCEPT !.rev = h.rev + 1, !.val = h.rev + 1]
      BY <2>1 DEF Command
    <2>3. h.rev + 1 \in Nat
      OBVIOUS
    <2> QED BY <2>1, <2>2, <2>3
  <1>5. HubGoesOn /\ Belongs(hub', m.rev, m.val) /\ m.val = hub'.val /\ m.kind = "state"
    BY <1>1, <1>2, <1>4 DEF HubGoesOn, Belongs
  <1>6. FeedTypes /\ Genuine /\ Retained
    BY DEF FeedInv
  <1>7. SentTo(m, conn)
    BY <1>2, <1>3, <1>6, SentByOthers DEF Command
  <1>8. FeedTypes' /\ Genuine' /\ Retained'
    BY <1>5, <1>6, <1>7, SentGenuine
  <1>9. LastWordComes'
    BY <1>5, <1>6, <1>7, SentLastWord
  <1> QED BY <1>8, <1>9 DEF FeedInv

LEMMA KeptDiscover ==
    ASSUME FeedInv, Discover
    PROVE  FeedInv'
  <1>1. hub \in [rev : Nat, val : Nat, discovers : Nat] /\ hub.val <= hub.rev
    BY DEF FeedInv, FeedTypes, Genuine
  <1>2. PICK m : m = [kind |-> "state", rev |-> hub.rev + 1, val |-> hub.val]
    OBVIOUS
  <1>3. m \in Messages
    BY <1>1, <1>2 DEF Messages
  <1>4. /\ hub'.rev = hub.rev + 1 /\ hub'.val = hub.val
        /\ hub' \in [rev : Nat, val : Nat, discovers : Nat]
    <2>1. PICK h \in [rev : Nat, val : Nat, discovers : Nat] : h = hub
      BY <1>1
    <2>2. h.discovers > 0 /\ hub' = [h EXCEPT !.rev = h.rev + 1, !.discovers = h.discovers - 1]
      BY <2>1 DEF Discover
    <2>3. h.rev + 1 \in Nat /\ h.discovers - 1 \in Nat
      BY <2>2
    <2> QED BY <2>1, <2>2, <2>3
  <1>5. HubGoesOn /\ Belongs(hub', m.rev, m.val) /\ m.val = hub'.val /\ m.kind = "state"
    BY <1>1, <1>2, <1>4 DEF HubGoesOn, Belongs
  <1>6. FeedTypes /\ Genuine /\ Retained
    BY DEF FeedInv
  <1>7. SentTo(m, conn)
    BY <1>2, <1>3, <1>6, SentByOthers DEF Discover
  <1>8. FeedTypes' /\ Genuine' /\ Retained'
    BY <1>5, <1>6, <1>7, SentGenuine
  <1>9. LastWordComes'
    BY <1>5, <1>6, <1>7, SentLastWord
  <1> QED BY <1>8, <1>9 DEF FeedInv

LEMMA KeptStream ==
    ASSUME FeedInv, Stream
    PROVE  FeedInv'
  <1>1. hub \in [rev : Nat, val : Nat, discovers : Nat]
    BY DEF FeedInv, FeedTypes
  <1>2. Frame \in Messages /\ Frame.kind # "state"
    BY DEF Frame, Messages
  <1>3. hub' = hub
    BY DEF Stream
  <1>4. HubGoesOn
    BY <1>1, <1>3 DEF HubGoesOn
  <1>5. FeedTypes /\ Genuine /\ Retained /\ LastWordComes
    BY DEF FeedInv
  <1>6. SentTo(Frame, conn)
    BY <1>2, <1>5, SentByOthers DEF Stream
  <1>7. FeedTypes' /\ Genuine' /\ Retained'
    BY <1>2, <1>4, <1>5, <1>6, SentGenuine
  <1>8. \A c \in Clients : Subscribed(c) =>
           Coming(c) \/ (conn[c].pc = "welcome" /\ conn[c].val = hub.val)
    BY <1>5 DEF LastWordComes, Subscribed
  <1>9. LastWordComes'
    BY <1>2, <1>3, <1>5, <1>6, <1>8, SentLastWord
  <1> QED BY <1>7, <1>9 DEF FeedInv

LEMMA KeptLevels ==
    ASSUME FeedInv, Levels
    PROVE  FeedInv'
  <1>1. hub \in [rev : Nat, val : Nat, discovers : Nat] /\ hub.val <= hub.rev
    BY DEF FeedInv, FeedTypes, Genuine
  <1>2. PICK m : m = Snapshot
    OBVIOUS
  <1>3. m \in Messages /\ m.kind = "state" /\ m.rev = hub.rev /\ m.val = hub.val
    BY <1>1, <1>2 DEF Snapshot, Messages
  <1>4. hub' = hub
    BY DEF Levels
  <1>5. HubGoesOn /\ Belongs(hub', m.rev, m.val) /\ m.val = hub'.val
    BY <1>1, <1>3, <1>4 DEF HubGoesOn, Belongs
  <1>6. FeedTypes /\ Genuine /\ Retained
    BY DEF FeedInv
  <1>7. SentTo(m, conn)
    BY <1>2, <1>3, <1>6, SentByOthers DEF Levels
  <1>8. FeedTypes' /\ Genuine' /\ Retained'
    BY <1>5, <1>6, <1>7, SentGenuine
  <1>9. LastWordComes'
    BY <1>3, <1>5, <1>6, <1>7, SentLastWord
  <1> QED BY <1>8, <1>9 DEF FeedInv

\* The welcome goes to everyone, and its task goes on to forward.
LEMMA KeptWelcome ==
    ASSUME FeedInv, NEW w \in Clients, Welcome(w)
    PROVE  FeedInv'
  <1>1. FeedTypes /\ Genuine /\ Retained /\ LastWordComes
    BY DEF FeedInv
  <1>2. PICK cs : cs = [conn EXCEPT ![w].pc = "loop", ![w].rev = 0, ![w].val = 0]
    OBVIOUS
  <1>3. PICK old \in Connections : old = conn[w]
    BY <1>1 DEF FeedTypes
  <1>4. PICK m : m = [kind |-> "state", rev |-> old.rev, val |-> old.val]
    OBVIOUS
  <1>5. m \in Messages /\ m.kind = "state" /\ m.rev = old.rev /\ m.val = old.val
    BY <1>4 DEF Messages, Connections
  <1>6. old.pc = "welcome" /\ Belongs(hub, old.rev, old.val)
    BY <1>1, <1>3 DEF Welcome, Genuine
  <1>7. /\ cs \in [Clients -> Connections]
        /\ cs[w].pc = "loop" /\ cs[w].behind = old.behind
        /\ \A c \in Clients : c # w => cs[c] = conn[c]
    BY <1>1, <1>2, <1>3 DEF FeedTypes, Connections
  <1>8. SentTo(m, cs)
    <2>1. Broadcast(m, cs) /\ UNCHANGED <<wire, page>>
      BY <1>2, <1>3, <1>4 DEF Welcome
    <2>2. ASSUME NEW c \in Clients
          PROVE  /\ cs[c].behind = conn[c].behind
                 /\ cs[c].pc \in {"welcome", "loop"} <=> Subscribed(c)
      BY <1>3, <1>6, <1>7 DEF Subscribed
    <2> QED BY <1>5, <1>7, <2>1, <2>2 DEF SentTo
  <1>9. hub' = hub /\ HubGoesOn
    BY <1>1 DEF Welcome, HubGoesOn, FeedTypes
  <1>10. \A c \in Clients : cs[c].pc = "welcome" => cs[c] = conn[c]
    BY <1>7
  <1>11. FeedTypes' /\ Genuine' /\ Retained'
    BY <1>1, <1>5, <1>6, <1>8, <1>9, <1>10, SentGenuine
  <1>12. CASE old.val = hub.val
    <2>1. m.kind = "state" /\ m.val = hub'.val
      BY <1>5, <1>9, <1>12
    <2> QED BY <1>1, <1>8, <1>11, <2>1, SentLastWord DEF FeedInv
  <1>13. CASE old.val # hub.val
    <2>1. ASSUME NEW c \in Clients, Subscribed(c)
          PROVE  Coming(c) \/ (cs[c].pc = "welcome" /\ cs[c].val = hub.val)
      <3>1. CASE c = w
        BY <1>1, <1>3, <1>6, <1>13, <3>1 DEF LastWordComes
      <3>2. CASE c # w
        BY <1>1, <1>7, <2>1, <3>2 DEF LastWordComes, Subscribed
      <3> QED BY <3>1, <3>2
    <2>2. m.val # hub.val /\ hub'.val = hub.val
      BY <1>5, <1>9, <1>13
    <2>3. LastWordComes'
      BY <1>1, <1>8, <2>1, <2>2, SentLastWord
    <2> QED BY <1>11, <2>3 DEF FeedInv
  <1> QED BY <1>12, <1>13

-----------------------------------------------------------------------------
(* The steps of one connection and its page. *)

\* What the invariant says of page c alone.
FineFor(c) ==
    /\ \A i \in 1..Len(wire[c]) : wire[c][i].kind = "state" => Belongs(hub, wire[c][i].rev, wire[c][i].val)
    /\ conn[c].pc = "welcome" => Belongs(hub, conn[c].rev, conn[c].val)
    /\ page[c].open /\ page[c].last > 0 => Belongs(hub, page[c].last, page[c].view)
    /\ conn[c].pc \in {"welcome", "loop"} =>
          conn[c].behind <= Len(ring) \/ (conn[c].behind = Cap + 1 /\ Len(ring) = Cap)
    /\ conn[c].pc = "loop" => Coming(c)
    /\ conn[c].pc = "welcome" => conn[c].val = hub.val \/ Coming(c)

\* Only connection c and its page move, and the hub counts commands to come.
Only(c) ==
    /\ hub'.rev = hub.rev /\ hub'.val = hub.val /\ ring' = ring
    /\ \A d \in Clients \ {c} : conn'[d] = conn[d] /\ wire'[d] = wire[d] /\ page'[d] = page[d]

LEMMA KeptAlone ==
    ASSUME FeedInv, NEW c \in Clients, Only(c), FeedTypes', FineFor(c)'
    PROVE  FeedInv'
  <1>1. ASSUME NEW d \in Clients, d # c
        PROVE  FineFor(d)'
    <2>1. /\ conn'[d] = conn[d] /\ wire'[d] = wire[d] /\ page'[d] = page[d]
          /\ hub'.val = hub.val /\ ring' = ring
          /\ \A r, v : Belongs(hub, r, v) <=> Belongs(hub', r, v)
      BY <1>1 DEF Only, Belongs
    <2>2. FineFor(d)
      BY DEF FeedInv, Genuine, Retained, LastWordComes, FineFor
    <2>3. Coming(d) <=> Coming(d)'
      BY <2>1 DEF Coming, Shows, Current
    <2> QED BY <2>1, <2>2, <2>3 DEF FineFor
  <1>2. \A d \in Clients : FineFor(d)'
    BY <1>1
  <1>3. hub.val <= hub.rev /\ Len(ring) <= Cap
        /\ \A i \in 1..Len(ring) : ring[i].kind = "state" => Belongs(hub, ring[i].rev, ring[i].val)
    BY DEF FeedInv, Genuine, Retained
  <1>4. /\ hub'.val = hub.val /\ hub'.rev = hub.rev /\ ring' = ring
        /\ \A r, v : Belongs(hub, r, v) <=> Belongs(hub', r, v)
    BY DEF Only, Belongs
  <1>5. Genuine'
    BY <1>2, <1>3, <1>4 DEF Genuine, FineFor
  <1>6. Retained'
    BY <1>2, <1>3, <1>4 DEF Retained, FineFor
  <1>7. LastWordComes'
    BY <1>2 DEF LastWordComes, FineFor
  <1> QED BY <1>5, <1>6, <1>7 DEF FeedInv

LEMMA Fine ==
    ASSUME FeedInv, NEW c \in Clients
    PROVE  FineFor(c)
  BY DEF FeedInv, Genuine, Retained, LastWordComes, FineFor

LEMMA KeptSubscribe ==
    ASSUME FeedInv, NEW c \in Clients, Subscribe(c)
    PROVE  FeedInv'
  <1>1. FeedTypes /\ FineFor(c) /\ hub \in [rev : Nat, val : Nat, discovers : Nat] /\ hub.val <= hub.rev
    BY Fine DEF FeedInv, FeedTypes, Genuine
  <1>2. PICK r : r = [pc |-> "welcome", behind |-> 0, rev |-> hub.rev, val |-> hub.val]
    OBVIOUS
  <1>3. r \in Connections /\ r.pc = "welcome" /\ r.behind = 0 /\ r.rev = hub.rev /\ r.val = hub.val
    BY <1>1, <1>2 DEF Connections
  <1>4. conn' = [conn EXCEPT ![c] = r] /\ UNCHANGED <<hub, ring, wire, page>>
    BY <1>2 DEF Subscribe
  <1>5. FeedTypes' /\ conn'[c] = r
    BY <1>1, <1>3, <1>4 DEF FeedTypes
  <1>6. Only(c)
    BY <1>1, <1>4 DEF Only, FeedTypes
  <1>7. FineFor(c)'
    <2>1. Belongs(hub, r.rev, r.val)
      BY <1>1, <1>3 DEF Belongs
    <2>2. Len(ring) \in Nat
      BY <1>1 DEF FeedTypes
    <2> QED BY <1>1, <1>3, <1>4, <1>5, <2>1, <2>2 DEF FineFor
  <1> QED BY <1>5, <1>6, <1>7, KeptAlone

LEMMA KeptForward ==
    ASSUME FeedInv, NEW c \in Clients, Forward(c)
    PROVE  FeedInv'
  <1>1. FeedTypes /\ FineFor(c)
    BY Fine DEF FeedInv
  <1>2. PICK old \in Connections : old = conn[c]
    BY <1>1 DEF FeedTypes
  <1>3. Cap \in Nat \ {0} /\ Len(ring) \in Nat /\ Len(ring) <= Cap /\ old.behind \in Nat
    BY <1>1, FeedAssumption DEF FeedTypes, FeedInv, Retained, Connections
  <1>4. old.pc = "loop" /\ old.behind \in 1..Cap
    BY <1>2 DEF Forward
  <1>5. old.behind <= Len(ring)
    BY <1>1, <1>2, <1>3, <1>4 DEF FineFor
  <1>6. PICK r : r = [old EXCEPT !.behind = old.behind - 1]
    OBVIOUS
  <1>7. r \in Connections /\ r.pc = "loop" /\ r.behind = old.behind - 1
    BY <1>3, <1>4, <1>6 DEF Connections
  <1>8. PICK n \in 1..Len(ring) : n = Len(ring) - old.behind + 1
    BY <1>3, <1>4, <1>5
  <1>9. PICK m \in Messages : m = ring[n]
    BY <1>1, <1>8 DEF FeedTypes
  <1>10. PICK q \in Seq(Messages) : q = wire[c]
    BY <1>1 DEF FeedTypes
  <1>11. PICK w : w = Append(q, m)
    OBVIOUS
  <1>12. /\ w \in Seq(Messages) /\ Len(w) = Len(q) + 1 /\ w[Len(w)] = m
         /\ \A i \in 1..Len(q) : w[i] = q[i]
    BY <1>11
  <1>13. /\ conn' = [conn EXCEPT ![c] = r] /\ wire' = [wire EXCEPT ![c] = w]
         /\ UNCHANGED <<hub, ring, page>>
    BY <1>2, <1>6, <1>8, <1>9, <1>10, <1>11 DEF Forward
  <1>14. FeedTypes' /\ conn'[c] = r /\ wire'[c] = w
    BY <1>1, <1>7, <1>12, <1>13 DEF FeedTypes
  <1>15. Only(c)
    BY <1>1, <1>13 DEF Only, FeedTypes
  <1>16. \A i \in 1..Len(w) : w[i].kind = "state" => Belongs(hub, w[i].rev, w[i].val)
    <2>1. m.kind = "state" => Belongs(hub, m.rev, m.val)
      BY <1>8, <1>9 DEF FeedInv, Genuine
    <2>2. \A i \in 1..Len(q) : q[i].kind = "state" => Belongs(hub, q[i].rev, q[i].val)
      BY <1>1, <1>10 DEF FineFor
    <2>3. Len(q) \in Nat
      BY <1>10
    <2>4. ASSUME NEW i \in 1..Len(w) PROVE i = Len(w) \/ i \in 1..Len(q)
      BY <1>12, <2>3
    <2> QED BY <1>12, <2>1, <2>2, <2>4
  <1>17. Coming(c)'
    <2>1. Coming(c)
      BY <1>1, <1>2, <1>4 DEF FineFor
    <2>2. \A x : Current(x) <=> x.kind = "state" /\ x.val = hub.val
      BY DEF Current
    <2>3. SUFFICES \/ ~ \E i \in 1..Len(ring) : Current(ring[i])
                   \/ Shows(c)
                   \/ \E i \in 1..Len(w) : Current(w[i])
                   \/ \E i \in 1..Len(ring) : Current(ring[i]) /\ i + r.behind > Len(ring)
      BY <1>13, <1>14 DEF Coming, Shows, Current
    <2>4. CASE \E i \in 1..Len(q) : Current(q[i])
      <3>1. PICK i \in 1..Len(q) : Current(q[i])
        BY <2>4
      <3>2. Len(q) \in Nat
        BY <1>10
      <3>3. i \in 1..Len(w) /\ w[i] = q[i]
        BY <1>12, <3>1, <3>2
      <3> QED BY <3>1, <3>3
    <2>5. CASE \E i \in 1..Len(ring) : Current(ring[i]) /\ i + old.behind > Len(ring)
      <3>1. PICK i \in 1..Len(ring) : Current(ring[i]) /\ i + old.behind > Len(ring)
        BY <2>5
      <3>2. CASE i = n
        <4>1. Len(w) \in 1..Len(w) /\ w[Len(w)] = ring[i]
          BY <1>9, <1>10, <1>12, <3>2
        <4> QED BY <3>1, <4>1
      <3>3. CASE i # n
        <4>1. i + r.behind > Len(ring)
          BY <1>3, <1>7, <1>8, <3>1, <3>3
        <4> QED BY <3>1, <4>1
      <3> QED BY <3>2, <3>3
    <2> QED BY <1>2, <1>10, <2>1, <2>4, <2>5 DEF Coming
  <1>18. r.behind <= Len(ring)
    BY <1>3, <1>5, <1>7
  <1>19. FineFor(c)'
    BY <1>1, <1>7, <1>13, <1>14, <1>16, <1>17, <1>18 DEF FineFor
  <1> QED BY <1>14, <1>15, <1>19, KeptAlone

LEMMA KeptLagged ==
    ASSUME FeedInv, NEW c \in Clients, Lagged(c)
    PROVE  FeedInv'
  <1>1. FeedTypes /\ FineFor(c)
    BY Fine DEF FeedInv
  <1>2. PICK old \in Connections : old = conn[c]
    BY <1>1 DEF FeedTypes
  <1>3. Cap \in Nat \ {0} /\ Len(ring) \in Nat /\ Len(ring) <= Cap /\ old.behind \in Nat
    BY <1>1, FeedAssumption DEF FeedTypes, FeedInv, Retained, Connections
  <1>4. old.pc = "loop" /\ old.behind > Cap
    BY <1>2 DEF Lagged
  <1>5. Len(ring) = Cap
    BY <1>1, <1>2, <1>3, <1>4 DEF FineFor
  <1>6. PICK r : r = [old EXCEPT !.behind = Cap]
    OBVIOUS
  <1>7. r \in Connections /\ r.pc = "loop" /\ r.behind = Cap
    BY <1>3, <1>4, <1>6 DEF Connections
  <1>8. conn' = [conn EXCEPT ![c] = r] /\ UNCHANGED <<hub, ring, wire, page>>
    BY <1>2, <1>6 DEF Lagged
  <1>9. FeedTypes' /\ conn'[c] = r
    BY <1>1, <1>7, <1>8 DEF FeedTypes
  <1>10. Only(c)
    BY <1>1, <1>8 DEF Only, FeedTypes
  <1>11. \A i \in 1..Len(ring) : i + r.behind > Len(ring)
    BY <1>3, <1>5, <1>7
  <1>12. Coming(c)'
    BY <1>8, <1>9, <1>11 DEF Coming
  <1>13. r.behind <= Len(ring)
    BY <1>3, <1>5, <1>7
  <1>14. FineFor(c)'
    BY <1>1, <1>7, <1>8, <1>9, <1>12, <1>13 DEF FineFor
  <1> QED BY <1>9, <1>10, <1>14, KeptAlone

LEMMA KeptConnect ==
    ASSUME FeedInv, NEW c \in Clients, Connect(c)
    PROVE  FeedInv'
  <1>1. FeedTypes /\ FineFor(c)
    BY Fine DEF FeedInv
  <1>2. PICK h \in [rev : Nat, val : Nat, discovers : Nat] : h = hub
    BY <1>1 DEF FeedTypes
  <1>3. /\ hub' = [h EXCEPT !.discovers = h.discovers + 1]
        /\ hub' \in [rev : Nat, val : Nat, discovers : Nat]
        /\ hub'.rev = h.rev /\ hub'.val = h.val
    BY <1>2 DEF Connect
  <1>4. PICK r : r = [Off EXCEPT !.pc = "accepted"]
    OBVIOUS
  <1>5. r \in Connections /\ r.pc = "accepted"
    BY <1>4 DEF Off, Connections
  <1>6. PICK old \in [open : BOOLEAN, last : Nat, view : Int] : old = page[c]
    BY <1>1 DEF FeedTypes
  <1>7. PICK p : p = [old EXCEPT !.open = TRUE, !.last = 0]
    OBVIOUS
  <1>8. p \in [open : BOOLEAN, last : Nat, view : Int] /\ p.last = 0
    BY <1>7
  <1>9. conn' = [conn EXCEPT ![c] = r] /\ page' = [page EXCEPT ![c] = p] /\ UNCHANGED <<ring, wire>>
    BY <1>4, <1>6, <1>7 DEF Connect, OnOpen
  <1>10. FeedTypes' /\ conn'[c] = r /\ page'[c] = p
    BY <1>1, <1>3, <1>5, <1>8, <1>9 DEF FeedTypes
  <1>11. Only(c)
    BY <1>1, <1>2, <1>3, <1>9 DEF Only, FeedTypes
  <1>12. FineFor(c)'
    <2>1. \A i \in 1..Len(wire[c]) : wire[c][i].kind = "state" => Belongs(hub', wire[c][i].rev, wire[c][i].val)
      BY <1>1, <1>2, <1>3 DEF FineFor, Belongs
    <2> QED BY <1>5, <1>8, <1>9, <1>10, <2>1 DEF FineFor
  <1> QED BY <1>10, <1>11, <1>12, KeptAlone

LEMMA KeptOnMessage ==
    ASSUME FeedInv, NEW c \in Clients, OnMessage(c)
    PROVE  FeedInv'
  <1>1. FeedTypes /\ FineFor(c)
    BY Fine DEF FeedInv
  <1>2. PICK q \in Seq(Messages) : q = wire[c]
    BY <1>1 DEF FeedTypes
  <1>3. q # <<>> /\ page[c].open
    BY <1>2 DEF OnMessage
  <1>4. PICK m \in Messages : m = Head(q)
    BY <1>2, <1>3
  <1>5. PICK w : w = Tail(q)
    OBVIOUS
  <1>6. /\ Len(q) \in Nat /\ Len(q) >= 1 /\ q[1] = m
        /\ w \in Seq(Messages) /\ Len(w) = Len(q) - 1
        /\ \A i \in 1..Len(w) : w[i] = q[i + 1]
    BY <1>2, <1>3, <1>4, <1>5
  <1>7. PICK old \in [open : BOOLEAN, last : Nat, view : Int] : old = page[c]
    BY <1>1 DEF FeedTypes
  <1>8. PICK p : p = IF m.kind = "state" /\ m.rev >= old.last
                     THEN [old EXCEPT !.last = m.rev, !.view = m.val] ELSE old
    OBVIOUS
  <1>9. m.rev \in Nat /\ m.val \in Nat /\ hub.val \in Nat /\ hub.rev \in Nat
    BY <1>1 DEF Messages, FeedTypes
  <1>10. /\ p \in [open : BOOLEAN, last : Nat, view : Int]
         /\ m.kind = "state" /\ m.rev >= old.last => p.last = m.rev /\ p.view = m.val
         /\ ~ (m.kind = "state" /\ m.rev >= old.last) => p = old
    <2>1. CASE m.kind = "state" /\ m.rev >= old.last
      <3>1. p = [old EXCEPT !.last = m.rev, !.view = m.val]
        BY <1>8, <2>1
      <3>2. m.val \in Int
        BY <1>9
      <3> QED BY <1>9, <2>1, <3>1, <3>2
    <2>2. CASE ~ (m.kind = "state" /\ m.rev >= old.last)
      BY <1>8, <2>2
    <2> QED BY <2>1, <2>2
  <1>11. /\ wire' = [wire EXCEPT ![c] = w] /\ UNCHANGED <<hub, ring, conn>>
         /\ page' = [page EXCEPT ![c] = p]
    <2>1. page = [page EXCEPT ![c] = old]
      BY <1>1, <1>7 DEF FeedTypes
    <2>2. wire' = [wire EXCEPT ![c] = w] /\ UNCHANGED <<hub, ring, conn>>
      BY <1>2, <1>5 DEF OnMessage
    <2>3. CASE m.kind = "state" /\ m.rev >= old.last
      BY <1>2, <1>4, <1>7, <1>8, <2>2, <2>3 DEF OnMessage
    <2>4. CASE ~ (m.kind = "state" /\ m.rev >= old.last)
      BY <1>2, <1>4, <1>7, <1>8, <2>1, <2>2, <2>4 DEF OnMessage
    <2> QED BY <2>3, <2>4
  <1>12. FeedTypes' /\ wire'[c] = w /\ page'[c] = p
    BY <1>1, <1>6, <1>10, <1>11 DEF FeedTypes
  <1>13. Only(c)
    BY <1>1, <1>11 DEF Only, FeedTypes
  <1>14. m.kind = "state" => Belongs(hub, m.rev, m.val)
    BY <1>1, <1>2, <1>6 DEF FineFor
  <1>15. old.last > 0 => Belongs(hub, old.last, old.view)
    BY <1>1, <1>3, <1>7 DEF FineFor
  <1>16. p.last > 0 => Belongs(hub, p.last, p.view)
    BY <1>10, <1>14, <1>15
  <1>17. \A i \in 1..Len(w) : w[i].kind = "state" => Belongs(hub, w[i].rev, w[i].val)
    BY <1>1, <1>2, <1>6, SMTT(30) DEF FineFor
  <1>18. ASSUME Coming(c)
         PROVE  Coming(c)'
    <2>1. SUFFICES \/ ~ \E i \in 1..Len(ring) : Current(ring[i])
                   \/ p.view = hub.val /\ p.last >= hub.val
                   \/ \E i \in 1..Len(w) : Current(w[i])
                   \/ \E i \in 1..Len(ring) : Current(ring[i]) /\ i + conn[c].behind > Len(ring)
      BY <1>11, <1>12 DEF Coming, Shows, Current
    <2>2. CASE Shows(c)
      <3>1. old.view = hub.val /\ old.last >= hub.val
        BY <1>7, <2>2 DEF Shows
      <3>2. CASE m.kind = "state" /\ m.rev >= old.last
        <4>1. m.rev >= hub.val
          BY <1>9, <3>1, <3>2
        <4>2. m.val = hub.val
          BY <1>14, <3>2, <4>1 DEF Belongs
        <4> QED BY <1>10, <3>2, <4>1, <4>2
      <3>3. CASE ~ (m.kind = "state" /\ m.rev >= old.last)
        BY <1>10, <3>1, <3>3
      <3> QED BY <3>2, <3>3
    <2>3. CASE \E i \in 1..Len(q) : Current(q[i])
      <3>1. PICK i \in 1..Len(q) : Current(q[i])
        BY <2>3
      <3>2. CASE i = 1
        <4>1. m.kind = "state" /\ m.val = hub.val
          BY <1>6, <3>1, <3>2 DEF Current
        <4>2. m.rev >= hub.val
          BY <1>14, <4>1 DEF Belongs
        <4>3. CASE m.rev >= old.last
          BY <1>10, <4>1, <4>2, <4>3
        <4>4. CASE ~ m.rev >= old.last
          <5>1. old.last > 0 /\ old.last >= hub.val
            BY <1>7, <1>9, <4>2, <4>4
          <5>2. old.view = hub.val
            BY <1>15, <5>1 DEF Belongs
          <5> QED BY <1>10, <4>4, <5>1, <5>2
        <4> QED BY <4>3, <4>4
      <3>3. CASE i # 1
        <4>1. i - 1 \in 1..Len(w) /\ w[i - 1] = q[i]
          BY <1>6, <3>1, <3>3
        <4> QED BY <3>1, <4>1
      <3> QED BY <3>2, <3>3
    <2> QED BY <1>2, <1>18, <2>2, <2>3 DEF Coming
  <1>19. FineFor(c)'
    BY <1>1, <1>11, <1>12, <1>16, <1>17, <1>18 DEF FineFor
  <1> QED BY <1>12, <1>13, <1>19, KeptAlone

LEMMA KeptCut ==
    ASSUME FeedInv, NEW c \in Clients, Cut(c)
    PROVE  FeedInv'
  <1>1. FeedTypes /\ FineFor(c)
    BY Fine DEF FeedInv
  <1>2. Off \in Connections /\ Off.pc = "off" /\ <<>> \in Seq(Messages)
    BY DEF Off, Connections
  <1>3. PICK old \in [open : BOOLEAN, last : Nat, view : Int] : old = page[c]
    BY <1>1 DEF FeedTypes
  <1>4. PICK p : p = [old EXCEPT !.open = FALSE]
    OBVIOUS
  <1>5. p \in [open : BOOLEAN, last : Nat, view : Int] /\ ~ p.open
    BY <1>4
  <1>6. /\ conn' = [conn EXCEPT ![c] = Off] /\ wire' = [wire EXCEPT ![c] = <<>>]
        /\ page' = [page EXCEPT ![c] = p] /\ UNCHANGED <<hub, ring>>
    BY <1>3, <1>4 DEF Cut
  <1>7. FeedTypes' /\ conn'[c] = Off /\ wire'[c] = <<>> /\ page'[c] = p
    BY <1>1, <1>2, <1>5, <1>6 DEF FeedTypes
  <1>8. Only(c)
    BY <1>1, <1>6 DEF Only, FeedTypes
  <1>9. FineFor(c)'
    BY <1>2, <1>5, <1>7 DEF FineFor
  <1> QED BY <1>7, <1>8, <1>9, KeptAlone

-----------------------------------------------------------------------------
LEMMA KeptRestart ==
    ASSUME FeedInv, Restart
    PROVE  FeedInv'
  <1>1. Cap \in Nat
    BY FeedAssumption
  <1>2. Off \in Connections /\ Off.pc = "off"
    BY DEF Off, Connections
  <1>3. /\ hub' = [rev |-> 0, val |-> 0, discovers |-> 0]
        /\ ring' = <<>>
        /\ conn' = [c \in Clients |-> Off]
        /\ wire' = [c \in Clients |-> <<>>]
        /\ page' = [c \in Clients |-> [page[c] EXCEPT !.open = FALSE]]
    BY DEF Restart
  <1>4. ASSUME NEW c \in Clients
        PROVE  page'[c] \in [open : BOOLEAN, last : Nat, view : Int] /\ page'[c].open = FALSE
    BY <1>3 DEF FeedInv, FeedTypes
  <1>5. page' \in [Clients -> [open : BOOLEAN, last : Nat, view : Int]]
    BY <1>3, <1>4
  <1>6. FeedTypes'
    BY <1>2, <1>3, <1>5 DEF FeedTypes
  <1>7. Genuine'
    <2>1. hub'.val <= hub'.rev
      BY <1>3
    <2>2. \A i \in 1..Len(ring') : FALSE
      BY <1>3
    <2>3. ASSUME NEW c \in Clients
          PROVE  /\ \A i \in 1..Len(wire'[c]) : FALSE
                 /\ conn'[c].pc = "off"
                 /\ ~ page'[c].open
      <3>1. wire'[c] = <<>> /\ conn'[c] = Off
        BY <1>3
      <3>2. Len(wire'[c]) = 0
        BY <3>1
      <3>3. page'[c].open = FALSE
        BY <1>4
      <3>4. \A i \in 1..Len(wire'[c]) : FALSE
        BY <3>2
      <3>5. conn'[c].pc = "off"
        BY <1>2, <3>1
      <3> QED BY <3>3, <3>4, <3>5
    <2> QED BY <2>1, <2>2, <2>3 DEF Genuine
  <1>8. Retained'
    BY <1>1, <1>2, <1>3 DEF Retained
  <1>9. LastWordComes'
    BY <1>2, <1>3 DEF LastWordComes
  <1> QED BY <1>6, <1>7, <1>8, <1>9 DEF FeedInv

LEMMA InitFeed ==
    ASSUME Init
    PROVE  FeedInv
  <1>1. Cap \in Nat
    BY FeedAssumption
  <1>2. Off \in Connections /\ Off.pc = "off"
    BY DEF Off, Connections
  <1>3. FeedTypes
    BY <1>2 DEF Init, FeedTypes, Unknown
  <1>4. Genuine
    BY <1>2 DEF Init, Genuine
  <1>5. Retained
    BY <1>1, <1>2 DEF Init, Retained
  <1>6. LastWordComes
    BY <1>2 DEF Init, LastWordComes
  <1> QED BY <1>3, <1>4, <1>5, <1>6 DEF FeedInv

LEMMA StepFeed ==
    ASSUME FeedInv, [Next]_vars
    PROVE  FeedInv'
  <1>1. CASE UNCHANGED vars
    BY <1>1 DEF vars, FeedInv, FeedTypes, Genuine, Retained, LastWordComes, Coming, Shows, Current
  <1>2. CASE Server
    BY <1>2, KeptCommand, KeptDiscover, KeptStream, KeptLevels, KeptRestart DEF Server
  <1>3. ASSUME NEW c \in Clients,
               \/ Subscribe(c) \/ Welcome(c) \/ Forward(c) \/ Lagged(c)
               \/ Connect(c) \/ OnMessage(c) \/ Cut(c)
        PROVE  FeedInv'
    BY <1>3, KeptSubscribe, KeptWelcome, KeptForward, KeptLagged, KeptConnect, KeptOnMessage, KeptCut
  <1> QED BY <1>1, <1>2, <1>3 DEF Next

THEOREM FeedHolds == Spec => []FeedInv
  BY InitFeed, StepFeed, PTL DEF Spec

\* A page that has handled all that was sent to it shows the hub's state, if
\* the channel still retains a snapshot of that state: none of a lag, a cut, a
\* reconnection, a welcome overtaken by commands and a restart of the server
\* with its revision at zero (ws_route, on_open, on_text) makes it miss the
\* last word or keep an older one.
THEOREM LastWordReaches == Spec => []LastWordArrives
  <1>1. ASSUME FeedInv, NEW c \in Clients,
               page[c].open, conn[c].pc = "loop", conn[c].behind = 0, wire[c] = <<>>,
               \E i \in DOMAIN ring : ring[i].kind = "state" /\ ring[i].val = hub.val
        PROVE  page[c].view = hub.val
    <2>1. ring \in Seq(Messages)
      BY <1>1 DEF FeedInv, FeedTypes
    <2>2. \E i \in 1..Len(ring) : Current(ring[i])
      BY <1>1, <2>1 DEF Current
    <2>3. Coming(c)
      BY <1>1 DEF FeedInv, LastWordComes
    <2>4. \A i \in 1..Len(ring) : ~ (i + conn[c].behind > Len(ring))
      BY <1>1, <2>1
    <2>5. ~ \E i \in 1..Len(wire[c]) : Current(wire[c][i])
      BY <1>1
    <2> QED BY <2>2, <2>3, <2>4, <2>5 DEF Coming, Shows
  <1>2. FeedInv => LastWordArrives
    BY <1>1 DEF LastWordArrives
  <1> QED BY <1>2, FeedHolds, PTL

-----------------------------------------------------------------------------
(* Shared state and its mirrors. *)

Ages == 0..MaxAge
Ops == {"start", "stop", "tune", "mute", "off", "setvrx", "gain", "other"}
CommandPcs == {"sent", "start", "stop", "tune", "gain", "mute", "off", "halt"}
HeldPcs == {"connect", "lna", "apply", "activate", "inplace", "remove", "spawn", "respawn"}

\* The tasks of the server, by what they hold.
Commands == [op : Ops, slot : Slots, sound : Receiver, pc : CommandPcs]
Rebinds == [pc : {"rebind"}, slot : Slots]
Inserts == [pc : {"insert"}, slot : Slots, sound : Receiver]
Requests == [pc : {"state0"}, op : {"start", "tune", "gain", "setvrx"}, slot : Slots, age : Ages]
Reads == [pc : {"read"}, age : Ages]
Helds == [pc : HeldPcs, slot : Slots, age : Ages, state : State]
Answers == [pc : {"send"}, age : Ages, state : State]
ServerTasks == Commands \union Rebinds \union Inserts \union Requests \union Reads \union Helds \union Answers

Words == [age : Ages, state : State]
Pages == [last : Ages, started : BOOLEAN, prev : BOOLEAN, local : BOOLEAN,
          vrx : [Slots -> Receiver], slot : Slots, muted : [Slots -> BOOLEAN]]

Under == BagToSet(tasks)

SyncTypes ==
    /\ radio \in HubStates
    /\ IsABag(tasks)
    /\ Under \subseteq ServerTasks
    /\ chan \in [Browsers -> Seq(Words)]
    /\ ui \in [Browsers -> Pages]
    /\ since \in Ages
    /\ untold \in BOOLEAN

-----------------------------------------------------------------------------
(* The bag of tasks. *)

LEMMA Joined ==
    ASSUME NEW b, IsABag(b), NEW S
    PROVE  IsABag(b (+) SetToBag(S)) /\ DOMAIN (b (+) SetToBag(S)) = DOMAIN b \union S
  BY DEF BagToSet, SetToBag, (+), IsABag

LEMMA Spawned ==
    ASSUME IsABag(tasks), NEW S, Send(S)
    PROVE  Under' = Under \union S /\ IsABag(tasks')
  BY Joined DEF Send, BagToSet, Under

LEMMA Moved ==
    ASSUME IsABag(tasks), NEW t \in Under, NEW u, tasks' = BagAdd(BagRemove(tasks, t), u)
    PROVE  /\ Under' \subseteq Under \union {u} /\ (Under \ {t}) \union {u} \subseteq Under'
           /\ IsABag(tasks')
PROOF
  <1>1. PICK b : b = BagRemove(tasks, t)
    OBVIOUS
  <1>2. IsABag(b) /\ DOMAIN b \subseteq Under /\ Under \ {t} \subseteq DOMAIN b
    BY <1>1 DEF BagRemove, IsABag, Under, BagToSet
  <1>3. tasks' = BagAdd(b, u)
    BY <1>1
  <1>4. IsABag(tasks') /\ DOMAIN tasks' = DOMAIN b \union {u}
    BY <1>2, <1>3 DEF BagAdd, IsABag
  <1> QED BY <1>2, <1>4 DEF Under, BagToSet

LEMMA Finished ==
    ASSUME IsABag(tasks), NEW t \in Under, tasks' = BagRemove(tasks, t)
    PROVE  /\ Under' \subseteq Under /\ Under \ {t} \subseteq Under'
           /\ IsABag(tasks')
  BY DEF BagRemove, IsABag, Under, BagToSet

\* Which tasks hold a stamp.
LEMMA Kinds ==
    ASSUME NEW t \in ServerTasks
    PROVE  /\ t.pc \in CommandPcs => t \in Commands
           /\ t.pc = "rebind" => t \in Rebinds
           /\ t.pc = "insert" => t \in Inserts
           /\ t.pc = "state0" => t \in Requests
           /\ t.pc = "read" => t \in Reads
           /\ t.pc \in HeldPcs => t \in Helds
           /\ t.pc = "send" => t \in Answers
           /\ Holds(t) <=> t \in Requests \union Reads \union Helds \union Answers
           /\ Holds(t) => t.age \in Ages
PROOF
  <1> USE DEF ServerTasks, Commands, Rebinds, Inserts, Requests, Reads, Helds, Answers, Holds, CommandPcs, HeldPcs
  <1>1. CASE t \in Commands
    BY <1>1
  <1>2. CASE t \in Rebinds
    BY <1>2
  <1>3. CASE t \in Inserts
    BY <1>3
  <1>4. CASE t \in Requests
    BY <1>4
  <1>5. CASE t \in Reads
    BY <1>5
  <1>6. CASE t \in Helds
    BY <1>6
  <1>7. CASE t \in Answers
    BY <1>7
  <1> QED BY <1>1, <1>2, <1>3, <1>4, <1>5, <1>6, <1>7

LEMMA MakeCommand ==
    ASSUME NEW op \in Ops, NEW s \in Slots, NEW sound \in Receiver
    PROVE  ClientCmd(op, s, sound) \in ServerTasks /\ ~Holds(ClientCmd(op, s, sound))
  BY DEF ClientCmd, ServerTasks, Commands, CommandPcs, Holds

LEMMA Loaded ==
    ASSUME Sizes
    PROVE  /\ 0 \in Ages
           /\ [pc |-> "read", age |-> 0] \in ServerTasks /\ Holds([pc |-> "read", age |-> 0])
           /\ \A op \in {"start", "tune", "gain", "setvrx"}, s \in Slots :
                 LET u == [pc |-> "state0", op |-> op, slot |-> s, age |-> 0]
                 IN  u \in ServerTasks /\ Holds(u)
  BY DEF Sizes, Ages, ServerTasks, Reads, Requests, Holds

-----------------------------------------------------------------------------
(* A step of a task, by what it does to the stamps. *)

\* Task t goes on as u.  A stamp that u holds is the one t held or new.  Where
\* what the pages show changes, u has no stamp, a new one, or a receiver to
\* rebuild; or the change is given up as hidden.
Goes(t, u) ==
    /\ tasks' = BagAdd(BagRemove(tasks, t), u) /\ u \in ServerTasks
    /\ UNCHANGED <<chan, ui>>
    /\ radio' \in HubStates /\ since' \in Ages /\ untold' \in BOOLEAN
    /\ ~Holds(u) \/ u.age = 0 \/ (Holds(t) /\ u.age = t.age)
    /\ \/ untold'
       \/ ~Holds(u) \/ u.age = 0 \/ u.pc = "respawn"
       \/ /\ Holds(t) /\ u.age = t.age /\ t.pc # "respawn"
          /\ UNCHANGED <<since, untold>> /\ Picture(radio)' = Picture(radio)

\* Task t ends with the message m.
Says(t, m) ==
    /\ BroadcastState(t, m) /\ m \in Words
    /\ UNCHANGED <<radio, ui, since>>
    /\ Holds(t) /\ m.age = t.age /\ t.pc # "respawn"
    /\ untold' \in BOOLEAN /\ (untold => untold')
    /\ untold' \/ Picture(m.state) = Picture(radio) \/ m.age > since

Steps(t) == (\E u : Goes(t, u)) \/ (\E m : Says(t, m))

LEMMA SharedState ==
    ASSUME radio \in HubStates
    PROVE  Shared \in State
  BY DEF HubStates, Shared, State

LEMMA GotoGoes ==
    ASSUME Sizes, SyncTypes, NEW t, NEW u \in ServerTasks, Goto(t, u),
           UNCHANGED <<chan, ui>>, radio' \in HubStates,
           \/ ~Holds(u) \/ u.age = 0
           \/ /\ Holds(t) /\ u.age = t.age
              /\ u.pc = "respawn" \/ (t.pc # "respawn" /\ Picture(radio)' = Picture(radio))
    PROVE  Steps(t)
PROOF
  <1>1. since' \in Ages /\ untold' \in BOOLEAN
    BY Loaded DEF Goto, history, SyncTypes
  <1>2. Picture(radio)' = Picture(radio) => UNCHANGED <<since, untold>>
    BY DEF Goto, history, Picture
  <1>3. tasks' = BagAdd(BagRemove(tasks, t), u)
    BY DEF Goto
  <1>4. Goes(t, u)
    BY <1>1, <1>2, <1>3 DEF Goes
  <1> QED BY <1>4 DEF Steps

\* It goes on and loads a stamp.
LEMMA RespondStep ==
    ASSUME Sizes, SyncTypes, NEW t, Respond(t), UNCHANGED <<chan, ui>>, radio' \in HubStates
    PROVE  Steps(t)
PROOF
  <1>1. PICK u : u = [pc |-> "read", age |-> 0]
    OBVIOUS
  <1>2. Goto(t, u) /\ u \in ServerTasks /\ u.age = 0
    BY <1>1, Loaded DEF Respond
  <1> QED BY <1>2, GotoGoes

\* It goes on to send a snapshot.
LEMMA AnswerStep ==
    ASSUME Sizes, SyncTypes, NEW t, NEW age \in Ages, NEW state \in State, Answer(t, age, state),
           UNCHANGED <<chan, ui>>, radio' \in HubStates, Picture(radio)' = Picture(radio),
           age = 0 \/ (Holds(t) /\ age = t.age /\ t.pc # "respawn")
    PROVE  Steps(t)
PROOF
  <1>1. PICK u : u = [pc |-> "send", age |-> age, state |-> state]
    OBVIOUS
  <1>2. Goto(t, u) /\ u \in ServerTasks /\ u.age = age
    BY <1>1 DEF Answer, ServerTasks, Answers
  <1> QED BY <1>2, GotoGoes

\* It fails.
LEMMA FailStep ==
    ASSUME Sizes, SyncTypes, NEW t \in Helds, Fail(t),
           UNCHANGED <<chan, ui>>, radio' \in HubStates, Picture(radio)' = Picture(radio), t.pc # "respawn"
    PROVE  Steps(t)
PROOF
  <1>1. t.age \in Ages /\ t.state \in State /\ Holds(t)
    BY DEF Helds, Holds
  <1> QED BY <1>1, AnswerStep DEF Fail

-----------------------------------------------------------------------------
(* Every step of a task but its first. *)

LEMMA CheckSteps ==
    ASSUME Sizes, SyncTypes, NEW t \in Under,
           StartCheck(t) \/ RadioCheck(t) \/ StopCheck(t) \/ Snapshot0(t) \/ Read(t)
    PROVE  Steps(t)
PROOF
  <1> USE DEF At
  <1>0. t \in ServerTasks /\ radio \in HubStates
    BY DEF SyncTypes
  <1>1. UNCHANGED <<chan, ui>> /\ radio' \in HubStates /\ Picture(radio)' = Picture(radio)
    BY <1>0 DEF StartCheck, RadioCheck, StopCheck, Snapshot0, Read, Picture
  <1>2. Shared \in State
    BY <1>0, SharedState
  <1>3. CASE StartCheck(t)
    <2>1. t \in Commands
      BY <1>0, <1>3, Kinds DEF StartCheck, CommandPcs
    <2>2. CASE radio.started
      BY <1>1, <1>2, <1>3, <2>2, Loaded, AnswerStep DEF StartCheck
    <2>3. CASE ~radio.started
      <3>1. PICK u : u = [pc |-> "state0", op |-> "start", slot |-> t.slot, age |-> 0]
        OBVIOUS
      <3>2. u \in ServerTasks /\ u.age = 0
        BY <2>1, <3>1, Loaded DEF Commands
      <3>3. Goto(t, u)
        BY <1>3, <2>3, <3>1 DEF StartCheck
      <3> QED BY <1>1, <3>2, <3>3, GotoGoes
    <2> QED BY <2>2, <2>3
  <1>4. CASE RadioCheck(t)
    <2>1. t \in Commands /\ t.pc \in {"tune", "gain"}
      BY <1>0, <1>4, Kinds DEF RadioCheck, CommandPcs
    <2>2. CASE radio.started
      <3>1. PICK u : u = [pc |-> "state0", op |-> t.pc, slot |-> t.slot, age |-> 0]
        OBVIOUS
      <3>2. u \in ServerTasks /\ u.age = 0
        BY <2>1, <3>1, Loaded DEF Commands
      <3>3. Goto(t, u)
        BY <1>4, <2>2, <3>1 DEF RadioCheck
      <3> QED BY <1>1, <3>2, <3>3, GotoGoes
    <2>3. CASE ~radio.started
      BY <1>1, <1>4, <2>3, RespondStep DEF RadioCheck
    <2> QED BY <2>2, <2>3
  <1>5. CASE StopCheck(t)
    <2>1. t \in Commands
      BY <1>0, <1>5, Kinds DEF StopCheck, CommandPcs
    <2>2. CASE radio.started
      <3>1. PICK u : u = [t EXCEPT !.pc = "halt"]
        OBVIOUS
      <3>2. u \in Commands
        BY <2>1, <3>1 DEF Commands, CommandPcs
      <3>3. u \in ServerTasks /\ ~Holds(u)
        BY <3>2 DEF ServerTasks, Commands, Holds
      <3>4. Goto(t, u)
        BY <1>5, <2>2, <3>1 DEF StopCheck, GotoPc
      <3> QED BY <1>1, <3>3, <3>4, GotoGoes
    <2>3. CASE ~radio.started
      BY <1>1, <1>5, <2>3, RespondStep DEF StopCheck
    <2> QED BY <2>2, <2>3
  <1>6. CASE Snapshot0(t)
    <2>1. t \in Requests /\ Holds(t) /\ t.age \in Ages /\ t.slot \in Slots /\ t.pc = "state0"
      BY <1>0, <1>6, Kinds DEF Snapshot0, Requests
    <2>2. t.op \in {"start", "tune", "gain", "setvrx"}
      BY <2>1 DEF Requests
    <2>3. Work(t) = "send" \/ Work(t) \in HeldPcs \ {"respawn"}
      BY <2>2 DEF Work, HeldPcs
    <2>4. CASE Work(t) = "send"
      BY <1>1, <1>2, <1>6, <2>1, <2>4, AnswerStep DEF Snapshot0
    <2>5. CASE Work(t) # "send"
      <3>1. PICK u : u = [pc |-> Work(t), slot |-> t.slot, age |-> t.age, state |-> Shared]
        OBVIOUS
      <3>2. u \in ServerTasks /\ u.age = t.age
        BY <1>2, <2>1, <2>3, <2>5, <3>1 DEF ServerTasks, Helds
      <3>3. Goto(t, u)
        BY <1>6, <2>5, <3>1 DEF Snapshot0
      <3> QED BY <1>1, <2>1, <3>2, <3>3, GotoGoes
    <2> QED BY <2>4, <2>5
  <1>7. CASE Read(t)
    <2>1. Holds(t) /\ t.age \in Ages /\ t.pc = "read"
      BY <1>0, <1>7, Kinds DEF Read
    <2> QED BY <1>1, <1>2, <1>7, <2>1, AnswerStep DEF Read
  <1> QED BY <1>3, <1>4, <1>5, <1>6, <1>7

LEMMA RebuildSteps ==
    ASSUME Sizes, SyncTypes, NEW t \in Under,
           InPlace(t) \/ Remove(t) \/ Spawn(t) \/ SpawnFails(t) \/ Rebind(t) \/ Insert(t)
    PROVE  Steps(t)
PROOF
  <1> USE DEF At
  <1>0. t \in ServerTasks /\ radio \in HubStates
    BY DEF SyncTypes
  <1>1. UNCHANGED <<chan, ui>>
    BY DEF InPlace, Remove, Spawn, SpawnFails, Rebind, Insert
  <1>2. ASSUME t.pc \in {"inplace", "remove", "spawn", "respawn"}
        PROVE  t \in Helds /\ t.slot \in Slots /\ t.age \in Ages /\ t.state \in State /\ Holds(t)
    BY <1>0, <1>2, Kinds DEF Helds, HeldPcs, Holds
  <1>3. CASE InPlace(t)
    <2>1. t \in Helds /\ Holds(t) /\ t.pc = "inplace" /\ UNCHANGED radio
      BY <1>2, <1>3 DEF InPlace
    <2>2. CASE Respond(t)
      BY <1>0, <1>1, <2>1, <2>2, RespondStep
    <2>3. CASE GotoPc(t, "remove")
      <3>1. PICK u : u = [t EXCEPT !.pc = "remove"]
        OBVIOUS
      <3>2. u \in ServerTasks /\ u.age = t.age
        BY <2>1, <3>1 DEF ServerTasks, Helds, HeldPcs
      <3>3. Goto(t, u)
        BY <2>3, <3>1 DEF GotoPc
      <3>4. Picture(radio)' = Picture(radio)
        BY <2>1 DEF Picture
      <3> QED BY <1>0, <1>1, <2>1, <3>2, <3>3, <3>4, GotoGoes
    <2> QED BY <1>3, <2>2, <2>3 DEF InPlace
  <1>4. CASE Remove(t)
    <2>1. t \in Helds /\ t.slot \in Slots /\ Holds(t) /\ t.pc = "remove"
      BY <1>2, <1>4 DEF Remove
    <2>2. radio' \in HubStates
      BY <1>0, <1>4, <2>1 DEF Remove, HubStates, Receiver
    <2>3. PICK pc : pc = IF radio.vrx[t.slot] = "off" THEN "spawn" ELSE "respawn"
      OBVIOUS
    <2>4. PICK u : u = [t EXCEPT !.pc = pc]
      OBVIOUS
    <2>5. u \in ServerTasks /\ u.age = t.age /\ u.pc = pc
      BY <2>1, <2>3, <2>4 DEF ServerTasks, Helds, HeldPcs
    <2>6. Goto(t, u)
      BY <1>4, <2>3, <2>4 DEF Remove, GotoPc
    <2>7. radio.vrx[t.slot] = "off" => Picture(radio)' = Picture(radio)
      BY <1>0, <1>4, <2>1 DEF Remove, HubStates, Picture
    <2> QED BY <1>1, <2>1, <2>2, <2>3, <2>5, <2>6, <2>7, GotoGoes
  <1>5. CASE Spawn(t)
    <2>1. t.slot \in Slots /\ Respond(t)
      BY <1>2, <1>5 DEF Spawn
    <2>2. radio' \in HubStates
      BY <1>0, <1>5, <2>1 DEF Spawn, HubStates, Receiver
    <2> QED BY <1>1, <2>1, <2>2, RespondStep
  <1>6. CASE SpawnFails(t)
    <2>1. /\ t \in Helds /\ t.age \in Ages /\ t.state \in State /\ Holds(t)
          /\ t.pc \in {"spawn", "respawn"} /\ UNCHANGED <<radio, since>>
          /\ untold' = (untold \/ t.pc = "respawn")
      BY <1>2, <1>6 DEF SpawnFails
    <2>2. PICK u : u = [pc |-> "send", age |-> t.age, state |-> t.state]
      OBVIOUS
    <2>3. u \in ServerTasks /\ u.age = t.age
      BY <2>1, <2>2 DEF ServerTasks, Answers
    <2>4. tasks' = BagAdd(BagRemove(tasks, t), u)
      BY <1>6, <2>2 DEF SpawnFails
    <2>5. since' \in Ages /\ untold' \in BOOLEAN /\ Picture(radio)' = Picture(radio)
      BY <2>1 DEF SyncTypes, Picture
    <2>6. untold' \/ (t.pc # "respawn" /\ untold' = untold)
      BY <2>1 DEF SyncTypes
    <2>7. Goes(t, u)
      BY <1>0, <1>1, <2>1, <2>3, <2>4, <2>5, <2>6 DEF Goes
    <2> QED BY <2>7 DEF Steps
  <1>7. CASE Rebind(t)
    <2>1. t \in Rebinds /\ t.slot \in Slots
      BY <1>0, <1>7, Kinds DEF Rebind, Rebinds
    <2>2. radio' \in HubStates
      BY <1>0, <1>7, <2>1 DEF Rebind, HubStates, Receiver
    <2>3. CASE radio.vrx[t.slot] = "off"
      BY <1>1, <1>7, <2>2, <2>3, RespondStep DEF Rebind
    <2>4. CASE radio.vrx[t.slot] # "off"
      <3>1. PICK u : u = [pc |-> "insert", slot |-> t.slot, sound |-> radio.vrx[t.slot]]
        OBVIOUS
      <3>2. u \in ServerTasks /\ ~Holds(u)
        BY <1>0, <2>1, <3>1 DEF Inserts, ServerTasks, Holds, HubStates
      <3>3. Goto(t, u)
        BY <1>7, <2>4, <3>1 DEF Rebind
      <3> QED BY <1>1, <2>2, <3>2, <3>3, GotoGoes
    <2> QED BY <2>3, <2>4
  <1>8. CASE Insert(t)
    <2>1. t \in Inserts /\ t.slot \in Slots /\ t.sound \in Receiver /\ Respond(t)
      BY <1>0, <1>8, Kinds DEF Insert, Inserts
    <2>2. PICK sound \in {t.sound, "off"} : radio' = IF sound = "off" THEN radio ELSE [radio EXCEPT !.vrx[t.slot] = sound]
      BY <1>8 DEF Insert
    <2>3. radio' \in HubStates
      BY <1>0, <2>1, <2>2 DEF HubStates
    <2> QED BY <1>1, <2>1, <2>3, RespondStep
  <1> QED BY <1>3, <1>4, <1>5, <1>6, <1>7, <1>8

LEMMA CommandSteps ==
    ASSUME Sizes, SyncTypes, NEW t \in Under,
           SetVrxMute(t) \/ SetVrxOff(t) \/ StopMark(t)
    PROVE  Steps(t)
PROOF
  <1> USE DEF At
  <1>0. t \in ServerTasks /\ radio \in HubStates
    BY DEF SyncTypes
  <1>1. t.slot \in Slots /\ t.sound \in Receiver /\ UNCHANGED <<chan, ui>> /\ Respond(t)
    <2>1. t.pc \in {"mute", "off", "halt"} /\ UNCHANGED <<chan, ui>> /\ Respond(t)
      BY DEF SetVrxMute, SetVrxOff, StopMark
    <2>2. t \in Commands
      BY <1>0, <2>1, Kinds DEF CommandPcs
    <2> QED BY <2>1, <2>2 DEF Commands
  <1>2. CASE SetVrxMute(t)
    <2>1. radio' \in HubStates
      BY <1>0, <1>1, <1>2 DEF SetVrxMute, HubStates
    <2> QED BY <1>1, <2>1, RespondStep
  <1>3. CASE SetVrxOff(t)
    <2>1. radio' \in HubStates
      BY <1>0, <1>1, <1>3 DEF SetVrxOff, HubStates, Receiver
    <2> QED BY <1>1, <2>1, RespondStep
  <1>4. CASE StopMark(t)
    <2>1. radio' \in HubStates
      BY <1>0, <1>1, <1>4 DEF StopMark, AllOff, HubStates, Receiver
    <2> QED BY <1>1, <2>1, RespondStep
  <1> QED BY <1>2, <1>3, <1>4

LEMMA WorkSteps ==
    ASSUME Sizes, SyncTypes, NEW t \in Under,
           TuneApply(t) \/ TuneFails(t) \/ GainWorks(t) \/ ConnectWorks(t) \/ SettingFails(t)
    PROVE  Steps(t)
PROOF
  <1> USE DEF At
  <1>0. t \in ServerTasks /\ radio \in HubStates
    BY DEF SyncTypes
  <1>1. t \in Helds /\ t.slot \in Slots /\ t.pc # "respawn" /\ UNCHANGED <<chan, ui>>
    <2>1. t.pc \in {"apply", "activate", "connect", "lna"} /\ UNCHANGED <<chan, ui>>
      BY DEF TuneApply, TuneFails, GainWorks, ConnectWorks, SettingFails
    <2>2. t \in Helds
      BY <1>0, <2>1, Kinds DEF HeldPcs
    <2> QED BY <2>1, <2>2 DEF Helds
  <1>2. CASE TuneApply(t)
    <2>1. radio' \in HubStates
      BY <1>0, <1>1, <1>2 DEF TuneApply, HubStates
    <2>2. CASE t.pc = "apply"
      BY <1>1, <1>2, <2>1, <2>2, RespondStep DEF TuneApply
    <2>3. CASE t.pc # "apply"
      <3>1. PICK u : u = [pc |-> "rebind", slot |-> t.slot]
        OBVIOUS
      <3>2. u \in ServerTasks /\ ~Holds(u)
        BY <1>1, <3>1 DEF Rebinds, ServerTasks, Holds
      <3>3. Goto(t, u)
        BY <1>2, <2>3, <3>1 DEF TuneApply
      <3> QED BY <1>1, <2>1, <3>2, <3>3, GotoGoes
    <2> QED BY <2>2, <2>3
  <1>3. CASE TuneFails(t)
    <2>1. radio' \in HubStates /\ Picture(radio)' = Picture(radio)
      BY <1>0, <1>1, <1>3 DEF TuneFails, HubStates, Picture
    <2> QED BY <1>1, <1>3, <2>1, FailStep DEF TuneFails
  <1>4. CASE GainWorks(t)
    BY <1>0, <1>1, <1>4, RespondStep DEF GainWorks
  <1>5. CASE ConnectWorks(t)
    <2>1. radio' \in HubStates
      BY <1>5 DEF ConnectWorks, HubStates, AllOff, Receiver, Sizes
    <2> QED BY <1>1, <1>5, <2>1, RespondStep DEF ConnectWorks
  <1>6. CASE SettingFails(t)
    <2>1. radio' \in HubStates /\ Picture(radio)' = Picture(radio)
      BY <1>0, <1>6 DEF SettingFails, Picture
    <2> QED BY <1>1, <1>6, <2>1, FailStep DEF SettingFails
  <1> QED BY <1>2, <1>3, <1>4, <1>5, <1>6

LEMMA SentSteps ==
    ASSUME Sizes, SyncTypes, NEW t \in Under, Sent(t)
    PROVE  Steps(t)
PROOF
  <1>1. t \in Answers /\ Holds(t) /\ t.age \in Ages /\ t.pc = "send"
    BY Kinds DEF Sent, At, SyncTypes
  <1>2. PICK m : m = [age |-> t.age, state |-> t.state]
    OBVIOUS
  <1>3. m \in Words /\ m.age = t.age /\ m.state = t.state
    BY <1>1, <1>2 DEF Words, Answers
  <1>4. BroadcastState(t, m)
    BY <1>2 DEF Sent
  <1>5. /\ untold' = (untold \/ (Picture(m.state) # Picture(radio) /\ m.age <= since))
        /\ UNCHANGED <<radio, ui, since>>
    BY <1>3 DEF Sent
  <1>6. m.age \in Nat /\ since \in Nat
    BY <1>1, <1>3 DEF SyncTypes, Ages, Sizes
  <1>7. /\ untold' \in BOOLEAN /\ (untold => untold')
        /\ untold' \/ Picture(m.state) = Picture(radio) \/ m.age > since
    <2>1. CASE untold
      <3>1. untold' = TRUE
        BY <1>5, <2>1
      <3> QED BY <3>1
    <2>2. CASE ~untold
      <3>1. untold' = (Picture(m.state) # Picture(radio) /\ m.age <= since)
        BY <1>5, <2>2
      <3>2. CASE Picture(m.state) # Picture(radio) /\ m.age <= since
        BY <3>1, <3>2, <2>2
      <3>3. CASE Picture(m.state) = Picture(radio)
        BY <3>1, <3>3, <2>2
      <3>4. CASE m.age > since
        <4>1. ~(m.age <= since)
          BY <1>6, <3>4
        <4> QED BY <3>1, <3>4, <4>1, <2>2
      <3> QED BY <1>6, <3>2, <3>3, <3>4
    <2> QED BY <2>1, <2>2
  <1>8. Says(t, m)
    BY <1>1, <1>3, <1>4, <1>5, <1>7 DEF Says
  <1> QED BY <1>8 DEF Steps

LEMMA ServeSteps ==
    ASSUME Sizes, SyncTypes, NEW t \in Under, Serve(t)
    PROVE  Begin(t) \/ Steps(t)
  BY CheckSteps, RebuildSteps, CommandSteps, WorkSteps, SentSteps DEF Serve

-----------------------------------------------------------------------------
(* The types. *)

LEMMA AgedTask ==
    ASSUME Sizes, NEW t \in ServerTasks, Holds(t) => t.age < MaxAge
    PROVE  Aged(t) \in ServerTasks /\ Younger(Aged(t)) = t
PROOF
  <1>0. MaxAge \in Nat
    BY DEF Sizes
  <1>1. CASE ~Holds(t)
    BY <1>1 DEF Aged, Younger
  <1>2. CASE Holds(t)
    <2>1. PICK u : u = [t EXCEPT !.age = @ + 1]
      OBVIOUS
    <2>2. Aged(t) = u /\ t.age \in Ages /\ t \in Requests \union Reads \union Helds \union Answers
      BY <1>2, <2>1, Kinds DEF Aged
    <2>3. t.age + 1 \in Ages
      BY <1>0, <1>2, <2>2 DEF Ages
    <2>4. u \in ServerTasks /\ Holds(u)
      BY <2>1, <2>2, <2>3 DEF ServerTasks, Requests, Reads, Helds, Answers, Holds
    <2>5. Younger(u) = t
      <3>1. Younger(u) = [u EXCEPT !.age = @ - 1]
        BY <2>4 DEF Younger
      <3>2. PICK n \in Nat : n = t.age
        BY <1>0, <2>2 DEF Ages
      <3>3. CASE t \in Requests
        <4>1. t = [pc |-> t.pc, op |-> t.op, slot |-> t.slot, age |-> n]
          BY <3>2, <3>3 DEF Requests
        <4>2. u = [pc |-> t.pc, op |-> t.op, slot |-> t.slot, age |-> n + 1]
          BY <2>1, <4>1
        <4>3. Younger(u) = [pc |-> t.pc, op |-> t.op, slot |-> t.slot, age |-> n]
          BY <3>1, <3>2, <4>2
        <4> QED BY <4>1, <4>3
      <3>4. CASE t \in Reads
        <4>1. t = [pc |-> t.pc, age |-> n]
          BY <3>2, <3>4 DEF Reads
        <4>2. u = [pc |-> t.pc, age |-> n + 1]
          BY <2>1, <4>1
        <4>3. Younger(u) = [pc |-> t.pc, age |-> n]
          BY <3>1, <3>2, <4>2
        <4> QED BY <4>1, <4>3
      <3>5. CASE t \in Answers
        <4>1. t = [pc |-> t.pc, age |-> n, state |-> t.state]
          BY <3>2, <3>5 DEF Answers
        <4>2. u = [pc |-> t.pc, age |-> n + 1, state |-> t.state]
          BY <2>1, <4>1
        <4>3. Younger(u) = [pc |-> t.pc, age |-> n, state |-> t.state]
          BY <3>1, <3>2, <4>2
        <4> QED BY <4>1, <4>3
      <3>6. CASE t \in Helds
        <4>1. t = [pc |-> t.pc, slot |-> t.slot, age |-> n, state |-> t.state]
          BY <3>2, <3>6 DEF Helds
        <4>2. u = [pc |-> t.pc, slot |-> t.slot, age |-> n + 1, state |-> t.state]
          BY <2>1, <4>1
        <4>3. Younger(u) = [pc |-> t.pc, slot |-> t.slot, age |-> n, state |-> t.state]
          BY <3>1, <3>2, <4>2
        <4> QED BY <4>1, <4>3
      <3> QED BY <2>2, <3>3, <3>4, <3>5, <3>6
    <2> QED BY <2>2, <2>4, <2>5
  <1> QED BY <1>1, <1>2

LEMMA AgedBag ==
    ASSUME Sizes, NEW b, IsABag(b), DOMAIN b \subseteq ServerTasks,
           \A t \in DOMAIN b : Holds(t) => t.age < MaxAge
    PROVE  IsABag(AgedTasks(b)) /\ DOMAIN AgedTasks(b) \subseteq ServerTasks
PROOF
  <1>1. \A t \in DOMAIN b : Aged(t) \in ServerTasks /\ Younger(Aged(t)) = t
    BY AgedTask
  <1>2. AgedTasks(b) = [u \in {Aged(t) : t \in DOMAIN b} |-> b[Younger(u)]]
    BY DEF AgedTasks, BagToSet
  <1>3. \A u \in {Aged(t) : t \in DOMAIN b} : u \in ServerTasks /\ Younger(u) \in DOMAIN b
    BY <1>1
  <1>4. \A t \in DOMAIN b : b[t] \in {n \in Nat : n > 0}
    BY DEF IsABag
  <1>5. \A u \in {Aged(t) : t \in DOMAIN b} : b[Younger(u)] \in {n \in Nat : n > 0}
    BY <1>3, <1>4
  <1>6. AgedTasks(b) \in [{Aged(t) : t \in DOMAIN b} -> {n \in Nat : n > 0}]
    BY <1>2, <1>5
  <1> QED BY <1>3, <1>6 DEF IsABag

LEMMA AgedWord ==
    ASSUME Sizes, NEW m \in Words, m.age < MaxAge
    PROVE  Aged(m) \in Words
PROOF
  <1>1. Holds(m) /\ m.age + 1 \in Ages
    BY DEF Sizes, Words, Ages, Holds
  <1> QED BY <1>1 DEF Aged, Words

\* What a task holds when it has begun.
Begun(t) ==
    CASE t.op = "setvrx" -> [pc |-> "state0", op |-> "setvrx", slot |-> t.slot, age |-> 0]
      [] t.op = "other"  -> [pc |-> "read", age |-> 0]
      [] OTHER           -> [t EXCEPT !.pc = t.op]

LEMMA BegunTask ==
    ASSUME Sizes, NEW t \in Commands
    PROVE  Begun(t) \in ServerTasks /\ (Holds(Begun(t)) => Begun(t).age = 0)
PROOF
  <1>0. 0 \in Ages
    BY DEF Sizes, Ages
  <1>1. CASE t.op = "setvrx"
    <2>1. Begun(t) = [pc |-> "state0", op |-> "setvrx", slot |-> t.slot, age |-> 0]
      BY <1>1 DEF Begun
    <2> QED BY <1>0, <2>1 DEF ServerTasks, Requests, Commands
  <1>2. CASE t.op = "other"
    <2>1. Begun(t) = [pc |-> "read", age |-> 0]
      BY <1>2 DEF Begun
    <2> QED BY <1>0, <2>1 DEF ServerTasks, Reads
  <1>3. CASE t.op \notin {"setvrx", "other"}
    <2>1. Begun(t) = [t EXCEPT !.pc = t.op]
      BY <1>3 DEF Begun
    <2>2. Begun(t) \in Commands
      BY <1>3, <2>1 DEF Commands, CommandPcs, Ops
    <2> QED BY <2>2 DEF ServerTasks, Commands, Holds
  <1> QED BY <1>1, <1>2, <1>3

\* A task that has yet to load its stamp, or that has just loaded it.
Heralded == \E t \in Under : Holds(t) => t.age = 0

LEMMA BeginStep ==
    ASSUME Sizes, SyncTypes, NEW t \in Under, Begin(t)
    PROVE  SyncTypes' /\ Heralded'
PROOF
  <1>0. /\ t \in Commands /\ UNCHANGED radio
        /\ since' \in Ages /\ untold' \in BOOLEAN
    <2>1. t \in Commands
      BY Kinds DEF Begin, At, SyncTypes, CommandPcs
    <2>2. since' = (IF since = MaxAge THEN since ELSE since + 1) /\ UNCHANGED <<radio, untold>>
      BY DEF Begin
    <2> QED BY <2>1, <2>2 DEF SyncTypes, Ages, Sizes
  <1>1. PICK b : b = BagRemove(tasks, t)
    OBVIOUS
  <1>2. IsABag(b) /\ DOMAIN b \subseteq Under
    BY <1>1 DEF BagRemove, IsABag, Under, BagToSet, SyncTypes
  <1>3. \A x \in DOMAIN b : x \in ServerTasks /\ (Holds(x) => x.age < MaxAge)
    BY <1>2 DEF Begin, Stamps, Under, SyncTypes
  <1>4. PICK a : a = AgedTasks(b)
    OBVIOUS
  <1>5. IsABag(a) /\ DOMAIN a \subseteq ServerTasks
    BY <1>2, <1>3, <1>4, AgedBag
  <1>6. PICK u : u = Begun(t)
    OBVIOUS
  <1>7. u \in ServerTasks /\ (Holds(u) => u.age = 0)
    BY <1>0, <1>6, BegunTask
  <1>8. tasks' = BagAdd(a, u)
    BY <1>1, <1>4, <1>6 DEF Begin, Begun
  <1>9. IsABag(tasks') /\ DOMAIN tasks' = DOMAIN a \union {u}
    BY <1>5, <1>8 DEF BagAdd, IsABag
  <1>10. Under' \subseteq ServerTasks /\ u \in Under'
    BY <1>5, <1>7, <1>9 DEF Under, BagToSet
  <1>11. chan' \in [Browsers -> Seq(Words)]
    <2>1. chan' = [c \in Browsers |-> [i \in DOMAIN chan[c] |-> Aged(chan[c][i])]]
      BY DEF Begin
    <2>2. ASSUME NEW c \in Browsers
          PROVE  [i \in DOMAIN chan[c] |-> Aged(chan[c][i])] \in Seq(Words)
      <3>1. chan[c] \in Seq(Words)
        BY DEF SyncTypes
      <3>2. ASSUME NEW i \in DOMAIN chan[c]
            PROVE  Aged(chan[c][i]) \in Words
        <4>1. chan[c][i] \in Words
          BY <3>1, <3>2
        <4>2. chan[c][i] \in Stamps
          BY DEF Stamps, Range
        <4>3. chan[c][i].age < MaxAge
          BY <4>2 DEF Begin
        <4> QED BY <4>1, <4>3, AgedWord
      <3> QED BY <3>1, <3>2
    <2> QED BY <2>1, <2>2
  <1>12. ui' \in [Browsers -> Pages]
    <2>1. ui' = [c \in Browsers |-> [ui[c] EXCEPT !.last = IF @ = MaxAge THEN @ ELSE @ + 1]]
      BY DEF Begin
    <2>2. ASSUME NEW c \in Browsers
          PROVE  [ui[c] EXCEPT !.last = IF @ = MaxAge THEN @ ELSE @ + 1] \in Pages
      <3>1. ui[c] \in Pages
        BY DEF SyncTypes
      <3>2. (IF ui[c].last = MaxAge THEN ui[c].last ELSE ui[c].last + 1) \in Ages
        BY <3>1 DEF Pages, Ages, Sizes
      <3> QED BY <3>1, <3>2 DEF Pages
    <2> QED BY <2>1, <2>2
  <1> QED BY <1>0, <1>7, <1>9, <1>10, <1>11, <1>12 DEF SyncTypes, Heralded

LEMMA GoesTypes ==
    ASSUME SyncTypes, NEW t \in Under, NEW u, Goes(t, u)
    PROVE  SyncTypes'
  BY Moved DEF Goes, SyncTypes

LEMMA SaysTypes ==
    ASSUME SyncTypes, NEW t \in Under, NEW m, Says(t, m)
    PROVE  /\ SyncTypes'
           /\ \A c \in Browsers : chan'[c] = Append(chan[c], m)
           /\ Under' \subseteq Under /\ Under \ {t} \subseteq Under'
PROOF
  <1>1. tasks' = BagRemove(tasks, t) /\ chan' = [c \in Browsers |-> Append(chan[c], m)] /\ m \in Words
    BY DEF Says, BroadcastState
  <1>2. Under' \subseteq Under /\ Under \ {t} \subseteq Under' /\ IsABag(tasks')
    BY <1>1, Finished DEF SyncTypes
  <1>3. chan' \in [Browsers -> Seq(Words)]
    BY <1>1 DEF SyncTypes
  <1> QED BY <1>1, <1>2, <1>3 DEF SyncTypes, Says

-----------------------------------------------------------------------------
(* What the operators and the pages do. *)

\* What they send has yet to load its stamp.
Orders == {t \in ServerTasks : Holds(t) => t.age = 0}

LEMMA ReconcileOrders ==
    ASSUME Sizes, NEW u \in Pages
    PROVE  Reconcile(u) \subseteq Orders
PROOF
  <1> SUFFICES ASSUME NEW s \in Slots PROVE Repairs(u, s) \subseteq Orders
    BY DEF Reconcile
  <1>1. Desired(u, s) \in Receiver
    BY DEF Desired, Sound, Receiver, Pages
  <1>2. {ClientCmd("off", s, "off"), ClientCmd("setvrx", s, "live"), ClientCmd("mute", s, Desired(u, s))} \subseteq Orders
    BY <1>1, MakeCommand DEF Orders, Ops, Receiver
  <1> QED BY <1>2 DEF Repairs

LEMMA OrdersSent ==
    ASSUME SyncTypes, NEW S, S \subseteq Orders, Send(S)
    PROVE  /\ IsABag(tasks') /\ Under' \subseteq ServerTasks
           /\ Under \subseteq Under'
           /\ S # {} => Heralded'
PROOF
  <1>1. Under' = Under \union S /\ IsABag(tasks')
    BY Spawned DEF SyncTypes
  <1> QED BY <1>1 DEF SyncTypes, Orders, Heralded

\* A step of page c, by what it shows and still has to read; or it sends.
Turns(c) ==
    /\ SyncTypes'
    /\ UNCHANGED <<radio, since, untold>>
    /\ Under \subseteq Under'
    /\ \A d \in Browsers \ {c} : ui'[d] = ui[d] /\ chan'[d] = chan[d]
    /\ \/ Heralded'
       \/ /\ chan'[c] = chan[c] /\ Reconcile(ui'[c]) = {}
          /\ ui'[c].vrx = ui[c].vrx /\ ui'[c].started = ui[c].started /\ ui'[c].last = ui[c].last
       \/ /\ chan[c] # <<>> /\ chan'[c] = Tail(chan[c])
          /\ Head(chan[c]).age > ui[c].last /\ ui'[c] = ui[c]
       \/ /\ chan[c] # <<>> /\ chan'[c] = Tail(chan[c])
          /\ Head(chan[c]).age <= ui[c].last /\ Reconcile(ui'[c]) = {}
          /\ ui'[c].vrx = Head(chan[c]).state.vrx /\ ui'[c].started = Head(chan[c]).state.started
          /\ ui'[c].last = Head(chan[c]).age

LEMMA SelectTurns ==
    ASSUME Sizes, SyncTypes, NEW c \in Browsers, NEW tab \in Slots \union {Ep4}, SelectTab(c, tab)
    PROVE  Turns(c)
PROOF
  <1>1. PICK u : u = [ui[c] EXCEPT !.slot = PanelSlot(tab)]
    OBVIOUS
  <1>2. ui[c] \in Pages /\ PanelSlot(tab) \in Slots
    BY DEF SyncTypes, PanelSlot, Sizes
  <1>3. u \in Pages /\ u.vrx = ui[c].vrx /\ u.started = ui[c].started /\ u.last = ui[c].last
    BY <1>1, <1>2 DEF Pages
  <1>4. ui' = [ui EXCEPT ![c] = u] /\ Send(Reconcile(u)) /\ UNCHANGED <<radio, chan, since, untold>>
    BY <1>1 DEF SelectTab, Act, history
  <1>5. /\ IsABag(tasks') /\ Under' \subseteq ServerTasks /\ Under \subseteq Under'
        /\ Reconcile(u) # {} => Heralded'
    BY <1>3, <1>4, ReconcileOrders, OrdersSent
  <1>6. SyncTypes' /\ ui'[c] = u /\ \A d \in Browsers \ {c} : ui'[d] = ui[d]
    BY <1>3, <1>4, <1>5 DEF SyncTypes
  <1> QED BY <1>3, <1>4, <1>5, <1>6 DEF Turns

LEMMA ToggleTurns ==
    ASSUME Sizes, SyncTypes, NEW c \in Browsers, ToggleMute(c)
    PROVE  Turns(c)
PROOF
  <1>1. PICK s : s = ui[c].slot
    OBVIOUS
  <1>2. PICK u : u = [ui[c] EXCEPT !.muted[s] = ~@]
    OBVIOUS
  <1>3. ui[c] \in Pages /\ s \in Slots
    BY <1>1 DEF SyncTypes, Pages
  <1>4. u \in Pages
    <2>1. ui[c].muted \in [Slots -> BOOLEAN]
      BY <1>3 DEF Pages
    <2>2. PICK q : q = [ui[c].muted EXCEPT ![s] = ~@]
      OBVIOUS
    <2>3. q \in [Slots -> BOOLEAN]
      BY <2>1, <2>2
    <2>4. u = [ui[c] EXCEPT !.muted = q]
      BY <1>2, <2>2
    <2> QED BY <1>3, <2>3, <2>4 DEF Pages
  <1>5. PICK k : k = ClientCmd("mute", s, Sound(u.muted[s]))
    OBVIOUS
  <1>6. k \in Orders
    <2>1. Sound(u.muted[s]) \in Receiver
      BY DEF Sound, Receiver
    <2> QED BY <1>3, <1>5, <2>1, MakeCommand DEF Orders, Ops
  <1>7. /\ ui' = [ui EXCEPT ![c] = u] /\ UNCHANGED <<radio, chan, since, untold>>
        /\ tasks' = tasks (+) SetToBag({k}) (+) SetToBag(Reconcile(u))
    BY <1>1, <1>2, <1>5 DEF ToggleMute, Act, history
  <1>8. IsABag(tasks') /\ Under' = (Under \union {k}) \union Reconcile(u)
    <2>1. PICK b : b = tasks (+) SetToBag({k})
      OBVIOUS
    <2>2. IsABag(b) /\ DOMAIN b = Under \union {k}
      BY <2>1, Joined DEF SyncTypes, Under, BagToSet
    <2>3. tasks' = b (+) SetToBag(Reconcile(u))
      BY <1>7, <2>1
    <2>4. IsABag(tasks') /\ DOMAIN tasks' = DOMAIN b \union Reconcile(u)
      BY <2>2, <2>3, Joined
    <2> QED BY <2>2, <2>4 DEF Under, BagToSet
  <1>9. Under' \subseteq ServerTasks /\ Under \subseteq Under' /\ Heralded'
    BY <1>4, <1>6, <1>8, ReconcileOrders DEF SyncTypes, Orders, Heralded
  <1>10. SyncTypes' /\ \A d \in Browsers \ {c} : ui'[d] = ui[d]
    BY <1>4, <1>7, <1>8, <1>9 DEF SyncTypes
  <1> QED BY <1>7, <1>9, <1>10 DEF Turns

LEMMA ClickTurns ==
    ASSUME Sizes, SyncTypes, NEW c \in Browsers,
           Step(c) \/ \E on \in BOOLEAN : Switch(c, on)
    PROVE  Turns(c)
PROOF
  <1>1. CASE Step(c)
    <2>1. ui[c].slot \in Slots
      BY DEF SyncTypes, Pages
    <2>2. PICK k : k = ClientCmd("tune", ui[c].slot, "off")
      OBVIOUS
    <2>3. k \in Orders
      BY <2>1, <2>2, MakeCommand DEF Orders, Ops, Receiver
    <2>4. Send({k}) /\ UNCHANGED <<radio, chan, ui, since, untold>>
      BY <1>1, <2>2 DEF Step, Act, history
    <2>5. IsABag(tasks') /\ Under' \subseteq ServerTasks /\ Under \subseteq Under' /\ Heralded'
      BY <2>3, <2>4, OrdersSent
    <2> QED BY <2>4, <2>5 DEF Turns, SyncTypes
  <1>2. ASSUME NEW on \in BOOLEAN, Switch(c, on) PROVE Turns(c)
    <2>1. PICK u : u = [ui[c] EXCEPT !.started = on, !.local = on]
      OBVIOUS
    <2>2. u \in Pages
      BY <2>1 DEF SyncTypes, Pages
    <2>3. PICK k : k = ClientCmd(IF on THEN "start" ELSE "stop", 1, "off")
      OBVIOUS
    <2>4. k \in Orders
      BY <2>3, MakeCommand DEF Orders, Ops, Receiver, Sizes
    <2>5. Send({k}) /\ UNCHANGED <<radio, chan, since, untold>> /\ ui' = [ui EXCEPT ![c] = u]
      BY <1>2, <2>1, <2>3 DEF Switch, Act, history
    <2>6. IsABag(tasks') /\ Under' \subseteq ServerTasks /\ Under \subseteq Under' /\ Heralded'
      BY <2>4, <2>5, OrdersSent
    <2>7. SyncTypes' /\ \A d \in Browsers \ {c} : ui'[d] = ui[d]
      BY <2>2, <2>5, <2>6 DEF SyncTypes
    <2> QED BY <2>5, <2>6, <2>7 DEF Turns
  <1> QED BY <1>1, <1>2

LEMMA OnTextTurns ==
    ASSUME Sizes, SyncTypes, NEW c \in Browsers, OnText(c)
    PROVE  Turns(c)
PROOF
  <1>1. PICK m : m = Head(chan[c])
    OBVIOUS
  <1>2. /\ chan[c] \in Seq(Words) /\ chan[c] # <<>> /\ m \in Words
        /\ chan' = [chan EXCEPT ![c] = Tail(@)] /\ Tail(chan[c]) \in Seq(Words)
        /\ UNCHANGED <<radio, since, untold>>
    BY <1>1 DEF OnText, SyncTypes, history
  <1>3. /\ chan' \in [Browsers -> Seq(Words)] /\ chan'[c] = Tail(chan[c])
        /\ \A d \in Browsers \ {c} : chan'[d] = chan[d]
    BY <1>2 DEF SyncTypes
  <1>4. PICK edge : edge = (~ui[c].prev /\ m.state.started /\ ui[c].local)
    OBVIOUS
  <1>5. PICK u : u = [ui[c] EXCEPT !.last = m.age, !.prev = m.state.started, !.started = m.state.started,
                                   !.local = @ /\ ~edge, !.vrx = m.state.vrx]
    OBVIOUS
  <1>6. CASE Fresh(m, ui[c])
    <2>1. ui[c] \in Pages /\ m.age \in Ages /\ m.state \in State
      BY <1>2 DEF SyncTypes, Words
    <2>2. /\ u \in Pages /\ u.last = m.age
          /\ u.vrx = m.state.vrx /\ u.started = m.state.started
      BY <1>4, <1>5, <2>1 DEF Pages, State
    <2>3. PICK S : S = Reconcile(u) \union IF edge /\ 1 \notin m.state.tuned THEN {ClientCmd("tune", 1, "off")} ELSE {}
      OBVIOUS
    <2>4. S \subseteq Orders
      <3>1. ClientCmd("tune", 1, "off") \in Orders
        BY MakeCommand DEF Orders, Ops, Receiver, Sizes
      <3> QED BY <2>2, <2>3, <3>1, ReconcileOrders
    <2>5. ui' = [ui EXCEPT ![c] = u] /\ Send(S)
      BY <1>6, <1>1, <1>4, <1>5, <2>3, Zenon DEF OnText
    <2>6. /\ IsABag(tasks') /\ Under' \subseteq ServerTasks /\ Under \subseteq Under'
          /\ Reconcile(u) # {} => Heralded'
      BY <2>3, <2>4, <2>5, OrdersSent
    <2>7. SyncTypes' /\ ui'[c] = u /\ \A d \in Browsers \ {c} : ui'[d] = ui[d]
      BY <1>2, <1>3, <2>2, <2>5, <2>6 DEF SyncTypes
    <2>8. m.age <= ui[c].last
      BY <1>6 DEF Fresh
    <2> QED BY <1>1, <1>2, <1>3, <2>2, <2>6, <2>7, <2>8 DEF Turns
  <1>7. CASE ~Fresh(m, ui[c])
    <2>1. UNCHANGED <<ui, tasks>>
      BY <1>1, <1>7 DEF OnText
    <2>2. SyncTypes' /\ Under \subseteq Under'
      BY <1>2, <1>3, <2>1 DEF SyncTypes, Under
    <2>3. m.age > ui[c].last
      BY <1>2, <1>7 DEF Fresh, SyncTypes, Words, Pages, Ages
    <2> QED BY <1>1, <1>2, <1>3, <2>1, <2>2, <2>3 DEF Turns
  <1> QED BY <1>6, <1>7

LEMMA UnaskedTurns ==
    ASSUME Sizes, SyncTypes, PushWelcome \/ Other
    PROVE  SyncTypes' /\ Heralded'
PROOF
  <1>1. PICK k : k \in Orders /\ Send({k}) /\ UNCHANGED <<radio, chan, ui, since, untold>>
    <2>1. CASE PushWelcome
      <3>1. [pc |-> "read", age |-> 0] \in Orders
        BY Loaded DEF Orders
      <3> QED BY <2>1, <3>1 DEF PushWelcome, Act, history
    <2>2. CASE Other
      <3>1. \A op \in {"other", "gain"} : ClientCmd(op, 1, "off") \in Orders
        BY MakeCommand DEF Orders, Ops, Receiver, Sizes
      <3> QED BY <2>2, <3>1 DEF Other, Act, history
    <2> QED BY <2>1, <2>2
  <1>2. IsABag(tasks') /\ Under' \subseteq ServerTasks /\ Heralded'
    BY <1>1, OrdersSent
  <1> QED BY <1>1, <1>2 DEF SyncTypes

-----------------------------------------------------------------------------
(* Where the last word is. *)

Right(state) == Picture(state) = Picture(radio)

\* A stamp of that age is not older than what the page has applied and than
\* what is on its way to it: a snapshot that bears it will be applied.
Young(age, c) == age <= ui[c].last /\ \A i \in 1..Len(chan[c]) : age <= chan[c][i].age

\* A task on the server will send a snapshot that the page applies.
Herald(c) == \E t \in Under : Holds(t) => Young(t.age, c)

\* And a snapshot that it sends shows the hub's last change, or that change is
\* given up as hidden.
Teller(c) == \E t \in Under : Holds(t) /\ t.pc # "respawn" => t.age <= since /\ Young(t.age, c)

\* The page will apply its i-th message.
Arrives(c, i) ==
    /\ chan[c][i].age <= ui[c].last
    /\ \A j \in 1..(i - 1) : chan[c][i].age <= chan[c][j].age

Word(c) == \E i \in 1..Len(chan[c]) : Arrives(c, i)

\* That message is right, and no later one undoes it.
TrueWord(c) ==
    \E i \in 1..Len(chan[c]) :
        /\ Arrives(c, i) /\ chan[c][i].age <= since
        /\ Right(chan[c][i].state)
        /\ \A j \in (i + 1)..Len(chan[c]) : Right(chan[c][j].state) \/ chan[c][j].age > chan[c][i].age

\* The page is right, and no message on its way undoes it.
UpToDate(c) ==
    /\ Right(ui[c]) /\ ui[c].last <= since
    /\ \A i \in 1..Len(chan[c]) : Right(chan[c][i].state) \/ chan[c][i].age > ui[c].last

\* A page that still has commands to send is about to hear from the hub.
Attended(c) == Herald(c) \/ Word(c) \/ Reconcile(ui[c]) = {}

\* What the hub shows has reached the page or is on its way, unless the last
\* change is hidden.
Mirrored(c) == untold \/ Teller(c) \/ TrueWord(c) \/ UpToDate(c)

LEMMA Ageing ==
    ASSUME SyncTypes, Sizes
    PROVE  /\ \A c \in Browsers : ui[c].last \in Nat /\ Len(chan[c]) \in Nat
           /\ \A c \in Browsers : \A i \in 1..Len(chan[c]) : chan[c][i] \in Words /\ chan[c][i].age \in Nat
           /\ \A t \in Under : Holds(t) => t.age \in Nat
           /\ since \in Nat
PROOF
  <1>1. Ages \subseteq Nat
    BY DEF Ages, Sizes
  <1>2. \A t \in Under : Holds(t) => t.age \in Ages
    BY Kinds DEF SyncTypes
  <1>3. \A c \in Browsers : chan[c] \in Seq(Words) /\ ui[c] \in Pages
    BY DEF SyncTypes
  <1>4. \A c \in Browsers : \A i \in 1..Len(chan[c]) : chan[c][i] \in Words
    BY <1>3
  <1>5. \A c \in Browsers : ui[c].last \in Ages
    BY <1>3 DEF Pages
  <1>6. \A m \in Words : m.age \in Nat
    BY <1>1 DEF Words
  <1>7. \A c \in Browsers : Len(chan[c]) \in Nat
    BY <1>3
  <1>8. since \in Nat
    BY <1>1 DEF SyncTypes
  <1> QED BY <1>1, <1>2, <1>4, <1>5, <1>6, <1>7, <1>8

LEMMA HeraldsAll ==
    ASSUME Sizes, SyncTypes', Heralded'
    PROVE  \A c \in Browsers : Herald(c)' /\ Teller(c)'
PROOF
  <1>1. /\ \A c \in Browsers : (ui[c].last)' \in Ages
        /\ \A c \in Browsers : \A i \in 1..Len(chan'[c]) : chan'[c][i].age \in Ages
    <2>1. \A c \in Browsers : chan'[c] \in Seq(Words) /\ ui'[c] \in Pages
      BY DEF SyncTypes
    <2>2. \A c \in Browsers : (ui[c].last)' \in Ages
      BY <2>1 DEF Pages
    <2>3. \A c \in Browsers : \A i \in 1..Len(chan'[c]) : chan'[c][i] \in Words
      BY <2>1
    <2>4. \A m \in Words : m.age \in Ages
      BY DEF Words
    <2> QED BY <2>2, <2>3, <2>4
  <1>2. \A age \in Ages : 0 <= age
    BY DEF Ages, Sizes
  <1>3. \A c \in Browsers : Young(0, c)'
    BY <1>1, <1>2 DEF Young
  <1>4. PICK t \in Under' : Holds(t) => t.age = 0
    BY DEF Heralded
  <1>5. \A c \in Browsers : Holds(t) => Young(t.age, c)'
    BY <1>3, <1>4
  <1>6. 0 <= since'
    BY <1>2 DEF SyncTypes
  <1>7. \A c \in Browsers : Teller(c)'
    BY <1>3, <1>4, <1>6 DEF Teller
  <1> QED BY <1>4, <1>5, <1>7 DEF Herald

LEMMA GoesKeeps ==
    ASSUME Sizes, SyncTypes, NEW t \in Under, NEW u, Goes(t, u), NEW c \in Browsers
    PROVE  /\ Attended(c) => Attended(c)'
           /\ Mirrored(c) => Mirrored(c)'
PROOF
  <1>1. /\ SyncTypes' /\ (Under \ {t}) \union {u} \subseteq Under'
        /\ UNCHANGED <<chan, ui>>
    BY GoesTypes, Moved DEF Goes, SyncTypes
  <1>2. \A age : Young(age, c)' <=> Young(age, c)
    BY <1>1 DEF Young
  <1>3. CASE ~Holds(u) \/ u.age = 0
    <2>1. Heralded'
      BY <1>1, <1>3 DEF Heralded
    <2>2. Herald(c)' /\ Teller(c)'
      BY <1>1, <2>1, HeraldsAll
    <2> QED BY <2>2 DEF Attended, Mirrored
  <1>4. CASE Holds(t) /\ u.age = t.age
    <2>1. Herald(c) => Herald(c)'
      BY <1>1, <1>2, <1>4 DEF Herald
    <2>2. Word(c)' <=> Word(c)
      BY <1>1 DEF Word, Arrives
    <2>3. Reconcile(ui[c])' = Reconcile(ui[c])
      BY <1>1
    <2>4. Attended(c) => Attended(c)'
      BY <2>1, <2>2, <2>3 DEF Attended
    <2>5. CASE untold'
      BY <2>4, <2>5 DEF Mirrored
    <2>6. CASE u.pc = "respawn"
      <3>1. Teller(c)'
        BY <1>1, <2>6 DEF Teller
      <3> QED BY <2>4, <3>1 DEF Mirrored
    <2>7. CASE t.pc # "respawn" /\ UNCHANGED <<since, untold>> /\ Picture(radio)' = Picture(radio)
      <3>1. Teller(c) => Teller(c)'
        BY <1>1, <1>2, <1>4, <2>7 DEF Teller
      <3>2. TrueWord(c)' <=> TrueWord(c)
        BY <1>1, <2>7 DEF TrueWord, Arrives, Right, Picture
      <3>3. UpToDate(c)' <=> UpToDate(c)
        BY <1>1, <2>7 DEF UpToDate, Right, Picture
      <3> QED BY <2>4, <2>7, <3>1, <3>2, <3>3 DEF Mirrored
    <2> QED BY <1>3, <2>5, <2>6, <2>7 DEF Goes
  <1> QED BY <1>3, <1>4 DEF Goes

LEMMA SaysKeeps ==
    ASSUME Sizes, SyncTypes, NEW t \in Under, NEW m, Says(t, m), NEW c \in Browsers
    PROVE  /\ Attended(c) => Attended(c)'
           /\ Mirrored(c) => Mirrored(c)'
PROOF
  <1>1. /\ SyncTypes' /\ Under \ {t} \subseteq Under'
        /\ chan'[c] = Append(chan[c], m) /\ UNCHANGED <<radio, ui, since>>
        /\ Holds(t) /\ m.age = t.age /\ t.pc # "respawn" /\ (untold => untold')
    BY SaysTypes DEF Says
  <1>2. PICK n \in Nat : n = Len(chan[c])
    BY Ageing
  <1>3. /\ Len(chan'[c]) = n + 1 /\ chan'[c][n + 1] = m
        /\ \A i \in 1..n : chan'[c][i] = chan[c][i]
    BY <1>1, <1>2 DEF SyncTypes
  <1>4. /\ ui[c].last \in Nat /\ m.age \in Nat /\ since \in Nat
        /\ \A i \in 1..n : chan[c][i].age \in Nat
        /\ \A w \in Under : Holds(w) => w.age \in Nat
    BY <1>2, Ageing DEF Says, Words, Ages, Sizes
  <1>5. ASSUME NEW age \in Nat, Young(age, c), age <= m.age PROVE Young(age, c)'
    <2>1. ASSUME NEW i \in 1..(n + 1) PROVE age <= chan'[c][i].age
      <3>1. i \in 1..n => age <= chan[c][i].age
        BY <1>2, <1>5 DEF Young
      <3>2. i = n + 1 => age <= chan'[c][i].age
        BY <1>3, <1>5
      <3> QED BY <1>3, <3>1, <3>2
    <2>2. age <= (ui[c].last)'
      BY <1>1, <1>5 DEF Young
    <2> QED BY <1>3, <2>1, <2>2 DEF Young
  \* A page that will not apply the message waits for another, with an older stamp.
  <1>6. ASSUME NEW age \in Nat, Young(age, c), ~ Arrives(c, n + 1)' PROVE age < m.age
    <2>1. ~ (m.age <= ui[c].last /\ \A j \in 1..n : m.age <= chan[c][j].age)
      <3>1. 1..(n + 1 - 1) = 1..n
        OBVIOUS
      <3> QED BY <1>1, <1>3, <1>6, <3>1 DEF Arrives
    <2>2. SUFFICES ASSUME m.age <= age PROVE FALSE
      BY <1>4
    <2>3. age <= ui[c].last /\ \A j \in 1..n : age <= chan[c][j].age
      BY <1>2, <1>6 DEF Young
    <2> QED BY <1>4, <2>1, <2>2, <2>3
  <1>7. Herald(c) => Herald(c)' \/ Arrives(c, n + 1)'
    <2> SUFFICES ASSUME NEW w \in Under, Holds(w) => Young(w.age, c), ~ Arrives(c, n + 1)'
                 PROVE  Herald(c)'
      BY DEF Herald
    <2>1. CASE ~Holds(w)
      <3>1. w \in Under'
        BY <1>1, <2>1
      <3> QED BY <2>1, <3>1 DEF Herald
    <2>2. CASE Holds(w)
      <3>1. w.age \in Nat /\ w.age < m.age /\ Young(w.age, c)
        BY <1>4, <1>6, <2>2
      <3>2. w \in Under' /\ Young(w.age, c)'
        BY <1>1, <1>4, <1>5, <3>1
      <3> QED BY <3>2 DEF Herald
    <2> QED BY <2>1, <2>2
  <1>8. ASSUME NEW i \in 1..n, Arrives(c, i) PROVE Arrives(c, i)'
    <2>1. 1..(i - 1) \subseteq 1..n
      OBVIOUS
    <2> QED BY <1>1, <1>3, <1>8, <2>1 DEF Arrives
  <1>9. Arrives(c, n + 1)' => Word(c)'
    BY <1>3 DEF Word
  <1>10. Word(c) => Word(c)'
    BY <1>2, <1>3, <1>8 DEF Word
  <1>11. Attended(c) => Attended(c)'
    BY <1>1, <1>7, <1>9, <1>10 DEF Attended
  <1>12. \A x : Right(x)' <=> Right(x)
    BY <1>1 DEF Right, Picture
  <1>13. ASSUME Right(m.state) \/ m.age > since PROVE Mirrored(c) => Mirrored(c)'
    <2>1. Teller(c) => Teller(c)' \/ TrueWord(c)'
      <3> SUFFICES ASSUME NEW w \in Under, Holds(w) /\ w.pc # "respawn" => w.age <= since /\ Young(w.age, c)
                   PROVE  Teller(c)' \/ TrueWord(c)'
        BY DEF Teller
      <3>1. CASE ~(Holds(w) /\ w.pc # "respawn")
        <4>1. w \in Under'
          BY <1>1, <3>1
        <4> QED BY <3>1, <4>1 DEF Teller
      <3>2. CASE Holds(w) /\ w.pc # "respawn"
        <4>1. w.age \in Nat /\ w.age <= since /\ Young(w.age, c)
          BY <1>4, <3>2
        <4>2. CASE w.age < m.age
          <5>1. w \in Under' /\ Young(w.age, c)'
            BY <1>1, <1>4, <1>5, <4>1, <4>2
          <5> QED BY <1>1, <4>1, <5>1 DEF Teller
        <4>3. CASE ~(w.age < m.age)
          <5>1. m.age <= since /\ Arrives(c, n + 1)'
            BY <1>4, <1>6, <4>1, <4>3
          <5>2. Right(m.state)
            BY <1>4, <1>13, <5>1
          <5>3. (n + 1 + 1)..(n + 1) = {}
            OBVIOUS
          <5>4. Right(chan[c][n + 1].state)' /\ chan'[c][n + 1].age <= since'
            BY <1>1, <1>3, <5>1, <5>2 DEF Right, Picture
          <5> QED BY <1>3, <5>1, <5>3, <5>4 DEF TrueWord
        <4> QED BY <4>2, <4>3
      <3> QED BY <3>1, <3>2
    <2>2. TrueWord(c) => TrueWord(c)'
      <3> SUFFICES ASSUME NEW i \in 1..n, Arrives(c, i), chan[c][i].age <= since, Right(chan[c][i].state),
                          \A j \in (i + 1)..n : Right(chan[c][j].state) \/ chan[c][j].age > chan[c][i].age
                   PROVE  TrueWord(c)'
        BY <1>2 DEF TrueWord
      <3>1. Arrives(c, i)' /\ Right(chan[c][i].state)' /\ i \in 1..Len(chan'[c]) /\ chan'[c][i].age <= since'
        BY <1>1, <1>3, <1>8 DEF Right, Picture
      <3>2. ASSUME NEW j \in (i + 1)..(n + 1)
            PROVE  Right(chan[c][j].state)' \/ chan'[c][j].age > chan'[c][i].age
        <4>1. CASE j = n + 1
          <5>1. CASE Right(m.state)
            BY <1>1, <1>3, <4>1, <5>1 DEF Right, Picture
          <5>2. CASE m.age > since
            <6>1. chan'[c][i] = chan[c][i] /\ chan[c][i].age \in Nat
              BY <1>2, <1>3, Ageing
            <6>2. m.age > chan[c][i].age
              BY <1>4, <5>2, <6>1
            <6>3. chan'[c][j].age = m.age
              BY <1>3, <4>1
            <6> QED BY <6>1, <6>2, <6>3
          <5> QED BY <1>13, <5>1, <5>2
        <4>2. CASE j # n + 1
          <5>1. j \in (i + 1)..n /\ j \in 1..n
            BY <4>2
          <5> QED BY <1>1, <1>3, <5>1 DEF Right, Picture
        <4> QED BY <4>1, <4>2
      <3> QED BY <1>3, <3>1, <3>2 DEF TrueWord
    <2>3. UpToDate(c) => UpToDate(c)'
      <3> SUFFICES ASSUME Right(ui[c]), ui[c].last <= since,
                          \A i \in 1..n : Right(chan[c][i].state) \/ chan[c][i].age > ui[c].last
                   PROVE  UpToDate(c)'
        BY <1>2 DEF UpToDate
      <3>1. ASSUME NEW j \in 1..(n + 1)
            PROVE  Right(chan[c][j].state)' \/ chan'[c][j].age > (ui[c].last)'
        <4>1. CASE j = n + 1
          <5>1. CASE Right(m.state)
            BY <1>1, <1>3, <4>1, <5>1 DEF Right, Picture
          <5>2. CASE m.age > since
            BY <1>1, <1>3, <1>4, <4>1, <5>2
          <5> QED BY <1>13, <5>1, <5>2
        <4>2. CASE j # n + 1
          <5>1. j \in 1..n
            BY <4>2
          <5> QED BY <1>1, <1>3, <5>1 DEF Right, Picture
        <4> QED BY <4>1, <4>2
      <3>2. Right(ui[c])' /\ (ui[c].last)' <= since'
        BY <1>1 DEF Right, Picture
      <3> QED BY <1>3, <3>1, <3>2 DEF UpToDate
    <2> QED BY <1>1, <2>1, <2>2, <2>3 DEF Mirrored
  <1>14. untold' => Mirrored(c)'
    BY DEF Mirrored
  <1> QED BY <1>11, <1>13, <1>14 DEF Says, Right

\* A page that is left alone loses nothing when others send.
LEMMA AloneKeeps ==
    ASSUME UNCHANGED <<radio, since, untold>>, Under \subseteq Under', NEW c \in Browsers,
           ui'[c] = ui[c], chan'[c] = chan[c]
    PROVE  /\ Attended(c) => Attended(c)'
           /\ Mirrored(c) => Mirrored(c)'
PROOF
  <1>1. \A age : Young(age, c)' <=> Young(age, c)
    BY DEF Young
  <1>2. (Herald(c) => Herald(c)') /\ (Teller(c) => Teller(c)')
    BY <1>1 DEF Herald, Teller
  <1>3. Word(c)' <=> Word(c)
    BY DEF Word, Arrives
  <1>4. TrueWord(c)' <=> TrueWord(c)
    BY DEF TrueWord, Arrives, Right
  <1>5. UpToDate(c)' <=> UpToDate(c)
    BY DEF UpToDate, Right
  <1>6. Reconcile(ui[c])' = Reconcile(ui[c])
    OBVIOUS
  <1> QED BY <1>2, <1>3, <1>4, <1>5, <1>6 DEF Attended, Mirrored

\* The page's next message leaves the channel.
LEMMA TailFacts ==
    ASSUME NEW q \in Seq(Words), q # <<>>
    PROVE  /\ Len(q) \in Nat \ {0} /\ Len(Tail(q)) = Len(q) - 1
           /\ Head(q) = q[1] /\ q[1] \in Words
           /\ \A i \in 1..(Len(q) - 1) : Tail(q)[i] = q[i + 1]
           /\ \A i \in 2..Len(q) : i - 1 \in 1..(Len(q) - 1) /\ Tail(q)[i - 1] = q[i]
  OBVIOUS

LEMMA TurnsKeeps ==
    ASSUME Sizes, SyncTypes, NEW c \in Browsers, Turns(c), NEW d \in Browsers
    PROVE  /\ Attended(d) => Attended(d)'
           /\ Mirrored(d) => Mirrored(d)'
PROOF
  <1>1. SyncTypes' /\ UNCHANGED <<radio, since, untold>> /\ Under \subseteq Under'
    BY DEF Turns
  <1>2. CASE d # c
    BY <1>1, <1>2, AloneKeeps DEF Turns
  <1>3. CASE Heralded'
    <2>1. Herald(d)' /\ Teller(d)'
      BY <1>1, <1>3, HeraldsAll
    <2> QED BY <2>1 DEF Attended, Mirrored
  \* The operator selected a tab.
  <1>4. CASE /\ chan'[c] = chan[c] /\ Reconcile(ui'[c]) = {}
             /\ ui'[c].vrx = ui[c].vrx /\ ui'[c].started = ui[c].started /\ ui'[c].last = ui[c].last
    <2>1. Attended(c)'
      BY <1>4 DEF Attended
    <2>2. \A age : Young(age, c)' <=> Young(age, c)
      BY <1>4 DEF Young
    <2>3. (Herald(c) => Herald(c)') /\ (Teller(c) => Teller(c)')
      BY <1>1, <2>2 DEF Herald, Teller
    <2>4. TrueWord(c)' <=> TrueWord(c)
      BY <1>1, <1>4 DEF TrueWord, Arrives, Right, Picture
    <2>5. UpToDate(c)' <=> UpToDate(c)
      BY <1>1, <1>4 DEF UpToDate, Right, Picture
    <2>6. Mirrored(c) => Mirrored(c)'
      BY <1>1, <2>3, <2>4, <2>5 DEF Mirrored
    <2> QED BY <1>2, <2>1, <2>6
  \* The page read a message that is older than what it has applied.
  <1>5. CASE /\ chan[c] # <<>> /\ chan'[c] = Tail(chan[c])
             /\ Head(chan[c]).age > ui[c].last /\ ui'[c] = ui[c]
    <2>1. PICK q : q = chan[c]
      OBVIOUS
    <2>2. q \in Seq(Words) /\ q # <<>> /\ chan'[c] = Tail(q) /\ q[1].age > ui[c].last
      BY <1>5, <2>1, TailFacts DEF SyncTypes
    <2>3. PICK n \in Nat \ {0} : n = Len(q)
      BY <2>2, TailFacts
    <2>4. Len(Tail(q)) = n - 1 /\ (\A i \in 1..(n - 1) : Tail(q)[i] = q[i + 1])
          /\ (\A i \in 2..n : i - 1 \in 1..(n - 1) /\ Tail(q)[i - 1] = q[i])
      BY <2>2, <2>3, TailFacts
    <2>5. ASSUME NEW age, Young(age, c) PROVE Young(age, c)'
      <3>1. \A i \in 1..(n - 1) : i + 1 \in 1..n
        OBVIOUS
      <3> QED BY <1>5, <2>1, <2>2, <2>3, <2>4, <2>5, <3>1 DEF Young
    <2>6. (Herald(c) => Herald(c)') /\ (Teller(c) => Teller(c)')
      BY <1>1, <2>5 DEF Herald, Teller
    <2>7. ASSUME NEW i \in 1..n, Arrives(c, i)
          PROVE  i \in 2..n /\ i - 1 \in 1..(n - 1) /\ Arrives(c, i - 1)'
      <3>1. q[i].age <= ui[c].last /\ \A j \in 1..(i - 1) : q[i].age <= q[j].age
        BY <2>1, <2>7 DEF Arrives
      <3>2. q[i].age \in Nat /\ q[1].age \in Nat /\ ui[c].last \in Nat
        BY <2>1, <2>3, Ageing
      <3>3. i # 1
        BY <2>2, <3>1, <3>2
      <3>4. i \in 2..n /\ i - 1 \in 1..(n - 1) /\ Tail(q)[i - 1] = q[i]
        BY <2>4, <3>3
      <3>5. ASSUME NEW j \in 1..(i - 1 - 1) PROVE Tail(q)[i - 1].age <= Tail(q)[j].age
        <4>1. j \in 1..(n - 1) /\ j + 1 \in 1..(i - 1)
          BY <3>4
        <4> QED BY <2>4, <3>1, <3>4, <4>1
      <3>6. Tail(q)[i - 1].age <= (ui[c].last)'
        BY <1>5, <3>1, <3>4
      <3> QED BY <2>2, <3>4, <3>5, <3>6 DEF Arrives
    <2>8. Word(c) => Word(c)'
      BY <2>1, <2>2, <2>3, <2>4, <2>7 DEF Word
    <2>9. TrueWord(c) => TrueWord(c)'
      <3> SUFFICES ASSUME NEW i \in 1..n, Arrives(c, i), q[i].age <= since, Right(q[i].state),
                          \A j \in (i + 1)..n : Right(q[j].state) \/ q[j].age > q[i].age
                   PROVE  TrueWord(c)'
        BY <2>1, <2>3 DEF TrueWord
      <3>1. i \in 2..n /\ i - 1 \in 1..(n - 1) /\ Arrives(c, i - 1)' /\ Tail(q)[i - 1] = q[i]
        BY <2>4, <2>7
      <3>2. ASSUME NEW j \in (i - 1 + 1)..(n - 1)
            PROVE  Right(Tail(q)[j].state) \/ Tail(q)[j].age > Tail(q)[i - 1].age
        <4>1. j \in 1..(n - 1) /\ j + 1 \in (i + 1)..n
          BY <3>1
        <4> QED BY <2>4, <3>1, <4>1
      <3> QED BY <1>1, <2>2, <2>4, <3>1, <3>2 DEF TrueWord, Right, Picture
    <2>10. UpToDate(c) => UpToDate(c)'
      <3>1. \A i \in 1..(n - 1) : i + 1 \in 1..n
        OBVIOUS
      <3> QED BY <1>1, <1>5, <2>1, <2>2, <2>3, <2>4, <3>1 DEF UpToDate, Right, Picture
    <2>11. Attended(c) => Attended(c)'
      BY <1>5, <2>6, <2>8 DEF Attended
    <2>12. Mirrored(c) => Mirrored(c)'
      BY <1>1, <2>6, <2>9, <2>10 DEF Mirrored
    <2> QED BY <1>2, <2>11, <2>12
  \* The page applied a message and has nothing to send.
  <1>6. CASE /\ chan[c] # <<>> /\ chan'[c] = Tail(chan[c])
             /\ Head(chan[c]).age <= ui[c].last /\ Reconcile(ui'[c]) = {}
             /\ ui'[c].vrx = Head(chan[c]).state.vrx /\ ui'[c].started = Head(chan[c]).state.started
             /\ ui'[c].last = Head(chan[c]).age
    <2>1. PICK q : q = chan[c]
      OBVIOUS
    <2>2. /\ q \in Seq(Words) /\ q # <<>> /\ chan'[c] = Tail(q)
          /\ q[1].age <= ui[c].last /\ ui'[c].last = q[1].age
          /\ ui'[c].vrx = q[1].state.vrx /\ ui'[c].started = q[1].state.started
      BY <1>6, <2>1, TailFacts DEF SyncTypes
    <2>3. PICK n \in Nat \ {0} : n = Len(q)
      BY <2>2, TailFacts
    <2>4. Len(Tail(q)) = n - 1 /\ (\A i \in 1..(n - 1) : Tail(q)[i] = q[i + 1])
          /\ (\A i \in 2..n : i - 1 \in 1..(n - 1) /\ Tail(q)[i - 1] = q[i])
      BY <2>2, <2>3, TailFacts
    <2>5. Attended(c)'
      BY <1>6 DEF Attended
    <2>6. /\ ui[c].last \in Nat /\ \A i \in 1..n : q[i].age \in Nat
      BY <2>1, <2>3, Ageing
    <2>7. ASSUME NEW age, Young(age, c) PROVE Young(age, c)'
      <3>1. 1 \in 1..n /\ \A i \in 1..(n - 1) : i + 1 \in 1..n
        OBVIOUS
      <3> QED BY <2>1, <2>2, <2>3, <2>4, <2>7, <3>1 DEF Young
    <2>8. (Herald(c) => Herald(c)') /\ (Teller(c) => Teller(c)')
      BY <1>1, <2>7 DEF Herald, Teller
    <2>9. TrueWord(c) => TrueWord(c)' \/ UpToDate(c)'
      <3> SUFFICES ASSUME NEW i \in 1..n, Arrives(c, i), q[i].age <= since, Right(q[i].state),
                          \A j \in (i + 1)..n : Right(q[j].state) \/ q[j].age > q[i].age
                   PROVE  TrueWord(c)' \/ UpToDate(c)'
        BY <2>1, <2>3 DEF TrueWord
      <3>1. CASE i = 1
        <4>1. ASSUME NEW j \in 1..(n - 1) PROVE Right(Tail(q)[j].state) \/ Tail(q)[j].age > (ui[c].last)'
          <5>1. j + 1 \in (i + 1)..n
            BY <3>1
          <5> QED BY <2>2, <2>4, <3>1, <5>1
        <4>2. Right(ui[c])'
          BY <1>1, <2>2, <3>1 DEF Right, Picture
        <4>3. (ui[c].last)' <= since' /\ Len(chan'[c]) = n - 1
          BY <1>1, <2>2, <2>4, <3>1
        <4>4. \A j \in 1..(n - 1) : Right(chan[c][j].state)' \/ (chan[c][j].age)' > (ui[c].last)'
          BY <1>1, <2>2, <4>1 DEF Right, Picture
        <4> QED BY <4>2, <4>3, <4>4 DEF UpToDate
      <3>2. CASE i # 1
        <4>1. i \in 2..n /\ i - 1 \in 1..(n - 1) /\ Tail(q)[i - 1] = q[i]
          BY <2>4, <3>2
        <4>2. \A j \in 1..(i - 1) : q[i].age <= q[j].age
          BY <2>1 DEF Arrives
        <4>3. Tail(q)[i - 1].age <= (ui[c].last)'
          <5>1. 1 \in 1..(i - 1)
            BY <4>1
          <5> QED BY <2>2, <4>1, <4>2, <5>1
        <4>4. ASSUME NEW j \in 1..(i - 1 - 1) PROVE Tail(q)[i - 1].age <= Tail(q)[j].age
          <5>1. j \in 1..(n - 1) /\ j + 1 \in 1..(i - 1)
            BY <4>1
          <5> QED BY <2>4, <4>1, <4>2, <5>1
        <4>5. Arrives(c, i - 1)'
          BY <2>2, <4>3, <4>4 DEF Arrives
        <4>6. ASSUME NEW j \in (i - 1 + 1)..(n - 1)
              PROVE  Right(Tail(q)[j].state) \/ Tail(q)[j].age > Tail(q)[i - 1].age
          <5>1. j \in 1..(n - 1) /\ j + 1 \in (i + 1)..n
            BY <4>1
          <5> QED BY <2>4, <4>1, <5>1
        <4> QED BY <1>1, <2>2, <2>4, <4>1, <4>5, <4>6 DEF TrueWord, Right, Picture
      <3> QED BY <3>1, <3>2
    <2>10. UpToDate(c) => UpToDate(c)'
      <3> SUFFICES ASSUME ui[c].last <= since, \A i \in 1..n : Right(q[i].state) \/ q[i].age > ui[c].last
                   PROVE  UpToDate(c)'
        BY <2>1, <2>3 DEF UpToDate
      <3>1. Right(q[1].state)
        <4>1. 1 \in 1..n
          OBVIOUS
        <4> QED BY <2>2, <2>6, <4>1
      <3>2. Right(ui[c])'
        BY <1>1, <2>2, <3>1 DEF Right, Picture
      <3>3. ASSUME NEW j \in 1..(n - 1) PROVE Right(Tail(q)[j].state) \/ Tail(q)[j].age > (ui[c].last)'
        <4>1. j + 1 \in 1..n /\ 1 \in 1..n
          OBVIOUS
        <4> QED BY <2>2, <2>4, <2>6, <4>1
      <3>4. (ui[c].last)' <= since' /\ Len(chan'[c]) = n - 1
        <4>1. since \in Nat /\ q[1].age \in Nat
          BY <2>1, <2>2, <2>3, Ageing
        <4> QED BY <1>1, <2>2, <2>4, <2>6, <4>1
      <3>5. \A j \in 1..(n - 1) : Right(chan[c][j].state)' \/ (chan[c][j].age)' > (ui[c].last)'
        BY <1>1, <2>2, <3>3 DEF Right, Picture
      <3> QED BY <3>2, <3>4, <3>5 DEF UpToDate
    <2>11. Mirrored(c) => Mirrored(c)'
      BY <1>1, <2>8, <2>9, <2>10 DEF Mirrored
    <2> QED BY <1>2, <2>5, <2>11
  <1> QED BY <1>2, <1>3, <1>4, <1>5, <1>6 DEF Turns

-----------------------------------------------------------------------------
LEMMA SyncStart ==
    ASSUME Sizes, SyncInit
    PROVE  SyncTypes /\ \A c \in Browsers : Herald(c) /\ Teller(c)
PROOF
  <1>1. PICK t : t = [pc |-> "read", age |-> 0]
    OBVIOUS
  <1>2. t \in ServerTasks /\ t.age = 0 /\ MaxAge \in Nat /\ 0 \in Ages
    BY <1>1, Loaded DEF Sizes
  <1>3. tasks = SetToBag({t})
    BY <1>1 DEF SyncInit
  <1>4. IsABag(tasks) /\ Under = {t}
    BY <1>3 DEF SetToBag, IsABag, Under, BagToSet
  <1>5. radio \in HubStates
    BY DEF SyncInit, Sizes
  <1>6. /\ \A c \in Browsers : chan[c] = <<>> /\ ui[c].last = MaxAge
        /\ chan \in [Browsers -> Seq(Words)] /\ ui \in [Browsers -> Pages]
    <2>1. /\ \A c \in Browsers : chan[c] = <<>>
          /\ chan \in [Browsers -> Seq(Words)]
      BY DEF SyncInit
    <2>2. PICK p : p = [last |-> MaxAge, started |-> FALSE, prev |-> FALSE, local |-> FALSE,
                        vrx |-> AllOff, slot |-> 1, muted |-> [s \in Slots |-> TRUE]]
      OBVIOUS
    <2>3. p \in Pages /\ p.last = MaxAge
      <3>1. AllOff \in [Slots -> Receiver]
        BY DEF AllOff, Receiver
      <3>2. MaxAge \in Ages
        BY <1>2 DEF Ages
      <3> QED BY <2>2, <3>1, <3>2 DEF Pages, Sizes
    <2>4. ui = [c \in Browsers |-> p]
      BY <2>2 DEF SyncInit
    <2> QED BY <2>1, <2>3, <2>4
  <1>7. ASSUME NEW c \in Browsers PROVE Young(0, c)
    BY <1>2, <1>6 DEF Young
  <1>8. since = MaxAge /\ since \in Ages /\ t.age <= since /\ untold = FALSE
    BY <1>2 DEF SyncInit, Ages
  <1> QED BY <1>2, <1>4, <1>5, <1>6, <1>7, <1>8 DEF SyncTypes, Herald, Teller

LEMMA SyncStep ==
    ASSUME Sizes, SyncTypes, [SyncNext]_syncvars
    PROVE  /\ SyncTypes'
           /\ \A d \in Browsers : Attended(d) => Attended(d)'
           /\ \A d \in Browsers : Mirrored(d) => Mirrored(d)'
PROOF
  <1>1. ASSUME NEW c \in Browsers, Operator(c) \/ OnText(c) PROVE Turns(c)
    BY <1>1, SelectTurns, ToggleTurns, ClickTurns, OnTextTurns DEF Operator
  <1>2. CASE \E c \in Browsers : Operator(c) \/ OnText(c)
    <2>1. PICK c \in Browsers : Turns(c)
      BY <1>1, <1>2
    <2>2. SyncTypes'
      BY <2>1 DEF Turns
    <2> QED BY <2>1, <2>2, TurnsKeeps
  <1>3. CASE Heralded' /\ SyncTypes'
    BY <1>3, HeraldsAll DEF Attended, Mirrored
  <1>4. CASE PushWelcome \/ Other
    BY <1>3, <1>4, UnaskedTurns
  <1>5. CASE Runtime
    <2>1. PICK t \in Under : Serve(t)
      BY <1>5 DEF Runtime, Under
    <2>2. CASE Begin(t)
      BY <1>3, <2>1, <2>2, BeginStep
    <2>3. CASE \E u : Goes(t, u)
      BY <2>1, <2>3, GoesTypes, GoesKeeps
    <2>4. CASE \E m : Says(t, m)
      BY <2>1, <2>4, SaysTypes, SaysKeeps
    <2> QED BY <2>1, <2>2, <2>3, <2>4, ServeSteps DEF Steps
  <1>6. CASE UNCHANGED syncvars
    <2>1. UNCHANGED <<radio, tasks, chan, ui, since, untold>>
      BY <1>6 DEF syncvars, history
    <2>2. SyncTypes' /\ Under \subseteq Under'
      BY <2>1 DEF SyncTypes, Under
    <2> QED BY <2>1, <2>2, AloneKeeps
  <1> QED BY <1>2, <1>4, <1>5, <1>6 DEF SyncNext

LEMMA SyncTyped == SyncSpec => []SyncTypes
  <1>1. SyncInit => SyncTypes
    BY SyncAssumption, SyncStart
  <1>2. SyncTypes /\ [SyncNext]_syncvars => SyncTypes'
    BY SyncAssumption, SyncStep
  <1> QED BY <1>1, <1>2, PTL DEF SyncSpec

LEMMA NoneInFlight ==
    ASSUME Quiet, NEW c \in Browsers
    PROVE  ~Herald(c) /\ ~Word(c) /\ ~Teller(c) /\ ~TrueWord(c)
PROOF
  <1>1. Under = {}
    BY DEF Quiet, EmptyBag, SetToBag, Under, BagToSet
  <1>2. Len(chan[c]) = 0
    BY DEF Quiet
  <1> QED BY <1>1, <1>2 DEF Herald, Word, Teller, TrueWord

\* Types of the session, the tasks, the messages and the pages (SharedState,
\* handle_cmd, on_text).
THEOREM SyncTypeCorrect == SyncSpec => []TypeOK
  <1>1. SyncTypes => TypeOK
    <2> SUFFICES ASSUME SyncTypes PROVE TypeOK
      OBVIOUS
    <2>1. ASSUME NEW c \in Browsers, NEW i \in DOMAIN chan[c] PROVE chan[c][i] \in Words
      BY DEF SyncTypes
    <2>2. \A x \in Stamps : x.age \in 0..MaxAge
      <3>1. ASSUME NEW t \in BagToSet(tasks), Holds(t) PROVE t.age \in Ages
        BY <3>1, Kinds DEF SyncTypes, Under
      <3>2. ASSUME NEW c \in Browsers, NEW m \in Range(chan[c]) PROVE m.age \in Ages
        BY <2>1 DEF Range, Words
      <3> QED BY <3>1, <3>2 DEF Stamps, Ages
    <2>3. \A c \in Browsers : \A i \in DOMAIN chan[c] : chan[c][i].state \in State
      BY <2>1 DEF Words
    <2> QED BY <2>2, <2>3 DEF SyncTypes, TypeOK, Pages, Ages
  <1> QED BY <1>1, SyncTyped, PTL

\* Whatever fails and whatever is discarded, a page that has commands to send
\* is about to apply a snapshot: when nothing is in flight, every page shows
\* the receivers that its operator wants (on_text, reconcile_vrx).
THEOREM PagesAttended == SyncSpec => []ShownAsWanted
  <1> DEFINE Inv == SyncTypes /\ \A c \in Browsers : Attended(c)
  <1>1. SyncInit => Inv
    BY SyncAssumption, SyncStart DEF Attended
  <1>2. Inv /\ [SyncNext]_syncvars => Inv'
    BY SyncAssumption, SyncStep
  <1>3. Inv => ShownAsWanted
    <2> SUFFICES ASSUME Inv, Quiet, NEW c \in Browsers, NEW s \in Slots
                 PROVE  ui[c].vrx[s] = Desired(ui[c], s)
      BY DEF ShownAsWanted
    <2>1. Reconcile(ui[c]) = {}
      BY NoneInFlight DEF Attended
    <2>2. Repairs(ui[c], s) = {}
      BY <2>1 DEF Reconcile
    <2> QED BY <2>2 DEF Repairs
  <1> QED BY <1>1, <1>2, <1>3, PTL DEF SyncSpec

\* However snapshots were stamped, read, sent and discarded, and whichever
\* commands failed: when nothing is in flight a page shows what the hub has,
\* unless a snapshot that was read before the hub's last change was sent after
\* it under as new a stamp, or a rebuild failed (snapshot, on_text).
THEOREM ViewsConverge == SyncSpec => []LastWord
  <1> DEFINE Inv == SyncTypes /\ \A c \in Browsers : Mirrored(c)
  <1>1. SyncInit => Inv
    BY SyncAssumption, SyncStart DEF Mirrored
  <1>2. Inv /\ [SyncNext]_syncvars => Inv'
    BY SyncAssumption, SyncStep
  <1>3. Inv => LastWord
    BY NoneInFlight DEF Mirrored, UpToDate, Right, LastWord
  <1> QED BY <1>1, <1>2, <1>3, PTL DEF SyncSpec

\* With the same two exceptions the hub then runs the receivers that every
\* operator wants, muted as wanted (reconcile_vrx, desired_vrx).
THEOREM PagesSettled == SyncSpec => [](Quiet /\ ~untold => Settled)
  <1>1. ShownAsWanted /\ LastWord => (Quiet /\ ~untold => Settled)
    <2> SUFFICES ASSUME ShownAsWanted, LastWord, Quiet, ~untold, NEW c \in Browsers, NEW s \in Slots
                 PROVE  radio.vrx[s] = Desired(ui[c], s)
      BY DEF Settled
    <2>1. ui[c].vrx[s] = Desired(ui[c], s)
      BY DEF ShownAsWanted
    <2>2. Picture(ui[c]) = Picture(radio)
      BY DEF LastWord
    <2> QED BY <2>1, <2>2 DEF Picture
  <1> QED BY <1>1, PagesAttended, ViewsConverge, PTL
=============================================================================
