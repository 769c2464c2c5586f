-------------------------- MODULE HubSessionProofs --------------------------
(***************************************************************************)
(* Proofs about HubSession, for any tasks, slots, modes, frequencies and   *)
(* initial tunings, and any number of commands: its type invariant, the    *)
(* ownership of the pipelines and the NCO of automatic decoders under      *)
(* every interleaving of the commands; and what holds as long as no        *)
(* command overlaps another.                                               *)
(***************************************************************************)
EXTENDS HubSession, NumberFacts, TLAPS

\* What a task may go on with after a join.
Resumes(k, handles) ==
    \/ k = Idle
    \/ k.pc = "abort" /\ k.radio \in handles
    \/ k.pc = "take" /\ k.slot \in Slots
    \/ k \in [pc : {"autospawn"}, slot : Slots, nco : Ncos]

AllModes == Modes \union {AutoMode}

\* What a task knows at each step of a command.
Fits(k, handles, ids) ==
    \/ k = Idle
    \/ k.pc \in {"connect", "mark"}
    \/ k.pc = "install" /\ k.radio \in handles /\ k.tuned \in Maps(Ncos)
    \/ k.pc \in {"abort", "store"} /\ k.radio \in handles
    \/ k.pc = "abortjoin" /\ k.vrxs \subseteq ids
    \/ k.pc \in {"drop", "join"} /\ k.vrxs \subseteq ids /\ Resumes(k.next, handles)
    \/ k.pc = "peek" /\ k.radio \in handles /\ k.slot \in Slots /\ k.freq \in Ncos
    \/ k.pc = "tune" /\ k.radio \in handles /\ k.slot \in Slots /\ k.freq \in Ncos
                     /\ k.activates \in BOOLEAN
    \/ k.pc = "note" /\ k.slot \in Slots /\ k.freq \in Ncos /\ k.activates \in BOOLEAN
    \/ k.pc = "take" /\ k.slot \in Slots
    \/ k.pc \in {"inplace", "remove"} /\ k.slot \in Slots /\ k.mode \in Modes
    \/ k \in [pc : {"replace"}, slot : Slots, old : SUBSET ids, mode : AllModes,
              muted : BOOLEAN, asked : BOOLEAN]
    \/ k.pc = "spawn" /\ k.slot \in Slots /\ k.mode \in AllModes /\ k.muted \in BOOLEAN
                      /\ k.asked \in BOOLEAN
    \/ k.pc = "insert" /\ k.slot \in Slots /\ k.vrx \in ids /\ k.asked \in BOOLEAN
    \/ k \in [pc : {"autotake", "autospawn"}, slot : Slots, nco : Ncos]
    \/ k.pc = "autoinsert" /\ k.slot \in Slots /\ k.vrxs \subseteq ids

\* The steps that act on the session there is.
OnSession(k) ==
    /\ k.pc \notin {"idle", "connect", "install"}
    /\ k.pc = "join" => k.next # Idle

TasksFit == \A t \in Tasks : Fits(task[t], Radios, Ids)

SessionThere == \A t \in Tasks : OnSession(task[t]) => session # None

HubTypes == StateOK /\ TasksFit /\ SessionThere
-----------------------------------------------------------------------------
(* Maps keyed by slots.                                                    *)

\* A map is a function from some of the slots.
LEMMA MapForm ==
    ASSUME NEW T, NEW f \in Maps(T)
    PROVE  /\ DOMAIN f \subseteq Slots
           /\ f \in [DOMAIN f -> T]
  BY DEF Maps

LEMMA MapIntro ==
    ASSUME NEW T, NEW D \in SUBSET Slots, NEW f \in [D -> T]
    PROVE  f \in Maps(T)
  BY DEF Maps

LEMMA EmptyMap == \A T : Empty \in Maps(T) /\ DOMAIN Empty = {}
  <1> TAKE T
  <1>1. Empty \in [{} -> T] /\ DOMAIN Empty = {}
    BY DEF Empty
  <1> QED BY <1>1, MapIntro

LEMMA MapsGrow ==
    ASSUME NEW T, NEW U, T \subseteq U
    PROVE  Maps(T) \subseteq Maps(U)
  <1> SUFFICES ASSUME NEW f \in Maps(T) PROVE f \in Maps(U)
    OBVIOUS
  <1>1. DOMAIN f \in SUBSET Slots /\ f \in [DOMAIN f -> U]
    BY MapForm
  <1> QED BY <1>1, MapIntro

\* Setting and removing an entry.
LEMMA WithMap ==
    ASSUME NEW T, NEW f \in Maps(T), NEW s \in Slots, NEW v \in T
    PROVE  With(f, s, v) \in Maps(T)
  <1>1. DOMAIN f \union {s} \in SUBSET Slots /\ f \in [DOMAIN f -> T]
    BY MapForm
  <1>2. With(f, s, v) \in [DOMAIN f \union {s} -> T]
    BY <1>1 DEF With
  <1> QED BY <1>1, <1>2, MapIntro

LEMMA WithEntries ==
    \A f, s, v : /\ DOMAIN With(f, s, v) = DOMAIN f \union {s}
                 /\ With(f, s, v)[s] = v
                 /\ \A x \in DOMAIN f : x # s => With(f, s, v)[x] = f[x]
  BY DEF With

LEMMA RestrictMap ==
    ASSUME NEW T, NEW f \in Maps(T), NEW S, S \subseteq DOMAIN f
    PROVE  /\ Restrict(f, S) \in Maps(T)
           /\ DOMAIN Restrict(f, S) = S
           /\ \A x \in S : Restrict(f, S)[x] = f[x]
  <1>1. S \in SUBSET Slots /\ f \in [DOMAIN f -> T]
    BY MapForm
  <1>2. Restrict(f, S) \in [S -> T]
    BY <1>1 DEF Restrict
  <1> QED BY <1>1, <1>2, MapIntro DEF Restrict

LEMMA WithoutMap ==
    ASSUME NEW T, NEW f \in Maps(T), NEW s
    PROVE  /\ Without(f, s) \in Maps(T)
           /\ DOMAIN Without(f, s) = DOMAIN f \ {s}
           /\ \A x \in DOMAIN f \ {s} : Without(f, s)[x] = f[x]
  <1>1. DOMAIN f \ {s} \subseteq DOMAIN f
    OBVIOUS
  <1> QED BY <1>1, RestrictMap DEF Without

\* The first of a set of slots.
LEMMA MinOfSlots ==
    ASSUME NEW S \in SUBSET Slots, S # {}
    PROVE  Min(S) \in S
  <1>1. S \subseteq Nat
    BY HubAssumption
  <1>2. \E n \in S : \A m \in S : n <= m
    BY <1>1, LeastNatural
  <1> QED BY <1>2 DEF Min
-----------------------------------------------------------------------------
(* Type correctness.                                                       *)

\* What fits now still fits when handles and pipelines are added.
LEMMA FitsGrow ==
    ASSUME NEW k, NEW H, NEW I, NEW H2, NEW I2, H \subseteq H2, I \subseteq I2, Fits(k, H, I)
    PROVE  Fits(k, H2, I2)
  BY DEF Fits, Resumes

LEMMA SessionsGrow ==
    ASSUME NEW H, NEW I, NEW H2, NEW I2, H \subseteq H2, I \subseteq I2, NEW x \in Sessions(H, I)
    PROVE  x \in Sessions(H2, I2)
  <1>1. Maps(I) \subseteq Maps(I2) /\ Maps(SUBSET I) \subseteq Maps(SUBSET I2)
    BY MapsGrow
  <1> QED BY <1>1 DEF Sessions

\* A session is not None.
LEMMA SessionIsThere ==
    ASSUME StateOK
    PROVE  Sessions(Radios, Ids) \subseteq Sessions(Nat, Nat) /\ None \notin Sessions(Radios, Ids)
           /\ None \notin Radios
  <1>1. Radios \subseteq Nat /\ Ids \subseteq Nat
    BY DEF StateOK, Radios, Ids
  <1>2. Sessions(Radios, Ids) \subseteq Sessions(Nat, Nat)
    BY <1>1, SessionsGrow
  <1> QED BY <1>1, <1>2, HubAssumption

\* A task that moves on leaves the others where they are.
LEMMA MovesOn ==
    ASSUME HubTypes, NEW t \in Tasks, NEW k, Goto(t, k),
           Radios \subseteq Radios', Ids \subseteq Ids', Fits(k, Radios', Ids'),
           session # None => session' # None,
           OnSession(k) => session' # None
    PROVE  /\ TasksFit' /\ SessionThere' /\ task' = [u \in Tasks |-> task'[u]]
           /\ task'[t] = k
           /\ \A u \in Tasks \ {t} : task'[u] = task[u]
  <1>1. /\ task' = [u \in Tasks |-> task'[u]] /\ task'[t] = k
        /\ \A u \in Tasks \ {t} : task'[u] = task[u]
    BY DEF HubTypes, StateOK, Goto
  <1>2. TasksFit'
    BY <1>1, FitsGrow DEF HubTypes, TasksFit
  <1>3. SessionThere'
    BY <1>1 DEF HubTypes, SessionThere
  <1> QED BY <1>1, <1>2, <1>3

\* Beginning and continuing a command.
LEMMA Counting ==
    ASSUME StateOK, NEW t \in Tasks, NEW pc, Begins(t) \/ At(t, pc)
    PROVE  commands' \in 0..MaxCommands /\ overlap' \in BOOLEAN
  <1>1. commands' \in 0..MaxCommands
    BY HubAssumption DEF StateOK, Begins, At
  <1>2. overlap' \in BOOLEAN
    BY Zenon DEF StateOK, Begins, At
  <1> QED BY <1>1, <1>2

\* Steps that change the session's maps or nothing but the task's state.
LEMMA MapStep ==
    ASSUME HubTypes, NEW t \in Tasks, NEW k, Goto(t, k),
           UNCHANGED <<spectrum, radios, ringCount, vrxs>>,
           session' = session \/ session' \in Sessions(Radios, Ids),
           lock' \in Tasks \union {Free}, intent' \in [Slots -> BOOLEAN], slipped' \subseteq Slots,
           commands' \in 0..MaxCommands, overlap' \in BOOLEAN,
           Fits(k, Radios, Ids),
           OnSession(k) => session' # None
    PROVE  HubTypes' /\ (session # None => session' # None)
  <1>1. Radios' = Radios /\ Ids' = Ids
    BY DEF Radios, Ids
  <1>2. session # None => session' # None
    BY SessionIsThere DEF HubTypes
  <1>3. TasksFit' /\ SessionThere' /\ task' = [u \in Tasks |-> task'[u]]
    BY <1>1, <1>2, MovesOn
  <1>4. session' = None \/ session' \in Sessions(Radios', Ids')
    BY <1>1 DEF HubTypes, StateOK
  <1>5. Receivers' = Receivers /\ Handles' = Handles
    BY <1>1 DEF Receivers, Handles
  <1>6. StateOK'
    BY <1>1, <1>3, <1>4, <1>5 DEF HubTypes, StateOK
  <1> QED BY <1>2, <1>3, <1>6 DEF HubTypes

\* Steps that read and decide.
LEMMA ReadTyped ==
    ASSUME HubTypes, NEW t \in Tasks,
           \/ StartCheck(t) \/ ConnectFails(t) \/ StopRead(t) \/ TunePeek(t) \/ InPlace(t) \/ SpawnFails(t)
           \/ \E s \in Slots : \E f \in Ncos : TuneRead(t, s, f)
           \/ \E s \in Slots : \E m \in Modes : SetVrxCheck(t, s, m)
           \/ \E s \in AutoSlots : AutoRead(t, s)
    PROVE  HubTypes'
  <1>1. /\ UNCHANGED <<session, spectrum, radios, ringCount, vrxs, lock, intent, slipped>>
        /\ \E pc : Begins(t) \/ At(t, pc)
    BY DEF StartCheck, ConnectFails, StopRead, TunePeek, InPlace, SpawnFails, TuneRead, SetVrxCheck, AutoRead
  <1>2. commands' \in 0..MaxCommands /\ overlap' \in BOOLEAN
    BY <1>1, Counting DEF HubTypes
  <1>3. lock' \in Tasks \union {Free} /\ intent' \in [Slots -> BOOLEAN] /\ slipped' \subseteq Slots
    BY <1>1 DEF HubTypes, StateOK
  <1>4. session = None \/ session \in Sessions(Radios, Ids)
    BY DEF HubTypes, StateOK
  <1>5. /\ Fits(task[t], Radios, Ids)
        /\ OnSession(task[t]) => session # None
    BY DEF HubTypes, TasksFit, SessionThere
  <1>6. ASSUME NEW k, Goto(t, k), Fits(k, Radios, Ids), OnSession(k) => session # None
        PROVE  HubTypes'
    BY <1>1, <1>2, <1>3, <1>6, MapStep
  <1>7. Fits(Idle, Radios, Ids) /\ ~OnSession(Idle)
    BY DEF Fits, Idle, OnSession
  <1>8. CASE StartCheck(t)
    <2> DEFINE k == IF Started THEN Idle ELSE [pc |-> "connect"]
    <2>1. Goto(t, k) /\ Fits(k, Radios, Ids) /\ ~OnSession(k)
      BY <1>7, <1>8 DEF StartCheck, Fits, OnSession
    <2> HIDE DEF k
    <2> QED BY <1>6, <2>1
  <1>9. CASE ConnectFails(t) \/ SpawnFails(t)
    BY <1>6, <1>7, <1>9 DEF ConnectFails, SpawnFails
  <1>10. CASE StopRead(t)
    <2> DEFINE k == IF Started THEN [pc |-> "mark"] ELSE Idle
    <2>1. Goto(t, k) /\ Fits(k, Radios, Ids) /\ (OnSession(k) => session # None)
      BY <1>7, <1>10 DEF StopRead, Fits, OnSession, Started
    <2> HIDE DEF k
    <2> QED BY <1>6, <2>1
  <1>11. CASE TunePeek(t)
    <2> DEFINE k == [pc |-> "tune", radio |-> task[t].radio, slot |-> task[t].slot, freq |-> task[t].freq,
                     activates |-> task[t].slot \notin DOMAIN radios[task[t].radio].rings]
    <2>1. task[t].pc = "peek" /\ Goto(t, k)
      BY <1>11 DEF TunePeek, At
    <2>2. Fits(k, Radios, Ids) /\ (OnSession(k) => session # None)
      BY <1>5, <2>1 DEF Fits, OnSession, Idle
    <2> HIDE DEF k
    <2> QED BY <1>6, <2>1, <2>2
  <1>12. CASE InPlace(t)
    <2>1. task[t].pc = "inplace"
      BY <1>12 DEF InPlace, At
    <2> DEFINE k == [pc |-> "remove", slot |-> task[t].slot, mode |-> task[t].mode]
    <2>2. Fits(k, Radios, Ids) /\ (OnSession(k) => session # None)
      BY <1>5, <2>1 DEF Fits, OnSession, Idle
    <2>3. Goto(t, Idle) \/ Goto(t, k)
      BY <1>12 DEF InPlace
    <2> HIDE DEF k
    <2> QED BY <1>6, <1>7, <2>2, <2>3
  <1>13. ASSUME NEW s \in Slots, NEW f \in Ncos, TuneRead(t, s, f) PROVE HubTypes'
    <2> DEFINE k == IF Started THEN [pc |-> "peek", radio |-> session.radio, slot |-> s, freq |-> f] ELSE Idle
    <2>1. Started => session.radio \in Radios
      BY <1>4 DEF Started, Sessions
    <2>2. Goto(t, k) /\ Fits(k, Radios, Ids) /\ (OnSession(k) => session # None)
      BY <1>7, <1>13, <2>1 DEF TuneRead, Fits, OnSession, Started
    <2> HIDE DEF k
    <2> QED BY <1>6, <2>2
  <1>14. ASSUME NEW s \in Slots, NEW m \in Modes, SetVrxCheck(t, s, m) PROVE HubTypes'
    <2> DEFINE k == IF Started THEN [pc |-> "inplace", slot |-> s, mode |-> m] ELSE Idle
    <2>2. Goto(t, k) /\ Fits(k, Radios, Ids) /\ (OnSession(k) => session # None)
      BY <1>7, <1>14 DEF SetVrxCheck, Fits, OnSession, Started
    <2> HIDE DEF k
    <2> QED BY <1>6, <2>2
  <1>15. ASSUME NEW s \in AutoSlots, AutoRead(t, s) PROVE HubTypes'
    <2> DEFINE k == IF Started /\ s \in DOMAIN session.tuning
                    THEN [pc |-> "autotake", slot |-> s, nco |-> session.tuning[s]]
                    ELSE Idle
    <2>1. Started /\ s \in DOMAIN session.tuning => session.tuning[s] \in Ncos /\ s \in Slots
      <3>1. Started => session.tuning \in Maps(Ncos)
        BY <1>4 DEF Started, Sessions
      <3> QED BY <3>1, MapForm
    <2>2. Goto(t, k) /\ Fits(k, Radios, Ids) /\ (OnSession(k) => session # None)
      BY <1>7, <1>15, <2>1 DEF AutoRead, Fits, OnSession, Started
    <2> HIDE DEF k
    <2> QED BY <1>6, <2>2
  <1> QED BY <1>8, <1>9, <1>10, <1>11, <1>12, <1>13, <1>14, <1>15
-----------------------------------------------------------------------------

\* The maps of the session that there is.
LEMMA MapsTyped ==
    ASSUME StateOK
    PROVE  /\ Vrx \in Maps(Ids) /\ Autos \in Maps(SUBSET Ids)
           /\ DOMAIN Vrx \subseteq Slots /\ DOMAIN Autos \subseteq Slots
           /\ \A s \in DOMAIN Vrx : Vrx[s] \in Ids
           /\ \A s \in DOMAIN Autos : Autos[s] \subseteq Ids
           /\ \A s : AutosOf(s) \subseteq Ids
           /\ Pipelines \subseteq Ids
           /\ session # None => /\ session \in Sessions(Radios, Ids)
                                /\ Vrx = session.vrx /\ Autos = session.auto
                                /\ session.tuning \in Maps(Ncos)
  <1>1. Vrx \in Maps(Ids) /\ Autos \in Maps(SUBSET Ids)
    BY EmptyMap DEF StateOK, Vrx, Autos, Sessions
  <1>2. /\ DOMAIN Vrx \subseteq Slots /\ DOMAIN Autos \subseteq Slots
        /\ \A s \in DOMAIN Vrx : Vrx[s] \in Ids
        /\ \A s \in DOMAIN Autos : Autos[s] \subseteq Ids
    <2>1. Vrx \in [DOMAIN Vrx -> Ids] /\ Autos \in [DOMAIN Autos -> SUBSET Ids]
          /\ DOMAIN Vrx \subseteq Slots /\ DOMAIN Autos \subseteq Slots
      BY <1>1, MapForm
    <2> QED BY <2>1
  <1>3. \A s : AutosOf(s) \subseteq Ids
    BY <1>2 DEF AutosOf
  <1>4. Pipelines \subseteq Ids
    BY <1>2 DEF Pipelines, Range
  <1>5. session # None => /\ session \in Sessions(Radios, Ids)
                          /\ Vrx = session.vrx /\ Autos = session.auto
                          /\ session.tuning \in Maps(Ncos)
    BY DEF StateOK, Vrx, Autos, Sessions
  <1> QED BY <1>1, <1>2, <1>3, <1>4, <1>5

\* Changing the maps of a session leaves a session.
LEMMA SessionEdits ==
    ASSUME NEW H, NEW I, NEW x \in Sessions(H, I), NEW v \in Maps(I), NEW a \in Maps(SUBSET I),
           NEW n \in Maps(Ncos)
    PROVE  /\ [x EXCEPT !.vrx = v] \in Sessions(H, I)
           /\ [x EXCEPT !.auto = a] \in Sessions(H, I)
           /\ [x EXCEPT !.tuning = n, !.auto = a] \in Sessions(H, I)
           /\ [x EXCEPT !.started = FALSE, !.vrx = v, !.auto = a] \in Sessions(H, I)
  BY DEF Sessions

\* Dropping under the mutex, or going on at once.
LEMMA DropTyped ==
    ASSUME NEW t \in Tasks, NEW ids \in SUBSET Ids, NEW next, DropThen(t, ids, next),
           Resumes(next, Radios), next.pc \in {"idle", "abort"}
    PROVE  /\ lock' \in Tasks \union {Free}
           /\ \E k : Goto(t, k) /\ Fits(k, Radios, Ids)
  <1>1. Fits([pc |-> "drop", vrxs |-> ids, next |-> next], Radios, Ids)
    BY DEF Fits
  <1>2. Fits(next, Radios, Ids)
    BY DEF Fits, Resumes, Idle
  <1> QED BY <1>1, <1>2 DEF DropThen

\* A start leaves a session.
LEMMA InstallThere ==
    ASSUME StateOK, NEW t \in Tasks, Fits(task[t], Radios, Ids), Install(t)
    PROVE  session' \in Sessions(Radios, Ids) /\ session' # None
  <1>1. task[t].radio \in Radios /\ task[t].tuned \in Maps(Ncos)
    BY DEF Install, At, Fits, Idle
  <1>2. session' \in Sessions(Radios, Ids)
    BY <1>1, EmptyMap DEF Install, Sessions
  <1> QED BY <1>2, SessionIsThere

\* Steps that put entries into the session's maps or take them out.
LEMMA MapsChangeTyped ==
    ASSUME HubTypes, NEW t \in Tasks,
           \/ Install(t) \/ StopMark(t) \/ TuneNote(t) \/ RebindTake(t) \/ Remove(t) \/ Insert(t)
           \/ SetVrxNone(t) \/ AutoTake(t) \/ AutoInsert(t)
           \/ \E s \in Slots : SetVrxOff(t, s)
           \/ \E s \in AutoSlots : AutoOff(t, s)
    PROVE  HubTypes' /\ (session # None => session' # None)
  <1>1. /\ UNCHANGED <<spectrum, radios, ringCount, vrxs, slipped>>
        /\ \E pc : Begins(t) \/ At(t, pc)
    BY DEF Install, StopMark, TuneNote, RebindTake, Remove, Insert, SetVrxNone, SetVrxOff, TakeOut,
           AutoTake, AutoOff, TakeAutos, AutoInsert
  <1>2. commands' \in 0..MaxCommands /\ overlap' \in BOOLEAN /\ slipped' \subseteq Slots
    BY <1>1, Counting DEF HubTypes, StateOK
  <1>3. /\ StateOK
        /\ lock \in Tasks \union {Free}
        /\ intent \in [Slots -> BOOLEAN]
    BY DEF HubTypes, StateOK
  <1>4. /\ Fits(task[t], Radios, Ids)
        /\ OnSession(task[t]) => session # None
    BY DEF HubTypes, TasksFit, SessionThere
  <1>5. /\ session # None => session \in Sessions(Radios, Ids)
        /\ None \notin Sessions(Radios, Ids)
    BY <1>3, SessionIsThere DEF StateOK
  <1>6. ASSUME NEW k, Goto(t, k), Fits(k, Radios, Ids), OnSession(k) => session' # None,
               session' = session \/ session' \in Sessions(Radios, Ids),
               lock' \in Tasks \union {Free}, intent' \in [Slots -> BOOLEAN]
        PROVE  HubTypes' /\ (session # None => session' # None)
    BY <1>1, <1>2, <1>6, MapStep
  <1>7. Fits(Idle, Radios, Ids) /\ ~OnSession(Idle) /\ Resumes(Idle, Radios) /\ Idle.pc = "idle"
    BY DEF Fits, Idle, OnSession, Resumes
  <1>8. Sessions(Radios, Ids) = [radio : Radios, started : BOOLEAN, vrx : Maps(Ids),
                                 auto : Maps(SUBSET Ids), tuning : Maps(Ncos)]
    BY DEF Sessions
  <1>9. CASE Install(t)
    <2> DEFINE next == [pc |-> "abort", radio |-> task[t].radio]
    <2>1. task[t].radio \in Radios /\ task[t].tuned \in Maps(Ncos)
      BY <1>4, <1>9 DEF Install, At, Fits, Idle
    <2>3. session' \in Sessions(Radios, Ids)
      BY <1>3, <1>4, <1>9, InstallThere
    <2>4. DropThen(t, Pipelines, next) /\ intent' = intent
      BY <1>9 DEF Install
    <2>5. Resumes(next, Radios) /\ next.pc \in {"idle", "abort"}
      BY <2>1 DEF Resumes
    <2>6. Pipelines \in SUBSET Ids
      BY <1>3, MapsTyped
    <2> HIDE DEF next
    <2>7. lock' \in Tasks \union {Free} /\ \E k : Goto(t, k) /\ Fits(k, Radios, Ids)
      BY <2>4, <2>5, <2>6, DropTyped
    <2> QED BY <1>3, <1>5, <1>6, <2>3, <2>4, <2>7
  <1>10. CASE StopMark(t)
    <2> DEFINE k == [pc |-> "abortjoin", vrxs |-> Pipelines]
    <2>1. session # None
      BY <1>4, <1>10 DEF StopMark, At, OnSession
    <2>2. session' \in Sessions(Radios, Ids)
      BY <1>5, <1>8, <1>10, <2>1, EmptyMap, ZenonT(40) DEF StopMark
    <2>3. Goto(t, k) /\ Fits(k, Radios, Ids) /\ intent' = intent /\ lock' = lock
      BY <1>3, <1>10, MapsTyped DEF StopMark, Fits
    <2> HIDE DEF k
    <2> QED BY <1>3, <1>5, <1>6, <2>2, <2>3
  <1>11. CASE TuneNote(t)
    <2>1. /\ session # None /\ task[t].pc = "note" /\ task[t].slot \in Slots /\ task[t].freq \in Ncos
          /\ task[t].activates \in BOOLEAN
      BY <1>4, <1>11 DEF TuneNote, At, OnSession, Fits, Idle
    <2>2. /\ With(session.tuning, task[t].slot, task[t].freq) \in Maps(Ncos)
          /\ Without(Autos, task[t].slot) \in Maps(SUBSET Ids)
      BY <1>3, <2>1, MapsTyped, WithMap, WithoutMap
    <2>3. session' \in Sessions(Radios, Ids)
      BY <1>3, <1>5, <1>11, <2>1, <2>2, SessionEdits, MapsTyped DEF TuneNote
    <2>4. Resumes(AfterNote(t), Radios) /\ Fits(AfterNote(t), Radios, Ids)
      BY <1>7, <2>1 DEF AfterNote, Resumes, Fits
    <2> DEFINE k == [pc |-> "join", vrxs |-> AutosOf(task[t].slot), next |-> AfterNote(t)]
    <2>5. Fits(k, Radios, Ids)
      BY <1>3, <2>4, MapsTyped DEF Fits
    <2>6. (Goto(t, k) \/ Goto(t, AfterNote(t))) /\ intent' = intent /\ lock' = lock
      BY <1>11 DEF TuneNote
    <2> HIDE DEF k
    <2> QED BY <1>3, <1>5, <1>6, <2>3, <2>4, <2>5, <2>6
  <1>12. CASE RebindTake(t)
    <2>1. /\ session # None /\ task[t].slot \in Slots
      BY <1>4, <1>12 DEF RebindTake, At, OnSession, Fits, Idle
    <2>2. CASE task[t].slot \in DOMAIN Vrx
      <3> DEFINE v == vrxs[Vrx[task[t].slot]]
                 k == [pc |-> "replace", slot |-> task[t].slot, old |-> {Vrx[task[t].slot]},
                       mode |-> v.mode, muted |-> v.muted, asked |-> FALSE]
      <3>1. Vrx[task[t].slot] \in Ids
        BY <1>3, <2>2, MapsTyped
      <3>2. v \in Receivers
        BY <1>3, <3>1 DEF StateOK, Ids
      <3>3. v.mode \in AllModes /\ v.muted \in BOOLEAN
        BY <3>2 DEF Receivers, AllModes
      <3>4. Without(Vrx, task[t].slot) \in Maps(Ids)
        BY <1>3, MapsTyped, WithoutMap
      <3>5. session' \in Sessions(Radios, Ids)
        BY <1>5, <1>8, <1>12, <2>1, <2>2, <3>4, ZenonT(40) DEF RebindTake
      <3>6. Goto(t, k) /\ intent' = intent /\ lock' = lock
        BY <1>12, <2>2 DEF RebindTake
      <3> HIDE DEF v
      <3>7. Fits(k, Radios, Ids)
        BY <2>1, <3>1, <3>3 DEF Fits
      <3> HIDE DEF k
      <3> QED BY <1>3, <1>5, <1>6, <3>5, <3>6, <3>7
    <2>3. CASE task[t].slot \notin DOMAIN Vrx
      BY <1>3, <1>6, <1>7, <1>12, <2>3 DEF RebindTake
    <2> QED BY <2>2, <2>3
  <1>13. CASE Remove(t)
    <2>1. /\ session # None /\ task[t].slot \in Slots /\ task[t].mode \in Modes
      BY <1>4, <1>13 DEF Remove, At, OnSession, Fits, Idle
    <2> DEFINE old == {Vrx[x] : x \in DOMAIN Vrx \intersect {task[t].slot}}
               k == [pc |-> "replace", slot |-> task[t].slot, mode |-> task[t].mode, muted |-> FALSE,
                     asked |-> TRUE, old |-> old]
    <2>2. old \in SUBSET Ids
      BY <1>3, MapsTyped
    <2>3. Without(Vrx, task[t].slot) \in Maps(Ids)
      BY <1>3, MapsTyped, WithoutMap
    <2>4. session' \in Sessions(Radios, Ids)
      BY <1>5, <1>8, <1>13, <2>1, <2>3 DEF Remove
    <2>5. Goto(t, k) /\ intent' = intent /\ lock' = lock
      BY <1>13 DEF Remove
    <2> HIDE DEF old
    <2>6. Fits(k, Radios, Ids)
      BY <2>1, <2>2 DEF Fits, AllModes
    <2> HIDE DEF k
    <2> QED BY <1>3, <1>5, <1>6, <2>4, <2>5, <2>6
  <1>14. CASE Insert(t)
    <2>1. /\ session # None /\ task[t].slot \in Slots /\ task[t].vrx \in Ids
      BY <1>4, <1>14 DEF Insert, At, OnSession, Fits, Idle
    <2>2. With(Vrx, task[t].slot, task[t].vrx) \in Maps(Ids)
      BY <1>3, <2>1, MapsTyped, WithMap
    <2>3. session' \in Sessions(Radios, Ids)
      BY <1>5, <1>8, <1>14, <2>1, <2>2 DEF Insert
    <2>4. DropThen(t, {Vrx[s] : s \in DOMAIN Vrx \intersect {task[t].slot}}, Idle)
      BY <1>14 DEF Insert
    <2>5. {Vrx[s] : s \in DOMAIN Vrx \intersect {task[t].slot}} \in SUBSET Ids
      BY <1>3, MapsTyped
    <2>6. lock' \in Tasks \union {Free} /\ \E k : Goto(t, k) /\ Fits(k, Radios, Ids)
      BY <1>7, <2>4, <2>5, DropTyped
    <2>7. intent' \in [Slots -> BOOLEAN]
      BY <1>3, <1>14 DEF Insert
    <2> QED BY <1>5, <1>6, <2>3, <2>6, <2>7
  <1>15. ASSUME NEW S, TakeOut(t, S) PROVE HubTypes' /\ (session # None => session' # None)
    <2> DEFINE k == [pc |-> "join", vrxs |-> {Vrx[s] : s \in DOMAIN Vrx \intersect S}, next |-> Idle]
    <2>1. Restrict(Vrx, DOMAIN Vrx \ S) \in Maps(Ids)
      <3>1. Vrx \in Maps(Ids) /\ DOMAIN Vrx \ S \subseteq DOMAIN Vrx
        BY <1>3, MapsTyped
      <3> QED BY <3>1, RestrictMap
    <2>2. session' = session \/ session' \in Sessions(Radios, Ids)
      BY <1>5, <1>8, <1>15, <2>1 DEF TakeOut
    <2>3. Goto(t, k) /\ lock' = lock /\ intent' = intent
      BY <1>15 DEF TakeOut
    <2>4. {Vrx[s] : s \in DOMAIN Vrx \intersect S} \subseteq Ids
      BY <1>3, MapsTyped
    <2>5. Fits(k, Radios, Ids) /\ ~OnSession(k)
      BY <1>7, <2>4 DEF Fits, OnSession
    <2> HIDE DEF k
    <2> QED BY <1>3, <1>6, <2>2, <2>3, <2>5
  <1>16. ASSUME NEW s, NEW next, TakeAutos(t, s, next), Resumes(next, Radios), next # Idle => session # None
         PROVE  HubTypes' /\ (session # None => session' # None)
    <2> DEFINE k == [pc |-> "join", vrxs |-> AutosOf(s), next |-> next]
    <2>1. Without(Autos, s) \in Maps(SUBSET Ids)
      BY <1>3, MapsTyped, WithoutMap
    <2>2. session' = session \/ session' \in Sessions(Radios, Ids)
      BY <1>3, <1>5, <1>16, <2>1, SessionEdits, MapsTyped DEF TakeAutos
    <2>3. Goto(t, k) /\ lock' = lock /\ intent' = intent
      BY <1>16 DEF TakeAutos
    <2>4. Fits(k, Radios, Ids)
      BY <1>3, <1>16, MapsTyped DEF Fits
    <2>5. OnSession(k) => session # None
      BY <1>16 DEF OnSession
    <2> HIDE DEF k
    <2> QED BY <1>3, <1>5, <1>6, <2>2, <2>3, <2>4, <2>5
  <1>17. CASE AutoTake(t)
    <2> DEFINE next == [task[t] EXCEPT !.pc = "autospawn"]
    <2>1. session # None /\ task[t] \in [pc : {"autotake", "autospawn"}, slot : Slots, nco : Ncos]
      BY <1>4, <1>17 DEF AutoTake, At, OnSession, Fits, Idle
    <2>2. Resumes(next, Radios)
      BY <2>1 DEF Resumes
    <2>3. TakeAutos(t, task[t].slot, next)
      BY <1>17 DEF AutoTake
    <2> HIDE DEF next
    <2> QED BY <1>16, <2>1, <2>2, <2>3
  <1>18. CASE AutoInsert(t)
    <2>1. /\ session # None /\ task[t].slot \in Slots /\ task[t].vrxs \in SUBSET Ids
      BY <1>4, <1>18 DEF AutoInsert, At, OnSession, Fits, Idle
    <2>2. With(Autos, task[t].slot, task[t].vrxs) \in Maps(SUBSET Ids)
      BY <1>3, <2>1, MapsTyped, WithMap
    <2>3. session' \in Sessions(Radios, Ids)
      BY <1>5, <1>8, <1>18, <2>1, <2>2 DEF AutoInsert
    <2>4. DropThen(t, AutosOf(task[t].slot), Idle) /\ AutosOf(task[t].slot) \in SUBSET Ids
      BY <1>3, <1>18, MapsTyped DEF AutoInsert
    <2>5. lock' \in Tasks \union {Free} /\ \E k : Goto(t, k) /\ Fits(k, Radios, Ids)
      BY <1>7, <2>4, DropTyped
    <2>6. intent' = intent
      BY <1>18 DEF AutoInsert
    <2> QED BY <1>3, <1>5, <1>6, <2>3, <2>5, <2>6
  <1>19. ASSUME NEW s \in AutoSlots, AutoOff(t, s) PROVE HubTypes' /\ (session # None => session' # None)
    BY <1>7, <1>16, <1>19 DEF AutoOff
  <1> QED BY <1>9, <1>10, <1>11, <1>12, <1>13, <1>14, <1>15, <1>17, <1>18, <1>19 DEF SetVrxNone, SetVrxOff

\* Steps that start and stop pipelines or mute them.
LEMMA PipelineStep ==
    ASSUME HubTypes, NEW t \in Tasks, NEW k, Goto(t, k),
           UNCHANGED <<session, spectrum, radios, ringCount, slipped>>,
           vrxs' \in Seq(Receivers), Len(vrxs) <= Len(vrxs'),
           lock' \in Tasks \union {Free}, intent' \in [Slots -> BOOLEAN],
           commands' \in 0..MaxCommands, overlap' \in BOOLEAN,
           Fits(k, Radios, Ids'),
           OnSession(k) => session # None
    PROVE  HubTypes'
  <1>1. Radios' = Radios
    BY DEF Radios
  <1>2. Ids \subseteq Ids'
    BY DEF HubTypes, StateOK, Ids
  <1>3. TasksFit' /\ SessionThere' /\ task' = [u \in Tasks |-> task'[u]]
    BY <1>1, <1>2, MovesOn
  <1>4. session' = None \/ session' \in Sessions(Radios', Ids')
    BY <1>1, <1>2, SessionsGrow DEF HubTypes, StateOK
  <1>5. Receivers' = Receivers /\ Handles' = Handles
    BY <1>1 DEF Receivers, Handles
  <1>6. StateOK'
    BY <1>1, <1>3, <1>4, <1>5 DEF HubTypes, StateOK
  <1> QED BY <1>3, <1>6 DEF HubTypes

LEMMA HaltTyped ==
    ASSUME StateOK, NEW S, Halt(S)
    PROVE  vrxs' \in Seq(Receivers) /\ Len(vrxs') = Len(vrxs) /\ Ids' = Ids
  <1>1. vrxs \in Seq(Receivers)
    BY DEF StateOK
  <1>2. \A i \in DOMAIN vrxs : vrxs[i] \in Receivers
    BY <1>1
  <1>3. \A i \in DOMAIN vrxs : [vrxs[i] EXCEPT !.running = FALSE] \in Receivers
    BY <1>2 DEF Receivers
  <1> DEFINE halted(i) == IF i \in S THEN [vrxs[i] EXCEPT !.running = FALSE] ELSE vrxs[i]
  <1>4. \A i \in DOMAIN vrxs : halted(i) \in Receivers
    BY <1>2, <1>3
  <1>5. vrxs' = [i \in 1..Len(vrxs) |-> halted(i)] /\ Len(vrxs) \in Nat /\ DOMAIN vrxs = 1..Len(vrxs)
    BY <1>1 DEF Halt
  <1> HIDE DEF halted
  <1> QED BY <1>4, <1>5 DEF Ids

LEMMA SpawnTyped ==
    ASSUME StateOK, NEW v \in Receivers, vrxs' = Append(vrxs, v)
    PROVE  /\ vrxs' \in Seq(Receivers) /\ Len(vrxs') = Len(vrxs) + 1 /\ Len(vrxs) <= Len(vrxs')
           /\ Ids' = Ids \union {Len(vrxs) + 1} /\ Len(vrxs) + 1 \notin Ids
           /\ vrxs'[Len(vrxs) + 1] = v
           /\ \A i \in Ids : vrxs'[i] = vrxs[i]
  BY DEF StateOK, Ids

\* A handle has a ring, and its ring for a slot is one of its rings.
LEMMA RingsTyped ==
    ASSUME StateOK, NEW k \in Radios
    PROVE  /\ radios[k].rings \in Maps(1..ringCount)
           /\ DOMAIN radios[k].rings # {}
           /\ DOMAIN radios[k].rings \subseteq Slots
           /\ \A s \in DOMAIN radios[k].rings : radios[k].rings[s] \in 1..ringCount
           /\ \A s : RingFor(radios[k].rings, s) \in 1..ringCount
           /\ radios[k].reader \in {"starter", "spectrum", "gone"}
           /\ radios[k] \in Handles
  <1> DEFINE f == radios[k].rings
  <1>1. radios[k] \in Handles
    BY DEF StateOK, Radios
  <1>2. f \in Maps(1..ringCount) /\ f # Empty /\ radios[k].reader \in {"starter", "spectrum", "gone"}
    BY <1>1 DEF Handles
  <1> HIDE DEF f
  <1>3. DOMAIN f \subseteq Slots /\ f \in [DOMAIN f -> 1..ringCount]
    BY <1>2, MapForm
  <1>4. DOMAIN f # {}
    BY <1>2, <1>3 DEF Empty
  <1>5. Min(DOMAIN f) \in DOMAIN f
    BY <1>3, <1>4, MinOfSlots
  <1>6. \A s : RingFor(f, s) \in 1..ringCount
    BY <1>3, <1>5 DEF RingFor
  <1> QED BY <1>1, <1>2, <1>3, <1>4, <1>6 DEF f

LEMMA PipelinesTyped ==
    ASSUME HubTypes, NEW t \in Tasks,
           \/ Drop(t) \/ Join(t) \/ StopOld(t) \/ Spawn(t) \/ AutoSpawn(t)
           \/ \E s \in Slots : \E muted \in BOOLEAN : SetVrxMute(t, s, muted)
    PROVE  HubTypes'
  <1>1. /\ UNCHANGED <<session, spectrum, radios, ringCount, slipped>>
        /\ \E pc : Begins(t) \/ At(t, pc)
    BY DEF Drop, Join, StopOld, Spawn, AutoSpawn, SetVrxMute
  <1>2. commands' \in 0..MaxCommands /\ overlap' \in BOOLEAN
    BY <1>1, Counting DEF HubTypes
  <1>3. /\ StateOK
        /\ lock \in Tasks \union {Free}
        /\ intent \in [Slots -> BOOLEAN]
        /\ vrxs \in Seq(Receivers)
        /\ ringCount \in Nat
    BY DEF HubTypes, StateOK
  <1>4. /\ Fits(task[t], Radios, Ids)
        /\ OnSession(task[t]) => session # None
    BY DEF HubTypes, TasksFit, SessionThere
  <1>5. session # None => session \in Sessions(Radios, Ids) /\ session.radio \in Radios
    BY <1>3 DEF StateOK, Sessions
  <1>6. ASSUME NEW k, Goto(t, k), Fits(k, Radios, Ids'), OnSession(k) => session # None,
               vrxs' \in Seq(Receivers), Len(vrxs) <= Len(vrxs'),
               lock' \in Tasks \union {Free}, intent' \in [Slots -> BOOLEAN]
        PROVE  HubTypes'
    BY <1>1, <1>2, <1>6, PipelineStep
  <1>7. Fits(Idle, Radios, Ids) /\ ~OnSession(Idle) /\ Resumes(Idle, Radios) /\ Idle.pc = "idle"
    BY DEF Fits, Idle, OnSession, Resumes
  <1>8. CASE Drop(t) \/ Join(t)
    <2>1. Resumes(task[t].next, Radios) /\ task[t].pc \in {"drop", "join"}
      BY <1>4, <1>8 DEF Drop, Join, At, Fits, Idle
    <2>2. Fits(task[t].next, Radios, Ids)
      BY <2>1 DEF Fits, Resumes
    <2>3. Halt(task[t].vrxs) /\ Goto(t, task[t].next) /\ intent' = intent /\ (lock' = Free \/ lock' = lock)
      BY <1>8 DEF Drop, Join
    <2>4. vrxs' \in Seq(Receivers) /\ Len(vrxs') = Len(vrxs) /\ Ids' = Ids
      BY <1>3, <2>3, HaltTyped
    <2>5. Len(vrxs) <= Len(vrxs')
      BY <1>3, <2>4
    <2>6. OnSession(task[t].next) => session # None
      BY <1>4, <2>1 DEF OnSession, Idle
    <2> QED BY <1>3, <1>6, <2>2, <2>3, <2>4, <2>5, <2>6
  <1>9. CASE StopOld(t)
    <2> DEFINE k == [task[t] EXCEPT !.pc = "spawn", !.old = {}]
    <2>1. task[t] \in [pc : {"replace"}, slot : Slots, old : SUBSET Ids, mode : AllModes,
                       muted : BOOLEAN, asked : BOOLEAN]
      BY <1>4, <1>9 DEF StopOld, At, Fits, Idle
    <2>2. Fits(k, Radios, Ids)
      BY <2>1 DEF Fits
    <2>3. Halt(task[t].old) /\ Goto(t, k) /\ intent' = intent /\ lock' = lock
      BY <1>9 DEF StopOld
    <2>4. vrxs' \in Seq(Receivers) /\ Len(vrxs') = Len(vrxs) /\ Ids' = Ids
      BY <1>3, <2>3, HaltTyped
    <2>5. Len(vrxs) <= Len(vrxs')
      BY <1>3, <2>4
    <2>6. session # None
      BY <1>4, <2>1 DEF OnSession
    <2> HIDE DEF k
    <2> QED BY <1>3, <1>6, <2>2, <2>3, <2>4, <2>5, <2>6
  <1>10. CASE Spawn(t)
    <2> DEFINE v == [slot |-> task[t].slot, mode |-> task[t].mode, muted |-> task[t].muted, running |-> TRUE,
                     ring |-> RingFor(radios[session.radio].rings, task[t].slot),
                     radio |-> session.radio, nco |-> 0]
               k == [pc |-> "insert", slot |-> task[t].slot, vrx |-> Len(vrxs) + 1, asked |-> task[t].asked]
    <2>1. /\ session # None /\ task[t].slot \in Slots /\ task[t].mode \in AllModes
          /\ task[t].muted \in BOOLEAN /\ task[t].asked \in BOOLEAN
      BY <1>4, <1>10 DEF Spawn, At, OnSession, Fits, Idle
    <2>2. v \in Receivers
      <3>1. RingFor(radios[session.radio].rings, task[t].slot) \in 1..ringCount /\ session.radio \in Radios
        BY <1>3, <1>5, <2>1, RingsTyped
      <3> QED BY <2>1, <3>1, HubAssumption DEF Receivers, AllModes
    <2>3. vrxs' = Append(vrxs, v) /\ Goto(t, k) /\ lock' = lock /\ intent' = intent
      BY <1>10 DEF Spawn
    <2> HIDE DEF v
    <2>4. vrxs' \in Seq(Receivers) /\ Len(vrxs) <= Len(vrxs') /\ Len(vrxs) + 1 \in Ids'
      BY <1>3, <2>2, <2>3, SpawnTyped
    <2>5. Fits(k, Radios, Ids')
      BY <2>1, <2>4 DEF Fits
    <2> HIDE DEF k
    <2> QED BY <1>3, <1>6, <2>1, <2>3, <2>4, <2>5
  <1>11. CASE AutoSpawn(t)
    <2>1. /\ session # None /\ task[t].slot \in Slots /\ task[t].nco \in Ncos
      BY <1>4, <1>11 DEF AutoSpawn, At, OnSession, Fits, Idle
    <2> DEFINE v == [slot |-> task[t].slot, mode |-> AutoMode, muted |-> TRUE, running |-> TRUE,
                     ring |-> RingFor(radios[session.radio].rings, task[t].slot),
                     radio |-> session.radio, nco |-> task[t].nco]
    <2>2. v \in Receivers
      <3>1. RingFor(radios[session.radio].rings, task[t].slot) \in 1..ringCount /\ session.radio \in Radios
        BY <1>3, <1>5, <2>1, RingsTyped
      <3> QED BY <2>1, <3>1 DEF Receivers
    <2>3. CASE /\ vrxs' = Append(vrxs, v)
               /\ Goto(t, [pc |-> "autoinsert", slot |-> task[t].slot, vrxs |-> {Len(vrxs) + 1}])
      <3> HIDE DEF v
      <3>1. vrxs' \in Seq(Receivers) /\ Len(vrxs) <= Len(vrxs') /\ Len(vrxs) + 1 \in Ids'
        BY <1>3, <2>2, <2>3, SpawnTyped
      <3>2. Fits([pc |-> "autoinsert", slot |-> task[t].slot, vrxs |-> {Len(vrxs) + 1}], Radios, Ids')
        BY <2>1, <3>1 DEF Fits
      <3>3. lock' = lock /\ intent' = intent
        BY <1>11 DEF AutoSpawn
      <3> QED BY <1>3, <1>6, <2>1, <2>3, <3>1, <3>2, <3>3
    <2>4. CASE vrxs' = vrxs /\ Goto(t, [pc |-> "autoinsert", slot |-> task[t].slot, vrxs |-> {}])
      <3>1. Fits([pc |-> "autoinsert", slot |-> task[t].slot, vrxs |-> {}], Radios, Ids')
        BY <2>1 DEF Fits
      <3>2. lock' = lock /\ intent' = intent /\ Len(vrxs) <= Len(vrxs')
        BY <1>3, <1>11, <2>4 DEF AutoSpawn
      <3> QED BY <1>3, <1>6, <2>1, <2>4, <3>1, <3>2
    <2> QED BY <1>11, <2>3, <2>4 DEF AutoSpawn
  <1>12. ASSUME NEW s \in Slots, NEW muted \in BOOLEAN, SetVrxMute(t, s, muted) PROVE HubTypes'
    <2>1. task[t] = Idle /\ task' = task
      BY <1>12 DEF SetVrxMute, Begins
    <2>2. Goto(t, Idle)
      BY <2>1 DEF Goto, HubTypes, StateOK
    <2>3. vrxs' \in Seq(Receivers) /\ Len(vrxs') = Len(vrxs)
      <3>1. s \in DOMAIN Vrx => Vrx[s] \in 1..Len(vrxs) /\ vrxs[Vrx[s]] \in Receivers
        BY <1>3, MapsTyped DEF Ids
      <3>2. \A r \in Receivers : [r EXCEPT !.muted = muted] \in Receivers
        BY DEF Receivers
      <3> QED BY <1>3, <1>12, <3>1, <3>2 DEF SetVrxMute
    <2>4. intent' \in [Slots -> BOOLEAN] /\ lock' = lock
      BY <1>3, <1>12 DEF SetVrxMute
    <2>5. Ids' = Ids /\ Len(vrxs) <= Len(vrxs')
      BY <1>3, <2>3 DEF Ids
    <2> QED BY <1>3, <1>6, <1>7, <2>2, <2>3, <2>4, <2>5
  <1> QED BY <1>8, <1>9, <1>10, <1>11, <1>12

\* Steps that change handles: their number and that of the rings only grow.
LEMMA HandleStep ==
    ASSUME HubTypes, NEW t \in Tasks, NEW k, Goto(t, k),
           UNCHANGED <<session, lock, vrxs, intent>>,
           ringCount' \in Nat, ringCount <= ringCount',
           radios' \in Seq(Handles'), Len(radios) <= Len(radios'),
           spectrum' \in Radios' \union {None}, slipped' \subseteq Slots,
           commands' \in 0..MaxCommands, overlap' \in BOOLEAN,
           Fits(k, Radios', Ids),
           OnSession(k) => session # None
    PROVE  HubTypes'
  <1>1. Radios \subseteq Radios' /\ Ids' = Ids /\ 1..ringCount \subseteq 1..ringCount'
    BY DEF HubTypes, StateOK, Radios, Ids
  <1>2. TasksFit' /\ SessionThere' /\ task' = [u \in Tasks |-> task'[u]]
    BY <1>1, MovesOn
  <1>3. session' = None \/ session' \in Sessions(Radios', Ids')
    BY <1>1, SessionsGrow DEF HubTypes, StateOK
  <1>4. Receivers \subseteq Receivers'
    BY <1>1 DEF Receivers
  <1>5. vrxs' \in Seq(Receivers')
    BY <1>4 DEF HubTypes, StateOK
  <1>6. StateOK'
    BY <1>2, <1>3, <1>5 DEF HubTypes, StateOK
  <1> QED BY <1>2, <1>6 DEF HubTypes

\* What a tune does to the rings: f # 0 registers the slot, f = 0 unregisters
\* it or, when it is the last, re-anchors the fan-out on slot 1.
LEMMA TunedFacts ==
    ASSUME ringCount \in Nat, NEW rings \in Maps(1..ringCount), DOMAIN rings # {},
           NEW s \in Slots, NEW f \in Ncos
    PROVE  /\ f # 0 => /\ DOMAIN Tuned(rings, s, f) = DOMAIN rings \union {s}
                       /\ \A x \in DOMAIN rings : Tuned(rings, s, f)[x] = rings[x]
           /\ f = 0 /\ DOMAIN rings \subseteq {s} => DOMAIN Tuned(rings, s, f) = {1}
           /\ f = 0 /\ ~(DOMAIN rings \subseteq {s}) =>
                 /\ DOMAIN Tuned(rings, s, f) = DOMAIN rings \ {s}
                 /\ \A x \in DOMAIN rings \ {s} : Tuned(rings, s, f)[x] = rings[x]
           /\ Tuned(rings, s, f) \in Maps(1..(ringCount + 1)) \ {Empty}
  <1> DEFINE fresh == ringCount + 1
             all == 1..(ringCount + 1)
             new == Tuned(rings, s, f)
  <1>1. 1..ringCount \subseteq all /\ fresh \in all /\ 1 \in Slots
    BY HubAssumption
  <1>0. new = CASE f # 0 /\ s \in DOMAIN rings -> rings
                [] f # 0 /\ s \notin DOMAIN rings -> With(rings, s, fresh)
                [] f = 0 /\ DOMAIN rings \subseteq {s} -> With(Empty, 1, fresh)
                [] f = 0 /\ ~(DOMAIN rings \subseteq {s}) -> Without(rings, s)
    BY DEF Tuned
  <1> SUFFICES /\ f # 0 => /\ DOMAIN new = DOMAIN rings \union {s}
                           /\ \A x \in DOMAIN rings : new[x] = rings[x]
               /\ f = 0 /\ DOMAIN rings \subseteq {s} => DOMAIN new = {1}
               /\ f = 0 /\ ~(DOMAIN rings \subseteq {s}) =>
                     /\ DOMAIN new = DOMAIN rings \ {s}
                     /\ \A x \in DOMAIN rings \ {s} : new[x] = rings[x]
               /\ new \in Maps(all) \ {Empty}
    OBVIOUS
  <1> HIDE DEF fresh, all, new
  <1>2. rings \in Maps(all) /\ Empty \in Maps(all) /\ DOMAIN Empty = {}
    BY <1>1, MapsGrow, EmptyMap
  <1>3. CASE f # 0 /\ s \in DOMAIN rings
    <2>1. DOMAIN rings \union {s} = DOMAIN rings
      BY <1>3
    <2> QED BY <1>0, <1>2, <1>3, <2>1
  <1>4. CASE f # 0 /\ s \notin DOMAIN rings
    <2>1. new = With(rings, s, fresh)
      BY <1>0, <1>4
    <2>2. fresh \in all /\ rings \in Maps(all)
      BY <1>1, <1>2
    <2>3. new \in Maps(all)
      BY <2>1, <2>2, WithMap
    <2>4. DOMAIN new = DOMAIN rings \union {s}
      BY <2>1, WithEntries
    <2>5. \A x \in DOMAIN rings : x # s => new[x] = rings[x]
      BY <2>1 DEF With
    <2> QED BY <1>2, <1>4, <2>3, <2>4, <2>5
  <1>5. CASE f = 0 /\ DOMAIN rings \subseteq {s}
    <2>1. new = With(Empty, 1, fresh)
      BY <1>0, <1>5
    <2>2. fresh \in all /\ Empty \in Maps(all) /\ 1 \in Slots
      BY <1>1, <1>2
    <2>3. new \in Maps(all) /\ DOMAIN new = DOMAIN Empty \union {1}
      BY <2>1, <2>2, WithMap, WithEntries
    <2> QED BY <1>2, <1>5, <2>3
  <1>6. CASE f = 0 /\ ~(DOMAIN rings \subseteq {s})
    <2>1. new = Without(rings, s)
      BY <1>0, <1>6
    <2>2. new \in Maps(all) /\ DOMAIN new = DOMAIN rings \ {s}
          /\ \A x \in DOMAIN rings \ {s} : new[x] = rings[x]
      BY <1>2, <2>1, WithoutMap, ZenonT(40)
    <2>3. new # Empty
      BY <1>2, <1>6, <2>2
    <2> QED BY ONLY <1>6, <2>2, <2>3
  <1> QED BY <1>3, <1>4, <1>5, <1>6

\* The ring counter follows when the new ring is used.
LEMMA TunedTyped ==
    ASSUME ringCount \in Nat, NEW rings \in Maps(1..ringCount), DOMAIN rings # {},
           NEW s \in Slots, NEW f \in Ncos, NEW n,
           n = IF ringCount + 1 \in Range(Tuned(rings, s, f)) THEN ringCount + 1 ELSE ringCount
    PROVE  n \in Nat /\ ringCount <= n /\ Tuned(rings, s, f) \in Maps(1..n) \ {Empty}
  <1> DEFINE new == Tuned(rings, s, f)
  <1>1. new \in Maps(1..(ringCount + 1)) \ {Empty}
    BY TunedFacts
  <1> HIDE DEF new
  <1>2. DOMAIN new \in SUBSET Slots /\ new \in [DOMAIN new -> 1..(ringCount + 1)]
    BY <1>1, MapForm
  <1>3. CASE ringCount + 1 \in Range(new)
    BY <1>1, <1>3 DEF new
  <1>4. CASE ringCount + 1 \notin Range(new)
    <2>1. \A x \in DOMAIN new : new[x] # ringCount + 1
      BY <1>4 DEF Range
    <2>2. new \in [DOMAIN new -> 1..ringCount]
      BY <1>2, <2>1
    <2>3. new \in Maps(1..ringCount)
      BY <1>2, <2>2, MapIntro
    <2> QED BY <1>1, <1>4, <2>3 DEF new
  <1> QED BY <1>3, <1>4

\* The rings of a new handle.
LEMMA ConnectTyped ==
    ASSUME StateOK, NEW S \in SUBSET Slots, NEW active, active = S \union {1},
           NEW r, r = [s \in active |-> ringCount + Cardinality({x \in active : x <= s})],
           NEW n, n = ringCount + Cardinality(active)
    PROVE  n \in Nat /\ ringCount <= n /\ r \in Maps(1..n) \ {Empty}
  <1>1. active \in SUBSET Slots /\ IsFiniteSet(active) /\ S \subseteq Slots
    <2>1. active \subseteq Slots /\ S \subseteq Slots /\ IsFiniteSet(Slots)
      BY HubAssumption
    <2> QED BY <2>1, FS_Subset
  <1>2. Cardinality(active) \in Nat /\ ringCount \in Nat
    BY <1>1, FS_CardinalityType DEF StateOK
  <1>3. ASSUME NEW s \in active
        PROVE  ringCount + Cardinality({x \in active : x <= s}) \in 1..n
    <2> DEFINE low == {x \in active : x <= s}
    <2>1. low \subseteq active /\ s \in low
      BY <1>1, HubAssumption
    <2> HIDE DEF low
    <2>2. IsFiniteSet(low) /\ Cardinality(low) <= Cardinality(active) /\ Cardinality(low) \in Nat
      BY <1>1, <2>1, FS_Subset, FS_CardinalityType
    <2>3. Cardinality(low) # 0
      BY <2>1, <2>2, FS_EmptySet
    <2>4. ringCount + Cardinality(low) \in 1..n
      BY <1>2, <2>2, <2>3
    <2> QED BY <2>4 DEF low
  <1>4. r \in [active -> 1..n]
    BY <1>3
  <1>5. r \in Maps(1..n) /\ DOMAIN r = active /\ 1 \in active
    BY <1>1, <1>4, MapIntro
  <1>6. r # Empty
    BY <1>5, EmptyMap
  <1> QED BY <1>2, <1>5, <1>6

\* What a Start asks for, and what it gets.
LEMMA ConnectForm ==
    ASSUME NEW t, Connect(t)
    PROVE  \E S \in SUBSET Slots : \E tuned \in Maps(Ncos) :
              LET active == S \union {1}
                  ring(s) == ringCount + Cardinality({x \in active : x <= s})
              IN  /\ DOMAIN tuned \subseteq S
                  /\ radios' = Append(radios, [rings |-> [s \in active |-> ring(s)], reader |-> "starter"])
                  /\ ringCount' = ringCount + Cardinality(active)
                  /\ Goto(t, [pc |-> "install", radio |-> Len(radios) + 1, tuned |-> tuned])
  <1>1. PICK tuning, got :
           LET active == DOMAIN tuning \union {1}
               ring(s) == ringCount + Cardinality({x \in active : x <= s})
           IN  /\ tuning \in InitialTunings /\ got \subseteq DOMAIN tuning
               /\ radios' = Append(radios, [rings |-> [s \in active |-> ring(s)], reader |-> "starter"])
               /\ ringCount' = ringCount + Cardinality(active)
               /\ Goto(t, [pc |-> "install", radio |-> Len(radios) + 1, tuned |-> Restrict(tuning, got)])
    BY DEF Connect
  <1>2. tuning \in Maps(Ncos)
    <2>1. Ncos \ {0} \subseteq Ncos /\ tuning \in Maps(Ncos \ {0})
      BY <1>1, HubAssumption
    <2> QED BY <2>1, MapsGrow
  <1>3. Restrict(tuning, got) \in Maps(Ncos) /\ DOMAIN Restrict(tuning, got) = got
    BY <1>1, <1>2, RestrictMap
  <1>4. DOMAIN tuning \in SUBSET Slots
    BY <1>2, MapForm
  <1> QED BY <1>1, <1>3, <1>4

LEMMA HandlesTyped ==
    ASSUME HubTypes, NEW t \in Tasks,
           Connect(t) \/ StartAbort(t) \/ StartStore(t) \/ StopAbort(t) \/ TuneApply(t)
    PROVE  HubTypes'
  <1>1. /\ UNCHANGED <<session, lock, vrxs, intent>>
        /\ \E pc : At(t, pc)
    BY DEF Connect, StartAbort, StartStore, StopAbort, TuneApply
  <1>2. commands' \in 0..MaxCommands /\ overlap' \in BOOLEAN
    BY <1>1, Counting DEF HubTypes
  <1>3. /\ StateOK /\ ringCount \in Nat /\ radios \in Seq(Handles)
        /\ slipped \subseteq Slots /\ spectrum \in Radios \union {None} /\ Radios \subseteq Nat
    BY DEF HubTypes, StateOK, Radios
  <1>4. /\ Fits(task[t], Radios, Ids)
        /\ OnSession(task[t]) => session # None
    BY DEF HubTypes, TasksFit, SessionThere
  <1>5. ASSUME NEW k, Goto(t, k), Fits(k, Radios', Ids), OnSession(k) => session # None,
               ringCount' \in Nat, ringCount <= ringCount',
               radios' \in Seq(Handles'), Len(radios) <= Len(radios'),
               spectrum' \in Radios' \union {None}, slipped' \subseteq Slots
        PROVE  HubTypes'
    BY <1>1, <1>2, <1>5, HandleStep
  <1>6. Fits(Idle, Radios', Ids) /\ ~OnSession(Idle) /\ 1 \in Slots
    BY HubAssumption DEF Fits, Idle, OnSession
  <1>7. CASE Connect(t)
    <2>1. PICK S \in SUBSET Slots, tuned \in Maps(Ncos) :
             LET active == S \union {1}
                 ring(s) == ringCount + Cardinality({x \in active : x <= s})
             IN  /\ radios' = Append(radios, [rings |-> [s \in active |-> ring(s)], reader |-> "starter"])
                 /\ ringCount' = ringCount + Cardinality(active)
                 /\ Goto(t, [pc |-> "install", radio |-> Len(radios) + 1, tuned |-> tuned])
      BY <1>7, ConnectForm
    <2> DEFINE active == S \union {1}
               r == [s \in active |-> ringCount + Cardinality({x \in active : x <= s})]
               h == [rings |-> r, reader |-> "starter"]
               k == [pc |-> "install", radio |-> Len(radios) + 1, tuned |-> tuned]
    <2>2. /\ radios' = Append(radios, h) /\ ringCount' = ringCount + Cardinality(active) /\ Goto(t, k)
          /\ spectrum' = spectrum /\ slipped' = slipped
      BY <1>7, <2>1 DEF Connect
    <2>3. ringCount' \in Nat /\ ringCount <= ringCount' /\ r \in Maps(1..ringCount') \ {Empty}
      BY <1>3, <2>2, ConnectTyped
    <2> HIDE DEF r
    <2>4. h \in Handles'
      BY <2>3 DEF Handles
    <2>5. Handles \subseteq Handles'
      <3>1. 1..ringCount \subseteq 1..ringCount'
        BY <1>3, <2>3
      <3> QED BY <3>1, MapsGrow DEF Handles
    <2> HIDE DEF h
    <2>6. /\ radios' \in Seq(Handles') /\ Len(radios) <= Len(radios')
          /\ Len(radios) + 1 \in Radios' /\ Radios \subseteq Radios'
      BY <1>3, <2>2, <2>4, <2>5 DEF Radios
    <2>7. Fits(k, Radios', Ids) /\ ~OnSession(k)
      BY <2>2, <2>6 DEF Fits, OnSession
    <2> HIDE DEF k
    <2> QED BY <1>3, <1>5, <2>2, <2>3, <2>6, <2>7
  <1>8. ASSUME NEW i \in Radios, NEW who \in {"starter", "spectrum", "gone"}
        PROVE  /\ [radios EXCEPT ![i].reader = who] \in Seq(Handles)
               /\ Len([radios EXCEPT ![i].reader = who]) = Len(radios)
    <2>1. radios[i] \in Handles
      BY <1>3, RingsTyped
    <2>2. [radios[i] EXCEPT !.reader = who] \in Handles
      BY <2>1 DEF Handles
    <2> QED BY <1>3, <2>2 DEF Radios
  <1>9. ASSUME Abort, ringCount' = ringCount
        PROVE  /\ radios' \in Seq(Handles') /\ Len(radios') = Len(radios) /\ Radios' = Radios
               /\ spectrum' \in Radios' \union {None}
               /\ ringCount' \in Nat /\ ringCount <= ringCount' /\ Len(radios) <= Len(radios')
    <2>1. Handles' = Handles
      BY <1>9 DEF Handles
    <2>2. radios' \in Seq(Handles) /\ Len(radios') = Len(radios)
      BY <1>3, <1>8, <1>9 DEF Abort
    <2> QED BY <1>3, <1>9, <2>1, <2>2 DEF Abort, Radios
  <1>10. CASE StartAbort(t)
    <2>1. task[t].radio \in Radios /\ session # None
      BY <1>4, <1>10 DEF StartAbort, At, Fits, OnSession, Idle
    <2> DEFINE k == [pc |-> "store", radio |-> task[t].radio]
    <2>2. Abort /\ ringCount' = ringCount /\ Goto(t, k) /\ slipped' = slipped
      BY <1>10 DEF StartAbort
    <2>3. Radios' = Radios
      BY <1>9, <2>2
    <2>4. Fits(k, Radios', Ids)
      BY <2>1, <2>3 DEF Fits
    <2> HIDE DEF k
    <2> QED BY <1>3, <1>5, <1>9, <2>1, <2>2, <2>4
  <1>11. CASE StopAbort(t)
    <2>1. task[t].vrxs \subseteq Ids
      BY <1>4, <1>11 DEF StopAbort, At, Fits, Idle
    <2> DEFINE k == [pc |-> "join", vrxs |-> task[t].vrxs, next |-> Idle]
    <2>2. Abort /\ ringCount' = ringCount /\ Goto(t, k) /\ slipped' = slipped
      BY <1>11 DEF StopAbort
    <2>3. Fits(k, Radios', Ids) /\ ~OnSession(k)
      BY <2>1 DEF Fits, Resumes, OnSession
    <2> HIDE DEF k
    <2> QED BY <1>3, <1>5, <1>9, <2>2, <2>3
  <1>12. CASE StartStore(t)
    <2>1. task[t].radio \in Radios
      BY <1>4, <1>12 DEF StartStore, At, Fits, Idle
    <2>2. /\ ringCount' = ringCount /\ Goto(t, Idle) /\ slipped' = slipped /\ spectrum' = task[t].radio
          /\ radios' = [radios EXCEPT ![task[t].radio].reader = "spectrum"]
      BY <1>12 DEF StartStore
    <2>3. radios' \in Seq(Handles) /\ Len(radios') = Len(radios) /\ Handles' = Handles
      BY <1>8, <2>1, <2>2 DEF Handles
    <2>4. Radios' = Radios /\ ringCount <= ringCount' /\ Len(radios) <= Len(radios')
      BY <1>3, <2>2, <2>3 DEF Radios
    <2> QED BY <1>3, <1>5, <1>6, <2>1, <2>2, <2>3, <2>4
  <1>13. CASE TuneApply(t)
    <2> DEFINE i == task[t].radio
               s == task[t].slot
               f == task[t].freq
               new == Tuned(radios[i].rings, s, f)
               k == [pc |-> "note", slot |-> s, freq |-> f, activates |-> task[t].activates]
    <2>1. /\ i \in Radios /\ s \in Slots /\ f \in Ncos /\ task[t].activates \in BOOLEAN
          /\ session # None
      BY <1>4, <1>13 DEF TuneApply, At, Fits, OnSession, Idle
    <2>2. /\ radios' = [radios EXCEPT ![i].rings = new]
          /\ ringCount' = IF ringCount + 1 \in Range(new) THEN ringCount + 1 ELSE ringCount
          /\ Goto(t, k) \/ Goto(t, Idle)
          /\ spectrum' = spectrum
      BY <1>13 DEF TuneApply
    <2>3. slipped' \in {slipped, slipped \union {1}, slipped \union {s, 1}}
      BY <1>13 DEF TuneApply
    <2>4. radios[i].rings \in Maps(1..ringCount) /\ DOMAIN radios[i].rings # {} /\ radios[i] \in Handles
      BY <1>3, <2>1, RingsTyped
    <2>5. ringCount' \in Nat /\ ringCount <= ringCount' /\ new \in Maps(1..ringCount') \ {Empty}
      BY <1>3, <2>1, <2>2, <2>4, TunedTyped
    <2>6. Handles \subseteq Handles'
      <3>1. 1..ringCount \subseteq 1..ringCount'
        BY <1>3, <2>5
      <3> QED BY <3>1, MapsGrow DEF Handles
    <2> HIDE DEF new, i
    <2>7. [radios[i] EXCEPT !.rings = new] \in Handles'
      BY <2>4, <2>5 DEF Handles
    <2>8. radios' \in Seq(Handles') /\ Len(radios') = Len(radios)
      BY <1>3, <2>1, <2>2, <2>6, <2>7 DEF Radios
    <2>9. Radios' = Radios /\ Len(radios) <= Len(radios') /\ slipped' \subseteq Slots
      BY <1>3, <1>6, <2>1, <2>3, <2>8 DEF Radios
    <2>10. Fits(k, Radios', Ids)
      BY <2>1 DEF Fits
    <2> HIDE DEF k, s, f
    <2>11. spectrum' \in Radios' \union {None}
      BY <1>3, <2>2, <2>9
    <2> QED BY <1>5, <1>6, <2>1, <2>2, <2>5, <2>8, <2>9, <2>10, <2>11
  <1> QED BY <1>7, <1>10, <1>11, <1>12, <1>13

LEMMA InitTypes == Init => HubTypes
  <1> SUFFICES ASSUME Init PROVE HubTypes
    OBVIOUS
  <1>1. TasksFit /\ SessionThere
    BY DEF Init, TasksFit, SessionThere, Fits, OnSession, Idle
  <1>2. /\ task = [t \in Tasks |-> task[t]] /\ intent \in [Slots -> BOOLEAN] /\ slipped \subseteq Slots
        /\ commands \in 0..MaxCommands /\ ringCount \in Nat
    BY HubAssumption DEF Init
  <1>3. radios \in Seq(Handles) /\ vrxs \in Seq(Receivers)
    BY DEF Init
  <1>4. overlap \in BOOLEAN
    BY DEF Init
  <1>5. StateOK
    BY <1>2, <1>3, <1>4 DEF Init, StateOK
  <1> QED BY <1>1, <1>5 DEF HubTypes

\* Nothing happens.
LEMMA StutterTypes == HubTypes /\ UNCHANGED vars => HubTypes'
  BY DEF HubTypes, StateOK, TasksFit, SessionThere, vars, Radios, Ids, Receivers, Handles

LEMMA StepTypes ==
    ASSUME HubTypes, NEW t \in Tasks, Begin(t) \/ Continue(t)
    PROVE  HubTypes'
  <1>1. CASE Begin(t)
    BY <1>1, ReadTyped, MapsChangeTyped, PipelinesTyped DEF Begin
  <1>2. CASE Continue(t)
    BY <1>2, ReadTyped, MapsChangeTyped, PipelinesTyped, HandlesTyped DEF Continue
  <1> QED BY <1>1, <1>2

LEMMA NextTypes == HubTypes /\ [Next]_vars => HubTypes'
  BY StepTypes, StutterTypes DEF Next

LEMMA AlwaysTyped == Spec => []HubTypes
  BY InitTypes, NextTypes, PTL DEF Spec

\* What is remembered of the AutoDecodes, step by step.
LEMMA PastKept ==
    ASSUME NEW t, Begin(t) \/ Continue(t)
    PROVE  \/ UNCHANGED autohistory
           \/ Install(t) /\ Overtake(Slots) /\ stale' = stale
           \/ TuneNote(t) /\ Overtake({task[t].slot}) /\ stale' = stale
           \/ (\E s \in AutoSlots : AutoRead(t, s)) /\ overtaken' = overtaken \ {t} /\ stale' = stale
           \/ /\ AutoInsert(t)
              /\ stale' = IF t \in overtaken THEN stale \union {task[t].slot} ELSE stale \ {task[t].slot}
              /\ overtaken' = overtaken \ {t}
  <1>1. CASE Begin(t)
    BY <1>1 DEF Begin, StartCheck, StopRead, TuneRead, SetVrxCheck, SetVrxNone, SetVrxOff, TakeOut, SetVrxMute,
                AutoRead, AutoOff, TakeAutos, autohistory
  <1>2. CASE Continue(t)
    BY <1>2 DEF Continue, Connect, Install, Drop, StartAbort, StartStore, StopMark, StopAbort, Join, TunePeek,
                TuneApply, TuneNote, RebindTake, InPlace, Remove, StopOld, Spawn, Insert, AutoTake, TakeAutos,
                AutoSpawn, AutoInsert, ConnectFails, SpawnFails, autohistory
  <1> QED BY <1>1, <1>2

LEMMA PastTyped ==
    ASSUME HubTypes, overtaken \subseteq Tasks, stale \subseteq Slots,
           NEW t \in Tasks, Begin(t) \/ Continue(t)
    PROVE  overtaken' \subseteq Tasks /\ stale' \subseteq Slots
  <1>1. AutoInsert(t) => task[t].slot \in Slots
    BY DEF HubTypes, TasksFit, AutoInsert, At, Fits, Idle
  <1> QED BY <1>1, PastKept DEF Overtake, autohistory

\* Type correctness of the hub: whatever commands run side by side, the
\* receivers and handles named by the session's maps, by the pipelines and by
\* the spectrum task exist, and no handle is ever left without a ring.
THEOREM TypeCorrect == Spec => []TypeOK
  <1> DEFINE Past == overtaken \subseteq Tasks /\ stale \subseteq Slots
  <1>1. Init => Past
    BY DEF Init
  <1>2. HubTypes /\ Past /\ [Next]_vars => Past'
    <2> SUFFICES ASSUME HubTypes, Past, [Next]_vars PROVE Past'
      OBVIOUS
    <2>1. CASE UNCHANGED vars
      BY <2>1 DEF vars, autohistory
    <2>2. ASSUME NEW t \in Tasks, Begin(t) \/ Continue(t) PROVE Past'
      BY <2>2, PastTyped
    <2> QED BY <2>1, <2>2 DEF Next
  <1>3. HubTypes /\ Past => TypeOK
    BY DEF HubTypes, TypeOK
  <1> QED BY <1>1, <1>2, <1>3, AlwaysTyped, PTL DEF Spec
-----------------------------------------------------------------------------
(* Ownership of the pipelines.                                             *)

\* Where a pipeline may be: in the hands of a task, or in one of the
\* session's maps at some slot.
Places == ({"task"} \X Tasks) \union ({"vrx", "auto"} \X Slots)

VrxAt(s) == {Vrx[x] : x \in DOMAIN Vrx \intersect {s}}

HeldAt(p) ==
    CASE p[1] = "task" -> Held(p[2])
      [] p[1] = "vrx"  -> VrxAt(p[2])
      [] p[1] = "auto" -> AutosOf(p[2])

Holding == [p \in Places |-> HeldAt(p)]

Running == {i \in Ids : vrxs[i].running}

\* The running pipelines are those at some place, and each is at one.
Partition(P, H, R) ==
    /\ \A p, q \in P : p # q => H[p] \intersect H[q] = {}
    /\ \A i : i \in R <=> \E p \in P : i \in H[p]

OwnInv == Partition(Places, Holding, Running)

LEMMA HoldingFacts ==
    /\ \A t \in Tasks : <<"task", t>> \in Places /\ Holding[<<"task", t>>] = Held(t)
    /\ \A s \in Slots : <<"vrx", s>> \in Places /\ Holding[<<"vrx", s>>] = VrxAt(s)
    /\ \A s \in Slots : <<"auto", s>> \in Places /\ Holding[<<"auto", s>>] = AutosOf(s)
    /\ \A p \in Places : \/ \E t \in Tasks : p = <<"task", t>>
                         \/ \E s \in Slots : p = <<"vrx", s>> \/ p = <<"auto", s>>
  BY DEF Holding, HeldAt, Places

LEMMA HoldingNext ==
    /\ \A t \in Tasks : Holding'[<<"task", t>>] = Held(t)'
    /\ \A s \in Slots : Holding'[<<"vrx", s>>] = VrxAt(s)'
    /\ \A s \in Slots : Holding'[<<"auto", s>>] = AutosOf(s)'
  BY DEF Holding, HeldAt, Places

LEMMA PlacesStay == Places' = Places
  BY DEF Places

\* Pipelines move between the places of a set A, new ones appear there and
\* some of those there are stopped.
Moves(P, A, H, G, R, Q, new, gone) ==
    /\ A \subseteq P
    /\ \A p \in P \ A : G[p] = H[p]
    /\ \A p, q \in A : p # q => G[p] \intersect G[q] = {}
    /\ \A i : (\E p \in A : i \in G[p]) <=> ((\E p \in A : i \in H[p]) \/ i \in new) /\ i \notin gone
    /\ new \intersect R = {}
    /\ \A i \in gone : \E p \in A : i \in H[p]
    /\ \A i : i \in Q <=> (i \in R \/ i \in new) /\ i \notin gone

LEMMA Transfer ==
    ASSUME NEW P, NEW A, NEW H, NEW G, NEW R, NEW Q, NEW new, NEW gone,
           Partition(P, H, R), Moves(P, A, H, G, R, Q, new, gone)
    PROVE  Partition(P, G, Q)
  <1>0. Partition(P, H, R)
    OBVIOUS
  <1>a. /\ A \subseteq P
        /\ \A p \in P \ A : G[p] = H[p]
        /\ \A p, q \in A : p # q => G[p] \intersect G[q] = {}
        /\ \A i : (\E p \in A : i \in G[p]) <=> ((\E p \in A : i \in H[p]) \/ i \in new) /\ i \notin gone
        /\ new \intersect R = {}
        /\ \A i \in gone : \E p \in A : i \in H[p]
        /\ \A i : i \in Q <=> (i \in R \/ i \in new) /\ i \notin gone
    BY DEF Moves
  <1>1. ASSUME NEW p \in P, NEW q \in P, p # q, NEW i, i \in G[p], i \in G[q]
        PROVE  FALSE
    <2>1. CASE p \in A /\ q \in A
      BY ONLY <1>a, <1>1, <2>1
    <2>2. CASE p \notin A /\ q \notin A
      BY ONLY <1>0, <1>a, <1>1, <2>2 DEF Partition
    <2>3. ASSUME NEW x \in A, NEW y \in P \ A, i \in G[x], i \in G[y]
          PROVE  FALSE
      <3>1. i \in H[y] /\ i \in R
        BY ONLY <1>0, <1>a, <2>3 DEF Partition
      <3>2. PICK z \in A : i \in H[z]
        BY ONLY <1>a, <2>3, <3>1
      <3> QED BY ONLY <1>0, <1>a, <2>3, <3>1, <3>2 DEF Partition
    <2> QED BY <1>1, <2>1, <2>2, <2>3
  <1>2. \A p, q \in P : p # q => G[p] \intersect G[q] = {}
    BY ONLY <1>1
  <1>3. ASSUME NEW i, i \in Q PROVE \E p \in P : i \in G[p]
    <2>1. (i \in R \/ i \in new) /\ i \notin gone
      BY ONLY <1>3, <1>a
    <2>2. CASE i \in new
      BY ONLY <2>1, <2>2, <1>a
    <2>3. CASE i \in R
      <3>1. PICK p \in P : i \in H[p]
        BY ONLY <1>0, <2>3 DEF Partition
      <3> QED BY ONLY <1>a, <2>1, <3>1
    <2> QED BY <2>1, <2>2, <2>3
  <1>4. ASSUME NEW i, NEW p \in P, i \in G[p] PROVE i \in Q
    <2>1. CASE p \in A
      <3>1. ((\E q \in A : i \in H[q]) \/ i \in new) /\ i \notin gone
        BY ONLY <1>4, <1>a, <2>1
      <3> QED BY ONLY <1>0, <1>a, <3>1 DEF Partition
    <2>2. CASE p \notin A
      <3>1. i \in H[p] /\ i \in R
        BY ONLY <1>0, <1>a, <1>4, <2>2 DEF Partition
      <3>2. i \notin gone
        BY ONLY <1>0, <1>a, <2>2, <3>1 DEF Partition
      <3> QED BY ONLY <1>a, <3>1, <3>2
    <2> QED BY <2>1, <2>2
  <1> QED BY <1>2, <1>3, <1>4 DEF Partition

\* A task that moves on, seen from the task.
LEMMA TaskMoved ==
    ASSUME HubTypes, NEW t \in Tasks, NEW k, Goto(t, k)
    PROVE  /\ task'[t] = k
           /\ \A u \in Tasks : u # t => task'[u] = task[u] /\ Held(u)' = Held(u)
  BY DEF HubTypes, StateOK, Goto, Held

\* A task takes the receivers of the slots V and the decoders of the slots W.
LEMMA TakeOwn ==
    ASSUME OwnInv, NEW t \in Tasks, NEW V \in SUBSET Slots, NEW W \in SUBSET Slots,
           \A u \in Tasks : u # t => Held(u)' = Held(u),
           \A s \in Slots : VrxAt(s)' = IF s \in V THEN {} ELSE VrxAt(s),
           \A s \in Slots : AutosOf(s)' = IF s \in W THEN {} ELSE AutosOf(s),
           Held(t) = {},
           \A i : i \in Held(t)' <=> (\E s \in V : i \in VrxAt(s)) \/ (\E s \in W : i \in AutosOf(s)),
           Running' = Running
    PROVE  OwnInv'
  <1> DEFINE H == Holding
             G == Holding'
             me == <<"task", t>>
             A == {me} \union ({"vrx"} \X V) \union ({"auto"} \X W)
  <1>1. /\ A \in SUBSET Places /\ me \in A
        /\ \A s \in V : <<"vrx", s>> \in A
        /\ \A s \in W : <<"auto", s>> \in A
        /\ \A p \in A : \/ p = me
                        \/ \E s \in V : p = <<"vrx", s>>
                        \/ \E s \in W : p = <<"auto", s>>
        /\ \A s \in Slots \ V : <<"vrx", s>> \notin A
        /\ \A s \in Slots \ W : <<"auto", s>> \notin A
    BY DEF Places
  <1>2. /\ H[me] = {} /\ G[me] = Held(t)'
        /\ \A u \in Tasks : u # t => G[<<"task", u>>] = H[<<"task", u>>]
        /\ \A s \in Slots : /\ H[<<"vrx", s>>] = VrxAt(s) /\ G[<<"vrx", s>>] = VrxAt(s)'
                            /\ H[<<"auto", s>>] = AutosOf(s) /\ G[<<"auto", s>>] = AutosOf(s)'
    BY HoldingFacts, HoldingNext
  <1>3. \A p \in Places \ A : G[p] = H[p]
    <2> SUFFICES ASSUME NEW p \in Places, p \notin A PROVE G[p] = H[p]
      OBVIOUS
    <2> HIDE DEF A, H, G
    <2>1. ASSUME NEW u \in Tasks, p = <<"task", u>> PROVE G[p] = H[p]
      BY <1>1, <1>2, <2>1
    <2>2. ASSUME NEW s \in Slots, p = <<"vrx", s>> PROVE G[p] = H[p]
      BY <1>1, <1>2, <2>2, ZenonT(40)
    <2>3. ASSUME NEW s \in Slots, p = <<"auto", s>> PROVE G[p] = H[p]
      BY <1>1, <1>2, <2>3
    <2> QED BY <2>1, <2>2, <2>3, HoldingFacts
  <1> HIDE DEF A, H, G, me
  <1>4. \A p \in A : p # me => G[p] = {}
    BY <1>1, <1>2
  <1>5. \A i : (\E p \in A : i \in G[p]) <=> i \in G[me]
    BY <1>1, <1>4
  <1>6. ASSUME NEW i PROVE (\E p \in A : i \in H[p]) <=> i \in G[me]
    <2>1. ASSUME NEW p \in A, i \in H[p] PROVE i \in G[me]
      <3>1. p # me
        BY <1>2, <2>1
      <3>2. ASSUME NEW s \in V, p = <<"vrx", s>> PROVE i \in VrxAt(s)
        BY <1>2, <2>1, <3>2
      <3>3. ASSUME NEW s \in W, p = <<"auto", s>> PROVE i \in AutosOf(s)
        BY <1>2, <2>1, <3>3
      <3>4. i \in Held(t)'
        BY <1>1, <3>1, <3>2, <3>3
      <3> QED BY <1>2, <3>4
    <2>2. ASSUME i \in G[me] PROVE \E p \in A : i \in H[p]
      <3>1. (\E s \in V : i \in VrxAt(s)) \/ (\E s \in W : i \in AutosOf(s))
        BY <1>2, <2>2
      <3>2. ASSUME NEW s \in V, i \in VrxAt(s) PROVE \E p \in A : i \in H[p]
        <4>1. <<"vrx", s>> \in A /\ H[<<"vrx", s>>] = VrxAt(s)
          BY <1>1, <1>2
        <4> QED BY <3>2, <4>1
      <3>3. ASSUME NEW s \in W, i \in AutosOf(s) PROVE \E p \in A : i \in H[p]
        <4>1. <<"auto", s>> \in A /\ H[<<"auto", s>>] = AutosOf(s)
          BY <1>1, <1>2
        <4> QED BY <3>3, <4>1
      <3> QED BY <3>1, <3>2, <3>3
    <2> QED BY <2>1, <2>2
  <1>7. /\ A \subseteq Places
        /\ \A p, q \in A : p # q => G[p] \intersect G[q] = {}
        /\ \A i : (\E p \in A : i \in G[p]) <=> \E p \in A : i \in H[p]
    BY <1>1, <1>4, <1>5, <1>6
  <1>8. Moves(Places, A, H, G, Running, Running', {}, {})
    BY <1>3, <1>7 DEF Moves
  <1> QED BY <1>8, Transfer, PlacesStay DEF OwnInv, H, G

\* Only what one task holds changes: pipelines start or stop in its hands.
LEMMA HoldOwn ==
    ASSUME OwnInv, NEW t \in Tasks, NEW new, NEW gone,
           \A u \in Tasks : u # t => Held(u)' = Held(u),
           \A s \in Slots : VrxAt(s)' = VrxAt(s) /\ AutosOf(s)' = AutosOf(s),
           \A i : i \in Held(t)' <=> (i \in Held(t) \/ i \in new) /\ i \notin gone,
           new \intersect Running = {}, gone \subseteq Held(t),
           \A i : i \in Running' <=> (i \in Running \/ i \in new) /\ i \notin gone
    PROVE  OwnInv'
  <1> DEFINE H == Holding
             G == Holding'
             me == <<"task", t>>
             A == {me}
  <1>1. /\ me \in Places /\ H[me] = Held(t) /\ G[me] = Held(t)'
        /\ \A u \in Tasks : u # t => G[<<"task", u>>] = H[<<"task", u>>]
        /\ \A s \in Slots : /\ G[<<"vrx", s>>] = H[<<"vrx", s>>]
                            /\ G[<<"auto", s>>] = H[<<"auto", s>>]
    BY HoldingFacts, HoldingNext
  <1>2. \A p \in Places \ A : G[p] = H[p]
    <2> SUFFICES ASSUME NEW p \in Places, p # me PROVE G[p] = H[p]
      OBVIOUS
    <2> HIDE DEF H, G
    <2>1. ASSUME NEW u \in Tasks, p = <<"task", u>> PROVE G[p] = H[p]
      BY <1>1, <2>1
    <2>2. ASSUME NEW s \in Slots, p = <<"vrx", s>> \/ p = <<"auto", s>> PROVE G[p] = H[p]
      BY <1>1, <2>2
    <2> QED BY <2>1, <2>2, HoldingFacts
  <1> HIDE DEF H, G, me
  <1>3. /\ \A i : (\E p \in A : i \in G[p]) <=> ((\E p \in A : i \in H[p]) \/ i \in new) /\ i \notin gone
        /\ \A i \in gone : \E p \in A : i \in H[p]
        /\ \A p, q \in A : p # q => G[p] \intersect G[q] = {}
        /\ A \in SUBSET Places
    BY <1>1
  <1> HIDE DEF A
  <1>4. Moves(Places, A, H, G, Running, Running', new, gone)
    BY <1>2, <1>3 DEF Moves
  <1> QED BY <1>4, Transfer, PlacesStay DEF OwnInv, H, G

\* What a task holds changes places with what is at some slot.
LEMMA SwapOwn ==
    ASSUME OwnInv, NEW t \in Tasks, NEW q \in Places, q # <<"task", t>>,
           \A p \in Places : p # q /\ p # <<"task", t>> => Holding'[p] = Holding[p],
           Holding'[q] = Holding[<<"task", t>>],
           Holding'[<<"task", t>>] = Holding[q],
           Running' = Running
    PROVE  OwnInv'
  <1> DEFINE H == Holding
             G == Holding'
             me == <<"task", t>>
             A == {me, q}
  <1>1. me \in Places
    BY HoldingFacts
  <1>2. /\ \A p \in Places \ A : G[p] = H[p]
        /\ G[me] = H[q] /\ G[q] = H[me] /\ me # q
    OBVIOUS
  <1>3. H[me] \intersect H[q] = {}
    BY <1>1, <1>2 DEF Partition, OwnInv
  <1> HIDE DEF H, G, me
  <1>4. \A x, y \in A : x # y => G[x] \intersect G[y] = {}
    BY <1>2, <1>3
  <1>5. \A i : (\E p \in A : i \in G[p]) <=> \E p \in A : i \in H[p]
    BY <1>2
  <1>6. A \subseteq Places
    BY <1>1
  <1> HIDE DEF A
  <1>7. Moves(Places, A, H, G, Running, Running', {}, {})
    BY <1>2, <1>4, <1>5, <1>6 DEF Moves
  <1> QED BY <1>7, Transfer, PlacesStay DEF OwnInv, H, G

\* What is at slot x in a map of receivers and in a map of decoders.
EntryAt(f, x) == {f[y] : y \in DOMAIN f \intersect {x}}
GroupAt(f, x) == IF x \in DOMAIN f THEN f[x] ELSE {}

\* Taking slots out of a map and setting a slot.
LEMMA SlotsTaken ==
    \A f, S, x : /\ EntryAt(Restrict(f, DOMAIN f \ S), x) = IF x \in S THEN {} ELSE EntryAt(f, x)
                 /\ GroupAt(Restrict(f, DOMAIN f \ S), x) = IF x \in S THEN {} ELSE GroupAt(f, x)
  BY DEF EntryAt, GroupAt, Restrict

LEMMA SlotTaken ==
    \A f, s, x : /\ EntryAt(Without(f, s), x) = IF x = s THEN {} ELSE EntryAt(f, x)
                 /\ GroupAt(Without(f, s), x) = IF x = s THEN {} ELSE GroupAt(f, x)
  BY DEF EntryAt, GroupAt, Restrict, Without

LEMMA SlotSet ==
    \A f, s, v, x : /\ EntryAt(With(f, s, v), x) = IF x = s THEN {v} ELSE EntryAt(f, x)
                    /\ GroupAt(With(f, s, v), x) = IF x = s THEN v ELSE GroupAt(f, x)
  BY DEF EntryAt, GroupAt, With

LEMMA AllTaken == \A x : EntryAt(Empty, x) = {} /\ GroupAt(Empty, x) = {}
  BY DEF EntryAt, GroupAt, Empty

\* The session's maps after a step that sets them.
LEMMA MapsAfter ==
    ASSUME session' # None
    PROVE  /\ Vrx' = session'.vrx /\ Autos' = session'.auto
           /\ \A s : VrxAt(s)' = EntryAt(session'.vrx, s) /\ AutosOf(s)' = GroupAt(session'.auto, s)
  BY DEF Vrx, Autos, VrxAt, AutosOf, EntryAt, GroupAt

LEMMA MapsBefore ==
    /\ \A s : VrxAt(s) = EntryAt(Vrx, s) /\ AutosOf(s) = GroupAt(Autos, s)
    /\ UNCHANGED session => \A s : VrxAt(s)' = VrxAt(s) /\ AutosOf(s)' = AutosOf(s)
  BY DEF VrxAt, AutosOf, EntryAt, GroupAt, Vrx, Autos

\* The session's pipelines are those at its slots.
LEMMA PipelinesAt ==
    ASSUME StateOK
    PROVE  \A i : i \in Pipelines <=> \E s \in Slots : i \in VrxAt(s) \/ i \in AutosOf(s)
  <1>1. DOMAIN Vrx \subseteq Slots /\ DOMAIN Autos \subseteq Slots
    BY MapsTyped
  <1>2. \A i : i \in Range(Vrx) <=> \E s \in Slots : i \in VrxAt(s)
    BY <1>1 DEF Range, VrxAt
  <1>3. \A i : i \in UNION Range(Autos) <=> \E s \in Slots : i \in AutosOf(s)
    BY <1>1 DEF Range, AutosOf
  <1> QED BY <1>2, <1>3 DEF Pipelines

\* What a task holds at each step of a command.
HeldBy(k) ==
    CASE k.pc \in {"drop", "abortjoin", "join", "autoinsert"} -> k.vrxs
      [] k.pc = "replace"                                     -> k.old
      [] k.pc = "insert"                                      -> {k.vrx}
      [] OTHER                                                -> {}

LEMMA HeldAfter ==
    ASSUME HubTypes, NEW t \in Tasks, NEW k, Goto(t, k)
    PROVE  /\ Held(t) = HeldBy(task[t]) /\ Held(t)' = HeldBy(k)
           /\ \A u \in Tasks : u # t => Held(u)' = Held(u)
  <1>1. task'[t] = k /\ \A u \in Tasks : u # t => task'[u] = task[u] /\ Held(u)' = Held(u)
    BY TaskMoved
  <1>2. Held(t) = HeldBy(task[t]) /\ Held(t)' = HeldBy(task'[t])
    BY DEF Held, HeldBy
  <1> QED BY <1>1, <1>2

\* Which pipelines run after a join and after a spawn.
LEMMA HaltRunning ==
    ASSUME StateOK, NEW S, Halt(S)
    PROVE  \A i : i \in Running' <=> i \in Running /\ i \notin S
  <1>1. DOMAIN vrxs = Ids /\ Ids' = Ids /\ \A i \in Ids : vrxs[i] \in Receivers
    BY HaltTyped DEF StateOK, Ids
  <1>2. \A i \in Ids : vrxs'[i].running = (vrxs[i].running /\ i \notin S)
    BY <1>1 DEF Halt, Receivers
  <1> QED BY <1>1, <1>2 DEF Running

LEMMA SpawnRunning ==
    ASSUME StateOK, NEW v \in Receivers, v.running, vrxs' = Append(vrxs, v)
    PROVE  /\ \A i : i \in Running' <=> i \in Running \/ i \in {Len(vrxs) + 1}
           /\ {Len(vrxs) + 1} \intersect Running = {}
  BY SpawnTyped DEF Running

\* A step of a task that leaves the pipelines where they are.
LEMMA StayOwn ==
    ASSUME HubTypes, OwnInv, NEW t \in Tasks, NEW k, Goto(t, k), HeldBy(k) = HeldBy(task[t]),
           UNCHANGED <<session, vrxs>>
    PROVE  OwnInv'
  <1>1. Held(t)' = Held(t) /\ \A u \in Tasks : u # t => Held(u)' = Held(u)
    BY HeldAfter
  <1>2. \A s \in Slots : VrxAt(s)' = VrxAt(s) /\ AutosOf(s)' = AutosOf(s)
    BY MapsBefore
  <1>3. Running' = Running
    BY DEF Running, Ids
  <1> DEFINE none == {}
  <1>4. /\ \A i : i \in Held(t)' <=> (i \in Held(t) \/ i \in none) /\ i \notin none
        /\ none \intersect Running = {} /\ none \subseteq Held(t)
        /\ \A i : i \in Running' <=> (i \in Running \/ i \in none) /\ i \notin none
    BY <1>1, <1>3
  <1> HIDE DEF none
  <1> QED BY <1>1, <1>2, <1>4, HoldOwn

\* Commands that begin, read and decide; handles and the spectrum task.
LEMMA StayingOwn ==
    ASSUME HubTypes, OwnInv, NEW t \in Tasks,
           \/ StartCheck(t) \/ ConnectFails(t) \/ StopRead(t) \/ TunePeek(t) \/ InPlace(t) \/ SpawnFails(t)
           \/ \E s \in Slots : \E f \in Ncos : TuneRead(t, s, f)
           \/ \E s \in Slots : \E m \in Modes : SetVrxCheck(t, s, m)
           \/ \E s \in AutoSlots : AutoRead(t, s)
           \/ Connect(t) \/ StartAbort(t) \/ StartStore(t) \/ StopAbort(t) \/ TuneApply(t)
    PROVE  OwnInv'
  <1>1. UNCHANGED <<session, vrxs>>
    BY DEF StartCheck, ConnectFails, StopRead, TunePeek, InPlace, SpawnFails, TuneRead, SetVrxCheck, AutoRead,
           Connect, StartAbort, StartStore, StopAbort, TuneApply
  <1>2. ASSUME NEW k, Goto(t, k), HeldBy(k) = HeldBy(task[t]) PROVE OwnInv'
    BY <1>1, <1>2, StayOwn
  <1>3. HeldBy(Idle) = {}
    BY DEF HeldBy, Idle
  <1>4. CASE StartCheck(t)
    <2> DEFINE k == IF Started THEN Idle ELSE [pc |-> "connect"]
    <2>1. Goto(t, k) /\ HeldBy(k) = {} /\ HeldBy(task[t]) = {}
      BY <1>3, <1>4 DEF StartCheck, Begins, HeldBy
    <2> HIDE DEF k
    <2> QED BY <1>2, <2>1
  <1>5. CASE ConnectFails(t) \/ SpawnFails(t)
    <2>1. Goto(t, Idle) /\ HeldBy(task[t]) = {}
      BY <1>5 DEF ConnectFails, SpawnFails, At, HeldBy
    <2> QED BY <1>2, <1>3, <2>1
  <1>6. CASE StopRead(t)
    <2> DEFINE k == IF Started THEN [pc |-> "mark"] ELSE Idle
    <2>1. Goto(t, k) /\ HeldBy(k) = {} /\ HeldBy(task[t]) = {}
      BY <1>3, <1>6 DEF StopRead, Begins, HeldBy
    <2> HIDE DEF k
    <2> QED BY <1>2, <2>1
  <1>7. CASE TunePeek(t)
    <2> DEFINE k == [pc |-> "tune", radio |-> task[t].radio, slot |-> task[t].slot, freq |-> task[t].freq,
                     activates |-> task[t].slot \notin DOMAIN radios[task[t].radio].rings]
    <2>1. Goto(t, k) /\ task[t].pc = "peek"
      BY <1>7 DEF TunePeek, At
    <2>2. HeldBy(k) = {} /\ HeldBy(task[t]) = {}
      BY <2>1 DEF HeldBy
    <2> HIDE DEF k
    <2> QED BY <1>2, <2>1, <2>2
  <1>8. CASE InPlace(t)
    <2> DEFINE k == [pc |-> "remove", slot |-> task[t].slot, mode |-> task[t].mode]
    <2>1. (Goto(t, Idle) \/ Goto(t, k)) /\ task[t].pc = "inplace"
      BY <1>8 DEF InPlace, At
    <2>2. HeldBy(k) = {} /\ HeldBy(task[t]) = {}
      BY <2>1 DEF HeldBy
    <2> HIDE DEF k
    <2> QED BY <1>2, <1>3, <2>1, <2>2
  <1>9. ASSUME NEW s \in Slots, NEW f \in Ncos, TuneRead(t, s, f) PROVE OwnInv'
    <2> DEFINE k == IF Started THEN [pc |-> "peek", radio |-> session.radio, slot |-> s, freq |-> f] ELSE Idle
    <2>1. Goto(t, k) /\ HeldBy(k) = {} /\ HeldBy(task[t]) = {}
      BY <1>3, <1>9 DEF TuneRead, Begins, HeldBy
    <2> HIDE DEF k
    <2> QED BY <1>2, <2>1
  <1>10. ASSUME NEW s \in Slots, NEW m \in Modes, SetVrxCheck(t, s, m) PROVE OwnInv'
    <2> DEFINE k == IF Started THEN [pc |-> "inplace", slot |-> s, mode |-> m] ELSE Idle
    <2>1. Goto(t, k) /\ HeldBy(k) = {} /\ HeldBy(task[t]) = {}
      BY <1>3, <1>10 DEF SetVrxCheck, Begins, HeldBy
    <2> HIDE DEF k
    <2> QED BY <1>2, <2>1
  <1>11. ASSUME NEW s \in AutoSlots, AutoRead(t, s) PROVE OwnInv'
    <2> DEFINE k == IF Started /\ s \in DOMAIN session.tuning
                    THEN [pc |-> "autotake", slot |-> s, nco |-> session.tuning[s]]
                    ELSE Idle
    <2>1. Goto(t, k) /\ HeldBy(k) = {} /\ HeldBy(task[t]) = {}
      BY <1>3, <1>11 DEF AutoRead, Begins, HeldBy
    <2> HIDE DEF k
    <2> QED BY <1>2, <2>1
  <1>12. CASE Connect(t)
    <2>1. PICK tuned : Goto(t, [pc |-> "install", radio |-> Len(radios) + 1, tuned |-> tuned])
      BY <1>12, ConnectForm
    <2> DEFINE k == [pc |-> "install", radio |-> Len(radios) + 1, tuned |-> tuned]
    <2>2. HeldBy(k) = {} /\ HeldBy(task[t]) = {}
      BY <1>12 DEF Connect, At, HeldBy
    <2> HIDE DEF k
    <2> QED BY <1>2, <2>1, <2>2 DEF k
  <1>13. CASE StartAbort(t)
    <2> DEFINE k == [pc |-> "store", radio |-> task[t].radio]
    <2>1. Goto(t, k) /\ HeldBy(k) = {} /\ HeldBy(task[t]) = {}
      BY <1>13 DEF StartAbort, At, HeldBy
    <2> HIDE DEF k
    <2> QED BY <1>2, <2>1
  <1>14. CASE StartStore(t)
    <2>1. Goto(t, Idle) /\ HeldBy(task[t]) = {}
      BY <1>14 DEF StartStore, At, HeldBy
    <2> QED BY <1>2, <1>3, <2>1
  <1>15. CASE StopAbort(t)
    <2> DEFINE k == [pc |-> "join", vrxs |-> task[t].vrxs, next |-> Idle]
    <2>1. Goto(t, k) /\ HeldBy(k) = HeldBy(task[t])
      BY <1>15 DEF StopAbort, At, HeldBy
    <2> HIDE DEF k
    <2> QED BY <1>2, <2>1
  <1>16. CASE TuneApply(t)
    <2> DEFINE k == [pc |-> "note", slot |-> task[t].slot, freq |-> task[t].freq, activates |-> task[t].activates]
    <2>1. (Goto(t, k) \/ Goto(t, Idle)) /\ task[t].pc = "tune"
      BY <1>16 DEF TuneApply, At
    <2>2. HeldBy(k) = {} /\ HeldBy(task[t]) = {}
      BY <2>1 DEF HeldBy
    <2> HIDE DEF k
    <2> QED BY <1>2, <1>3, <2>1, <2>2
  <1> QED BY <1>4, <1>5, <1>6, <1>7, <1>8, <1>9, <1>10, <1>11, <1>12, <1>13, <1>14, <1>15, <1>16

\* Dropping under the mutex, or going on at once: the same is held.
LEMMA DropHeld ==
    ASSUME HubTypes, NEW t \in Tasks, NEW ids, NEW next, DropThen(t, ids, next), HeldBy(next) = {}
    PROVE  /\ Held(t) = HeldBy(task[t]) /\ Held(t)' = ids
           /\ \A u \in Tasks : u # t => Held(u)' = Held(u)
  <1> DEFINE k == [pc |-> "drop", vrxs |-> ids, next |-> next]
  <1>1. HeldBy(k) = ids
    BY DEF HeldBy
  <1> HIDE DEF k
  <1>2. CASE ids = {}
    BY <1>2, HeldAfter DEF DropThen
  <1>3. CASE ids # {}
    BY <1>1, <1>3, HeldAfter DEF DropThen, k
  <1> QED BY <1>2, <1>3

\* The edits of the session's maps, seen from its slots.
LEMMA EditedMaps ==
    ASSUME StateOK, session # None
    PROVE  /\ \A v : LET x == [session EXCEPT !.vrx = v] IN x.vrx = v /\ x.auto = Autos
           /\ \A a : LET x == [session EXCEPT !.auto = a] IN x.auto = a /\ x.vrx = Vrx
           /\ \A n, a : LET x == [session EXCEPT !.tuning = n, !.auto = a] IN x.auto = a /\ x.vrx = Vrx
           /\ \A v, a : LET x == [session EXCEPT !.started = FALSE, !.vrx = v, !.auto = a]
                        IN  x.auto = a /\ x.vrx = v
  <1>1. session \in [radio : Radios, started : BOOLEAN, vrx : Maps(Ids),
                     auto : Maps(SUBSET Ids), tuning : Maps(Ncos)]
    BY DEF StateOK, Sessions
  <1>2. Vrx = session.vrx /\ Autos = session.auto
    BY DEF Vrx, Autos
  <1> QED BY <1>1, <1>2

\* A task takes all there is in the session.
LEMMA TakeAllOwn ==
    ASSUME HubTypes, OwnInv, NEW t \in Tasks,
           session' # None, session'.vrx = Empty, session'.auto = Empty, UNCHANGED vrxs,
           Held(t) = {}, Held(t)' = Pipelines,
           \A u \in Tasks : u # t => Held(u)' = Held(u)
    PROVE  OwnInv'
  <1>1. \A s \in Slots : VrxAt(s)' = {} /\ AutosOf(s)' = {}
    BY MapsAfter, AllTaken
  <1>2. \A i : i \in Held(t)' <=> (\E s \in Slots : i \in VrxAt(s)) \/ (\E s \in Slots : i \in AutosOf(s))
    BY PipelinesAt DEF HubTypes
  <1>3. Running' = Running
    BY DEF Running, Ids
  <1>4. /\ \A s \in Slots : VrxAt(s)' = IF s \in Slots THEN {} ELSE VrxAt(s)
        /\ \A s \in Slots : AutosOf(s)' = IF s \in Slots THEN {} ELSE AutosOf(s)
    BY <1>1
  <1> QED BY <1>2, <1>3, <1>4, TakeOwn

\* A task takes the receivers of some slots.
LEMMA TakeVrxOwn ==
    ASSUME HubTypes, OwnInv, NEW t \in Tasks, NEW S \in SUBSET Slots, UNCHANGED vrxs,
           \A s \in Slots : VrxAt(s)' = (IF s \in S THEN {} ELSE VrxAt(s)) /\ AutosOf(s)' = AutosOf(s),
           Held(t) = {}, \A i : i \in Held(t)' <=> \E s \in S : i \in VrxAt(s),
           \A u \in Tasks : u # t => Held(u)' = Held(u)
    PROVE  OwnInv'
  <1> DEFINE none == {}
  <1>1. /\ none \in SUBSET Slots
        /\ \A s \in Slots : AutosOf(s)' = IF s \in none THEN {} ELSE AutosOf(s)
        /\ \A i : i \in Held(t)' <=> (\E s \in S : i \in VrxAt(s)) \/ (\E s \in none : i \in AutosOf(s))
    OBVIOUS
  <1>2. Running' = Running
    BY DEF Running, Ids
  <1> HIDE DEF none
  <1> QED BY <1>1, <1>2, TakeOwn

\* A task takes the decoders of a slot.
LEMMA TakeAutoOwn ==
    ASSUME HubTypes, OwnInv, NEW t \in Tasks, NEW s \in Slots, UNCHANGED vrxs,
           \A x \in Slots : VrxAt(x)' = VrxAt(x) /\ AutosOf(x)' = (IF x = s THEN {} ELSE AutosOf(x)),
           Held(t) = {}, Held(t)' = AutosOf(s),
           \A u \in Tasks : u # t => Held(u)' = Held(u)
    PROVE  OwnInv'
  <1> DEFINE none == {}
             this == {s}
  <1>1. /\ none \in SUBSET Slots /\ this \in SUBSET Slots
        /\ \A x \in Slots : VrxAt(x)' = IF x \in none THEN {} ELSE VrxAt(x)
        /\ \A x \in Slots : AutosOf(x)' = IF x \in this THEN {} ELSE AutosOf(x)
        /\ \A i : i \in Held(t)' <=> (\E x \in none : i \in VrxAt(x)) \/ (\E x \in this : i \in AutosOf(x))
    OBVIOUS
  <1>2. Running' = Running
    BY DEF Running, Ids
  <1> HIDE DEF none, this
  <1> QED BY <1>1, <1>2, TakeOwn

\* Start and stop take everything, a tune and AutoDecode the decoders of a
\* slot, SetVrx and a rebinding the receiver of a slot.
LEMMA TakingOwn ==
    ASSUME HubTypes, OwnInv, NEW t \in Tasks,
           \/ Install(t) \/ StopMark(t) \/ TuneNote(t) \/ RebindTake(t) \/ Remove(t)
           \/ SetVrxNone(t) \/ AutoTake(t)
           \/ \E s \in Slots : SetVrxOff(t, s)
           \/ \E s \in AutoSlots : AutoOff(t, s)
    PROVE  OwnInv'
  <1>1. /\ UNCHANGED vrxs /\ StateOK
        /\ Fits(task[t], Radios, Ids)
        /\ OnSession(task[t]) => session # None
    BY DEF HubTypes, TasksFit, SessionThere, Install, StopMark, TuneNote, RebindTake, Remove, SetVrxNone,
           SetVrxOff, TakeOut, AutoTake, AutoOff, TakeAutos
  <1>2. session # None => session' # None
    BY MapsChangeTyped
  <1>3. HeldBy(Idle) = {}
    BY DEF HeldBy, Idle
  <1>4. CASE Install(t)
    <2> DEFINE next == [pc |-> "abort", radio |-> task[t].radio]
    <2>1. HeldBy(next) = {} /\ HeldBy(task[t]) = {}
      BY <1>4 DEF HeldBy, Install, At
    <2>2. DropThen(t, Pipelines, next)
      BY <1>4 DEF Install
    <2> HIDE DEF next
    <2>3. /\ Held(t) = {} /\ Held(t)' = Pipelines
          /\ \A u \in Tasks : u # t => Held(u)' = Held(u)
      BY <2>1, <2>2, DropHeld
    <2>4. session' # None
      BY <1>1, <1>4, InstallThere
    <2>5. session'.vrx = Empty /\ session'.auto = Empty
      BY <1>4 DEF Install
    <2> QED BY <1>1, <2>3, <2>4, <2>5, TakeAllOwn
  <1>5. CASE StopMark(t)
    <2> DEFINE k == [pc |-> "abortjoin", vrxs |-> Pipelines]
    <2>1. session # None /\ HeldBy(task[t]) = {} /\ HeldBy(k) = Pipelines
      BY <1>1, <1>5 DEF StopMark, At, OnSession, HeldBy
    <2>2. session'.vrx = Empty /\ session'.auto = Empty
      BY <1>1, <1>5, <2>1, EditedMaps DEF StopMark
    <2>3. Goto(t, k)
      BY <1>5 DEF StopMark
    <2> HIDE DEF k
    <2>4. /\ Held(t) = {} /\ Held(t)' = Pipelines
          /\ \A u \in Tasks : u # t => Held(u)' = Held(u)
      BY <2>1, <2>3, HeldAfter
    <2> QED BY <1>1, <1>2, <2>1, <2>2, <2>4, TakeAllOwn
  <1>6. ASSUME NEW s \in Slots, Held(t) = {}, Held(t)' = AutosOf(s),
               \A u \in Tasks : u # t => Held(u)' = Held(u),
               session' # None, session'.auto = Without(Autos, s), session'.vrx = Vrx
        PROVE  OwnInv'
    <2>1. \A x \in Slots : VrxAt(x)' = VrxAt(x) /\ AutosOf(x)' = (IF x = s THEN {} ELSE AutosOf(x))
      BY <1>6, MapsAfter, MapsBefore, SlotTaken
    <2> QED BY <1>1, <1>6, <2>1, TakeAutoOwn
  <1>7. CASE TuneNote(t)
    <2> DEFINE s == task[t].slot
               k == [pc |-> "join", vrxs |-> AutosOf(s), next |-> AfterNote(t)]
    <2>1. session # None /\ s \in Slots /\ HeldBy(task[t]) = {}
      BY <1>1, <1>7 DEF TuneNote, At, OnSession, Fits, Idle, HeldBy
    <2>2. HeldBy(k) = AutosOf(s) /\ HeldBy(AfterNote(t)) = {}
      BY <1>3 DEF HeldBy, AfterNote
    <2>3. Goto(t, IF AutosOf(s) = {} THEN AfterNote(t) ELSE k)
      BY <1>7 DEF TuneNote
    <2>4. session'.auto = Without(Autos, s) /\ session'.vrx = Vrx
      BY <1>1, <1>7, <2>1, EditedMaps DEF TuneNote
    <2> HIDE DEF k, s
    <2>5. Held(t) = {} /\ Held(t)' = AutosOf(s) /\ \A u \in Tasks : u # t => Held(u)' = Held(u)
      BY <2>1, <2>2, <2>3, HeldAfter
    <2> QED BY <1>2, <1>6, <2>1, <2>4, <2>5
  <1>8. ASSUME NEW s \in Slots, NEW next, TakeAutos(t, s, next), HeldBy(task[t]) = {} PROVE OwnInv'
    <2> DEFINE k == [pc |-> "join", vrxs |-> AutosOf(s), next |-> next]
    <2>1. HeldBy(k) = AutosOf(s)
      BY DEF HeldBy
    <2>2. Goto(t, k)
      BY <1>8 DEF TakeAutos
    <2> HIDE DEF k
    <2>3. Held(t) = {} /\ Held(t)' = AutosOf(s) /\ \A u \in Tasks : u # t => Held(u)' = Held(u)
      BY <1>8, <2>1, <2>2, HeldAfter
    <2>4. CASE session = None
      <3>1. session' = session
        BY <1>8, <2>4 DEF TakeAutos
      <3>2. AutosOf(s) = {}
        BY <2>4 DEF AutosOf, Autos, Empty
      <3> QED BY <1>1, <2>3, <3>1, <3>2, MapsBefore, TakeAutoOwn
    <2>5. CASE session # None
      <3>1. session'.auto = Without(Autos, s) /\ session'.vrx = Vrx
        BY <1>1, <1>8, <2>5, EditedMaps DEF TakeAutos
      <3> QED BY <1>2, <1>6, <2>3, <2>5, <3>1
    <2> QED BY <2>4, <2>5
  <1>9. CASE AutoTake(t)
    <2>1. task[t].slot \in Slots /\ HeldBy(task[t]) = {}
      BY <1>1, <1>9 DEF AutoTake, At, Fits, Idle, HeldBy
    <2> QED BY <1>8, <1>9, <2>1 DEF AutoTake
  <1>10. ASSUME NEW s \in AutoSlots, AutoOff(t, s) PROVE OwnInv'
    <2>1. s \in Slots /\ HeldBy(task[t]) = {}
      BY <1>3, <1>10, HubAssumption DEF AutoOff, Begins
    <2> QED BY <1>8, <1>10, <2>1 DEF AutoOff
  <1>11. ASSUME NEW S \in SUBSET Slots, Held(t) = {}, Held(t)' = {Vrx[x] : x \in DOMAIN Vrx \intersect S},
                \A u \in Tasks : u # t => Held(u)' = Held(u),
                session' # None, session'.vrx = Restrict(Vrx, DOMAIN Vrx \ S), session'.auto = Autos
         PROVE  OwnInv'
    <2>1. \A x \in Slots : VrxAt(x)' = (IF x \in S THEN {} ELSE VrxAt(x)) /\ AutosOf(x)' = AutosOf(x)
      BY <1>11, MapsAfter, MapsBefore, SlotsTaken
    <2>2. \A i : i \in Held(t)' <=> \E s \in S : i \in VrxAt(s)
      BY <1>11 DEF VrxAt
    <2> QED BY <1>1, <1>11, <2>1, <2>2, TakeVrxOwn
  <1>12. CASE RebindTake(t)
    <2> DEFINE s == task[t].slot
               S == {s}
               k == [pc |-> "replace", slot |-> s, old |-> {Vrx[s]}, mode |-> vrxs[Vrx[s]].mode,
                     muted |-> vrxs[Vrx[s]].muted, asked |-> FALSE]
    <2>1. session # None /\ s \in Slots /\ HeldBy(task[t]) = {} /\ S \in SUBSET Slots
      BY <1>1, <1>12 DEF RebindTake, At, OnSession, Fits, Idle, HeldBy
    <2>2. CASE s \in DOMAIN Vrx
      <3>1. Goto(t, k) /\ session' = [session EXCEPT !.vrx = Without(Vrx, s)]
        BY <1>12, <2>2 DEF RebindTake
      <3>2. session'.vrx = Restrict(Vrx, DOMAIN Vrx \ S) /\ session'.auto = Autos
        BY <1>1, <2>1, <3>1, EditedMaps DEF Without
      <3>3. HeldBy(k) = {Vrx[x] : x \in DOMAIN Vrx \intersect S}
        BY <2>2 DEF HeldBy
      <3> HIDE DEF k, S, s
      <3>4. Held(t) = {} /\ Held(t)' = {Vrx[x] : x \in DOMAIN Vrx \intersect S}
            /\ \A u \in Tasks : u # t => Held(u)' = Held(u)
        BY <2>1, <3>1, <3>3, HeldAfter
      <3> QED BY <1>2, <1>11, <2>1, <3>2, <3>4
    <2>3. CASE s \notin DOMAIN Vrx
      <3>1. Goto(t, Idle) /\ UNCHANGED <<session, vrxs>>
        BY <1>12, <2>3 DEF RebindTake
      <3> QED BY <1>3, <2>1, <3>1, StayOwn
    <2> QED BY <2>2, <2>3
  <1>13. CASE Remove(t)
    <2> DEFINE s == task[t].slot
               S == {s}
               k == [pc |-> "replace", slot |-> s, mode |-> task[t].mode, muted |-> FALSE, asked |-> TRUE,
                     old |-> {Vrx[x] : x \in DOMAIN Vrx \intersect S}]
    <2>1. session # None /\ S \in SUBSET Slots /\ HeldBy(task[t]) = {}
      BY <1>1, <1>13 DEF Remove, At, OnSession, Fits, Idle, HeldBy
    <2>2. Goto(t, k) /\ session' = [session EXCEPT !.vrx = Without(Vrx, s)]
      BY <1>13 DEF Remove
    <2>3. session'.vrx = Restrict(Vrx, DOMAIN Vrx \ S) /\ session'.auto = Autos
      BY <1>1, <2>1, <2>2, EditedMaps DEF Without
    <2>4. HeldBy(k) = {Vrx[x] : x \in DOMAIN Vrx \intersect S}
      BY DEF HeldBy
    <2> HIDE DEF k, S, s
    <2>5. Held(t) = {} /\ Held(t)' = {Vrx[x] : x \in DOMAIN Vrx \intersect S}
          /\ \A u \in Tasks : u # t => Held(u)' = Held(u)
      BY <2>1, <2>2, <2>4, HeldAfter
    <2> QED BY <1>2, <1>11, <2>1, <2>3, <2>5
  <1>14. ASSUME NEW S \in SUBSET Slots, TakeOut(t, S) PROVE OwnInv'
    <2> DEFINE k == [pc |-> "join", vrxs |-> {Vrx[x] : x \in DOMAIN Vrx \intersect S}, next |-> Idle]
    <2>1. HeldBy(task[t]) = {} /\ HeldBy(k) = {Vrx[x] : x \in DOMAIN Vrx \intersect S}
      BY <1>3, <1>14 DEF TakeOut, Begins, HeldBy
    <2>2. Goto(t, k)
      BY <1>14 DEF TakeOut
    <2> HIDE DEF k
    <2>3. Held(t) = {} /\ Held(t)' = {Vrx[x] : x \in DOMAIN Vrx \intersect S}
          /\ \A u \in Tasks : u # t => Held(u)' = Held(u)
      BY <2>1, <2>2, HeldAfter
    <2>4. CASE session = None
      <3>1. session' = session
        BY <1>14, <2>4 DEF TakeOut
      <3>2. \A s : VrxAt(s) = {}
        BY <2>4 DEF VrxAt, Vrx, Empty
      <3>3. Held(t)' = {}
        BY <2>3, <2>4 DEF Vrx, Empty
      <3> QED BY <1>1, <2>3, <3>1, <3>2, <3>3, MapsBefore, TakeVrxOwn
    <2>5. CASE session # None
      <3>1. session'.vrx = Restrict(Vrx, DOMAIN Vrx \ S) /\ session'.auto = Autos
        BY <1>1, <1>14, <2>5, EditedMaps DEF TakeOut
      <3> QED BY <1>2, <1>11, <2>3, <2>5, <3>1
    <2> QED BY <2>4, <2>5
  <1>15. CASE SetVrxNone(t)
    BY <1>14, <1>15 DEF SetVrxNone
  <1>16. ASSUME NEW s \in Slots, SetVrxOff(t, s) PROVE OwnInv'
    BY <1>14, <1>16 DEF SetVrxOff
  <1> QED BY <1>4, <1>5, <1>7, <1>9, <1>10, <1>12, <1>13, <1>15, <1>16

\* Joins stop what the task holds, a spawn puts a new pipeline in its hands,
\* a mute changes nothing about who holds what.
LEMMA HandsOwn ==
    ASSUME HubTypes, OwnInv, NEW t \in Tasks,
           \/ Drop(t) \/ Join(t) \/ StopOld(t) \/ Spawn(t) \/ AutoSpawn(t)
           \/ \E s \in Slots : \E muted \in BOOLEAN : SetVrxMute(t, s, muted)
    PROVE  OwnInv'
  <1>1. /\ UNCHANGED session /\ StateOK
        /\ Fits(task[t], Radios, Ids)
        /\ OnSession(task[t]) => session # None
        /\ \A s \in Slots : VrxAt(s)' = VrxAt(s) /\ AutosOf(s)' = AutosOf(s)
    BY MapsBefore DEF HubTypes, TasksFit, SessionThere, Drop, Join, StopOld, Spawn, AutoSpawn, SetVrxMute
  <1>2. ASSUME NEW k, NEW S, Goto(t, k), HeldBy(task[t]) = S, HeldBy(k) = {}, Halt(S) PROVE OwnInv'
    <2>1. \A i : i \in Running' <=> i \in Running /\ i \notin S
      BY <1>1, <1>2, HaltRunning
    <2>2. Held(t) = S /\ Held(t)' = {} /\ \A u \in Tasks : u # t => Held(u)' = Held(u)
      BY <1>2, HeldAfter
    <2> DEFINE none == {}
    <2>3. /\ \A i : i \in Held(t)' <=> (i \in Held(t) \/ i \in none) /\ i \notin S
          /\ none \intersect Running = {} /\ S \subseteq Held(t)
          /\ \A i : i \in Running' <=> (i \in Running \/ i \in none) /\ i \notin S
      BY <2>1, <2>2
    <2> HIDE DEF none
    <2> QED BY <1>1, <2>2, <2>3, HoldOwn
  <1>3. CASE Drop(t) \/ Join(t)
    <2>1. task[t].pc \in {"drop", "join"} /\ Resumes(task[t].next, Radios)
      BY <1>1, <1>3 DEF Drop, Join, At, Fits, Idle
    <2>2. HeldBy(task[t]) = task[t].vrxs /\ HeldBy(task[t].next) = {}
      BY <2>1 DEF HeldBy, Resumes, Idle
    <2> QED BY <1>2, <1>3, <2>2 DEF Drop, Join
  <1>4. CASE StopOld(t)
    <2> DEFINE k == [task[t] EXCEPT !.pc = "spawn", !.old = {}]
    <2>1. task[t] \in [pc : {"replace"}, slot : Slots, old : SUBSET Ids, mode : AllModes,
                       muted : BOOLEAN, asked : BOOLEAN]
      BY <1>1, <1>4 DEF StopOld, At, Fits, Idle
    <2>2. HeldBy(task[t]) = task[t].old /\ HeldBy(k) = {}
      BY <2>1 DEF HeldBy
    <2>3. Goto(t, k) /\ Halt(task[t].old)
      BY <1>4 DEF StopOld
    <2> HIDE DEF k
    <2> QED BY <1>2, <2>2, <2>3
  <1>5. ASSUME NEW k, NEW v, Goto(t, k), vrxs' = Append(vrxs, v), v \in Receivers, v.running,
               HeldBy(task[t]) = {}, HeldBy(k) = {Len(vrxs) + 1}
        PROVE  OwnInv'
    <2>1. /\ \A i : i \in Running' <=> i \in Running \/ i \in {Len(vrxs) + 1}
          /\ {Len(vrxs) + 1} \intersect Running = {}
      BY <1>1, <1>5, SpawnRunning
    <2>2. Held(t) = {} /\ Held(t)' = {Len(vrxs) + 1} /\ \A u \in Tasks : u # t => Held(u)' = Held(u)
      BY <1>5, HeldAfter
    <2> DEFINE none == {}
               new == {Len(vrxs) + 1}
    <2>3. /\ \A i : i \in Held(t)' <=> (i \in Held(t) \/ i \in new) /\ i \notin none
          /\ new \intersect Running = {} /\ none \subseteq Held(t)
          /\ \A i : i \in Running' <=> (i \in Running \/ i \in new) /\ i \notin none
      BY <2>1, <2>2
    <2> HIDE DEF none, new
    <2> QED BY <1>1, <2>2, <2>3, HoldOwn
  <1>6. CASE Spawn(t)
    <2> DEFINE v == [slot |-> task[t].slot, mode |-> task[t].mode, muted |-> task[t].muted, running |-> TRUE,
                     ring |-> RingFor(radios[session.radio].rings, task[t].slot),
                     radio |-> session.radio, nco |-> 0]
               k == [pc |-> "insert", slot |-> task[t].slot, vrx |-> Len(vrxs) + 1, asked |-> task[t].asked]
    <2>1. /\ session # None /\ task[t].slot \in Slots /\ task[t].mode \in AllModes
          /\ task[t].muted \in BOOLEAN /\ HeldBy(task[t]) = {}
      BY <1>1, <1>6 DEF Spawn, At, OnSession, Fits, Idle, HeldBy
    <2>2. v \in Receivers /\ v.running
      <3>1. session.radio \in Radios
        BY <1>1, <2>1 DEF StateOK, Sessions
      <3>2. RingFor(radios[session.radio].rings, task[t].slot) \in 1..ringCount
        BY <1>1, <3>1, RingsTyped
      <3> QED BY <2>1, <3>1, <3>2, HubAssumption DEF Receivers, AllModes
    <2>3. vrxs' = Append(vrxs, v) /\ Goto(t, k)
      BY <1>6 DEF Spawn
    <2>4. HeldBy(k) = {Len(vrxs) + 1}
      BY DEF HeldBy
    <2> HIDE DEF v, k
    <2> QED BY <1>5, <2>1, <2>2, <2>3, <2>4
  <1>7. CASE AutoSpawn(t)
    <2> DEFINE v == [slot |-> task[t].slot, mode |-> AutoMode, muted |-> TRUE, running |-> TRUE,
                     ring |-> RingFor(radios[session.radio].rings, task[t].slot),
                     radio |-> session.radio, nco |-> task[t].nco]
               k(ids) == [pc |-> "autoinsert", slot |-> task[t].slot, vrxs |-> ids]
    <2>1. /\ session # None /\ task[t].slot \in Slots /\ task[t].nco \in Ncos /\ HeldBy(task[t]) = {}
      BY <1>1, <1>7 DEF AutoSpawn, At, OnSession, Fits, Idle, HeldBy
    <2>2. v \in Receivers /\ v.running
      <3>1. session.radio \in Radios
        BY <1>1, <2>1 DEF StateOK, Sessions
      <3>2. RingFor(radios[session.radio].rings, task[t].slot) \in 1..ringCount
        BY <1>1, <3>1, RingsTyped
      <3> QED BY <2>1, <3>1, <3>2 DEF Receivers
    <2>3. \/ vrxs' = Append(vrxs, v) /\ Goto(t, k({Len(vrxs) + 1}))
          \/ UNCHANGED vrxs /\ Goto(t, k({}))
      BY <1>7 DEF AutoSpawn
    <2>4. HeldBy(k({Len(vrxs) + 1})) = {Len(vrxs) + 1} /\ HeldBy(k({})) = {}
      BY DEF HeldBy
    <2> HIDE DEF v, k
    <2>5. CASE vrxs' = Append(vrxs, v) /\ Goto(t, k({Len(vrxs) + 1}))
      BY <1>5, <2>1, <2>2, <2>4, <2>5
    <2>6. CASE UNCHANGED vrxs /\ Goto(t, k({}))
      BY <1>1, <2>1, <2>4, <2>6, StayOwn
    <2> QED BY <2>3, <2>5, <2>6
  <1>8. ASSUME NEW s \in Slots, NEW muted \in BOOLEAN, SetVrxMute(t, s, muted) PROVE OwnInv'
    <2>1. task' = task /\ vrxs' = IF s \in DOMAIN Vrx THEN [vrxs EXCEPT ![Vrx[s]].muted = muted] ELSE vrxs
      BY <1>8 DEF SetVrxMute
    <2>2. \A u \in Tasks : Held(u)' = Held(u)
      BY <2>1 DEF Held
    <2>3. Ids' = Ids /\ \A i \in Ids : vrxs'[i].running = vrxs[i].running
      <3>1. vrxs \in Seq(Receivers) /\ (s \in DOMAIN Vrx => Vrx[s] \in 1..Len(vrxs))
        BY <1>1, MapsTyped DEF StateOK, Ids
      <3>2. \A i \in Ids : vrxs[i] \in Receivers
        BY <3>1 DEF Ids
      <3> QED BY <2>1, <3>1, <3>2 DEF Ids, Receivers
    <2>4. Running' = Running
      BY <2>3 DEF Running
    <2> DEFINE none == {}
    <2>5. /\ \A i : i \in Held(t)' <=> (i \in Held(t) \/ i \in none) /\ i \notin none
          /\ none \intersect Running = {} /\ none \subseteq Held(t)
          /\ \A i : i \in Running' <=> (i \in Running \/ i \in none) /\ i \notin none
      BY <2>2, <2>4
    <2> HIDE DEF none
    <2> QED BY <1>1, <2>2, <2>5, HoldOwn
  <1> QED BY <1>3, <1>4, <1>6, <1>7, <1>8

\* A task and a slot exchange what they hold.
LEMMA InsertingOwn ==
    ASSUME HubTypes, OwnInv, NEW t \in Tasks, Insert(t) \/ AutoInsert(t)
    PROVE  OwnInv'
  <1>1. /\ UNCHANGED vrxs /\ StateOK
        /\ Fits(task[t], Radios, Ids)
        /\ session # None /\ session' # None
    BY MapsChangeTyped DEF HubTypes, TasksFit, SessionThere, Insert, AutoInsert, At, OnSession
  <1>2. HeldBy(Idle) = {}
    BY DEF HeldBy, Idle
  <1>3. Running' = Running
    BY <1>1 DEF Running, Ids
  <1>4. ASSUME NEW q \in Places, NEW s \in Slots, q = <<"vrx", s>> \/ q = <<"auto", s>>,
               \A u \in Tasks : u # t => Held(u)' = Held(u),
               \A x \in Slots : /\ <<"vrx", x>> # q => VrxAt(x)' = VrxAt(x)
                                /\ <<"auto", x>> # q => AutosOf(x)' = AutosOf(x),
               Holding'[q] = Held(t), Held(t)' = Holding[q]
        PROVE  OwnInv'
    <2> DEFINE me == <<"task", t>>
               H == Holding
               G == Holding'
    <2>1. q # me /\ H[me] = Held(t) /\ G[me] = Held(t)'
      BY <1>4, HoldingFacts, HoldingNext
    <2>2. ASSUME NEW p \in Places, p # q, p # me PROVE G[p] = H[p]
      <3>1. ASSUME NEW u \in Tasks, p = <<"task", u>> PROVE G[p] = H[p]
        BY <1>4, <2>2, <3>1, HoldingFacts, HoldingNext
      <3>2. ASSUME NEW x \in Slots, p = <<"vrx", x>> PROVE G[p] = H[p]
        BY <1>4, <2>2, <3>2, HoldingFacts, HoldingNext
      <3>3. ASSUME NEW x \in Slots, p = <<"auto", x>> PROVE G[p] = H[p]
        BY <1>4, <2>2, <3>3, HoldingFacts, HoldingNext
      <3> HIDE DEF H, G
      <3> QED BY <3>1, <3>2, <3>3, HoldingFacts
    <2> QED BY <1>3, <1>4, <2>1, <2>2, SwapOwn
  <1>5. CASE Insert(t)
    <2>1. task[t].slot \in Slots /\ HeldBy(task[t]) = {task[t].vrx}
      BY <1>1, <1>5 DEF Insert, At, Fits, Idle, HeldBy
    <2> PICK s \in Slots : s = task[t].slot
      BY <2>1
    <2> DEFINE ids == {Vrx[x] : x \in DOMAIN Vrx \intersect {s}}
               q == <<"vrx", s>>
    <2>2. DropThen(t, ids, Idle) /\ session' = [session EXCEPT !.vrx = With(Vrx, s, task[t].vrx)]
      BY <1>5 DEF Insert
    <2>3. session'.vrx = With(Vrx, s, task[t].vrx) /\ session'.auto = Autos
      BY <1>1, <2>2, EditedMaps
    <2>4. ids = VrxAt(s)
      BY DEF VrxAt
    <2> HIDE DEF ids
    <2>5. Held(t) = {task[t].vrx} /\ Held(t)' = VrxAt(s) /\ \A u \in Tasks : u # t => Held(u)' = Held(u)
      BY <1>2, <2>1, <2>2, <2>4, DropHeld
    <2>6. \A x \in Slots : /\ VrxAt(x)' = (IF x = s THEN {task[t].vrx} ELSE VrxAt(x))
                           /\ AutosOf(x)' = AutosOf(x)
      BY <1>1, <2>3, MapsAfter, MapsBefore, SlotSet
    <2>7. q \in Places /\ Holding'[q] = VrxAt(s)' /\ Holding[q] = VrxAt(s)
      BY <2>1, HoldingFacts, HoldingNext
    <2>8. Holding'[q] = Held(t) /\ Held(t)' = Holding[q]
      BY <2>1, <2>5, <2>6, <2>7
    <2>9. \A x \in Slots : /\ <<"vrx", x>> # q => VrxAt(x)' = VrxAt(x)
                           /\ <<"auto", x>> # q => AutosOf(x)' = AutosOf(x)
      BY <2>6
    <2> QED BY <1>4, <2>1, <2>5, <2>7, <2>8, <2>9
  <1>6. CASE AutoInsert(t)
    <2>1. task[t].slot \in Slots /\ HeldBy(task[t]) = task[t].vrxs
      BY <1>1, <1>6 DEF AutoInsert, At, Fits, Idle, HeldBy
    <2> PICK s \in Slots : s = task[t].slot
      BY <2>1
    <2> DEFINE q == <<"auto", s>>
    <2>2. DropThen(t, AutosOf(s), Idle) /\ session' = [session EXCEPT !.auto = With(Autos, s, task[t].vrxs)]
      BY <1>6 DEF AutoInsert
    <2>3. session'.auto = With(Autos, s, task[t].vrxs) /\ session'.vrx = Vrx
      BY <1>1, <2>2, EditedMaps
    <2>4. Held(t) = task[t].vrxs /\ Held(t)' = AutosOf(s) /\ \A u \in Tasks : u # t => Held(u)' = Held(u)
      BY <1>2, <2>1, <2>2, DropHeld
    <2>6. \A x \in Slots : /\ AutosOf(x)' = (IF x = s THEN task[t].vrxs ELSE AutosOf(x))
                           /\ VrxAt(x)' = VrxAt(x)
      BY <1>1, <2>3, MapsAfter, MapsBefore, SlotSet
    <2>7. q \in Places /\ Holding'[q] = AutosOf(s)' /\ Holding[q] = AutosOf(s)
      BY <2>1, HoldingFacts, HoldingNext
    <2>8. Holding'[q] = Held(t) /\ Held(t)' = Holding[q]
      BY <2>1, <2>4, <2>6, <2>7
    <2>9. \A x \in Slots : /\ <<"vrx", x>> # q => VrxAt(x)' = VrxAt(x)
                           /\ <<"auto", x>> # q => AutosOf(x)' = AutosOf(x)
      BY <2>6
    <2> QED BY <1>4, <2>1, <2>4, <2>7, <2>8, <2>9
  <1> QED BY <1>5, <1>6

LEMMA InitOwn == Init => OwnInv
  <1> SUFFICES ASSUME Init PROVE OwnInv
    OBVIOUS
  <1>1. Running = {}
    BY DEF Init, Running, Ids
  <1>2. \A t \in Tasks : Held(t) = {}
    BY DEF Init, Held, Idle
  <1>3. \A s \in Slots : VrxAt(s) = {} /\ AutosOf(s) = {}
    BY DEF Init, VrxAt, AutosOf, Vrx, Autos, Empty
  <1>4. \A p \in Places : Holding[p] = {}
    BY <1>2, <1>3, HoldingFacts
  <1> QED BY <1>1, <1>4 DEF OwnInv, Partition

LEMMA StutterOwn ==
    ASSUME OwnInv, UNCHANGED vars
    PROVE  OwnInv'
  <1>1. Running' = Running /\ Holding' = Holding
    BY DEF vars, Running, Ids, Holding, HeldAt, Held, VrxAt, AutosOf, Vrx, Autos, Places
  <1> QED BY <1>1, PlacesStay DEF OwnInv, Partition

LEMMA NextOwn == HubTypes /\ OwnInv /\ [Next]_vars => OwnInv'
  <1>1. ASSUME HubTypes, OwnInv, NEW t \in Tasks, Begin(t) PROVE OwnInv'
    BY <1>1, StayingOwn, TakingOwn, HandsOwn DEF Begin
  <1>2. ASSUME HubTypes, OwnInv, NEW t \in Tasks, Continue(t) PROVE OwnInv'
    BY <1>2, StayingOwn, TakingOwn, HandsOwn, InsertingOwn DEF Continue
  <1> QED BY <1>1, <1>2, StutterOwn DEF Next

LEMMA AlwaysOwned == Spec => [](HubTypes /\ OwnInv)
  <1>1. Init => HubTypes /\ OwnInv
    BY InitTypes, InitOwn
  <1>2. HubTypes /\ OwnInv /\ [Next]_vars => (HubTypes /\ OwnInv)'
    BY NextTypes, NextOwn
  <1> QED BY <1>1, <1>2, PTL DEF Spec

\* Counting a set that has at most one element.
LEMMA OneOrNone ==
    ASSUME NEW S, \A x, y \in S : x = y
    PROVE  Cardinality(S) = IF S = {} THEN 0 ELSE 1
  <1>1. CASE S = {}
    BY <1>1, FS_EmptySet
  <1>2. CASE S # {}
    <2>1. PICK x \in S : TRUE
      BY <1>2
    <2>2. S = {x}
      BY <2>1
    <2> QED BY <1>2, <2>2, FS_Singleton
  <1> QED BY <1>1, <1>2

\* Whoever displaces, replaces or races whom, a running pipeline is in the
\* session's maps or in the hands of exactly one task, and one that was
\* stopped is nowhere: none leaks and none is stopped twice.
THEOREM OwnedOnce == Spec => []OneOwner
  <1>1. HubTypes /\ OwnInv => OneOwner
    <2> SUFFICES ASSUME HubTypes, OwnInv, NEW i \in Ids
                 PROVE  IF vrxs[i].running
                        THEN Cardinality({t \in Tasks : i \in Held(t)}) + MapEntries(i) = 1
                        ELSE MapEntries(i) = 0
      BY DEF OneOwner
    <2> DEFINE T == {t \in Tasks : i \in Held(t)}
               V == {s \in DOMAIN Vrx : Vrx[s] = i}
               W == {s \in DOMAIN Autos : i \in Autos[s]}
               H == Holding
    <2>1. DOMAIN Vrx \subseteq Slots /\ DOMAIN Autos \subseteq Slots
      BY MapsTyped DEF HubTypes
    <2>2. /\ \A t : t \in T <=> t \in Tasks /\ i \in H[<<"task", t>>]
          /\ \A s : s \in V <=> s \in Slots /\ i \in H[<<"vrx", s>>]
          /\ \A s : s \in W <=> s \in Slots /\ i \in H[<<"auto", s>>]
      <3>1. \A s \in Slots : (i \in VrxAt(s) <=> s \in V) /\ (i \in AutosOf(s) <=> s \in W)
        BY DEF VrxAt, AutosOf
      <3> QED BY <2>1, <3>1, HoldingFacts
    <2>3. /\ \A p, q \in Places : i \in H[p] /\ i \in H[q] => p = q
          /\ i \in Running <=> \E p \in Places : i \in H[p]
          /\ i \in Running <=> vrxs[i].running
      BY DEF OwnInv, Partition, Running
    <2>4. /\ \A t \in Tasks : <<"task", t>> \in Places
          /\ \A s \in Slots : <<"vrx", s>> \in Places /\ <<"auto", s>> \in Places
          /\ \A p \in Places : \/ \E t \in Tasks : p = <<"task", t>>
                               \/ \E s \in Slots : p = <<"vrx", s>> \/ p = <<"auto", s>>
      BY HoldingFacts
    <2> HIDE DEF T, V, W, H
    <2>5. /\ \A x, y \in T : x = y
          /\ \A x, y \in V : x = y
          /\ \A x, y \in W : x = y
      BY <2>2, <2>3, <2>4, ZenonT(40)
    <2>6. /\ T # {} => V = {} /\ W = {}
          /\ V # {} => W = {}
      BY <2>2, <2>3, <2>4, ZenonT(40)
    <2>7. i \in Running <=> T # {} \/ V # {} \/ W # {}
      <3>1. ASSUME NEW p \in Places, i \in H[p] PROVE T # {} \/ V # {} \/ W # {}
        BY <2>2, <2>4, <3>1
      <3>2. ASSUME T # {} \/ V # {} \/ W # {} PROVE \E p \in Places : i \in H[p]
        BY <2>2, <2>4, <3>2
      <3> QED BY <2>3, <3>1, <3>2
    <2>8. /\ Cardinality(T) = IF T = {} THEN 0 ELSE 1
          /\ Cardinality(V) = IF V = {} THEN 0 ELSE 1
          /\ Cardinality(W) = IF W = {} THEN 0 ELSE 1
      BY <2>5, OneOrNone
    <2>9. MapEntries(i) = Cardinality(V) + Cardinality(W)
      BY DEF MapEntries, V, W
    <2>10. IF vrxs[i].running THEN Cardinality(T) + MapEntries(i) = 1 ELSE MapEntries(i) = 0
      BY <2>3, <2>6, <2>7, <2>8, <2>9
    <2> QED BY <2>10 DEF T
  <1> QED BY <1>1, AlwaysOwned, PTL

\* A receiver of another slot stays in the map.
LEMMA OthersKept ==
    ASSUME HubTypes, NEW t \in Tasks, RebindTake(t) \/ Remove(t) \/ Insert(t)
    PROVE  \A s \in DOMAIN Vrx : s # task[t].slot => s \in DOMAIN Vrx' /\ Vrx'[s] = Vrx[s]
  <1>1. StateOK /\ session # None /\ session' # None
    BY MapsChangeTyped DEF HubTypes, SessionThere, RebindTake, Remove, Insert, At, OnSession
  <1>2. Vrx' = session'.vrx
    BY <1>1, MapsAfter
  <1>3. CASE UNCHANGED session
    BY <1>3 DEF Vrx
  <1>4. CASE session' = [session EXCEPT !.vrx = Without(Vrx, task[t].slot)]
    <2>1. Vrx' = Without(Vrx, task[t].slot)
      BY <1>1, <1>2, <1>4, EditedMaps
    <2> DEFINE f == Without(Vrx, task[t].slot)
    <2>2. /\ DOMAIN f = DOMAIN Vrx \ {task[t].slot}
          /\ \A x \in DOMAIN Vrx \ {task[t].slot} : f[x] = Vrx[x]
      BY DEF Without, Restrict
    <2>3. Vrx' = f
      BY <2>1
    <2> HIDE DEF f
    <2> QED BY <2>2, <2>3
  <1>5. CASE session' = [session EXCEPT !.vrx = With(Vrx, task[t].slot, task[t].vrx)]
    <2>1. Vrx' = With(Vrx, task[t].slot, task[t].vrx)
      BY <1>1, <1>2, <1>5, EditedMaps
    <2> DEFINE f == With(Vrx, task[t].slot, task[t].vrx)
    <2>2. /\ DOMAIN f = DOMAIN Vrx \union {task[t].slot}
          /\ \A x \in DOMAIN Vrx : x # task[t].slot => f[x] = Vrx[x]
      BY DEF With
    <2>3. Vrx' = f
      BY <2>1
    <2> HIDE DEF f
    <2> QED BY <2>2, <2>3
  <1> QED BY <1>3, <1>4, <1>5 DEF RebindTake, Remove, Insert

\* A rebuild or a rebinding of one slot's receiver never takes out, replaces
\* or displaces the receiver of another slot, which keeps streaming.
THEOREM SlotsApart == Spec => OtherSlotsUndisturbed
  <1>1. ASSUME HubTypes, [Next]_vars, NEW t \in Tasks, task[t].pc \in {"take", "remove", "insert"},
               task'[t] # task[t]
        PROVE  \A s \in DOMAIN Vrx \ {task[t].slot} : s \in DOMAIN Vrx' /\ Vrx'[s] = Vrx[s]
    <2>1. PICK u \in Tasks : Begin(u) \/ Continue(u)
      BY <1>1 DEF Next, vars
    <2>2. task[t] # Idle
      BY <1>1 DEF Idle
    <2>3. \E k : Goto(u, k)
      <3>1. (\E s \in Slots : \E muted \in BOOLEAN : SetVrxMute(u, s, muted)) => Goto(u, task[u])
        BY <1>1 DEF SetVrxMute, Goto, HubTypes, StateOK
      <3> QED BY <2>1, <3>1 DEF Begin, Continue, StartCheck, StopRead, TuneRead, SetVrxCheck, SetVrxNone, SetVrxOff,
            TakeOut, AutoRead, AutoOff, TakeAutos, Connect, Install, Drop, StartAbort, StartStore, StopMark,
            StopAbort, Join, TunePeek, TuneApply, TuneNote, RebindTake, InPlace, Remove, StopOld, Spawn, Insert,
            AutoTake, AutoSpawn, AutoInsert, ConnectFails, SpawnFails, DropThen
    <2>4. u = t
      BY <1>1, <2>3, TaskMoved
    <2>5. RebindTake(t) \/ Remove(t) \/ Insert(t)
      <3>1. ~Begin(t)
        BY <2>2 DEF Begin, StartCheck, StopRead, TuneRead, SetVrxCheck, SetVrxNone, SetVrxOff, TakeOut,
              SetVrxMute, AutoRead, AutoOff, Begins
      <3> QED BY <1>1, <2>1, <2>4, <3>1 DEF Continue, Connect, Install, Drop, StartAbort, StartStore, StopMark,
            StopAbort, Join, TunePeek, TuneApply, TuneNote, InPlace, StopOld, Spawn, AutoTake, AutoSpawn,
            AutoInsert, ConnectFails, SpawnFails, At
    <2> QED BY <1>1, <2>5, OthersKept
  <1>2. HubTypes /\ [Next]_vars =>
           [\A t \in Tasks :
              task[t].pc \in {"take", "remove", "insert"} /\ task'[t] # task[t] =>
                 \A s \in DOMAIN Vrx \ {task[t].slot} : s \in DOMAIN Vrx' /\ Vrx'[s] = Vrx[s]]_vars
    BY <1>1
  <1> QED BY <1>2, AlwaysTyped, PTL DEF Spec, OtherSlotsUndisturbed

-----------------------------------------------------------------------------
(***************************************************************************)
(* As long as no command overlaps another: what the clients asked for is   *)
(* what they have.                                                         *)
(***************************************************************************)

\* What a task is doing, or will do after a join.
Doing(k) == IF k.pc \in {"drop", "join"} THEN k.next ELSE k

Alone(t) == \A u \in Tasks : u # t => task[u] = Idle

\* A session is started exactly while a command needs it, and a session that
\* is not started has no pipelines.
Works(d) ==
    /\ d.pc \in {"connect", "install", "abortjoin"} => ~Started
    /\ d.pc \notin {"idle", "connect", "install", "abortjoin"} => Started
    /\ d.pc \in {"abort", "store", "peek", "tune"} => d.radio = session.radio
    /\ ~Started => DOMAIN Vrx = {} /\ DOMAIN Autos = {}

\* The handles whose events somebody reads.
Listened == {r \in Radios : radios[r].reader # "gone"}

\* Who reads the events of which handle.
Pumps(d) ==
    CASE d.pc = "install"            -> Listened = {d.radio} /\ spectrum = None
      [] d.pc \in {"abort", "store"} -> Listened = {session.radio} /\ spectrum = None
      [] d.pc = "abortjoin"          -> Listened = {session.radio} /\ spectrum = session.radio
      [] OTHER -> IF Started THEN Listened = {session.radio} /\ spectrum = session.radio
                             ELSE Listened = {} /\ spectrum = None

\* The mute of the receivers and of the one being rebuilt.
Mutes(d) ==
    /\ \A s \in DOMAIN Vrx : vrxs[Vrx[s]].muted = intent[s]
    /\ d.pc \in {"replace", "spawn"} => d.muted = IF d.asked THEN FALSE ELSE intent[d.slot]
    /\ d.pc = "insert" => vrxs[d.vrx].muted = IF d.asked THEN FALSE ELSE intent[d.slot]

Rings == radios[session.radio].rings

\* The receiver of slot s is still to be rebound.
Awaits(d, s) == (d.pc = "take" \/ (d.pc = "note" /\ d.activates)) /\ d.slot = s

\* The rings of the receivers.
Syncs(d) ==
    /\ Started => \A s \in DOMAIN Vrx \intersect DOMAIN Rings :
                     s \in slipped \/ Awaits(d, s) \/ vrxs[Vrx[s]].ring = Rings[s]
    /\ d.pc = "tune" => d.activates = (d.slot \notin DOMAIN Rings)
    /\ d.pc = "insert" /\ d.slot \in DOMAIN Rings => vrxs[d.vrx].ring = Rings[d.slot]

\* A decoder of slot s runs on the ring and for the NCO of a tuned slot.
OnRing(i, s) ==
    /\ s \in DOMAIN session.tuning /\ session.tuning[s] # 0
    /\ s \in DOMAIN Rings
    /\ vrxs[i].nco = session.tuning[s] /\ vrxs[i].ring = Rings[s]

\* The decoders of slot s are still to be taken out, or out of anyone's care.
Exempt(d, s) == s \in slipped \/ (d.pc = "note" /\ d.slot = s)

\* The rings and the NCOs of the automatic decoders.
Decodes(d) ==
    /\ Started =>
         /\ \A s \in DOMAIN Autos : Exempt(d, s) \/ \A i \in Autos[s] : OnRing(i, s)
         /\ \A s \in DOMAIN session.tuning : Exempt(d, s) \/ session.tuning[s] = 0 \/ s \in DOMAIN Rings
    /\ d.pc = "note" => d.freq = 0 \/ d.slot \in slipped \/ d.slot \in DOMAIN Rings
    /\ d.pc \in {"autotake", "autospawn"} => d.slot \in DOMAIN session.tuning /\ d.nco = session.tuning[d.slot]
    /\ d.pc = "autoinsert" => d.slot \in slipped \/ \A i \in d.vrxs : OnRing(i, d.slot)
    /\ d.pc = "install" => DOMAIN d.tuned \subseteq DOMAIN radios[d.radio].rings

Facts(d) == Works(d) /\ Pumps(d) /\ Mutes(d) /\ Syncs(d) /\ Decodes(d)

\* One command at a time.
OneAtATime ==
    ~overlap =>
        \/ Quiescent /\ Facts(Idle)
        \/ \E t \in Tasks : Alone(t) /\ Facts(Doing(task[t]))

LEMMA DoingIdle == Doing(Idle) = Idle
  BY DEF Doing, Idle

\* The step of a behaviour in which no command has overlapped another yet.
LEMMA SoleStep ==
    ASSUME OneAtATime, ~overlap', NEW t \in Tasks, Begin(t) \/ Continue(t)
    PROVE  /\ Alone(t) /\ Facts(Doing(task[t]))
           /\ Begin(t) => task[t] = Idle /\ Facts(Idle)
  <1>1. ASSUME NEW c, c = Begins(t), c PROVE ~overlap /\ Quiescent
    BY <1>1, Zenon DEF Begins, Quiescent
  <1>2. Begin(t) => Begins(t)
    BY DEF Begin, StartCheck, StopRead, TuneRead, SetVrxCheck, SetVrxNone, SetVrxOff, TakeOut, SetVrxMute,
           AutoRead, AutoOff
  <1>3. CASE Begin(t)
    <2>1. ~overlap /\ Quiescent
      BY <1>1, <1>2, <1>3
    <2>2. Alone(t) /\ task[t] = Idle
      BY <2>1 DEF Quiescent, Alone
    <2>3. Facts(Idle)
      BY <2>1, DoingIdle DEF OneAtATime, Quiescent
    <2> QED BY <2>2, <2>3, DoingIdle
  <1>4. CASE Continue(t) /\ ~Begin(t)
    <2>1. task[t].pc # "idle" /\ UNCHANGED <<overlap, commands>>
      BY <1>4 DEF Continue, Connect, Install, Drop, StartAbort, StartStore, StopMark, StopAbort, Join, TunePeek,
         TuneApply, TuneNote, RebindTake, InPlace, Remove, StopOld, Spawn, Insert, AutoTake, AutoSpawn, AutoInsert,
         ConnectFails, SpawnFails, At
    <2>2. task[t] # Idle /\ overlap' = overlap
      BY <2>1 DEF Idle
    <2>3. ~overlap
      BY <2>2
    <2>4. ~Quiescent
      BY <2>2 DEF Quiescent
    <2>5. PICK u \in Tasks : Alone(u) /\ Facts(Doing(task[u]))
      BY <2>3, <2>4 DEF OneAtATime
    <2>6. u = t
      BY <2>2, <2>5 DEF Alone
    <2> QED BY <1>4, <2>5, <2>6
  <1> QED BY <1>3, <1>4

\* The command has moved on to k.
LEMMA Arrived ==
    ASSUME HubTypes, NEW t \in Tasks, Alone(t), NEW k, Goto(t, k), NEW d, d = Doing(k), Facts(d)'
    PROVE  OneAtATime'
  <1>1. task'[t] = k /\ \A u \in Tasks : u # t => task'[u] = task[u]
    BY TaskMoved
  <1>2. Alone(t)'
    BY <1>1 DEF Alone
  <1>3. Doing(task[t])' = d
    BY <1>1 DEF Doing
  <1>4. Facts(Doing(task[t]))'
    BY <1>3
  <1> QED BY <1>2, <1>4 DEF OneAtATime

\* Nothing of what the facts are about has changed.
LEMMA SameFacts ==
    ASSUME HubTypes, NEW d, Facts(d),
           UNCHANGED <<session, spectrum, radios, intent, slipped>>,
           \A i \in Ids : /\ vrxs'[i].muted = vrxs[i].muted
                          /\ vrxs'[i].ring = vrxs[i].ring
                          /\ vrxs'[i].nco = vrxs[i].nco,
           d.pc = "insert" => d.vrx \in Ids,
           d.pc = "autoinsert" => d.vrxs \subseteq Ids
    PROVE  Facts(d)'
  <1>1. /\ Started' = Started /\ Vrx' = Vrx /\ Autos' = Autos /\ Rings' = Rings /\ Listened' = Listened
    BY DEF Started, Vrx, Autos, Rings, Listened, Radios
  <1>2. /\ \A s \in DOMAIN Vrx : Vrx[s] \in Ids
        /\ \A s \in DOMAIN Autos : Autos[s] \subseteq Ids
    BY MapsTyped DEF HubTypes
  <1>3. Works(d)'
    BY <1>1 DEF Facts, Works
  <1>4. Pumps(d)'
    BY <1>1 DEF Facts, Pumps
  <1>5. Mutes(d)'
    BY <1>1, <1>2 DEF Facts, Mutes
  <1>6. Syncs(d)'
    BY <1>1, <1>2 DEF Facts, Syncs, Awaits
  <1>7. Decodes(d)'
    <2>1. \A i \in Ids : \A s : OnRing(i, s)' <=> OnRing(i, s)
      BY <1>1 DEF OnRing
    <2>2. \A s : Exempt(d, s)' <=> Exempt(d, s)
      BY DEF Exempt
    <2> QED BY <1>1, <1>2, <2>1, <2>2 DEF Facts, Decodes
  <1> QED BY <1>3, <1>4, <1>5, <1>6, <1>7 DEF Facts

\* The steps at which the facts are those between two commands.
Plain == {"mark", "peek", "tune", "inplace", "remove", "replace", "spawn", "insert", "autotake", "autospawn",
          "autoinsert"}

\* What a command relies on at such a step.
Relies(d) ==
    /\ d.pc \in {"peek", "tune"} => d.radio = session.radio
    /\ d.pc = "tune" => d.activates = (d.slot \notin DOMAIN Rings)
    /\ d.pc \in {"replace", "spawn"} => d.muted = IF d.asked THEN FALSE ELSE intent[d.slot]
    /\ d.pc = "insert" => /\ vrxs[d.vrx].muted = IF d.asked THEN FALSE ELSE intent[d.slot]
                          /\ d.slot \in DOMAIN Rings => vrxs[d.vrx].ring = Rings[d.slot]
    /\ d.pc \in {"autotake", "autospawn"} => d.slot \in DOMAIN session.tuning /\ d.nco = session.tuning[d.slot]
    /\ d.pc = "autoinsert" => d.slot \in slipped \/ \A i \in d.vrxs : OnRing(i, d.slot)

LEMMA PlainFacts ==
    ASSUME NEW d, d.pc \in Plain
    PROVE  Facts(d) <=> Facts(Idle) /\ Started /\ Relies(d)
  <1>1. Works(d) <=> Works(Idle) /\ Started /\ (d.pc \in {"peek", "tune"} => d.radio = session.radio)
    BY DEF Works, Idle, Plain
  <1>2. Pumps(d) <=> Pumps(Idle)
    BY DEF Pumps, Idle, Plain
  <1>3. Mutes(d) <=>
          /\ Mutes(Idle)
          /\ d.pc \in {"replace", "spawn"} => d.muted = IF d.asked THEN FALSE ELSE intent[d.slot]
          /\ d.pc = "insert" => vrxs[d.vrx].muted = IF d.asked THEN FALSE ELSE intent[d.slot]
    BY DEF Mutes, Idle, Plain
  <1>4. Syncs(d) <=>
          /\ Syncs(Idle)
          /\ d.pc = "tune" => d.activates = (d.slot \notin DOMAIN Rings)
          /\ d.pc = "insert" => (d.slot \in DOMAIN Rings => vrxs[d.vrx].ring = Rings[d.slot])
    BY DEF Syncs, Awaits, Idle, Plain
  <1>5. Decodes(d) <=>
          /\ Decodes(Idle)
          /\ d.pc \in {"autotake", "autospawn"} =>
                d.slot \in DOMAIN session.tuning /\ d.nco = session.tuning[d.slot]
          /\ d.pc = "autoinsert" => d.slot \in slipped \/ \A i \in d.vrxs : OnRing(i, d.slot)
    BY DEF Decodes, Exempt, Idle, Plain
  <1> QED BY <1>1, <1>2, <1>3, <1>4, <1>5 DEF Facts, Relies

LEMMA PlainFactsNext ==
    ASSUME NEW d, d.pc \in Plain
    PROVE  Facts(d)' <=> Facts(Idle)' /\ Started' /\ Relies(d)'
  <1>1. Works(d)' <=> Works(Idle)' /\ Started' /\ (d.pc \in {"peek", "tune"} => d.radio = session'.radio)
    BY DEF Works, Idle, Plain
  <1>2. Pumps(d)' <=> Pumps(Idle)'
    BY DEF Pumps, Idle, Plain
  <1>3. Mutes(d)' <=>
          /\ Mutes(Idle)'
          /\ d.pc \in {"replace", "spawn"} => d.muted = IF d.asked THEN FALSE ELSE intent'[d.slot]
          /\ d.pc = "insert" => vrxs'[d.vrx].muted = IF d.asked THEN FALSE ELSE intent'[d.slot]
    BY DEF Mutes, Idle, Plain
  <1>4. Syncs(d)' <=>
          /\ Syncs(Idle)'
          /\ d.pc = "tune" => d.activates = (d.slot \notin DOMAIN Rings')
          /\ d.pc = "insert" => (d.slot \in DOMAIN Rings' => vrxs'[d.vrx].ring = Rings'[d.slot])
    BY DEF Syncs, Awaits, Idle, Plain
  <1>5. Decodes(d)' <=>
          /\ Decodes(Idle)'
          /\ d.pc \in {"autotake", "autospawn"} =>
                d.slot \in DOMAIN session'.tuning /\ d.nco = session'.tuning[d.slot]
          /\ d.pc = "autoinsert" => d.slot \in slipped' \/ \A i \in d.vrxs : OnRing(i, d.slot)'
    BY DEF Decodes, Exempt, Idle, Plain
  <1> QED BY <1>1, <1>2, <1>3, <1>4, <1>5 DEF Facts, Relies

\* Waiting for a connection.
LEMMA ConnectFacts ==
    ASSUME NEW d, d.pc = "connect"
    PROVE  Facts(d) <=> Facts(Idle) /\ ~Started
  BY DEF Facts, Works, Pumps, Mutes, Syncs, Decodes, Awaits, Exempt, Idle

\* A join and a spawn change none of the pipelines there are but the running
\* of those that are joined.
LEMMA HaltSame ==
    ASSUME HubTypes, NEW S, Halt(S)
    PROVE  \A i \in Ids : /\ vrxs'[i].muted = vrxs[i].muted
                          /\ vrxs'[i].ring = vrxs[i].ring
                          /\ vrxs'[i].nco = vrxs[i].nco
  <1>1. DOMAIN vrxs = Ids /\ \A i \in Ids : vrxs[i] \in Receivers
    BY DEF HubTypes, StateOK, Ids
  <1> QED BY <1>1 DEF Halt, Receivers

\* Steps that read, decide and join.
LEMMA ReadingFacts ==
    ASSUME HubTypes, OwnInv, NEW t \in Tasks, Alone(t), Facts(Doing(task[t])),
           \/ StartCheck(t) \/ ConnectFails(t) \/ StopRead(t) \/ TunePeek(t) \/ InPlace(t) \/ SpawnFails(t)
           \/ \E s \in Slots : \E f \in Ncos : TuneRead(t, s, f)
           \/ \E s \in Slots : \E m \in Modes : SetVrxCheck(t, s, m)
           \/ \E s \in AutoSlots : AutoRead(t, s)
           \/ Drop(t) \/ Join(t) \/ StopOld(t)
    PROVE  OneAtATime'
  <1>1. UNCHANGED <<session, spectrum, radios, intent, slipped>> /\ Fits(task[t], Radios, Ids)
    BY DEF HubTypes, TasksFit, StartCheck, ConnectFails, StopRead, TunePeek, InPlace, SpawnFails, TuneRead,
           SetVrxCheck, AutoRead, Drop, Join, StopOld
  <1>2. \A i \in Ids : /\ vrxs'[i].muted = vrxs[i].muted
                       /\ vrxs'[i].ring = vrxs[i].ring
                       /\ vrxs'[i].nco = vrxs[i].nco
    <2>1. UNCHANGED vrxs \/ \E S : Halt(S)
      BY DEF StartCheck, ConnectFails, StopRead, TunePeek, InPlace, SpawnFails, TuneRead, SetVrxCheck, AutoRead,
             Drop, Join, StopOld
    <2> QED BY <2>1, HaltSame
  <1>3. ASSUME NEW k, NEW d, Goto(t, k), d = Doing(k), Facts(d),
               d.pc \notin {"insert", "autoinsert"}
        PROVE  OneAtATime'
    <2>1. Facts(d)'
      BY <1>1, <1>2, <1>3, SameFacts
    <2> QED BY <1>3, <2>1, Arrived
  <1>4. ASSUME Facts(Idle), Goto(t, Idle) PROVE OneAtATime'
    <2>1. Idle.pc \notin {"insert", "autoinsert"}
      BY DEF Idle
    <2> QED BY <1>3, <1>4, <2>1, DoingIdle
  <1>5. ASSUME NEW k, Goto(t, k), k.pc \in Plain, k.pc \notin {"insert", "autoinsert"},
               Facts(Idle), Started, Relies(k)
        PROVE  OneAtATime'
    <2>1. Doing(k) = k
      BY <1>5 DEF Doing, Plain
    <2> QED BY <1>3, <1>5, <2>1, PlainFacts
  <1>6. task[t] = Idle => Facts(Idle)
    BY DoingIdle
  <1>7. CASE StartCheck(t)
    <2>1. PICK k : k = [pc |-> "connect"]
      OBVIOUS
    <2>2. Facts(Idle) /\ (Goto(t, Idle) \/ (~Started /\ Goto(t, k)))
      BY <1>6, <1>7, <2>1 DEF StartCheck, Begins
    <2>3. Doing(k) = k /\ k.pc = "connect"
      BY <2>1 DEF Doing
    <2> QED BY <1>3, <1>4, <2>2, <2>3, ConnectFacts
  <1>8. CASE ConnectFails(t)
    <2>1. Doing(task[t]).pc = "connect" /\ Goto(t, Idle)
      BY <1>8 DEF ConnectFails, At, Doing
    <2> QED BY <1>4, <2>1, ConnectFacts
  <1>9. CASE StopRead(t)
    <2>1. PICK k : k = [pc |-> "mark"]
      OBVIOUS
    <2>2. Facts(Idle) /\ (Goto(t, Idle) \/ (Started /\ Goto(t, k)))
      BY <1>6, <1>9, <2>1 DEF StopRead, Begins
    <2>3. k.pc \in Plain /\ k.pc \notin {"insert", "autoinsert"} /\ Relies(k)
      BY <2>1 DEF Plain, Relies
    <2> QED BY <1>4, <1>5, <2>2, <2>3
  <1>10. ASSUME NEW s \in Slots, NEW f \in Ncos, TuneRead(t, s, f) PROVE OneAtATime'
    <2>1. PICK k : k = [pc |-> "peek", radio |-> session.radio, slot |-> s, freq |-> f]
      OBVIOUS
    <2>2. Facts(Idle) /\ (Goto(t, Idle) \/ (Started /\ Goto(t, k)))
      BY <1>6, <1>10, <2>1 DEF TuneRead, Begins
    <2>3. k.pc \in Plain /\ k.pc \notin {"insert", "autoinsert"} /\ Relies(k)
      BY <2>1 DEF Plain, Relies
    <2> QED BY <1>4, <1>5, <2>2, <2>3
  <1>11. ASSUME NEW s \in Slots, NEW m \in Modes, SetVrxCheck(t, s, m) PROVE OneAtATime'
    <2>1. PICK k : k = [pc |-> "inplace", slot |-> s, mode |-> m]
      OBVIOUS
    <2>2. Facts(Idle) /\ (Goto(t, Idle) \/ (Started /\ Goto(t, k)))
      BY <1>6, <1>11, <2>1 DEF SetVrxCheck, Begins
    <2>3. k.pc \in Plain /\ k.pc \notin {"insert", "autoinsert"} /\ Relies(k)
      BY <2>1 DEF Plain, Relies
    <2> QED BY <1>4, <1>5, <2>2, <2>3
  <1>12. ASSUME NEW s \in AutoSlots, AutoRead(t, s) PROVE OneAtATime'
    <2>1. PICK k : k = [pc |-> "autotake", slot |-> s, nco |-> session.tuning[s]]
      OBVIOUS
    <2>2. Facts(Idle) /\ (Goto(t, Idle) \/ (Started /\ s \in DOMAIN session.tuning /\ Goto(t, k)))
      BY <1>6, <1>12, <2>1 DEF AutoRead, Begins
    <2>3. k.pc \in Plain /\ k.pc \notin {"insert", "autoinsert"} /\ (s \in DOMAIN session.tuning => Relies(k))
      BY <2>1 DEF Plain, Relies
    <2> QED BY <1>4, <1>5, <2>2, <2>3
  <1>13. ASSUME task[t].pc \in Plain
         PROVE  Doing(task[t]) = task[t] /\ Facts(Idle) /\ Started /\ Relies(task[t])
    <2>1. Doing(task[t]) = task[t]
      BY <1>13 DEF Doing, Plain
    <2> QED BY <1>13, <2>1, PlainFacts
  <1>14. CASE TunePeek(t)
    <2>1. PICK k : k = [pc |-> "tune", radio |-> task[t].radio, slot |-> task[t].slot, freq |-> task[t].freq,
                        activates |-> task[t].slot \notin DOMAIN radios[task[t].radio].rings]
      OBVIOUS
    <2>2. task[t].pc = "peek" /\ Goto(t, k)
      BY <1>14, <2>1 DEF TunePeek, At
    <2>3. Facts(Idle) /\ Started /\ task[t].radio = session.radio
      BY <1>13, <2>2 DEF Plain, Relies
    <2>4. k.pc \in Plain /\ k.pc \notin {"insert", "autoinsert"} /\ Relies(k)
      BY <2>1, <2>3 DEF Plain, Relies, Rings
    <2> QED BY <1>5, <2>2, <2>3, <2>4
  <1>15. CASE InPlace(t)
    <2>1. PICK k : k = [pc |-> "remove", slot |-> task[t].slot, mode |-> task[t].mode]
      OBVIOUS
    <2>2. task[t].pc = "inplace" /\ (Goto(t, Idle) \/ Goto(t, k))
      BY <1>15, <2>1 DEF InPlace, At
    <2>3. Facts(Idle) /\ Started
      BY <1>13, <2>2 DEF Plain
    <2>4. k.pc \in Plain /\ k.pc \notin {"insert", "autoinsert"} /\ Relies(k)
      BY <2>1 DEF Plain, Relies
    <2> QED BY <1>4, <1>5, <2>2, <2>3, <2>4
  <1>16. CASE SpawnFails(t)
    <2>1. task[t].pc \in Plain /\ Goto(t, Idle)
      BY <1>16 DEF SpawnFails, At, Plain
    <2> QED BY <1>4, <1>13, <2>1
  <1>17. CASE Drop(t) \/ Join(t)
    <2>1. PICK k : k = task[t].next
      OBVIOUS
    <2>2. task[t].pc \in {"drop", "join"} /\ Resumes(k, Radios) /\ Goto(t, k)
      BY <1>1, <1>17, <2>1 DEF Drop, Join, At, Fits, Idle
    <2>3. Doing(task[t]) = k /\ Doing(k) = k /\ k.pc \notin {"insert", "autoinsert"}
      BY <2>1, <2>2 DEF Doing, Resumes, Idle
    <2> QED BY <1>3, <2>2, <2>3
  <1>18. CASE StopOld(t)
    <2>1. PICK k : k = [task[t] EXCEPT !.pc = "spawn", !.old = {}]
      OBVIOUS
    <2>2. task[t].pc = "replace" /\ Goto(t, k)
      BY <1>18, <2>1 DEF StopOld, At
    <2>3. Facts(Idle) /\ Started /\ Relies(task[t])
      BY <1>13, <2>2 DEF Plain
    <2>4. task[t] \in [pc : {"replace"}, slot : Slots, old : SUBSET Ids, mode : AllModes,
                       muted : BOOLEAN, asked : BOOLEAN]
      BY <1>1, <2>2 DEF Fits, Idle
    <2>5. k.pc = "spawn" /\ k.muted = task[t].muted /\ k.asked = task[t].asked /\ k.slot = task[t].slot
      BY <2>1, <2>4
    <2>6. k.pc \in Plain /\ k.pc \notin {"insert", "autoinsert"} /\ Relies(k)
      BY <2>2, <2>3, <2>5 DEF Plain, Relies
    <2> QED BY <1>5, <2>2, <2>3, <2>6
  <1> QED BY <1>7, <1>8, <1>9, <1>10, <1>11, <1>12, <1>14, <1>15, <1>16, <1>17, <1>18

\* A task at a plain step.
LEMMA AtPlain ==
    ASSUME NEW t, Facts(Doing(task[t])), task[t].pc \in Plain
    PROVE  Doing(task[t]) = task[t] /\ Facts(Idle) /\ Started /\ Relies(task[t])
  <1>1. Doing(task[t]) = task[t]
    BY DEF Doing, Plain
  <1> QED BY <1>1, PlainFacts

\* The command has moved on to a plain step.
LEMMA ArrivedPlain ==
    ASSUME HubTypes, NEW t \in Tasks, Alone(t), NEW k, Goto(t, k), k.pc \in Plain,
           Facts(Idle)', Started', Relies(k)'
    PROVE  OneAtATime'
  <1>1. Doing(k) = k
    BY DEF Doing, Plain
  <1>2. Facts(k)'
    BY PlainFactsNext
  <1> QED BY <1>1, <1>2, Arrived

\* Spawns.
LEMMA SpawningFacts ==
    ASSUME HubTypes, NEW t \in Tasks, Alone(t), Facts(Doing(task[t])), Spawn(t) \/ AutoSpawn(t)
    PROVE  OneAtATime'
  <1>1. UNCHANGED <<session, spectrum, radios, intent, slipped>> /\ Fits(task[t], Radios, Ids)
        /\ task[t].pc \in {"spawn", "autospawn"}
    BY DEF HubTypes, TasksFit, Spawn, AutoSpawn, At
  <1>2. Facts(Idle) /\ Started /\ Relies(task[t]) /\ Started'
    BY <1>1, AtPlain DEF Plain, Started
  <1>3. Rings' = Rings /\ StateOK
    BY <1>1 DEF Rings, HubTypes
  <1>4. ASSUME NEW v \in Receivers, vrxs' = Append(vrxs, v)
        PROVE  Facts(Idle)' /\ vrxs'[Len(vrxs) + 1] = v
    <2>1. /\ \A i \in Ids : vrxs'[i] = vrxs[i]
          /\ vrxs'[Len(vrxs) + 1] = v
      BY <1>3, <1>4, SpawnTyped
    <2>2. Idle.pc \notin {"insert", "autoinsert"}
      BY DEF Idle
    <2> QED BY <1>1, <1>2, <2>1, <2>2, SameFacts
  <1>5. session.radio \in Radios
    BY <1>2, <1>3 DEF StateOK, Started, Sessions
  <1>6. \A s : /\ RingFor(Rings, s) \in 1..ringCount
               /\ s \in DOMAIN Rings => RingFor(Rings, s) = Rings[s]
    <2>1. \A s : RingFor(Rings, s) \in 1..ringCount
      BY <1>3, <1>5, RingsTyped DEF Rings
    <2> QED BY <2>1 DEF RingFor
  <1>7. CASE Spawn(t)
    <2>1. PICK v : v = [slot |-> task[t].slot, mode |-> task[t].mode, muted |-> task[t].muted, running |-> TRUE,
                        ring |-> RingFor(Rings, task[t].slot), radio |-> session.radio, nco |-> 0]
      OBVIOUS
    <2>2. PICK k : k = [pc |-> "insert", slot |-> task[t].slot, vrx |-> Len(vrxs) + 1, asked |-> task[t].asked]
      OBVIOUS
    <2>3. task[t].pc = "spawn" /\ vrxs' = Append(vrxs, v) /\ Goto(t, k)
      BY <1>7, <2>1, <2>2 DEF Spawn, At, Rings
    <2>4. task[t].slot \in Slots /\ task[t].mode \in AllModes /\ task[t].muted \in BOOLEAN
      BY <1>1, <2>3 DEF Fits, Idle
    <2>5. v \in Receivers
      BY <1>5, <1>6, <2>1, <2>4, HubAssumption DEF Receivers, AllModes
    <2>6. Facts(Idle)' /\ vrxs'[Len(vrxs) + 1] = v
      BY <1>4, <2>3, <2>5
    <2>7. /\ v.muted = task[t].muted
          /\ task[t].slot \in DOMAIN Rings => v.ring = Rings[task[t].slot]
      BY <1>6, <2>1
    <2>8. task[t].muted = IF task[t].asked THEN FALSE ELSE intent[task[t].slot]
      BY <1>2, <2>3 DEF Relies
    <2>9. k.pc \in Plain /\ Relies(k)'
      BY <1>1, <1>3, <2>2, <2>6, <2>7, <2>8 DEF Relies, Plain
    <2> QED BY <1>2, <2>3, <2>6, <2>9, ArrivedPlain
  <1>8. CASE AutoSpawn(t)
    <2>1. PICK v : v = [slot |-> task[t].slot, mode |-> AutoMode, muted |-> TRUE, running |-> TRUE,
                        ring |-> RingFor(Rings, task[t].slot), radio |-> session.radio, nco |-> task[t].nco]
      OBVIOUS
    <2>2. PICK k : k = [pc |-> "autoinsert", slot |-> task[t].slot, vrxs |-> {Len(vrxs) + 1}]
      OBVIOUS
    <2>3. PICK k0 : k0 = [pc |-> "autoinsert", slot |-> task[t].slot, vrxs |-> {}]
      OBVIOUS
    <2>4. /\ task[t].pc = "autospawn"
          /\ \/ task[t].nco # 0 /\ vrxs' = Append(vrxs, v) /\ Goto(t, k)
             \/ Goto(t, k0) /\ UNCHANGED vrxs
      BY <1>8, <2>1, <2>2, <2>3 DEF AutoSpawn, At, Rings
    <2>5. task[t].slot \in Slots /\ task[t].nco \in Ncos
      BY <1>1, <2>4 DEF Fits, Idle
    <2>6. CASE Goto(t, k0) /\ UNCHANGED vrxs
      <3>1. Idle.pc \notin {"insert", "autoinsert"}
        BY DEF Idle
      <3>2. Facts(Idle)'
        BY <1>1, <1>2, <2>6, <3>1, SameFacts
      <3>3. k0.pc \in Plain /\ Relies(k0)'
        BY <2>3 DEF Plain, Relies
      <3> QED BY <1>2, <2>6, <3>2, <3>3, ArrivedPlain
    <2>7. CASE task[t].nco # 0 /\ vrxs' = Append(vrxs, v) /\ Goto(t, k)
      <3>1. v \in Receivers
        BY <1>5, <1>6, <2>1, <2>5 DEF Receivers
      <3>2. Facts(Idle)' /\ vrxs'[Len(vrxs) + 1] = v
        BY <1>4, <2>7, <3>1
      <3>3. task[t].slot \in DOMAIN session.tuning /\ session.tuning[task[t].slot] # 0 /\
            v.nco = session.tuning[task[t].slot]
        BY <1>2, <2>1, <2>4, <2>5, <2>7 DEF Relies
      <3>4. task[t].slot \in slipped \/ task[t].slot \in DOMAIN Rings
        BY <1>2, <3>3 DEF Facts, Decodes, Exempt, Idle
      <3>5. task[t].slot \in DOMAIN Rings => v.ring = Rings[task[t].slot]
        BY <1>6, <2>1
      <3>6. PICK s, i : s = task[t].slot /\ i = Len(vrxs) + 1
        OBVIOUS
      <3>7. s \in slipped' \/ OnRing(i, s)'
        BY <1>1, <1>3, <3>2, <3>3, <3>4, <3>5, <3>6 DEF OnRing
      <3>8. k.pc = "autoinsert" /\ k.vrxs = {i} /\ k.slot = s
        BY <2>2, <3>6
      <3>9. k.pc \in Plain /\ Relies(k)'
        BY <3>7, <3>8 DEF Plain, Relies
      <3> QED BY <1>2, <2>7, <3>2, <3>9, ArrivedPlain
    <2> QED BY <2>4, <2>6, <2>7
  <1> QED BY <1>7, <1>8

\* Entries are taken out of the session's maps.
LEMMA ShrunkFacts ==
    ASSUME NEW d, Facts(d), session # None, session' # None,
           UNCHANGED <<spectrum, radios, vrxs, intent, slipped>>,
           session'.radio = session.radio, session'.started = session.started,
           session'.tuning = session.tuning,
           DOMAIN Vrx' \subseteq DOMAIN Vrx, \A s \in DOMAIN Vrx' : Vrx'[s] = Vrx[s],
           DOMAIN Autos' \subseteq DOMAIN Autos, \A s \in DOMAIN Autos' : Autos'[s] = Autos[s]
    PROVE  Facts(d)'
  <1>1. Started' = Started /\ Rings' = Rings /\ Listened' = Listened
    BY DEF Started, Rings, Listened, Radios
  <1>2. Works(d)'
    BY <1>1 DEF Facts, Works
  <1>3. Pumps(d)'
    BY <1>1 DEF Facts, Pumps
  <1>4. Mutes(d)'
    BY DEF Facts, Mutes
  <1>5. Syncs(d)'
    BY <1>1 DEF Facts, Syncs, Awaits
  <1>6. Decodes(d)'
    <2>1. \A i, s : OnRing(i, s)' <=> OnRing(i, s)
      BY <1>1 DEF OnRing
    <2>2. \A s : Exempt(d, s)' <=> Exempt(d, s)
      BY DEF Exempt
    <2> QED BY <1>1, <2>1, <2>2 DEF Facts, Decodes
  <1> QED BY <1>2, <1>3, <1>4, <1>5, <1>6 DEF Facts

\* What an edit of the session's maps leaves alone.
LEMMA EditedRest ==
    ASSUME StateOK, session # None
    PROVE  /\ \A v : LET x == [session EXCEPT !.vrx = v]
                     IN  x.radio = session.radio /\ x.started = session.started /\ x.tuning = session.tuning
           /\ \A a : LET x == [session EXCEPT !.auto = a]
                     IN  x.radio = session.radio /\ x.started = session.started /\ x.tuning = session.tuning
           /\ \A n, a : LET x == [session EXCEPT !.tuning = n, !.auto = a]
                        IN  x.radio = session.radio /\ x.started = session.started /\ x.tuning = n
           /\ \A v, a : LET x == [session EXCEPT !.started = FALSE, !.vrx = v, !.auto = a]
                        IN  x.radio = session.radio /\ x.started = FALSE
  <1>1. session \in [radio : Radios, started : BOOLEAN, vrx : Maps(Ids),
                     auto : Maps(SUBSET Ids), tuning : Maps(Ncos)]
    BY DEF StateOK, Sessions
  <1> QED BY <1>1

\* Receivers or decoders are taken out of the session's maps.
LEMMA TakenFacts ==
    ASSUME HubTypes, NEW d, Facts(d), session # None, session' # None,
           UNCHANGED <<spectrum, radios, vrxs, intent, slipped>>,
           \/ \E S : session' = [session EXCEPT !.vrx = Restrict(Vrx, DOMAIN Vrx \ S)]
           \/ \E s : session' = [session EXCEPT !.auto = Without(Autos, s)]
    PROVE  Facts(d)'
  <1>1. Vrx' = session'.vrx /\ Autos' = session'.auto /\ StateOK
    BY MapsAfter DEF HubTypes
  <1>2. ASSUME NEW S, session' = [session EXCEPT !.vrx = Restrict(Vrx, DOMAIN Vrx \ S)] PROVE Facts(d)'
    <2> DEFINE f == Restrict(Vrx, DOMAIN Vrx \ S)
    <2>1. DOMAIN f \subseteq DOMAIN Vrx /\ \A s \in DOMAIN f : f[s] = Vrx[s]
      BY DEF Restrict
    <2> HIDE DEF f
    <2>2. Vrx' = f /\ Autos' = Autos
      BY <1>1, <1>2, EditedMaps DEF f
    <2>3. session'.radio = session.radio /\ session'.started = session.started /\ session'.tuning = session.tuning
      BY <1>1, <1>2, EditedRest
    <2> QED BY <2>1, <2>2, <2>3, ShrunkFacts
  <1>3. ASSUME NEW s, session' = [session EXCEPT !.auto = Without(Autos, s)] PROVE Facts(d)'
    <2> DEFINE f == Without(Autos, s)
    <2>1. DOMAIN f \subseteq DOMAIN Autos /\ \A x \in DOMAIN f : f[x] = Autos[x]
      BY DEF Restrict, Without
    <2> HIDE DEF f
    <2>2. Autos' = f /\ Vrx' = Vrx
      BY <1>1, <1>3, EditedMaps DEF f
    <2>3. session'.radio = session.radio /\ session'.started = session.started /\ session'.tuning = session.tuning
      BY <1>1, <1>3, EditedRest
    <2> QED BY <2>1, <2>2, <2>3, ShrunkFacts
  <1> QED BY <1>2, <1>3

\* SetVrx and AutoDecode take out what they replace or switch off.
LEMMA TakingFacts ==
    ASSUME HubTypes, NEW t \in Tasks, Alone(t), Facts(Doing(task[t])),
           \/ SetVrxNone(t) \/ AutoTake(t) \/ Remove(t)
           \/ \E s \in Slots : SetVrxOff(t, s)
           \/ \E s \in AutoSlots : AutoOff(t, s)
    PROVE  OneAtATime'
  <1>1. /\ UNCHANGED <<spectrum, radios, vrxs, intent, slipped>>
        /\ Fits(task[t], Radios, Ids) /\ StateOK
        /\ OnSession(task[t]) => session # None
        /\ session # None => session' # None
    BY MapsChangeTyped DEF HubTypes, TasksFit, SessionThere, SetVrxNone, SetVrxOff, TakeOut, AutoTake, AutoOff,
       TakeAutos, Remove
  <1>2. ASSUME NEW d, Facts(d), d.pc \notin {"insert", "autoinsert"},
               \/ session' = session
               \/ session # None /\ \E S : session' = [session EXCEPT !.vrx = Restrict(Vrx, DOMAIN Vrx \ S)]
               \/ session # None /\ \E s : session' = [session EXCEPT !.auto = Without(Autos, s)]
        PROVE  Facts(d)'
    <2>1. CASE session' = session
      BY <1>1, <1>2, <2>1, SameFacts
    <2>2. CASE session' # session
      BY <1>1, <1>2, <2>2, TakenFacts
    <2> QED BY <2>1, <2>2
  <1>3. task[t] = Idle => Facts(Idle) /\ Idle.pc \notin {"insert", "autoinsert"}
    BY DoingIdle DEF Idle
  <1>4. ASSUME NEW S, TakeOut(t, S) PROVE OneAtATime'
    <2>1. PICK k : k = [pc |-> "join", vrxs |-> {Vrx[s] : s \in DOMAIN Vrx \intersect S}, next |-> Idle]
      OBVIOUS
    <2>2. Goto(t, k) /\ Doing(k) = Idle /\ task[t] = Idle
      BY <1>4, <2>1 DEF TakeOut, Begins, Doing
    <2>3. Facts(Idle)'
      BY <1>2, <1>3, <1>4, <2>2 DEF TakeOut
    <2> QED BY <2>2, <2>3, Arrived
  <1>5. CASE SetVrxNone(t) \/ \E s \in Slots : SetVrxOff(t, s)
    BY <1>4, <1>5 DEF SetVrxNone, SetVrxOff
  <1>6. ASSUME NEW s \in AutoSlots, AutoOff(t, s) PROVE OneAtATime'
    <2>1. PICK k : k = [pc |-> "join", vrxs |-> AutosOf(s), next |-> Idle]
      OBVIOUS
    <2>2. Goto(t, k) /\ Doing(k) = Idle /\ task[t] = Idle
      BY <1>6, <2>1 DEF AutoOff, TakeAutos, Begins, Doing
    <2>3. Facts(Idle)'
      BY <1>2, <1>3, <1>6, <2>2 DEF AutoOff, TakeAutos
    <2> QED BY <2>2, <2>3, Arrived
  <1>7. CASE AutoTake(t)
    <2>1. PICK d : d = [task[t] EXCEPT !.pc = "autospawn"]
      OBVIOUS
    <2>2. PICK k : k = [pc |-> "join", vrxs |-> AutosOf(task[t].slot), next |-> d]
      OBVIOUS
    <2>3. task[t].pc = "autotake" /\ Goto(t, k) /\ Doing(k) = d
      BY <1>7, <2>1, <2>2 DEF AutoTake, TakeAutos, At, Doing
    <2>4. task[t] \in [pc : {"autotake", "autospawn"}, slot : Slots, nco : Ncos]
      BY <1>1, <2>3 DEF Fits, Idle
    <2>5. d.pc = "autospawn" /\ d.slot = task[t].slot /\ d.nco = task[t].nco
      BY <2>1, <2>4
    <2>6. Facts(Idle) /\ Started /\ Relies(task[t])
      BY <2>3, AtPlain DEF Plain
    <2>7. d.pc \in Plain /\ Relies(d)
      BY <2>3, <2>5, <2>6 DEF Plain, Relies
    <2>8. Facts(d)
      BY <2>6, <2>7, PlainFacts
    <2>9. Facts(d)'
      BY <1>2, <1>7, <2>5, <2>8 DEF AutoTake, TakeAutos
    <2> QED BY <2>3, <2>9, Arrived
  <1>8. CASE Remove(t)
    <2>1. PICK k : k = [pc |-> "replace", slot |-> task[t].slot, mode |-> task[t].mode, muted |-> FALSE,
                        asked |-> TRUE, old |-> {Vrx[x] : x \in DOMAIN Vrx \intersect {task[t].slot}}]
      OBVIOUS
    <2>2. task[t].pc = "remove" /\ Goto(t, k)
      BY <1>8, <2>1 DEF Remove, At
    <2>3. Facts(Idle) /\ Started
      BY <2>2, AtPlain DEF Plain
    <2>4. k.pc \in Plain /\ k.pc \notin {"insert", "autoinsert"} /\ Relies(k) /\ Doing(k) = k
      BY <2>1 DEF Plain, Relies, Doing
    <2>5. Facts(k)
      BY <2>3, <2>4, PlainFacts
    <2>6. session # None /\ \E S : session' = [session EXCEPT !.vrx = Restrict(Vrx, DOMAIN Vrx \ S)]
      BY <1>1, <1>8, <2>2 DEF OnSession, Remove, Without
    <2>7. Facts(k)'
      BY <1>2, <2>4, <2>5, <2>6
    <2> QED BY <2>2, <2>4, <2>7, Arrived
  <1> QED BY <1>5, <1>6, <1>7, <1>8

\* The slot of a tune has no receiver to rebind.
LEMMA RebindFacts ==
    ASSUME NEW d, d.pc = "take", Facts(d), d.slot \notin DOMAIN Vrx
    PROVE  Facts(Idle) /\ Started
  BY DEF Facts, Works, Pumps, Mutes, Syncs, Decodes, Awaits, Exempt, Idle

LEMMA RebindFactsNext ==
    ASSUME NEW d, d.pc = "take", Facts(d)', d.slot \notin DOMAIN Vrx'
    PROVE  Facts(Idle)' /\ Started'
  BY DEF Facts, Works, Pumps, Mutes, Syncs, Decodes, Awaits, Exempt, Idle

\* The receiver of a slot that came alive is taken to be rebuilt.
LEMMA RebindingFacts ==
    ASSUME HubTypes, NEW t \in Tasks, Alone(t), Facts(Doing(task[t])), RebindTake(t)
    PROVE  OneAtATime'
  <1> PICK c : c = task[t]
    OBVIOUS
  <1>1. /\ UNCHANGED <<spectrum, radios, vrxs, intent, slipped>>
        /\ StateOK /\ c.pc = "take"
        /\ session # None /\ session' # None
    BY MapsChangeTyped DEF HubTypes, SessionThere, OnSession, RebindTake, At
  <1>2. Facts(c)
    BY <1>1 DEF Doing
  <1>3. CASE c.slot \notin DOMAIN Vrx
    <2>1. UNCHANGED session /\ Goto(t, Idle)
      BY <1>3 DEF RebindTake
    <2>2. Facts(Idle) /\ Idle.pc \notin {"insert", "autoinsert"}
      BY <1>1, <1>2, <1>3, RebindFacts DEF Idle
    <2>3. Facts(Idle)'
      BY <1>1, <2>1, <2>2, SameFacts
    <2> QED BY <2>1, <2>3, DoingIdle, Arrived
  <1>4. CASE c.slot \in DOMAIN Vrx
    <2>1. PICK k : k = [pc |-> "replace", slot |-> c.slot, old |-> {Vrx[c.slot]}, mode |-> vrxs[Vrx[c.slot]].mode,
                        muted |-> vrxs[Vrx[c.slot]].muted, asked |-> FALSE]
      OBVIOUS
    <2>2. session' = [session EXCEPT !.vrx = Restrict(Vrx, DOMAIN Vrx \ {c.slot})] /\ Goto(t, k)
      BY <1>4, <2>1 DEF RebindTake, Without
    <2>3. Facts(c)'
      BY <1>1, <1>2, <2>2, TakenFacts
    <2>4. Vrx' = Restrict(Vrx, DOMAIN Vrx \ {c.slot})
      BY <1>1, <2>2, MapsAfter, EditedMaps
    <2>5. c.slot \notin DOMAIN Vrx'
      BY <2>4 DEF Restrict
    <2>6. Facts(Idle)' /\ Started'
      BY <1>1, <2>3, <2>5, RebindFactsNext
    <2>7. vrxs[Vrx[c.slot]].muted = intent[c.slot]
      BY <1>2, <1>4 DEF Facts, Mutes
    <2>8. k.pc \in Plain /\ Relies(k)'
      BY <1>1, <2>1, <2>7 DEF Plain, Relies
    <2> QED BY <2>2, <2>6, <2>8, ArrivedPlain
  <1> QED BY <1>3, <1>4

\* A tune is noted in the session.
LEMMA NotingFacts ==
    ASSUME HubTypes, NEW t \in Tasks, Alone(t), Facts(Doing(task[t])), TuneNote(t)
    PROVE  OneAtATime'
  <1> PICK c, d, s : c = task[t] /\ d = AfterNote(t) /\ s = task[t].slot
    OBVIOUS
  <1>1. /\ UNCHANGED <<spectrum, radios, vrxs, intent, slipped>>
        /\ StateOK /\ c.pc = "note" /\ s = c.slot /\ s \in Slots /\ c.freq \in Ncos
        /\ session # None /\ session' # None
    <2>1. /\ UNCHANGED <<spectrum, radios, vrxs, intent, slipped>>
          /\ c.pc = "note" /\ s = c.slot /\ StateOK
      BY DEF HubTypes, TuneNote, At
    <2>2. Fits(c, Radios, Ids) /\ session # None
      BY <2>1 DEF HubTypes, TasksFit, SessionThere, OnSession
    <2>3. s \in Slots /\ c.freq \in Ncos
      BY <2>1, <2>2 DEF Fits, Idle
    <2>4. session' # None
      BY <2>2, MapsChangeTyped
    <2> QED BY <2>1, <2>2, <2>3, <2>4
  <1>2. Facts(c)
    BY <1>1 DEF Doing
  <1>3. d = (IF c.activates THEN [pc |-> "take", slot |-> s] ELSE Idle)
    BY DEF AfterNote
  <1>4. session' = [session EXCEPT !.tuning = With(session.tuning, s, c.freq), !.auto = Without(Autos, s)]
    BY DEF TuneNote
  <1>5. /\ session'.radio = session.radio /\ session'.started = session.started
        /\ session'.tuning = With(session.tuning, s, c.freq)
        /\ Vrx' = Vrx /\ Autos' = Without(Autos, s)
    BY <1>1, <1>4, EditedMaps, EditedRest, MapsAfter
  <1>6. /\ DOMAIN session'.tuning = DOMAIN session.tuning \union {s}
        /\ session'.tuning[s] = c.freq
        /\ \A x \in DOMAIN session.tuning : x # s => session'.tuning[x] = session.tuning[x]
    BY <1>5 DEF With
  <1>7. DOMAIN Autos' = DOMAIN Autos \ {s} /\ \A x \in DOMAIN Autos' : Autos'[x] = Autos[x]
    BY <1>5 DEF Without, Restrict
  <1>8. Started' = Started /\ Started /\ Rings' = Rings /\ Listened' = Listened
    BY <1>1, <1>2, <1>5 DEF Facts, Works, Started, Rings, Listened, Radios
  <1>9. Works(d)' /\ Pumps(d)' /\ Mutes(d)'
    <2>1. Works(d)'
      BY <1>3, <1>8 DEF Works, Idle
    <2>2. Pumps(d)'
      BY <1>1, <1>2, <1>3, <1>5, <1>8 DEF Facts, Pumps, Idle
    <2>3. Mutes(d)'
      BY <1>1, <1>2, <1>3, <1>5 DEF Facts, Mutes, Idle
    <2> QED BY <2>1, <2>2, <2>3
  <1>10. Syncs(d)'
    <2>1. \A x : Awaits(d, x)' <=> Awaits(c, x)
      BY <1>1, <1>3 DEF Awaits, Idle
    <2> QED BY <1>1, <1>2, <1>3, <1>5, <1>8, <2>1 DEF Facts, Syncs, Idle
  <1>11. Decodes(d)'
    <2>1. \A i : \A x : x # s /\ OnRing(i, x) => OnRing(i, x)'
      BY <1>1, <1>6, <1>8 DEF OnRing
    <2>2. \A x : /\ x # s => (Exempt(c, x) <=> x \in slipped)
                 /\ Exempt(d, x)' <=> x \in slipped
      BY <1>1, <1>3 DEF Exempt, Idle
    <2>3. \A x \in DOMAIN Autos' : Exempt(d, x)' \/ \A i \in Autos'[x] : OnRing(i, x)'
      BY <1>2, <1>7, <1>8, <2>1, <2>2 DEF Facts, Decodes
    <2>4. \A x \in DOMAIN session'.tuning : Exempt(d, x)' \/ session'.tuning[x] = 0 \/ x \in DOMAIN Rings'
      BY <1>1, <1>2, <1>6, <1>8, <2>2 DEF Facts, Decodes
    <2> QED BY <1>3, <2>3, <2>4 DEF Decodes, Idle
  <1>12. Facts(d)'
    BY <1>9, <1>10, <1>11 DEF Facts
  <1>13. PICK k : k = [pc |-> "join", vrxs |-> AutosOf(s), next |-> d]
    OBVIOUS
  <1>14. Goto(t, d) \/ Goto(t, k)
    BY <1>13 DEF TuneNote
  <1>15. Doing(k) = d /\ Doing(d) = d
    BY <1>3, <1>13, DoingIdle DEF Doing
  <1> QED BY <1>12, <1>14, <1>15, Arrived

\* Rings that differ in those of slot s, and of slot 1 after a re-anchoring.
Retuned(R, Q, s, f) ==
    /\ \A x \in DOMAIN R : x # s => x \in DOMAIN Q /\ Q[x] = R[x]
    /\ \A x \in DOMAIN Q : x = s \/ x \in DOMAIN R \/ (x = 1 /\ DOMAIN R \subseteq {s} /\ f = 0)
    /\ f # 0 => s \in DOMAIN Q
    /\ s \in DOMAIN R /\ s \in DOMAIN Q => Q[s] = R[s] \/ (s = 1 /\ DOMAIN R \subseteq {s} /\ f = 0)

\* Hl2::tune changes the fan-out's rings: those of other slots stay.
LEMMA TunedRings ==
    ASSUME NEW s, NEW f \in Ncos, NEW R
    PROVE  Retuned(R, Tuned(R, s, f), s, f)
  <1> PICK Q : Q = Tuned(R, s, f)
    OBVIOUS
  <1> SUFFICES Retuned(R, Q, s, f)
    OBVIOUS
  <1>1. CASE f # 0 /\ s \in DOMAIN R
    <2>1. Q = R
      BY <1>1 DEF Tuned
    <2> QED BY <1>1, <2>1 DEF Retuned
  <1>2. CASE f # 0 /\ s \notin DOMAIN R
    <2>1. Q = With(R, s, ringCount + 1)
      BY <1>2 DEF Tuned
    <2> QED BY <1>2, <2>1 DEF With, Retuned
  <1>3. CASE f = 0 /\ DOMAIN R \subseteq {s}
    <2>1. Q = With(Empty, 1, ringCount + 1)
      BY <1>3 DEF Tuned
    <2>2. DOMAIN Q = {1}
      BY <2>1 DEF With, Empty
    <2> QED BY <1>3, <2>2 DEF Retuned
  <1>4. CASE f = 0 /\ ~(DOMAIN R \subseteq {s})
    <2>1. Q = Without(R, s)
      BY <1>4 DEF Tuned
    <2> QED BY <1>4, <2>1 DEF Without, Restrict, Retuned
  <1> QED BY <1>1, <1>2, <1>3, <1>4

\* A tune is carried out, or fails after it has changed the fan-out.
LEMMA ApplyingFacts ==
    ASSUME HubTypes, NEW t \in Tasks, Alone(t), Facts(Doing(task[t])), TuneApply(t)
    PROVE  OneAtATime'
  <1> PICK c, R, Q, s, f : /\ c = task[t] /\ s = task[t].slot /\ f = task[t].freq
                           /\ R = radios[task[t].radio].rings /\ Q = Tuned(R, s, f)
    OBVIOUS
  <1> PICK k : k = [pc |-> "note", slot |-> s, freq |-> f, activates |-> c.activates]
    OBVIOUS
  <1>1. UNCHANGED <<session, spectrum, vrxs, intent>> /\ StateOK /\ c.pc = "tune"
    BY DEF HubTypes, TuneApply, At
  <1>2. c.radio \in Radios /\ s = c.slot /\ s \in Slots /\ f = c.freq /\ f \in Ncos
    <2>1. Fits(c, Radios, Ids)
      BY DEF HubTypes, TasksFit
    <2> QED BY <1>1, <2>1 DEF Fits, Idle
  <1>3. /\ radios' = [radios EXCEPT ![c.radio].rings = Q]
        /\ \/ /\ Goto(t, k)
              /\ slipped' = IF DOMAIN R \subseteq {s} /\ f = 0 THEN slipped \union {1} ELSE slipped
           \/ /\ Goto(t, Idle)
              /\ slipped' = slipped \union {s, 1}
    BY DEF TuneApply
  <1>4. Facts(Idle) /\ Started /\ Relies(c)
    BY <1>1, AtPlain DEF Plain
  <1>5. c.radio = session.radio /\ c.activates = (s \notin DOMAIN Rings)
    BY <1>1, <1>2, <1>4 DEF Relies
  <1>6. Rings = R /\ Rings' = Q /\ Listened' = Listened /\ Started' = Started
    <2>1. c.radio \in DOMAIN radios /\ \A r \in DOMAIN radios : radios[r] \in Handles
      BY <1>1, <1>2 DEF StateOK, Radios
    <2>2. radios'[c.radio].rings = Q
      BY <1>3, <2>1 DEF Handles
    <2>3. Radios' = Radios /\ \A r \in Radios : radios'[r].reader = radios[r].reader
      BY <1>1, <1>3, <2>1 DEF Radios, Handles, StateOK
    <2> QED BY <1>1, <1>5, <2>2, <2>3 DEF Rings, Listened, Started
  <1>7. /\ \A x \in DOMAIN R : x # s => x \in DOMAIN Q /\ Q[x] = R[x]
        /\ \A x \in DOMAIN Q : x = s \/ x \in DOMAIN R \/ (x = 1 /\ DOMAIN R \subseteq {s} /\ f = 0)
        /\ f # 0 => s \in DOMAIN Q
        /\ s \in DOMAIN R /\ s \in DOMAIN Q => Q[s] = R[s] \/ (s = 1 /\ DOMAIN R \subseteq {s} /\ f = 0)
    <2>1. Retuned(R, Tuned(R, s, f), s, f)
      BY <1>2, TunedRings
    <2>2. Retuned(R, Q, s, f)
      BY <2>1
    <2> QED BY <2>2 DEF Retuned
  <1>8. PICK d : (d = k /\ Goto(t, k)) \/ (d = Idle /\ Goto(t, Idle) /\ s \in slipped')
    BY <1>3
  <1>9. /\ slipped \subseteq slipped'
        /\ DOMAIN R \subseteq {s} /\ f = 0 => 1 \in slipped'
    BY <1>3
  <1>10. /\ d.pc \in {"idle", "note"}
         /\ d.pc = "note" => d.slot = s /\ d.freq = f /\ d.activates = c.activates
         /\ s \in slipped' \/ d.pc = "note"
    BY <1>8 DEF Idle
  <1>11. Works(d)' /\ Pumps(d)' /\ Mutes(d)' /\ Vrx' = Vrx /\ Autos' = Autos
    <2>1. Vrx' = Vrx /\ Autos' = Autos
      BY <1>1 DEF Vrx, Autos
    <2>2. Works(d)'
      BY <1>4, <1>6, <1>10 DEF Works
    <2>3. Pumps(d)'
      BY <1>1, <1>4, <1>6, <1>10 DEF Facts, Pumps, Idle
    <2>4. Mutes(d)'
      BY <1>1, <1>4, <1>10, <2>1 DEF Facts, Mutes, Idle
    <2> QED BY <2>1, <2>2, <2>3, <2>4
  <1>12. Syncs(d)'
    <2>1. ASSUME NEW x \in DOMAIN Vrx, x \in DOMAIN Q, x \notin slipped', ~Awaits(d, x)'
          PROVE  vrxs[Vrx[x]].ring = Q[x]
      <3>1. x \in DOMAIN R => vrxs[Vrx[x]].ring = R[x]
        BY <1>4, <1>6, <1>9, <2>1 DEF Facts, Syncs, Awaits, Idle
      <3>2. CASE x = s
        BY <1>5, <1>6, <1>7, <1>9, <1>10, <2>1, <3>1, <3>2 DEF Awaits
      <3>3. CASE x # s
        BY <1>7, <1>9, <2>1, <3>1, <3>3
      <3> QED BY <3>2, <3>3
    <2> QED BY <1>1, <1>6, <1>10, <1>11, <2>1 DEF Syncs
  <1>13. Decodes(d)'
    <2>1. \A i, x : x # s /\ OnRing(i, x) => OnRing(i, x)'
      BY <1>1, <1>6, <1>7 DEF OnRing
    <2>2. Exempt(d, s)' /\ \A x : Exempt(Idle, x) => Exempt(d, x)'
      BY <1>9, <1>10 DEF Exempt, Idle
    <2>3. \A x \in DOMAIN Autos : Exempt(d, x)' \/ \A i \in Autos[x] : OnRing(i, x)'
      BY <1>4, <2>1, <2>2 DEF Facts, Decodes
    <2>4. \A x \in DOMAIN session.tuning : Exempt(d, x)' \/ session.tuning[x] = 0 \/ x \in DOMAIN Q
      BY <1>4, <1>6, <1>7, <2>2 DEF Facts, Decodes
    <2> QED BY <1>1, <1>2, <1>6, <1>7, <1>10, <1>11, <2>3, <2>4 DEF Decodes
  <1>14. Facts(d)'
    BY <1>11, <1>12, <1>13 DEF Facts
  <1>15. Doing(d) = d
    BY <1>10 DEF Doing
  <1> QED BY <1>8, <1>14, <1>15, Arrived

\* A rebuilt receiver enters the map.
LEMMA InsertingFacts ==
    ASSUME HubTypes, NEW t \in Tasks, Alone(t), Facts(Doing(task[t])), Insert(t)
    PROVE  OneAtATime'
  <1> PICK c, s : c = task[t] /\ s = task[t].slot
    OBVIOUS
  <1>1. /\ UNCHANGED <<spectrum, radios, vrxs, slipped>>
        /\ StateOK /\ c.pc = "insert" /\ s = c.slot /\ s \in Slots
        /\ session # None /\ session' # None
    <2>1. /\ UNCHANGED <<spectrum, radios, vrxs, slipped>>
          /\ c.pc = "insert" /\ s = c.slot /\ StateOK
      BY DEF HubTypes, Insert, At
    <2>2. Fits(c, Radios, Ids) /\ session # None
      BY <2>1 DEF HubTypes, TasksFit, SessionThere, OnSession
    <2>3. s \in Slots
      BY <2>1, <2>2 DEF Fits, Idle
    <2>4. session' # None
      BY <2>2, MapsChangeTyped
    <2> QED BY <2>1, <2>2, <2>3, <2>4
  <1>2. Facts(Idle) /\ Started /\ Relies(c)
    BY <1>1, AtPlain DEF Plain
  <1>3. /\ session' = [session EXCEPT !.vrx = With(Vrx, s, c.vrx)]
        /\ intent' = IF c.asked THEN [intent EXCEPT ![s] = FALSE] ELSE intent
    BY DEF Insert
  <1>4. /\ session'.radio = session.radio /\ session'.started = session.started
        /\ session'.tuning = session.tuning
        /\ Vrx' = With(Vrx, s, c.vrx) /\ Autos' = Autos
    BY <1>1, <1>3, EditedMaps, EditedRest, MapsAfter
  <1>5. /\ DOMAIN Vrx' = DOMAIN Vrx \union {s}
        /\ Vrx'[s] = c.vrx
        /\ \A x \in DOMAIN Vrx : x # s => Vrx'[x] = Vrx[x]
    BY <1>4 DEF With
  <1>6. Started' = Started /\ Rings' = Rings /\ Listened' = Listened
    BY <1>1, <1>4 DEF Started, Rings, Listened, Radios
  <1>7. vrxs[c.vrx].muted = (IF c.asked THEN FALSE ELSE intent[s])
        /\ (s \in DOMAIN Rings => vrxs[c.vrx].ring = Rings[s])
    BY <1>1, <1>2 DEF Relies
  <1>8. /\ intent'[s] = IF c.asked THEN FALSE ELSE intent[s]
        /\ \A x \in Slots : x # s => intent'[x] = intent[x]
        /\ DOMAIN Vrx \subseteq Slots
    BY <1>1, <1>3, MapsTyped DEF StateOK
  <1>9. Works(Idle)' /\ Pumps(Idle)'
    BY <1>1, <1>2, <1>4, <1>6 DEF Facts, Works, Pumps, Idle
  <1>10. Mutes(Idle)'
    <2>1. \A x \in DOMAIN Vrx' : vrxs[Vrx'[x]].muted = intent'[x]
      BY <1>2, <1>5, <1>7, <1>8 DEF Facts, Mutes
    <2> QED BY <1>1, <2>1 DEF Mutes, Idle
  <1>11. Syncs(Idle)'
    <2>1. ASSUME NEW x \in DOMAIN Vrx', x \in DOMAIN Rings, x \notin slipped
          PROVE  vrxs[Vrx'[x]].ring = Rings[x]
      <3>1. CASE x = s
        BY <1>5, <1>7, <2>1, <3>1
      <3>2. CASE x # s
        BY <1>2, <1>5, <2>1, <3>2 DEF Facts, Syncs, Awaits, Idle
      <3> QED BY <3>1, <3>2
    <2> QED BY <1>1, <1>6, <2>1 DEF Syncs, Idle
  <1>12. Decodes(Idle)'
    <2>1. \A i, x : OnRing(i, x)' <=> OnRing(i, x)
      BY <1>1, <1>4, <1>6 DEF OnRing
    <2>2. \A x : Exempt(Idle, x)' <=> Exempt(Idle, x)
      BY <1>1 DEF Exempt
    <2> QED BY <1>2, <1>4, <1>6, <2>1, <2>2 DEF Facts, Decodes, Idle
  <1>13. Facts(Idle)'
    BY <1>9, <1>10, <1>11, <1>12 DEF Facts
  <1>14. \E k : Goto(t, k) /\ Doing(k) = Idle
    BY DoingIdle DEF Insert, DropThen, Doing
  <1> QED BY <1>13, <1>14, Arrived

\* The decoders of a slot enter the map.
LEMMA AutoInsertingFacts ==
    ASSUME HubTypes, NEW t \in Tasks, Alone(t), Facts(Doing(task[t])), AutoInsert(t)
    PROVE  OneAtATime'
  <1> PICK c, s : c = task[t] /\ s = task[t].slot
    OBVIOUS
  <1>1. /\ UNCHANGED <<spectrum, radios, vrxs, intent, slipped>>
        /\ StateOK /\ c.pc = "autoinsert" /\ s = c.slot
        /\ session # None /\ session' # None
    <2>1. /\ UNCHANGED <<spectrum, radios, vrxs, intent, slipped>>
          /\ c.pc = "autoinsert" /\ s = c.slot /\ StateOK
      BY DEF HubTypes, AutoInsert, At
    <2>2. session # None
      BY <2>1 DEF HubTypes, SessionThere, OnSession
    <2>3. session' # None
      BY <2>2, MapsChangeTyped
    <2> QED BY <2>1, <2>2, <2>3
  <1>2. Facts(Idle) /\ Started /\ Relies(c)
    BY <1>1, AtPlain DEF Plain
  <1>3. session' = [session EXCEPT !.auto = With(Autos, s, c.vrxs)]
    BY DEF AutoInsert
  <1>4. /\ session'.radio = session.radio /\ session'.started = session.started
        /\ session'.tuning = session.tuning
        /\ Autos' = With(Autos, s, c.vrxs) /\ Vrx' = Vrx
    BY <1>1, <1>3, EditedMaps, EditedRest, MapsAfter
  <1>5. /\ DOMAIN Autos' = DOMAIN Autos \union {s}
        /\ Autos'[s] = c.vrxs
        /\ \A x \in DOMAIN Autos : x # s => Autos'[x] = Autos[x]
    BY <1>4 DEF With
  <1>6. Started' = Started /\ Rings' = Rings /\ Listened' = Listened
    BY <1>1, <1>4 DEF Started, Rings, Listened, Radios
  <1>7. Works(Idle)' /\ Pumps(Idle)' /\ Mutes(Idle)' /\ Syncs(Idle)'
    BY <1>1, <1>2, <1>4, <1>6 DEF Facts, Works, Pumps, Mutes, Syncs, Awaits, Idle
  <1>8. Decodes(Idle)'
    <2>1. \A i, x : OnRing(i, x)' <=> OnRing(i, x)
      BY <1>1, <1>4, <1>6 DEF OnRing
    <2>2. \A x : Exempt(Idle, x)' <=> x \in slipped
      BY <1>1 DEF Exempt, Idle
    <2>3. s \in slipped \/ \A i \in c.vrxs : OnRing(i, s)
      BY <1>1, <1>2 DEF Relies
    <2>4. \A x \in DOMAIN Autos : x \in slipped \/ \A i \in Autos[x] : OnRing(i, x)
      BY <1>2 DEF Facts, Decodes, Exempt, Idle
    <2>5. ASSUME NEW x \in DOMAIN Autos', x \notin slipped, NEW i \in Autos'[x] PROVE OnRing(i, x)
      <3>1. CASE x = s
        BY <1>5, <2>3, <2>5, <3>1
      <3>2. CASE x # s
        BY <1>5, <2>4, <2>5, <3>2
      <3> QED BY <3>1, <3>2
    <2> QED BY <1>2, <1>4, <1>6, <2>1, <2>2, <2>5 DEF Facts, Decodes, Exempt, Idle
  <1>9. Facts(Idle)'
    BY <1>7, <1>8 DEF Facts
  <1>10. \E k : Goto(t, k) /\ Doing(k) = Idle
    BY DoingIdle DEF AutoInsert, DropThen, Doing
  <1> QED BY <1>9, <1>10, Arrived

\* A receiver is muted: another slot's receiver is another one.
LEMMA MutingFacts ==
    ASSUME HubTypes, OwnInv, NEW t \in Tasks, Alone(t), Facts(Doing(task[t])),
           NEW s \in Slots, NEW muted \in BOOLEAN, SetVrxMute(t, s, muted)
    PROVE  OneAtATime'
  <1>1. /\ UNCHANGED <<session, spectrum, radios, slipped>> /\ StateOK
        /\ task[t] = Idle /\ task' = task
        /\ vrxs' = IF s \in DOMAIN Vrx THEN [vrxs EXCEPT ![Vrx[s]].muted = muted] ELSE vrxs
        /\ intent' = [intent EXCEPT ![s] = muted]
    BY DEF HubTypes, SetVrxMute, Begins
  <1>2. Facts(Idle)
    BY <1>1, DoingIdle
  <1>3. /\ Started' = Started /\ Vrx' = Vrx /\ Autos' = Autos /\ Rings' = Rings /\ Listened' = Listened
    BY <1>1 DEF Started, Vrx, Autos, Rings, Listened, Radios
  <1>4. /\ DOMAIN Vrx \subseteq Slots
        /\ \A x \in DOMAIN Vrx : Vrx[x] \in Ids
        /\ \A x \in DOMAIN Autos : Autos[x] \subseteq Ids
        /\ DOMAIN vrxs = Ids /\ \A i \in Ids : vrxs[i] \in Receivers
    BY <1>1, MapsTyped DEF StateOK, Ids
  <1>5. \A i \in Ids : /\ vrxs'[i].ring = vrxs[i].ring
                       /\ vrxs'[i].nco = vrxs[i].nco
                       /\ vrxs'[i].muted = IF s \in DOMAIN Vrx /\ i = Vrx[s] THEN muted ELSE vrxs[i].muted
    BY <1>1, <1>4 DEF Receivers
  <1>6. \A x \in DOMAIN Vrx : s \in DOMAIN Vrx /\ x # s => Vrx[x] # Vrx[s]
    <2> SUFFICES ASSUME NEW x \in DOMAIN Vrx, s \in DOMAIN Vrx, x # s, Vrx[x] = Vrx[s] PROVE FALSE
      OBVIOUS
    <2>1. Vrx[s] \in VrxAt(x) /\ Vrx[s] \in VrxAt(s)
      BY DEF VrxAt
    <2>2. /\ <<"vrx", x>> \in Places /\ <<"vrx", s>> \in Places /\ <<"vrx", x>> # <<"vrx", s>>
          /\ Holding[<<"vrx", x>>] = VrxAt(x) /\ Holding[<<"vrx", s>>] = VrxAt(s)
      BY <1>4, HoldingFacts
    <2>3. Holding[<<"vrx", x>>] \intersect Holding[<<"vrx", s>>] = {}
      BY <2>2 DEF OwnInv, Partition
    <2> QED BY <2>1, <2>2, <2>3
  <1>7. intent'[s] = muted /\ \A x : x # s => intent'[x] = intent[x]
    BY <1>1 DEF StateOK
  <1>8. Works(Idle)' /\ Pumps(Idle)'
    BY <1>1, <1>2, <1>3 DEF Facts, Works, Pumps, Idle
  <1>9. Mutes(Idle)'
    <2>1. ASSUME NEW x \in DOMAIN Vrx PROVE vrxs'[Vrx[x]].muted = intent'[x]
      <3>1. vrxs[Vrx[x]].muted = intent[x]
        BY <1>2 DEF Facts, Mutes
      <3>2. CASE x = s
        BY <1>4, <1>5, <1>7, <3>2
      <3>3. CASE x # s
        BY <1>4, <1>5, <1>6, <1>7, <3>1, <3>3
      <3> QED BY <3>2, <3>3
    <2> QED BY <1>3, <2>1 DEF Mutes, Idle
  <1>10. Syncs(Idle)'
    BY <1>1, <1>2, <1>3, <1>4, <1>5 DEF Facts, Syncs, Awaits, Idle
  <1>11. Decodes(Idle)'
    <2>1. \A i \in Ids : \A x : OnRing(i, x)' <=> OnRing(i, x)
      BY <1>1, <1>3, <1>5 DEF OnRing
    <2>2. \A x : Exempt(Idle, x)' <=> Exempt(Idle, x)
      BY <1>1 DEF Exempt
    <2> QED BY <1>1, <1>2, <1>3, <1>4, <2>1, <2>2 DEF Facts, Decodes, Idle
  <1>12. Facts(Idle)'
    BY <1>8, <1>9, <1>10, <1>11 DEF Facts
  <1>13. Goto(t, Idle)
    BY <1>1 DEF Goto, StateOK
  <1> QED BY <1>12, <1>13, DoingIdle, Arrived

\* A start and a stop: the session, its handle and who reads its events.
LEMMA StartingFacts ==
    ASSUME HubTypes, NEW t \in Tasks, Alone(t), Facts(Doing(task[t])),
           Connect(t) \/ Install(t)
    PROVE  OneAtATime'
  <1>1. StateOK /\ Fits(task[t], Radios, Ids)
    BY DEF HubTypes, TasksFit
  <1>2. CASE Connect(t)
    <2>1. PICK tuned, R : /\ DOMAIN tuned \subseteq DOMAIN R
                          /\ radios' = Append(radios, [rings |-> R, reader |-> "starter"])
                          /\ Goto(t, [pc |-> "install", radio |-> Len(radios) + 1, tuned |-> tuned])
      <3>1. PICK S \in SUBSET Slots, tuned \in Maps(Ncos) :
               LET active == S \union {1}
                   ring(s) == ringCount + Cardinality({x \in active : x <= s})
               IN  /\ DOMAIN tuned \subseteq S
                   /\ radios' = Append(radios, [rings |-> [s \in active |-> ring(s)], reader |-> "starter"])
                   /\ Goto(t, [pc |-> "install", radio |-> Len(radios) + 1, tuned |-> tuned])
        BY <1>2, ConnectForm
      <3>2. PICK R : R = [s \in S \union {1} |-> ringCount + Cardinality({x \in S \union {1} : x <= s})]
        OBVIOUS
      <3>3. /\ DOMAIN tuned \subseteq DOMAIN R
            /\ radios' = Append(radios, [rings |-> R, reader |-> "starter"])
            /\ Goto(t, [pc |-> "install", radio |-> Len(radios) + 1, tuned |-> tuned])
        BY <3>1, <3>2
      <3> QED BY <3>3
    <2>2. PICK d : d = [pc |-> "install", radio |-> Len(radios) + 1, tuned |-> tuned]
      OBVIOUS
    <2>3. task[t].pc = "connect" /\ UNCHANGED <<session, spectrum, vrxs, intent, slipped>>
      BY <1>2 DEF Connect, At
    <2>4. Facts(Idle) /\ ~Started
      BY <2>3, ConnectFacts DEF Doing
    <2>5. Listened = {} /\ spectrum = None /\ DOMAIN Vrx = {} /\ DOMAIN Autos = {}
      BY <2>4 DEF Facts, Pumps, Works, Idle
    <2>6. /\ Radios' = Radios \union {Len(radios) + 1}
          /\ \A r \in Radios : radios'[r] = radios[r]
          /\ radios'[Len(radios) + 1] = [rings |-> R, reader |-> "starter"]
      BY <1>1, <2>1 DEF StateOK, Radios
    <2>7. Listened' = {Len(radios) + 1}
      BY <2>5, <2>6 DEF Listened
    <2>8. Started' = Started /\ Vrx' = Vrx /\ Autos' = Autos
      BY <2>3 DEF Started, Vrx, Autos
    <2>9. Works(d)' /\ Pumps(d)'
      BY <2>2, <2>3, <2>4, <2>5, <2>7, <2>8 DEF Works, Pumps
    <2>10. Mutes(d)' /\ Syncs(d)' /\ Decodes(d)'
      BY <2>1, <2>2, <2>4, <2>5, <2>6, <2>8 DEF Mutes, Syncs, Decodes
    <2>11. Facts(d)' /\ Doing(d) = d
      BY <2>2, <2>9, <2>10 DEF Facts, Doing
    <2> QED BY <2>1, <2>2, <2>11, Arrived
  <1>3. CASE Install(t)
    <2>1. PICK c : c = task[t]
      OBVIOUS
    <2>2. PICK d : d = [pc |-> "abort", radio |-> c.radio]
      OBVIOUS
    <2>3. /\ c.pc = "install" /\ UNCHANGED <<spectrum, radios, vrxs, intent, slipped>>
          /\ session' = [radio |-> c.radio, started |-> TRUE, vrx |-> Empty, auto |-> Empty,
                         tuning |-> c.tuned]
          /\ DropThen(t, Pipelines, d)
      BY <1>3, <2>1, <2>2 DEF Install, At
    <2>4. Facts(c)
      BY <2>1, <2>3 DEF Doing
    <2>5. session' # None
      BY <1>1, <1>3, InstallThere
    <2>6. Started' /\ DOMAIN Vrx' = {} /\ DOMAIN Autos' = {}
      BY <2>3, <2>5 DEF Started, Vrx, Autos, Empty
    <2>7. Listened' = Listened /\ Rings' = radios[c.radio].rings
      BY <2>3 DEF Listened, Radios, Rings
    <2>8. Listened = {c.radio} /\ spectrum = None /\ DOMAIN c.tuned \subseteq DOMAIN radios[c.radio].rings
      BY <2>3, <2>4 DEF Facts, Pumps, Decodes
    <2>9. Works(d)' /\ Pumps(d)'
      BY <2>2, <2>3, <2>6, <2>7, <2>8 DEF Works, Pumps
    <2>10. Mutes(d)' /\ Syncs(d)' /\ Decodes(d)'
      BY <2>2, <2>3, <2>6, <2>7, <2>8 DEF Mutes, Syncs, Decodes
    <2>11. Facts(d)' /\ Doing(d) = d
      BY <2>2, <2>9, <2>10 DEF Facts, Doing
    <2>12. \E k : Goto(t, k) /\ Doing(k) = d
      BY <2>3, <2>11 DEF DropThen, Doing
    <2> QED BY <2>11, <2>12, Arrived
  <1> QED BY <1>2, <1>3

\* The present session is the one whose events are read.
LEMMA HandleSteps ==
    ASSUME HubTypes, NEW t \in Tasks, Alone(t), Facts(Doing(task[t])),
           StartAbort(t) \/ StartStore(t)
    PROVE  OneAtATime'
  <1> PICK c : c = task[t]
    OBVIOUS
  <1>1. /\ StateOK /\ Fits(c, Radios, Ids) /\ c.pc \in {"abort", "store"}
        /\ UNCHANGED <<session, vrxs, intent, slipped>>
    BY DEF HubTypes, TasksFit, StartAbort, StartStore, At
  <1>2. Facts(c) /\ c.radio \in Radios
    BY <1>1 DEF Doing, Fits, Idle
  <1>3. /\ Started /\ session.radio = c.radio /\ spectrum = None /\ Listened = {c.radio}
    BY <1>1, <1>2 DEF Facts, Works, Pumps
  <1>4. Started' = Started /\ Vrx' = Vrx /\ Autos' = Autos
    BY <1>1 DEF Started, Vrx, Autos
  <1>5. ASSUME NEW d, d = Idle \/ (d.pc = "store" /\ d.radio = c.radio), Rings' = Rings
        PROVE  Works(d)' /\ Mutes(d)' /\ Syncs(d)' /\ Decodes(d)'
    <2>1. d.pc \in {"idle", "store"} /\ (d.pc = "store" => d.radio = c.radio)
      BY <1>5 DEF Idle
    <2>2. Works(d)'
      BY <1>1, <1>2, <1>3, <1>4, <2>1 DEF Facts, Works
    <2>3. Mutes(d)'
      BY <1>1, <1>2, <1>4, <2>1 DEF Facts, Mutes
    <2>4. Syncs(d)'
      BY <1>1, <1>2, <1>4, <1>5, <2>1 DEF Facts, Syncs, Awaits
    <2>5. Decodes(d)'
      <3>1. \A i, s : OnRing(i, s)' <=> OnRing(i, s)
        BY <1>1, <1>5 DEF OnRing
      <3>2. \A s : (Exempt(d, s)' <=> s \in slipped) /\ (Exempt(c, s) <=> s \in slipped)
        BY <1>1, <2>1 DEF Exempt
      <3> QED BY <1>1, <1>2, <1>4, <1>5, <2>1, <3>1, <3>2 DEF Facts, Decodes
    <2> QED BY <2>2, <2>3, <2>4, <2>5
  <1>6. CASE StartAbort(t)
    <2>1. PICK d : d = [pc |-> "store", radio |-> c.radio]
      OBVIOUS
    <2>2. UNCHANGED <<spectrum, radios>> /\ Goto(t, d)
      BY <1>3, <1>6, <2>1 DEF StartAbort, Abort
    <2>3. Rings' = Rings /\ Listened' = Listened
      BY <1>1, <2>2 DEF Rings, Listened, Radios
    <2>4. Pumps(d)' /\ Doing(d) = d
      BY <1>1, <1>3, <2>1, <2>2, <2>3 DEF Pumps, Doing
    <2>5. Facts(d)'
      BY <1>5, <2>1, <2>3, <2>4 DEF Facts
    <2> QED BY <2>2, <2>4, <2>5, Arrived
  <1>7. CASE StartStore(t)
    <2>1. /\ spectrum' = c.radio /\ Goto(t, Idle)
          /\ radios' = [radios EXCEPT ![c.radio].reader = "spectrum"]
      BY <1>7 DEF StartStore
    <2>2. /\ Radios' = Radios /\ DOMAIN radios = Radios
          /\ \A r \in Radios : /\ radios'[r].rings = radios[r].rings
                               /\ radios'[r].reader = IF r = c.radio THEN "spectrum" ELSE radios[r].reader
      BY <1>1, <1>2, <2>1 DEF StateOK, Radios, Handles
    <2>3. Listened' = Listened
      BY <1>3, <2>2 DEF Listened
    <2>4. Rings' = Rings
      BY <1>1, <1>2, <1>3, <2>2 DEF Rings
    <2>5. Pumps(Idle)'
      BY <1>1, <1>3, <1>4, <2>1, <2>3 DEF Pumps, Idle
    <2>6. Facts(Idle)'
      BY <1>5, <2>4, <2>5 DEF Facts
    <2> QED BY <2>1, <2>6, DoingIdle, Arrived
  <1> QED BY <1>6, <1>7

\* The session stops: everything is taken out of it, then nobody reads.
LEMMA StoppingFacts ==
    ASSUME HubTypes, NEW t \in Tasks, Alone(t), Facts(Doing(task[t])),
           StopMark(t) \/ StopAbort(t)
    PROVE  OneAtATime'
  <1> PICK c : c = task[t]
    OBVIOUS
  <1>1. StateOK /\ session # None /\ c.pc \in {"mark", "abortjoin"} /\ UNCHANGED <<vrxs, intent, slipped>>
    BY DEF HubTypes, SessionThere, OnSession, StopMark, StopAbort, At
  <1>2. Facts(c)
    BY <1>1 DEF Doing
  <1>3. CASE StopMark(t)
    <2>1. PICK d : d = [pc |-> "abortjoin", vrxs |-> Pipelines]
      OBVIOUS
    <2>2. /\ c.pc = "mark" /\ UNCHANGED <<spectrum, radios>> /\ Goto(t, d)
          /\ session' = [session EXCEPT !.started = FALSE, !.vrx = Empty, !.auto = Empty]
      BY <1>3, <2>1 DEF StopMark, At
    <2>3. session' # None
      BY <1>1, <1>3, MapsChangeTyped
    <2>4. session'.radio = session.radio /\ session'.started = FALSE
      BY <1>1, <2>2, EditedRest
    <2>5. Vrx' = Empty /\ Autos' = Empty
      BY <1>1, <2>2, <2>3, EditedMaps, MapsAfter
    <2>6. ~Started' /\ DOMAIN Vrx' = {} /\ DOMAIN Autos' = {}
      BY <2>4, <2>5 DEF Started, Empty
    <2>7. Started /\ Listened = {session.radio} /\ spectrum = session.radio
      BY <1>2, <2>2 DEF Facts, Works, Pumps
    <2>8. Listened' = Listened
      BY <2>2 DEF Listened, Radios
    <2>9. Facts(d)' /\ Doing(d) = d
      BY <2>1, <2>2, <2>4, <2>6, <2>7, <2>8 DEF Facts, Works, Pumps, Mutes, Syncs, Decodes, Doing
    <2> QED BY <2>2, <2>9, Arrived
  <1>4. CASE StopAbort(t)
    <2>1. PICK k : k = [pc |-> "join", vrxs |-> c.vrxs, next |-> Idle]
      OBVIOUS
    <2>2. c.pc = "abortjoin" /\ UNCHANGED session /\ Abort /\ Goto(t, k) /\ Doing(k) = Idle
      BY <1>4, <2>1 DEF StopAbort, At, Doing
    <2>3. ~Started /\ Listened = {session.radio} /\ spectrum = session.radio
          /\ DOMAIN Vrx = {} /\ DOMAIN Autos = {}
      BY <1>2, <2>2 DEF Facts, Works, Pumps
    <2>4. session.radio \in Radios /\ None \notin Radios
      BY <1>1, SessionIsThere DEF StateOK, Sessions
    <2>5. spectrum' = None /\ radios' = [radios EXCEPT ![spectrum].reader = "gone"]
      BY <2>2, <2>3, <2>4 DEF Abort
    <2>6. /\ Radios' = Radios /\ DOMAIN radios = Radios
          /\ \A r \in Radios : radios'[r].reader = IF r = spectrum THEN "gone" ELSE radios[r].reader
      BY <1>1, <2>5 DEF StateOK, Radios, Handles
    <2>7. Listened' = {}
      BY <2>3, <2>6 DEF Listened
    <2>8. ~Started' /\ DOMAIN Vrx' = {} /\ DOMAIN Autos' = {}
      BY <2>2, <2>3 DEF Started, Vrx, Autos
    <2>9. Facts(Idle)'
      BY <2>5, <2>7, <2>8 DEF Facts, Works, Pumps, Mutes, Syncs, Decodes, Idle
    <2> QED BY <2>2, <2>9, Arrived
  <1> QED BY <1>3, <1>4
-----------------------------------------------------------------------------
LEMMA InitFacts == Init => OneAtATime
  <1> SUFFICES ASSUME Init PROVE OneAtATime
    OBVIOUS
  <1>1. Quiescent
    BY DEF Init, Quiescent
  <1>2. ~Started /\ DOMAIN Vrx = {} /\ DOMAIN Autos = {} /\ Listened = {} /\ spectrum = None
    BY DEF Init, Started, Vrx, Autos, Empty, Listened, Radios
  <1>3. Facts(Idle)
    BY <1>2 DEF Facts, Works, Pumps, Mutes, Syncs, Decodes, Idle
  <1> QED BY <1>1, <1>3 DEF OneAtATime

LEMMA StutterFacts ==
    ASSUME OneAtATime, UNCHANGED vars
    PROVE  OneAtATime'
  <1>1. \A d : Facts(d)' <=> Facts(d)
    BY DEF vars, Facts, Works, Pumps, Mutes, Syncs, Decodes, Started, Vrx, Autos, Listened, Rings, Radios,
           Awaits, Exempt, OnRing
  <1>2. /\ Quiescent' <=> Quiescent
        /\ overlap' = overlap
        /\ \A t : (Alone(t)' <=> Alone(t)) /\ task'[t] = task[t]
    BY DEF vars, Quiescent, Alone
  <1> QED BY <1>1, <1>2 DEF OneAtATime

LEMMA NextFacts == HubTypes /\ OwnInv /\ OneAtATime /\ [Next]_vars => OneAtATime'
  <1>1. ASSUME HubTypes, OwnInv, OneAtATime, NEW t \in Tasks, Begin(t) \/ Continue(t), ~overlap'
        PROVE  OneAtATime'
    <2>1. Alone(t) /\ Facts(Doing(task[t]))
      BY <1>1, SoleStep
    <2>2. CASE Begin(t)
      BY <1>1, <2>1, <2>2, ReadingFacts, TakingFacts, MutingFacts DEF Begin
    <2>3. CASE Continue(t)
      BY <1>1, <2>1, <2>3, ReadingFacts, SpawningFacts, TakingFacts, RebindingFacts, NotingFacts, ApplyingFacts,
         InsertingFacts, AutoInsertingFacts, StartingFacts, HandleSteps, StoppingFacts DEF Continue
    <2> QED BY <1>1, <2>2, <2>3
  <1>2. overlap' => OneAtATime'
    BY DEF OneAtATime
  <1> QED BY <1>1, <1>2, StutterFacts DEF Next

LEMMA AlwaysFacts == Spec => [](HubTypes /\ OwnInv /\ OneAtATime)
  <1>1. Init => HubTypes /\ OwnInv /\ OneAtATime
    BY InitTypes, InitOwn, InitFacts
  <1>2. HubTypes /\ OwnInv /\ OneAtATime /\ [Next]_vars => (HubTypes /\ OwnInv /\ OneAtATime)'
    BY NextTypes, NextOwn, NextFacts
  <1> QED BY <1>1, <1>2, PTL DEF Spec

\* What holds when every command has ended and none overlapped another.
LEMMA SettledFacts ==
    ASSUME OneAtATime, Settled
    PROVE  Facts(Idle)
  <1>1. \A t \in Tasks : Doing(task[t]) = Idle
    BY DoingIdle DEF Settled, Quiescent
  <1> QED BY <1>1 DEF Settled, OneAtATime

\* A stop leaves no pipeline running, whatever was started, replaced and
\* taken out before.
THEOREM StoppedStaysQuiet == Spec => []StoppedIsQuiet
  <1>1. HubTypes /\ OwnInv /\ OneAtATime => StoppedIsQuiet
    <2> SUFFICES ASSUME HubTypes, OwnInv, OneAtATime, Settled, ~Started, NEW i \in Ids, vrxs[i].running
                 PROVE  FALSE
      BY DEF StoppedIsQuiet
    <2>1. DOMAIN Vrx = {} /\ DOMAIN Autos = {}
      BY SettledFacts DEF Facts, Works
    <2>2. \A s : VrxAt(s) = {} /\ AutosOf(s) = {}
      BY <2>1 DEF VrxAt, AutosOf
    <2>3. \A t \in Tasks : Held(t) = {}
      BY DEF Settled, Quiescent, Held, Idle
    <2>4. PICK p \in Places : i \in Holding[p]
      BY DEF OwnInv, Partition, Running
    <2>5. Holding[p] = {}
      BY <2>2, <2>3, HoldingFacts DEF Places
    <2> QED BY <2>4, <2>5
  <1> QED BY <1>1, AlwaysFacts, PTL

\* The events of the started session's handle are read, and those of no other
\* handle: a pump without a consumer stops, so no earlier board is driven on.
THEOREM OnePumpDrives == Spec => []PumpFollowsSession
  <1>1. HubTypes /\ OwnInv /\ OneAtATime => PumpFollowsSession
    BY SettledFacts DEF PumpFollowsSession, Facts, Pumps, Listened, Idle
  <1> QED BY <1>1, AlwaysFacts, PTL

\* A receiver is muted as the clients asked for last since it was built by a
\* SetVrx, which starts it unmuted; a Tune that rebinds it to a ring that came
\* alive does not lose that (rebind_vrx_on_activate).
THEOREM MuteIsKept == Spec => []MuteKept
  <1>1. HubTypes /\ OwnInv /\ OneAtATime => MuteKept
    BY SettledFacts DEF MuteKept, Facts, Mutes
  <1> QED BY <1>1, AlwaysFacts, PTL

\* A receiver on an active slot reads that slot's present ring, whatever the
\* order of the starts, tunes and SetVrx that led there.
THEOREM ReceiversInSync == Spec => []InSync
  <1>1. HubTypes /\ OwnInv /\ OneAtATime => InSync
    BY SettledFacts DEF InSync, Facts, Syncs, Rings, Awaits, Idle
  <1> QED BY <1>1, AlwaysFacts, PTL

-----------------------------------------------------------------------------
(***************************************************************************)
(* Automatic decoders: the NCO that a set of decoders was built for is the *)
(* one its slot has, in the map and in the hands of the tasks, unless the  *)
(* task was overtaken by a Tune of the slot or by a Start.                 *)
(***************************************************************************)

Matches(ids, s) ==
    /\ s \in DOMAIN session.tuning
    /\ \A i \in ids : vrxs[i].nco = session.tuning[s]

\* What a task that executes an AutoDecode has computed is up to date.
UpToDate(k) ==
    CASE k.pc = "join"       -> /\ k.next.slot \in DOMAIN session.tuning
                                /\ k.next.nco = session.tuning[k.next.slot]
      [] k.pc = "autoinsert" -> Matches(k.vrxs, k.slot)
      [] OTHER               -> k.slot \in DOMAIN session.tuning /\ k.nco = session.tuning[k.slot]

\* No AutoDecode drops pipelines before it has joined others.
Unhurried(k) == k.pc = "drop" => k.next.pc # "autospawn"

AutoInv ==
    /\ \A s \in DOMAIN Autos : s \in stale \/ Matches(Autos[s], s)
    /\ \A t \in Tasks : AutoState(task[t]) /\ t \notin overtaken => UpToDate(task[t])
    /\ \A t \in Tasks : Unhurried(task[t])

\* A task that executes an AutoDecode does so on a session and for a slot.
LEMMA AutoStateFits ==
    ASSUME HubTypes, NEW t \in Tasks, AutoState(task[t])
    PROVE  /\ session # None /\ AutoSlot(task[t]) \in Slots
           /\ task[t].pc = "autoinsert" => task[t].slot \in Slots /\ task[t].vrxs \subseteq Ids
  <1>1. Fits(task[t], Radios, Ids) /\ (OnSession(task[t]) => session # None)
    BY DEF HubTypes, TasksFit, SessionThere
  <1>2. OnSession(task[t])
    BY DEF OnSession, AutoState, Idle
  <1>3. CASE task[t].pc = "join"
    <2>1. Resumes(task[t].next, Radios) /\ task[t].next.pc = "autospawn"
      BY <1>1, <1>3 DEF Fits, Idle, AutoState
    <2> QED BY <1>1, <1>2, <1>3, <2>1 DEF Resumes, Idle, AutoSlot
  <1>4. CASE task[t].pc # "join"
    BY <1>1, <1>2, <1>4 DEF Fits, Idle, AutoState, AutoSlot
  <1> QED BY <1>3, <1>4

LEMMA AutosWithout ==
    ASSUME StateOK
    PROVE  \A s : /\ DOMAIN Without(Autos, s) = DOMAIN Autos \ {s}
                 /\ \A x \in DOMAIN Autos \ {s} : Without(Autos, s)[x] = Autos[x]
  <1>1. Autos \in Maps(SUBSET Ids)
    BY MapsTyped
  <1> QED BY <1>1, WithoutMap

\* Steps that keep the tuning map and add no decoders to the session.
LEMMA QuietAuto ==
    ASSUME HubTypes, AutoInv, NEW t \in Tasks, NEW k, Goto(t, k), UNCHANGED autohistory,
           session # None => session'.tuning = session.tuning,
           \A s \in DOMAIN Autos' : s \in DOMAIN Autos /\ Autos'[s] = Autos[s],
           \A i \in Ids : vrxs'[i].nco = vrxs[i].nco,
           Unhurried(k),
           AutoState(k) /\ t \notin overtaken => UpToDate(k)'
    PROVE  AutoInv'
  <1>1. /\ task'[t] = k
        /\ \A u \in Tasks \ {t} : task'[u] = task[u]
    BY DEF HubTypes, StateOK, Goto
  <1>2. overtaken' = overtaken /\ stale' = stale
    BY DEF autohistory
  <1>3. StateOK
    BY DEF HubTypes
  <1>4. ASSUME NEW s, NEW ids \in SUBSET Ids, session # None, Matches(ids, s)
        PROVE  Matches(ids, s)'
    BY <1>4 DEF Matches
  <1>5. (\A s \in DOMAIN Autos : s \in stale \/ Matches(Autos[s], s))'
    <2> SUFFICES ASSUME NEW s \in DOMAIN Autos', s \notin stale PROVE Matches(Autos[s], s)'
      BY <1>2
    <2>1. s \in DOMAIN Autos /\ Autos[s] \in SUBSET Ids
      BY <1>3, MapsTyped
    <2>2. session # None
      BY <2>1 DEF Autos, Empty
    <2>3. Matches(Autos[s], s)
      BY <2>1 DEF AutoInv
    <2> QED BY <2>1, <2>2, <2>3 DEF Matches
  <1>6. ASSUME NEW u \in Tasks, AutoState(task[u])', u \notin overtaken PROVE UpToDate(task[u])'
    <2>1. CASE u = t
      <3>1. AutoState(k) /\ UpToDate(k)'
        BY <1>1, <1>6, <2>1
      <3> QED BY <1>1, <2>1, <3>1 DEF UpToDate, Matches
    <2>2. CASE u # t
      <3>1. task'[u] = task[u] /\ AutoState(task[u]) /\ UpToDate(task[u])
        BY <1>1, <1>6, <2>2 DEF AutoInv
      <3>2. /\ session # None
            /\ task[u].pc = "autoinsert" => task[u].vrxs \subseteq Ids
        BY <3>1, AutoStateFits
      <3> QED BY <3>1, <3>2 DEF UpToDate, Matches
    <2> QED BY <2>1, <2>2
  <1>7. \A u \in Tasks : Unhurried(task[u])'
    BY <1>1 DEF AutoInv
  <1> QED BY <1>2, <1>5, <1>6, <1>7 DEF AutoInv

\* Steps that leave the session and the pipelines.
LEMMA AwayAuto ==
    ASSUME HubTypes, AutoInv, NEW t \in Tasks, UNCHANGED <<session, vrxs, autohistory>>,
           \/ StartCheck(t) \/ Connect(t) \/ StartAbort(t) \/ StartStore(t) \/ ConnectFails(t)
           \/ StopRead(t) \/ StopAbort(t) \/ TunePeek(t) \/ TuneApply(t) \/ InPlace(t) \/ SpawnFails(t)
           \/ \E s \in Slots : \E f \in Ncos : TuneRead(t, s, f)
           \/ \E s \in Slots : \E m \in Modes : SetVrxCheck(t, s, m)
    PROVE  AutoInv'
  <1>1. PICK k : Goto(t, k) /\ ~AutoState(k) /\ Unhurried(k)
    <2>1. ~AutoState(Idle) /\ Unhurried(Idle)
      BY DEF AutoState, Unhurried, Idle
    <2>2. ASSUME NEW k, Goto(t, k), ~AutoState(k), Unhurried(k)
          PROVE  \E x : Goto(t, x) /\ ~AutoState(x) /\ Unhurried(x)
      BY <2>2
    <2>3. CASE StartCheck(t)
      <3> DEFINE k == [pc |-> "connect"]
      <3>1. (Goto(t, k) \/ Goto(t, Idle)) /\ ~AutoState(k) /\ Unhurried(k)
        BY <2>3 DEF StartCheck, AutoState, Unhurried
      <3> QED BY <2>1, <2>2, <3>1
    <2>4. CASE Connect(t)
      <3>1. PICK tuned : Goto(t, [pc |-> "install", radio |-> Len(radios) + 1, tuned |-> tuned])
        BY <2>4, ConnectForm
      <3> DEFINE k == [pc |-> "install", radio |-> Len(radios) + 1, tuned |-> tuned]
      <3>2. Goto(t, k) /\ ~AutoState(k) /\ Unhurried(k)
        BY <3>1 DEF AutoState, Unhurried
      <3> QED BY <2>2, <3>2
    <2>5. CASE StartAbort(t)
      <3> DEFINE k == [pc |-> "store", radio |-> task[t].radio]
      <3>1. Goto(t, k) /\ ~AutoState(k) /\ Unhurried(k)
        BY <2>5 DEF StartAbort, AutoState, Unhurried
      <3> QED BY <2>2, <3>1
    <2>6. CASE StartStore(t) \/ ConnectFails(t) \/ SpawnFails(t)
      BY <2>1, <2>6 DEF StartStore, ConnectFails, SpawnFails
    <2>7. CASE StopRead(t)
      <3> DEFINE k == [pc |-> "mark"]
      <3>1. (Goto(t, k) \/ Goto(t, Idle)) /\ ~AutoState(k) /\ Unhurried(k)
        BY <2>7 DEF StopRead, AutoState, Unhurried
      <3> QED BY <2>1, <2>2, <3>1
    <2>8. CASE StopAbort(t)
      <3> DEFINE k == [pc |-> "join", vrxs |-> task[t].vrxs, next |-> Idle]
      <3>1. Goto(t, k) /\ ~AutoState(k) /\ Unhurried(k)
        BY <2>8 DEF StopAbort, AutoState, Unhurried, Idle
      <3> QED BY <2>2, <3>1
    <2>9. CASE TunePeek(t)
      <3> DEFINE k == [pc |-> "tune", radio |-> task[t].radio, slot |-> task[t].slot, freq |-> task[t].freq,
                       activates |-> task[t].slot \notin DOMAIN radios[task[t].radio].rings]
      <3>1. Goto(t, k) /\ ~AutoState(k) /\ Unhurried(k)
        BY <2>9 DEF TunePeek, AutoState, Unhurried
      <3> QED BY <2>2, <3>1
    <2>10. CASE TuneApply(t)
      <3> DEFINE k == [pc |-> "note", slot |-> task[t].slot, freq |-> task[t].freq,
                       activates |-> task[t].activates]
      <3>1. (Goto(t, k) \/ Goto(t, Idle)) /\ ~AutoState(k) /\ Unhurried(k)
        BY <2>10 DEF TuneApply, AutoState, Unhurried
      <3> QED BY <2>1, <2>2, <3>1
    <2>11. CASE InPlace(t)
      <3> DEFINE k == [pc |-> "remove", slot |-> task[t].slot, mode |-> task[t].mode]
      <3>1. (Goto(t, k) \/ Goto(t, Idle)) /\ ~AutoState(k) /\ Unhurried(k)
        BY <2>11 DEF InPlace, AutoState, Unhurried
      <3> QED BY <2>1, <2>2, <3>1
    <2>12. ASSUME NEW s \in Slots, NEW f \in Ncos, TuneRead(t, s, f)
           PROVE  \E x : Goto(t, x) /\ ~AutoState(x) /\ Unhurried(x)
      <3> DEFINE k == [pc |-> "peek", radio |-> session.radio, slot |-> s, freq |-> f]
      <3>1. (Goto(t, k) \/ Goto(t, Idle)) /\ ~AutoState(k) /\ Unhurried(k)
        BY <2>12 DEF TuneRead, AutoState, Unhurried
      <3> QED BY <2>1, <2>2, <3>1
    <2>13. ASSUME NEW s \in Slots, NEW m \in Modes, SetVrxCheck(t, s, m)
           PROVE  \E x : Goto(t, x) /\ ~AutoState(x) /\ Unhurried(x)
      <3> DEFINE k == [pc |-> "inplace", slot |-> s, mode |-> m]
      <3>1. (Goto(t, k) \/ Goto(t, Idle)) /\ ~AutoState(k) /\ Unhurried(k)
        BY <2>13 DEF SetVrxCheck, AutoState, Unhurried
      <3> QED BY <2>1, <2>2, <3>1
    <2> QED BY <2>3, <2>4, <2>5, <2>6, <2>7, <2>8, <2>9, <2>10, <2>11, <2>12, <2>13
  <1>2. Autos' = Autos
    BY DEF Autos
  <1> QED BY <1>1, <1>2, QuietAuto

\* Pipelines that are dropped by no AutoDecode.
LEMMA DropAway ==
    ASSUME NEW t, NEW ids, NEW next, DropThen(t, ids, next), next.pc \in {"idle", "abort"}
    PROVE  \E k : Goto(t, k) /\ ~AutoState(k) /\ Unhurried(k)
  <1> DEFINE k == [pc |-> "drop", vrxs |-> ids, next |-> next]
  <1>1. /\ ~AutoState(k) /\ Unhurried(k)
        /\ ~AutoState(next) /\ Unhurried(next)
    BY DEF AutoState, Unhurried
  <1> QED BY <1>1 DEF DropThen

\* Steps that edit the session's receivers.
LEMMA ReceiversAuto ==
    ASSUME HubTypes, AutoInv, NEW t \in Tasks, UNCHANGED <<vrxs, autohistory>>,
           \/ StopMark(t) \/ RebindTake(t) \/ Remove(t) \/ Insert(t) \/ SetVrxNone(t)
           \/ \E s \in Slots : SetVrxOff(t, s)
    PROVE  AutoInv'
  <1>1. StateOK /\ (OnSession(task[t]) => session # None)
    BY DEF HubTypes, SessionThere
  <1>2. session' # None \/ session' = session
    BY <1>1, MapsChangeTyped
  <1>3. ASSUME NEW k, Goto(t, k), ~AutoState(k), Unhurried(k),
               session # None => session'.tuning = session.tuning,
               \A s \in DOMAIN Autos' : s \in DOMAIN Autos /\ Autos'[s] = Autos[s]
        PROVE  AutoInv'
    BY <1>3, QuietAuto
  <1>4. ASSUME NEW v, session # None, session' = [session EXCEPT !.vrx = v]
        PROVE  session'.tuning = session.tuning /\ Autos' = Autos
    <2>1. session'.tuning = session.tuning /\ session'.auto = Autos
      BY <1>1, <1>4, EditedMaps, EditedRest
    <2>2. session' # None
      BY <1>2, <1>4
    <2> QED BY <2>1, <2>2 DEF Autos
  <1>5. ~AutoState(Idle) /\ Unhurried(Idle) /\ Idle.pc = "idle"
    BY DEF AutoState, Unhurried, Idle
  <1>6. CASE StopMark(t)
    <2>1. session # None
      BY <1>1, <1>6 DEF StopMark, At, OnSession
    <2>2. session' = [session EXCEPT !.started = FALSE, !.vrx = Empty, !.auto = Empty]
      BY <1>6 DEF StopMark
    <2>3. session'.tuning = session.tuning /\ session'.auto = Empty
      <3>1. session \in [radio : Radios, started : BOOLEAN, vrx : Maps(Ids),
                         auto : Maps(SUBSET Ids), tuning : Maps(Ncos)]
        BY <1>1, <2>1 DEF StateOK, Sessions
      <3> QED BY <2>2, <3>1
    <2>4. DOMAIN Autos' = {}
      BY <2>3 DEF Autos, Empty
    <2> DEFINE k == [pc |-> "abortjoin", vrxs |-> Pipelines]
    <2>5. Goto(t, k) /\ ~AutoState(k) /\ Unhurried(k)
      BY <1>6 DEF StopMark, AutoState, Unhurried
    <2> QED BY <1>3, <2>3, <2>4, <2>5
  <1>7. CASE RebindTake(t)
    <2>1. session # None
      BY <1>1, <1>7 DEF RebindTake, At, OnSession
    <2>2. \/ session' = session /\ Goto(t, Idle)
          \/ /\ session' = [session EXCEPT !.vrx = Without(Vrx, task[t].slot)]
             /\ \E k : Goto(t, k) /\ ~AutoState(k) /\ Unhurried(k)
      BY <1>7 DEF RebindTake, AutoState, Unhurried
    <2>3. session'.tuning = session.tuning /\ Autos' = Autos
      BY <1>4, <2>1, <2>2 DEF Autos
    <2> QED BY <1>3, <1>5, <2>2, <2>3
  <1>8. CASE Remove(t)
    <2>1. session # None
      BY <1>1, <1>8 DEF Remove, At, OnSession
    <2>2. /\ session' = [session EXCEPT !.vrx = Without(Vrx, task[t].slot)]
          /\ \E k : Goto(t, k) /\ ~AutoState(k) /\ Unhurried(k)
      BY <1>8 DEF Remove, AutoState, Unhurried
    <2> QED BY <1>3, <1>4, <2>1, <2>2
  <1>9. CASE Insert(t)
    <2>1. session # None
      BY <1>1, <1>9 DEF Insert, At, OnSession
    <2>2. /\ session' = [session EXCEPT !.vrx = With(Vrx, task[t].slot, task[t].vrx)]
          /\ DropThen(t, {Vrx[s] : s \in DOMAIN Vrx \intersect {task[t].slot}}, Idle)
      BY <1>9 DEF Insert
    <2>3. \E k : Goto(t, k) /\ ~AutoState(k) /\ Unhurried(k)
      BY <1>5, <2>2, DropAway
    <2> QED BY <1>3, <1>4, <2>1, <2>2, <2>3
  <1>10. ASSUME NEW slots, TakeOut(t, slots) PROVE AutoInv'
    <2>1. \/ session = None /\ session' = None
          \/ session # None /\ session' = [session EXCEPT !.vrx = Restrict(Vrx, DOMAIN Vrx \ slots)]
      BY <1>10 DEF TakeOut
    <2> DEFINE k == [pc |-> "join", vrxs |-> {Vrx[s] : s \in DOMAIN Vrx \intersect slots}, next |-> Idle]
    <2>2. Goto(t, k) /\ ~AutoState(k) /\ Unhurried(k)
      BY <1>10 DEF TakeOut, AutoState, Unhurried, Idle
    <2>3. session = None => Autos' = Autos
      BY <2>1 DEF Autos
    <2> QED BY <1>3, <1>4, <2>1, <2>2, <2>3
  <1> QED BY <1>6, <1>7, <1>8, <1>9, <1>10 DEF SetVrxNone, SetVrxOff

\* Steps that stop, start or mute pipelines.
LEMMA PipelinesAuto ==
    ASSUME HubTypes, AutoInv, NEW t \in Tasks, UNCHANGED <<session, autohistory>>,
           \/ Drop(t) \/ Join(t) \/ StopOld(t) \/ Spawn(t) \/ AutoSpawn(t)
           \/ \E s \in Slots : \E muted \in BOOLEAN : SetVrxMute(t, s, muted)
    PROVE  AutoInv'
  <1>1. /\ StateOK /\ vrxs \in Seq(Receivers) /\ Autos' = Autos
        /\ Fits(task[t], Radios, Ids)
        /\ Unhurried(task[t])
        /\ AutoState(task[t]) /\ t \notin overtaken => UpToDate(task[t])
    BY DEF HubTypes, StateOK, Autos, TasksFit, AutoInv
  <1>2. ASSUME NEW k, Goto(t, k), \A i \in Ids : vrxs'[i].nco = vrxs[i].nco, Unhurried(k),
               AutoState(k) /\ t \notin overtaken => UpToDate(k)'
        PROVE  AutoInv'
    BY <1>1, <1>2, QuietAuto
  <1>3. ASSUME NEW S, Halt(S) PROVE \A i \in Ids : vrxs'[i].nco = vrxs[i].nco
    <2>1. \A i \in Ids : vrxs[i] \in Receivers
      BY <1>1 DEF Ids
    <2>2. \A i \in Ids : vrxs'[i] = IF i \in S THEN [vrxs[i] EXCEPT !.running = FALSE] ELSE vrxs[i]
      <3>1. DOMAIN vrxs = Ids
        BY <1>1 DEF Ids
      <3> QED BY <1>3, <3>1 DEF Halt
    <2> QED BY <2>1, <2>2 DEF Receivers
  <1>4. ASSUME NEW v, vrxs' = Append(vrxs, v)
        PROVE  (\A i \in Ids : vrxs'[i].nco = vrxs[i].nco) /\ vrxs'[Len(vrxs) + 1] = v
    BY <1>1, <1>4 DEF Ids
  <1>5. CASE Drop(t)
    <2>1. Goto(t, task[t].next) /\ Halt(task[t].vrxs) /\ task[t].pc = "drop"
      BY <1>5 DEF Drop, At
    <2>2. Resumes(task[t].next, Radios) /\ task[t].next.pc # "autospawn"
      BY <1>1, <2>1 DEF Fits, Idle, Unhurried
    <2>3. ~AutoState(task[t].next) /\ Unhurried(task[t].next)
      BY <2>2 DEF Resumes, AutoState, Unhurried, Idle
    <2> QED BY <1>2, <1>3, <2>1, <2>3
  <1>6. CASE Join(t)
    <2> PICK k : k = task[t].next
      OBVIOUS
    <2>1. Goto(t, k) /\ Halt(task[t].vrxs) /\ task[t].pc = "join"
      BY <1>6 DEF Join, At
    <2>2. Resumes(k, Radios)
      BY <1>1, <2>1 DEF Fits, Idle
    <2>3. k.pc \in {"idle", "abort", "take", "autospawn"}
      BY <2>2 DEF Resumes, Idle
    <2>4. Unhurried(k)
      BY <2>3 DEF Unhurried
    <2>5. AutoState(k) /\ t \notin overtaken => UpToDate(k)'
      <3> HAVE AutoState(k) /\ t \notin overtaken
      <3>1. k.pc = "autospawn"
        BY <2>3 DEF AutoState
      <3>2. UpToDate(task[t])
        BY <1>1, <2>1, <3>1 DEF AutoState
      <3>3. k.slot \in DOMAIN session.tuning /\ k.nco = session.tuning[k.slot]
        BY <2>1, <3>2 DEF UpToDate
      <3> QED BY <3>1, <3>3 DEF UpToDate
    <2> QED BY <1>2, <1>3, <2>1, <2>4, <2>5
  <1>7. CASE StopOld(t)
    <2> DEFINE k == [task[t] EXCEPT !.pc = "spawn", !.old = {}]
    <2>1. Goto(t, k) /\ Halt(task[t].old) /\ task[t].pc = "replace"
      BY <1>7 DEF StopOld, At
    <2>2. k.pc = "spawn"
      BY <1>1, <2>1 DEF Fits, Idle
    <2>3. ~AutoState(k) /\ Unhurried(k)
      BY <2>2 DEF AutoState, Unhurried
    <2> QED BY <1>2, <1>3, <2>1, <2>3
  <1>8. CASE Spawn(t)
    <2>1. PICK v : vrxs' = Append(vrxs, v)
      BY <1>8 DEF Spawn
    <2> DEFINE k == [pc |-> "insert", slot |-> task[t].slot, vrx |-> Len(vrxs) + 1, asked |-> task[t].asked]
    <2>2. Goto(t, k) /\ ~AutoState(k) /\ Unhurried(k)
      BY <1>8 DEF Spawn, AutoState, Unhurried
    <2> QED BY <1>2, <1>4, <2>1, <2>2
  <1>9. CASE AutoSpawn(t)
    <2>1. /\ task[t].pc = "autospawn"
          /\ t \notin overtaken => /\ task[t].slot \in DOMAIN session.tuning
                                   /\ task[t].nco = session.tuning[task[t].slot]
      BY <1>1, <1>9 DEF AutoSpawn, At, AutoState, UpToDate
    <2>2. ASSUME NEW v, vrxs' = Append(vrxs, v), v.nco = task[t].nco, NEW k,
                 k = [pc |-> "autoinsert", slot |-> task[t].slot, vrxs |-> {Len(vrxs) + 1}], Goto(t, k)
          PROVE  AutoInv'
      <3>1. t \notin overtaken => Matches(k.vrxs, k.slot)'
        BY <1>4, <2>1, <2>2 DEF Matches
      <3>2. k.pc = "autoinsert"
        BY <2>2
      <3>3. Unhurried(k) /\ (t \notin overtaken => UpToDate(k)')
        BY <3>1, <3>2 DEF Unhurried, UpToDate
      <3> QED BY <1>2, <1>4, <2>2, <3>3
    <2>3. ASSUME vrxs' = vrxs, NEW k,
                 k = [pc |-> "autoinsert", slot |-> task[t].slot, vrxs |-> {}], Goto(t, k)
          PROVE  AutoInv'
      <3>1. t \notin overtaken => Matches(k.vrxs, k.slot)'
        BY <2>1, <2>3 DEF Matches
      <3>2. k.pc = "autoinsert"
        BY <2>3
      <3>3. Unhurried(k) /\ (t \notin overtaken => UpToDate(k)')
        BY <3>1, <3>2 DEF Unhurried, UpToDate
      <3> QED BY <1>2, <2>3, <3>3
    <2>4. \/ \E v : /\ vrxs' = Append(vrxs, v) /\ v.nco = task[t].nco
                    /\ Goto(t, [pc |-> "autoinsert", slot |-> task[t].slot, vrxs |-> {Len(vrxs) + 1}])
          \/ vrxs' = vrxs /\ Goto(t, [pc |-> "autoinsert", slot |-> task[t].slot, vrxs |-> {}])
      BY <1>9 DEF AutoSpawn
    <2> QED BY <2>2, <2>3, <2>4
  <1>10. ASSUME NEW s \in Slots, NEW muted \in BOOLEAN, SetVrxMute(t, s, muted) PROVE AutoInv'
    <2>1. task[t] = Idle /\ task' = task
      BY <1>10 DEF SetVrxMute, Begins
    <2>2. Goto(t, Idle) /\ ~AutoState(Idle) /\ Unhurried(Idle)
      BY <1>1, <2>1 DEF Goto, StateOK, AutoState, Unhurried, Idle
    <2>3. \A i \in Ids : vrxs'[i].nco = vrxs[i].nco
      <3>1. \A i \in Ids : vrxs[i] \in Receivers
        BY <1>1 DEF Ids
      <3>2. CASE vrxs' = [vrxs EXCEPT ![Vrx[s]].muted = muted]
        BY <1>1, <3>1, <3>2 DEF Ids, Receivers
      <3> QED BY <1>10, <3>2 DEF SetVrxMute
    <2> QED BY <1>2, <2>2, <2>3
  <1> QED BY <1>5, <1>6, <1>7, <1>8, <1>9, <1>10

\* A slot's decoders are taken out, by an AutoDecode that will replace them or
\* by one that turns them off.
LEMMA TakingAuto ==
    ASSUME HubTypes, AutoInv, NEW t \in Tasks, UNCHANGED autohistory,
           AutoTake(t) \/ \E s \in AutoSlots : AutoOff(t, s)
    PROVE  AutoInv'
  <1>1. StateOK /\ (AutoState(task[t]) /\ t \notin overtaken => UpToDate(task[t]))
        /\ Fits(task[t], Radios, Ids)
    BY DEF HubTypes, AutoInv, TasksFit
  <1>2. session # None => session' # None
    BY MapsChangeTyped
  <1>3. ASSUME NEW s, NEW next, NEW k, k = [pc |-> "join", vrxs |-> AutosOf(s), next |-> next],
               TakeAutos(t, s, next),
               next.pc = "autospawn" /\ t \notin overtaken =>
                  next.slot \in DOMAIN session.tuning /\ next.nco = session.tuning[next.slot],
               next.pc = "autospawn" => session # None
        PROVE  AutoInv'
    <2>1. Goto(t, k) /\ vrxs' = vrxs
      BY <1>3 DEF TakeAutos
    <2>2. session # None => session'.tuning = session.tuning /\ session'.auto = Without(Autos, s)
      BY <1>1, <1>3, EditedMaps, EditedRest DEF TakeAutos
    <2>3. \A x \in DOMAIN Autos' : x \in DOMAIN Autos /\ Autos'[x] = Autos[x]
      <3>1. CASE session # None
        <4>1. Autos' = Without(Autos, s)
          BY <1>2, <2>2, <3>1 DEF Autos
        <4> QED BY <1>1, <4>1, AutosWithout
      <3>2. CASE session = None
        <4>1. session' = None
          BY <1>3, <3>2 DEF TakeAutos
        <4> QED BY <3>2, <4>1 DEF Autos
      <3> QED BY <3>1, <3>2
    <2>4. k.pc = "join" /\ k.next = next
      BY <1>3
    <2>5. Unhurried(k) /\ (AutoState(k) /\ t \notin overtaken => UpToDate(k)')
      BY <1>3, <2>2, <2>4 DEF Unhurried, AutoState, UpToDate
    <2> QED BY <2>1, <2>2, <2>3, <2>5, QuietAuto
  <1>4. CASE AutoTake(t)
    <2>1. task[t].pc = "autotake" /\ TakeAutos(t, task[t].slot, [task[t] EXCEPT !.pc = "autospawn"])
      BY <1>4 DEF AutoTake, At
    <2>2. t \notin overtaken => task[t].slot \in DOMAIN session.tuning /\ task[t].nco = session.tuning[task[t].slot]
      BY <1>1, <2>1 DEF AutoState, UpToDate
    <2>3. task[t] \in [pc : {"autotake", "autospawn"}, slot : Slots, nco : Ncos]
      BY <1>1, <2>1 DEF Fits, Idle
    <2>4. PICK next : next = [task[t] EXCEPT !.pc = "autospawn"]
      OBVIOUS
    <2>5. next.slot = task[t].slot /\ next.nco = task[t].nco
      BY <2>3, <2>4
    <2>6. session # None
      BY <2>1, AutoStateFits DEF AutoState
    <2> QED BY <1>3, <2>1, <2>2, <2>4, <2>5, <2>6
  <1>5. ASSUME NEW s \in AutoSlots, AutoOff(t, s) PROVE AutoInv'
    <2>1. TakeAutos(t, s, Idle) /\ Idle.pc # "autospawn"
      BY <1>5 DEF AutoOff, Idle
    <2> QED BY <1>3, <2>1
  <1> QED BY <1>4, <1>5

\* Steps that are remembered.
LEMMA InstallAuto ==
    ASSUME HubTypes, AutoInv, NEW t \in Tasks, Install(t), Overtake(Slots)
    PROVE  AutoInv'
  <1>1. StateOK /\ Fits(task[t], Radios, Ids)
    BY DEF HubTypes, TasksFit
  <1>2. session' # None /\ session'.auto = Empty
    BY <1>1, InstallThere DEF Install
  <1>3. DOMAIN Autos' = {}
    BY <1>2 DEF Autos, Empty
  <1> DEFINE next == [pc |-> "abort", radio |-> task[t].radio]
  <1>4. DropThen(t, Pipelines, next) /\ next.pc \in {"idle", "abort"}
    BY DEF Install
  <1> HIDE DEF next
  <1>5. PICK k : Goto(t, k) /\ ~AutoState(k) /\ Unhurried(k)
    BY <1>4, DropAway
  <1>6. /\ task'[t] = k
        /\ \A u \in Tasks \ {t} : task'[u] = task[u]
    BY <1>1, <1>5 DEF StateOK, Goto
  <1>7. \A u \in Tasks : AutoState(task[u])' => u \in overtaken'
    BY <1>5, <1>6, AutoStateFits DEF Overtake
  <1>8. \A u \in Tasks : Unhurried(task[u])'
    BY <1>5, <1>6 DEF AutoInv
  <1> QED BY <1>3, <1>7, <1>8 DEF AutoInv

LEMMA NoteAuto ==
    ASSUME HubTypes, AutoInv, NEW t \in Tasks, TuneNote(t), Overtake({task[t].slot}), stale' = stale
    PROVE  AutoInv'
  <1>1. StateOK /\ Fits(task[t], Radios, Ids) /\ (OnSession(task[t]) => session # None)
    BY DEF HubTypes, TasksFit, SessionThere
  <1> PICK s, T : s = task[t].slot /\ T = With(session.tuning, s, task[t].freq)
    OBVIOUS
  <1>2. session # None /\ session' # None
    BY <1>1, MapsChangeTyped DEF TuneNote, At, OnSession
  <1>3. session'.tuning = T /\ Autos' = Without(Autos, s) /\ vrxs' = vrxs
    <2>1. session' = [session EXCEPT !.tuning = T, !.auto = Without(Autos, s)] /\ vrxs' = vrxs
      BY DEF TuneNote
    <2> QED BY <1>1, <1>2, <2>1, EditedMaps, EditedRest DEF Autos
  <1>4. \A x \in DOMAIN session.tuning : x # s => x \in DOMAIN T /\ T[x] = session.tuning[x]
    BY DEF With
  <1>5. PICK k : Goto(t, k) /\ ~AutoState(k) /\ Unhurried(k)
    <2>1. AfterNote(t).pc \in {"take", "idle"}
      BY DEF AfterNote, Idle
    <2>2. Goto(t, AfterNote(t)) \/ Goto(t, [pc |-> "join", vrxs |-> AutosOf(s), next |-> AfterNote(t)])
      BY DEF TuneNote
    <2> HIDE DEF AfterNote
    <2>3. PICK k : /\ Goto(t, k)
                   /\ k = AfterNote(t) \/ k = [pc |-> "join", vrxs |-> AutosOf(s), next |-> AfterNote(t)]
      BY <2>2
    <2>4. ~AutoState(k) /\ Unhurried(k)
      BY <2>1, <2>3 DEF AutoState, Unhurried
    <2> QED BY <2>3, <2>4
  <1>6. /\ task'[t] = k
        /\ \A u \in Tasks \ {t} : task'[u] = task[u]
    BY <1>1, <1>5 DEF StateOK, Goto
  <1>7. ASSUME NEW x \in DOMAIN Autos', x \notin stale PROVE Matches(Autos[x], x)'
    <2>1. x \in DOMAIN Autos /\ x # s /\ Autos'[x] = Autos[x]
      BY <1>1, <1>3, <1>7, AutosWithout
    <2>2. Matches(Autos[x], x)
      BY <1>7, <2>1 DEF AutoInv
    <2>3. PICK ids : ids = Autos[x] /\ ids = Autos'[x]
      BY <2>1
    <2>4. Matches(ids, x)'
      BY <1>3, <1>4, <2>1, <2>2, <2>3 DEF Matches
    <2> QED BY <2>3, <2>4 DEF Matches
  <1>8. ASSUME NEW u \in Tasks, AutoState(task[u])', u \notin overtaken' PROVE UpToDate(task[u])'
    <2>1. u # t /\ task'[u] = task[u]
      BY <1>5, <1>6, <1>8
    <2>2. AutoSlot(task[u]) # s /\ u \notin overtaken /\ UpToDate(task[u])
      BY <1>8, <2>1 DEF Overtake, AutoInv
    <2> QED BY <1>3, <1>4, <1>8, <2>1, <2>2 DEF UpToDate, Matches, AutoSlot, AutoState
  <1>9. \A u \in Tasks : Unhurried(task[u])'
    BY <1>5, <1>6 DEF AutoInv
  <1> QED BY <1>7, <1>8, <1>9 DEF AutoInv

LEMMA ReadAuto ==
    ASSUME HubTypes, AutoInv, NEW t \in Tasks, NEW s \in AutoSlots, AutoRead(t, s)
    PROVE  AutoInv'
  <1>1. /\ UNCHANGED <<session, vrxs, stale>> /\ overtaken' = overtaken \ {t} /\ StateOK /\ Autos' = Autos
        /\ session' = session
    BY DEF AutoRead, HubTypes, Autos
  <1>2. PICK k : /\ Goto(t, k)
                 /\ \/ k = Idle
                    \/ /\ Started /\ s \in DOMAIN session.tuning
                       /\ k = [pc |-> "autotake", slot |-> s, nco |-> session.tuning[s]]
    BY DEF AutoRead
  <1>3. Unhurried(k) /\ (AutoState(k) => UpToDate(k)')
    BY <1>1, <1>2 DEF Unhurried, AutoState, UpToDate, Idle
  <1>4. /\ task'[t] = k
        /\ \A u \in Tasks \ {t} : task'[u] = task[u]
    BY <1>1, <1>2 DEF StateOK, Goto
  <1>5. (\A x \in DOMAIN Autos : x \in stale \/ Matches(Autos[x], x))'
    BY <1>1 DEF AutoInv, Matches
  <1>6. ASSUME NEW u \in Tasks, AutoState(task[u])', u \notin overtaken' PROVE UpToDate(task[u])'
    <2>1. CASE u = t
      <3>1. AutoState(k) /\ UpToDate(k)'
        BY <1>3, <1>4, <1>6, <2>1
      <3> QED BY <1>4, <2>1, <3>1 DEF UpToDate, Matches
    <2>2. CASE u # t
      <3>1. UpToDate(task[u]) /\ task'[u] = task[u]
        BY <1>1, <1>4, <1>6, <2>2 DEF AutoInv
      <3> QED BY <1>1, <3>1 DEF UpToDate, Matches
    <2> QED BY <2>1, <2>2
  <1>7. \A u \in Tasks : Unhurried(task[u])'
    BY <1>3, <1>4 DEF AutoInv
  <1> QED BY <1>5, <1>6, <1>7 DEF AutoInv

LEMMA InsertAuto ==
    ASSUME HubTypes, AutoInv, NEW t \in Tasks, AutoInsert(t),
           stale' = IF t \in overtaken THEN stale \union {task[t].slot} ELSE stale \ {task[t].slot},
           overtaken' = overtaken \ {t}
    PROVE  AutoInv'
  <1>1. StateOK /\ AutoState(task[t]) /\ task[t].pc = "autoinsert"
        /\ (t \notin overtaken => Matches(task[t].vrxs, task[t].slot))
    BY DEF HubTypes, AutoInsert, At, AutoState, AutoInv, UpToDate
  <1> PICK s, ids : s = task[t].slot /\ ids = task[t].vrxs
    OBVIOUS
  <1>2. session # None /\ session' # None /\ s \in Slots /\ ids \subseteq Ids
    BY <1>1, AutoStateFits, MapsChangeTyped
  <1>3. session'.tuning = session.tuning /\ Autos' = With(Autos, s, ids) /\ vrxs' = vrxs
    <2>1. session' = [session EXCEPT !.auto = With(Autos, s, ids)] /\ vrxs' = vrxs
      BY DEF AutoInsert
    <2> QED BY <1>1, <1>2, <2>1, EditedMaps, EditedRest DEF Autos
  <1>4. PICK k : Goto(t, k) /\ ~AutoState(k) /\ Unhurried(k)
    <2>1. DropThen(t, AutosOf(s), Idle) /\ Idle.pc = "idle"
      BY DEF AutoInsert, Idle
    <2> QED BY <2>1, DropAway
  <1>5. /\ task'[t] = k
        /\ \A u \in Tasks \ {t} : task'[u] = task[u]
    BY <1>1, <1>4 DEF StateOK, Goto
  <1>6. \A js, x : Matches(js, x) => Matches(js, x)'
    BY <1>3 DEF Matches
  <1>7. ASSUME NEW x \in DOMAIN Autos', x \notin stale' PROVE Matches(Autos[x], x)'
    <2>1. PICK js : js = Autos'[x]
      OBVIOUS
    <2>2. CASE x = s
      <3>1. t \notin overtaken /\ js = ids
        BY <1>3, <1>7, <2>1, <2>2 DEF With
      <3>2. Matches(js, x)'
        BY <1>1, <1>6, <2>2, <3>1
      <3> QED BY <2>1, <3>2 DEF Matches
    <2>3. CASE x # s
      <3>1. x \in DOMAIN Autos /\ x \notin stale /\ js = Autos[x]
        BY <1>3, <1>7, <2>1, <2>3 DEF With
      <3>2. Matches(js, x)
        BY <3>1 DEF AutoInv
      <3>3. Matches(js, x)'
        BY <1>6, <3>2
      <3> QED BY <2>1, <3>3 DEF Matches
    <2> QED BY <2>2, <2>3
  <1>8. ASSUME NEW u \in Tasks, AutoState(task[u])', u \notin overtaken' PROVE UpToDate(task[u])'
    <2>1. u # t /\ task'[u] = task[u]
      BY <1>4, <1>5, <1>8
    <2>2. u \notin overtaken /\ UpToDate(task[u])
      BY <1>8, <2>1 DEF AutoInv
    <2> QED BY <1>3, <2>1, <2>2 DEF UpToDate, Matches
  <1>9. \A u \in Tasks : Unhurried(task[u])'
    BY <1>4, <1>5 DEF AutoInv
  <1> QED BY <1>7, <1>8, <1>9 DEF AutoInv

LEMMA InitAuto == Init => AutoInv
  BY DEF Init, AutoInv, Autos, Empty, AutoState, Unhurried, Idle

LEMMA StepAuto ==
    ASSUME HubTypes, AutoInv, NEW t \in Tasks, Begin(t) \/ Continue(t)
    PROVE  AutoInv'
  <1>1. CASE UNCHANGED autohistory
    <2>1. CASE Begin(t)
      <3>1. \/ StartCheck(t) /\ UNCHANGED <<session, vrxs>>
            \/ StopRead(t) /\ UNCHANGED <<session, vrxs>>
            \/ (\E s \in Slots : \E f \in Ncos : TuneRead(t, s, f)) /\ UNCHANGED <<session, vrxs>>
            \/ (\E s \in Slots : \E m \in Modes : SetVrxCheck(t, s, m)) /\ UNCHANGED <<session, vrxs>>
            \/ SetVrxNone(t) /\ UNCHANGED vrxs
            \/ (\E s \in Slots : SetVrxOff(t, s)) /\ UNCHANGED vrxs
            \/ (\E s \in Slots : \E muted \in BOOLEAN : SetVrxMute(t, s, muted)) /\ UNCHANGED session
            \/ \E s \in AutoSlots : AutoRead(t, s)
            \/ \E s \in AutoSlots : AutoOff(t, s)
        BY <2>1 DEF Begin, StartCheck, StopRead, TuneRead, SetVrxCheck, SetVrxNone, SetVrxOff, TakeOut, SetVrxMute
      <3> QED BY <1>1, <3>1, AwayAuto, ReceiversAuto, PipelinesAuto, ReadAuto, TakingAuto
    <2>2. CASE Continue(t)
      <3>1. CASE Install(t) \/ TuneNote(t) \/ AutoInsert(t)
        <4>1. CASE Install(t)
          BY <4>1, InstallAuto DEF Install
        <4>2. CASE TuneNote(t)
          BY <4>2, NoteAuto DEF TuneNote
        <4>3. CASE AutoInsert(t)
          BY <4>3, InsertAuto DEF AutoInsert
        <4> QED BY <3>1, <4>1, <4>2, <4>3
      <3>2. \/ Install(t) \/ TuneNote(t) \/ AutoInsert(t)
            \/ /\ \/ Connect(t) \/ StartAbort(t) \/ StartStore(t) \/ ConnectFails(t) \/ StopAbort(t)
                  \/ TunePeek(t) \/ TuneApply(t) \/ InPlace(t) \/ SpawnFails(t)
               /\ UNCHANGED <<session, vrxs>>
            \/ (StopMark(t) \/ RebindTake(t) \/ Remove(t) \/ Insert(t)) /\ UNCHANGED vrxs
            \/ (Drop(t) \/ Join(t) \/ StopOld(t) \/ Spawn(t) \/ AutoSpawn(t)) /\ UNCHANGED session
            \/ AutoTake(t)
        BY <2>2 DEF Continue, Connect, StartAbort, StartStore, ConnectFails, StopAbort, TunePeek, TuneApply,
                    InPlace, SpawnFails, StopMark, RebindTake, Remove, Insert, Drop, Join, StopOld, Spawn, AutoSpawn
      <3> QED BY <1>1, <3>1, <3>2, AwayAuto, ReceiversAuto, PipelinesAuto, TakingAuto
    <2> QED BY <2>1, <2>2
  <1>2. CASE ~UNCHANGED autohistory
    BY <1>2, PastKept, InstallAuto, NoteAuto, ReadAuto, InsertAuto
  <1> QED BY <1>1, <1>2

LEMMA NextAuto == HubTypes /\ AutoInv /\ [Next]_vars => AutoInv'
  <1> SUFFICES ASSUME HubTypes, AutoInv, [Next]_vars PROVE AutoInv'
    OBVIOUS
  <1>1. CASE UNCHANGED vars
    BY <1>1 DEF vars, autohistory, AutoInv, Autos, Matches, UpToDate
  <1> QED BY <1>1, StepAuto DEF Next

\* Automatic decoders were built for the NCO their slot has, whatever commands
\* overlap, but for a set that an AutoDecode computed before a Tune of its slot
\* or a Start and put into the map after it; and as long as no commands
\* overlapped they run on the slot's ring.
THEOREM DecodersOnTuning == Spec => []AutoOnTuning
  <1>1. Spec => []AutoInv
    BY InitAuto, NextAuto, AlwaysTyped, PTL DEF Spec
  <1>2. HubTypes /\ OwnInv /\ OneAtATime /\ AutoInv => AutoOnTuning
    <2> SUFFICES ASSUME HubTypes, OneAtATime, AutoInv PROVE AutoOnTuning
      OBVIOUS
    <2>1. \A s \in DOMAIN Autos : \A i \in Autos[s] : s \in stale \/ vrxs[i].nco = session.tuning[s]
      BY DEF AutoInv, Matches
    <2>2. Settled /\ Started =>
             \A s \in DOMAIN Autos \ slipped : \A i \in Autos[s] :
                /\ vrxs[i].nco = session.tuning[s]
                /\ vrxs[i].ring = RingFor(Rings, s)
      BY SettledFacts DEF Facts, Decodes, OnRing, Exempt, RingFor, Idle
    <2> QED BY <2>1, <2>2 DEF AutoOnTuning, Rings
  <1> QED BY <1>1, <1>2, AlwaysFacts, PTL
=============================================================================
