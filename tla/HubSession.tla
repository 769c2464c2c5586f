----------------------------- MODULE HubSession -----------------------------
(***************************************************************************)
(* The hub of hl2-api (api/src/hub.rs): the session that every WebSocket   *)
(* client's commands act on, its virtual receivers (vrx), its automatic    *)
(* decoders and its spectrum task.                                         *)
(*                                                                         *)
(* Every command runs in a task of its own, and a task may be overtaken at *)
(* every await: a step here is what a task does between two awaits, or     *)
(* under one hold of the session's mutex.  A pipeline is stopped by        *)
(* joining its threads, which takes seconds: it is a step of its own.      *)
(*                                                                         *)
(* Hl2::tune is one step; Hl2Control has its steps.  Rings, pipelines and  *)
(* HL2 handles are named by the order of their creation.  The automatic    *)
(* decoders of a slot, one per known frequency inside its span, are one    *)
(* pipeline here: they are spawned and stopped together.                   *)
(***************************************************************************)
EXTENDS Integers, Sequences, FiniteSets, FiniteSetsExt, Functions

CONSTANTS Tasks,       \* tasks that execute commands
          Slots,       \* receiver slots, slot 1 among them
          Modes,       \* demodulation modes
          AutoMode,    \* the mode of automatic decoders
          AutoSlots,   \* slots the clients ask to decode automatically
          Ncos,        \* frequencies a slot may be tuned to, or 0 to close it
          InitialTunings, \* the tunings a Start may ask for, which close no slot
          Free,        \* the session's mutex is not held
          None,        \* no session, no spectrum task
          MaxCommands, \* bound: commands issued in a behaviour
          Failures     \* whether Hl2::tune and spawn_vrx may fail

\* Maps keyed by some of the slots.
Maps(T) == UNION {[D -> T] : D \in SUBSET Slots}

\* Sessions over a set of handles and a set of pipelines.
Sessions(handles, ids) ==
    [radio : handles, started : BOOLEAN, vrx : Maps(ids), auto : Maps(SUBSET ids), tuning : Maps(Ncos)]

ASSUME HubAssumption ==
    /\ Slots \subseteq Nat \ {0}
    /\ IsFiniteSet(Slots)
    /\ 1 \in Slots
    /\ Ncos \subseteq Nat /\ 0 \in Ncos
    /\ InitialTunings \subseteq Maps(Ncos \ {0})
    /\ AutoMode \notin Modes
    /\ AutoSlots \subseteq Slots
    /\ Free \notin Tasks
    /\ None \notin Nat
    /\ None \notin Sessions(Nat, Nat)
    /\ MaxCommands \in Nat
    /\ Failures \in BOOLEAN

VARIABLES
    session,   \* None, or the handle, the started flag, the vrx, auto and tuning maps
    lock,      \* a task that holds the session's mutex beyond one step, or Free
    spectrum,  \* the handle whose events the stored spectrum task reads, or None
    radios,    \* per HL2 handle: its fan-out's rings, and who reads its events
    ringCount, \* rings created so far
    vrxs,      \* per pipeline: slot, mode, ring, muted, running, the NCO it was built for
    task,      \* what each task is doing
    intent,    \* history: per slot, the mute the clients asked for last
    slipped,   \* history: slots whose tune failed or that were re-anchored
    overtaken, \* history: tasks whose AutoDecode has seen its slot tuned or the session replaced
    stale,     \* history: slots whose decoders in the map were put there by such a task
    overlap,   \* history: two commands overlapped
    commands   \* commands issued so far

autohistory == <<overtaken, stale>>
vars == <<session, lock, spectrum, radios, ringCount, vrxs, task, intent, slipped, autohistory, overlap, commands>>

Idle == [pc |-> "idle"]
Empty == [x \in {} |-> x]
Without(f, x) == Restrict(f, DOMAIN f \ {x})
With(f, x, v) == [y \in DOMAIN f \union {x} |-> IF y = x THEN v ELSE f[y]]

Started == session # None /\ session.started
Vrx == IF session = None THEN Empty ELSE session.vrx
Autos == IF session = None THEN Empty ELSE session.auto
AutosOf(s) == IF s \in DOMAIN Autos THEN Autos[s] ELSE {}

Goto(t, state) == task' = [task EXCEPT ![t] = state]

\* A command begins with its first step.  Tasks have no identity: an idle one
\* is as good as another.
Begins(t) ==
    /\ task[t] = Idle
    /\ t = CHOOSE u \in Tasks : task[u] = Idle
    /\ commands < MaxCommands
    /\ commands' = commands + 1
    /\ overlap' = (overlap \/ \E u \in Tasks : task[u] # Idle)

\* The step at pc of the command that t executes.
At(t, pc) ==
    /\ task[t].pc = pc
    /\ UNCHANGED <<overlap, commands>>

\* VrxTask::stop, AutoTask::stop: raise the flag and join the threads.
Halt(ids) == vrxs' = [i \in DOMAIN vrxs |-> IF i \in ids THEN [vrxs[i] EXCEPT !.running = FALSE] ELSE vrxs[i]]

-----------------------------------------------------------------------------
(* Start.                                                                  *)

StartCheck(t) ==
    /\ Begins(t)
    /\ lock = Free
    /\ Goto(t, IF Started THEN Idle ELSE [pc |-> "connect"])
    /\ UNCHANGED <<session, lock, spectrum, radios, ringCount, vrxs, intent, slipped, autohistory>>

\* Hl2::start seeds slot 1; the initial tuning registers more slots.  A tune
\* that fails has registered its slot and is left out of the map.
Connect(t) ==
    /\ At(t, "connect")
    /\ \E tuning \in InitialTunings : \E S \in IF Failures THEN SUBSET DOMAIN tuning ELSE {DOMAIN tuning} :
          LET active == DOMAIN tuning \union {1}
              ring(s) == ringCount + Cardinality({x \in active : x <= s})
          IN  /\ radios' = Append(radios, [rings |-> [s \in active |-> ring(s)], reader |-> "starter"])
              /\ ringCount' = ringCount + Cardinality(active)
              /\ Goto(t, [pc |-> "install", radio |-> Len(radios) + 1, tuned |-> Restrict(tuning, S)])
    /\ UNCHANGED <<session, lock, spectrum, vrxs, intent, slipped, autohistory>>

\* The session's pipelines.
Pipelines == Range(Vrx) \union UNION Range(Autos)

\* Mutant of DropThen: the guard is kept when there is nothing to drop.
DropThenKeepLock(t, ids, next) ==
    IF ids = {}
    THEN Goto(t, next) /\ lock' = t
    ELSE Goto(t, [pc |-> "drop", vrxs |-> ids, next |-> next]) /\ lock' = t

\* Pipelines that are dropped, and therefore joined, before the mutex is
\* released.
DropThen(t, ids, next) ==
    IF ids = {}
    THEN Goto(t, next) /\ lock' = Free
    ELSE Goto(t, [pc |-> "drop", vrxs |-> ids, next |-> next]) /\ lock' = t

\* The tasks that execute an AutoDecode and have not put its decoders into the
\* map.
AutoState(k) ==
    \/ k.pc \in {"autotake", "autospawn", "autoinsert"}
    \/ k.pc = "join" /\ k.next.pc = "autospawn"
AutoSlot(k) == IF k.pc = "join" THEN k.next.slot ELSE k.slot
Overtake(slots) ==
    overtaken' = overtaken \union {u \in Tasks : AutoState(task[u]) /\ AutoSlot(task[u]) \in slots}

\* The new session replaces the old one, whose pipelines are dropped.
Install(t) ==
    /\ At(t, "install")
    /\ lock = Free
    /\ session' = [radio |-> task[t].radio, started |-> TRUE, vrx |-> Empty, auto |-> Empty,
                   tuning |-> task[t].tuned]
    /\ DropThen(t, Pipelines, [pc |-> "abort", radio |-> task[t].radio])
    /\ Overtake(Slots)
    /\ UNCHANGED <<spectrum, radios, ringCount, vrxs, intent, slipped, stale>>

\* Values dropped under the session's mutex.
Drop(t) ==
    /\ At(t, "drop")
    /\ Halt(task[t].vrxs)
    /\ lock' = Free
    /\ Goto(t, task[t].next)
    /\ UNCHANGED <<session, spectrum, radios, ringCount, intent, slipped, autohistory>>

\* The stored spectrum task is taken out and aborted; its event receiver
\* goes with it.
Abort ==
    /\ spectrum' = None
    /\ radios' = IF spectrum = None THEN radios ELSE [radios EXCEPT ![spectrum].reader = "gone"]

StartAbort(t) ==
    /\ At(t, "abort")
    /\ Abort
    /\ Goto(t, [pc |-> "store", radio |-> task[t].radio])
    /\ UNCHANGED <<session, lock, ringCount, vrxs, intent, slipped, autohistory>>

\* Overwriting a stored task's handle detaches that task, it does not abort it.
StartStore(t) ==
    /\ At(t, "store")
    /\ spectrum' = task[t].radio
    /\ radios' = [radios EXCEPT ![task[t].radio].reader = "spectrum"]
    /\ Goto(t, Idle)
    /\ UNCHANGED <<session, lock, ringCount, vrxs, intent, slipped, autohistory>>

\* Hl2::start fails.
ConnectFails(t) ==
    /\ At(t, "connect")
    /\ Goto(t, Idle)
    /\ UNCHANGED <<session, lock, spectrum, radios, ringCount, vrxs, intent, slipped, autohistory>>
-----------------------------------------------------------------------------
(* Stop.                                                                   *)

\* The handle's stop() follows; errors are logged only.
StopRead(t) ==
    /\ Begins(t)
    /\ lock = Free
    /\ Goto(t, IF Started THEN [pc |-> "mark"] ELSE Idle)
    /\ UNCHANGED <<session, lock, spectrum, radios, ringCount, vrxs, intent, slipped, autohistory>>

\* Mutant of StopMark: the automatic decoders are not taken out.
StopMarkVrx(t) ==
    /\ At(t, "mark")
    /\ lock = Free
    /\ session' = [session EXCEPT !.started = FALSE, !.vrx = Empty]
    /\ Goto(t, [pc |-> "abortjoin", vrxs |-> Range(Vrx)])
    /\ UNCHANGED <<lock, spectrum, radios, ringCount, vrxs, intent, slipped, autohistory>>

\* Whatever session is there by now is marked and its pipelines taken out.
StopMark(t) ==
    /\ At(t, "mark")
    /\ lock = Free
    /\ session' = [session EXCEPT !.started = FALSE, !.vrx = Empty, !.auto = Empty]
    /\ Goto(t, [pc |-> "abortjoin", vrxs |-> Pipelines])
    /\ UNCHANGED <<lock, spectrum, radios, ringCount, vrxs, intent, slipped, autohistory>>

\* Mutant of StopAbort: the task is taken out and not aborted.
StopDetach(t) ==
    /\ At(t, "abortjoin")
    /\ spectrum' = None
    /\ Goto(t, [pc |-> "join", vrxs |-> task[t].vrxs, next |-> Idle])
    /\ UNCHANGED <<session, radios, lock, ringCount, vrxs, intent, slipped, autohistory>>

StopAbort(t) ==
    /\ At(t, "abortjoin")
    /\ Abort
    /\ Goto(t, [pc |-> "join", vrxs |-> task[t].vrxs, next |-> Idle])
    /\ UNCHANGED <<session, lock, ringCount, vrxs, intent, slipped, autohistory>>

\* Phase 2 of the commands that take pipelines out: join without the mutex.
Join(t) ==
    /\ At(t, "join")
    /\ Halt(task[t].vrxs)
    /\ Goto(t, task[t].next)
    /\ UNCHANGED <<session, lock, spectrum, radios, ringCount, intent, slipped, autohistory>>
-----------------------------------------------------------------------------
(* Tune, and the rebinding of a vrx to the ring of a slot that came alive. *)

TuneRead(t, s, f) ==
    /\ Begins(t)
    /\ lock = Free
    /\ Goto(t, IF Started THEN [pc |-> "peek", radio |-> session.radio, slot |-> s, freq |-> f] ELSE Idle)
    /\ UNCHANGED <<session, lock, spectrum, radios, ringCount, vrxs, intent, slipped, autohistory>>

\* Is the slot going to be activated?
TunePeek(t) ==
    /\ At(t, "peek")
    /\ LET me == task[t]
       IN  Goto(t, [pc |-> "tune", radio |-> me.radio, slot |-> me.slot, freq |-> me.freq,
                    activates |-> me.slot \notin DOMAIN radios[me.radio].rings])
    /\ UNCHANGED <<session, lock, spectrum, radios, ringCount, vrxs, intent, slipped, autohistory>>

\* Mutant of Tuned: closing the last slot leaves none.
TunedToNone(rings, s, f) ==
    IF f = 0 THEN Without(rings, s)
    ELSE IF s \in DOMAIN rings THEN rings ELSE With(rings, s, ringCount + 1)

\* Hl2::tune on the fan-out: register, or unregister and keep one slot.
Tuned(rings, s, f) ==
    CASE f # 0 /\ s \in DOMAIN rings -> rings
      [] f # 0 /\ s \notin DOMAIN rings -> With(rings, s, ringCount + 1)
      [] f = 0 /\ DOMAIN rings \subseteq {s} -> With(Empty, 1, ringCount + 1)
      [] f = 0 /\ ~(DOMAIN rings \subseteq {s}) -> Without(rings, s)

\* Hl2::tune fails after it has changed the fan-out.
TuneApply(t) ==
    /\ At(t, "tune")
    /\ LET me == task[t]
           rings == Tuned(radios[me.radio].rings, me.slot, me.freq)
           anchored == DOMAIN radios[me.radio].rings \subseteq {me.slot} /\ me.freq = 0
       IN  /\ radios' = [radios EXCEPT ![me.radio].rings = rings]
           /\ ringCount' = IF ringCount + 1 \in Range(rings) THEN ringCount + 1 ELSE ringCount
           /\ \/ /\ Goto(t, [pc |-> "note", slot |-> me.slot, freq |-> me.freq, activates |-> me.activates])
                 /\ slipped' = IF anchored THEN slipped \union {1} ELSE slipped
              \/ /\ Failures
                 /\ Goto(t, Idle)
                 /\ slipped' = slipped \union {me.slot, 1}
    /\ UNCHANGED <<session, lock, spectrum, vrxs, intent, autohistory>>

AfterNote(t) == IF task[t].activates THEN [pc |-> "take", slot |-> task[t].slot] ELSE Idle

\* Mutant of TuneNote: the slot's automatic decoders live on.
TuneNoteOnly(t) ==
    /\ At(t, "note")
    /\ lock = Free
    /\ session' = [session EXCEPT !.tuning = With(session.tuning, task[t].slot, task[t].freq)]
    /\ Goto(t, AfterNote(t))
    /\ Overtake({task[t].slot})
    /\ UNCHANGED <<lock, spectrum, radios, ringCount, vrxs, intent, slipped, stale>>

\* The tuning map follows, the slot's automatic decoders are taken out.
TuneNote(t) ==
    /\ At(t, "note")
    /\ lock = Free
    /\ LET s == task[t].slot
       IN  /\ session' = [session EXCEPT !.tuning = With(session.tuning, s, task[t].freq),
                                         !.auto = Without(Autos, s)]
           /\ Goto(t, IF AutosOf(s) = {} THEN AfterNote(t)
                      ELSE [pc |-> "join", vrxs |-> AutosOf(s), next |-> AfterNote(t)])
    /\ Overtake({task[t].slot})
    /\ UNCHANGED <<lock, spectrum, radios, ringCount, vrxs, intent, slipped, stale>>

\* Mutant of RebindTake: the mute is not carried over.
RebindTakeUnmuted(t) ==
    /\ At(t, "take")
    /\ lock = Free
    /\ LET s == task[t].slot
       IN  IF s \in DOMAIN Vrx
           THEN LET v == vrxs[Vrx[s]]
                IN  /\ session' = [session EXCEPT !.vrx = Without(Vrx, s)]
                    /\ Goto(t, [pc |-> "replace", slot |-> s, old |-> {Vrx[s]}, mode |-> v.mode,
                                muted |-> FALSE, asked |-> FALSE])
           ELSE UNCHANGED session /\ Goto(t, Idle)
    /\ UNCHANGED <<lock, spectrum, radios, ringCount, vrxs, intent, slipped, autohistory>>

\* rebind_vrx_on_activate takes the slot's vrx out of the map, if any.
RebindTake(t) ==
    /\ At(t, "take")
    /\ lock = Free
    /\ LET s == task[t].slot
       IN  IF s \in DOMAIN Vrx
           THEN LET v == vrxs[Vrx[s]]
                IN  /\ session' = [session EXCEPT !.vrx = Without(Vrx, s)]
                    /\ Goto(t, [pc |-> "replace", slot |-> s, old |-> {Vrx[s]}, mode |-> v.mode,
                                muted |-> v.muted, asked |-> FALSE])
           ELSE UNCHANGED session /\ Goto(t, Idle)
    /\ UNCHANGED <<lock, spectrum, radios, ringCount, vrxs, intent, slipped, autohistory>>
-----------------------------------------------------------------------------
(* SetVrx.                                                                 *)

SetVrxCheck(t, s, m) ==
    /\ Begins(t)
    /\ lock = Free
    /\ Goto(t, IF Started THEN [pc |-> "inplace", slot |-> s, mode |-> m] ELSE Idle)
    /\ UNCHANGED <<session, lock, spectrum, radios, ringCount, vrxs, intent, slipped, autohistory>>

\* A vrx of the same mode on an active slot is retuned in place.
InPlace(t) ==
    /\ At(t, "inplace")
    /\ lock = Free
    /\ LET me == task[t]
       IN  Goto(t, IF /\ me.slot \in DOMAIN radios[session.radio].rings
                      /\ me.slot \in DOMAIN Vrx
                      /\ vrxs[Vrx[me.slot]].mode = me.mode
                   THEN Idle
                   ELSE [pc |-> "remove", slot |-> me.slot, mode |-> me.mode])
    /\ UNCHANGED <<session, lock, spectrum, radios, ringCount, vrxs, intent, slipped, autohistory>>

\* Mutant of Remove: every slot's pipeline is rebuilt.
RemoveAll(t) ==
    /\ At(t, "remove")
    /\ lock = Free
    /\ session' = [session EXCEPT !.vrx = Empty]
    /\ Goto(t, [pc |-> "replace", slot |-> task[t].slot, mode |-> task[t].mode, muted |-> FALSE,
                asked |-> TRUE, old |-> Range(Vrx)])
    /\ UNCHANGED <<lock, spectrum, radios, ringCount, vrxs, intent, slipped, autohistory>>

\* The rebuild takes this slot's pipeline out; other slots keep streaming.
Remove(t) ==
    /\ At(t, "remove")
    /\ lock = Free
    /\ LET s == task[t].slot
       IN  /\ session' = [session EXCEPT !.vrx = Without(Vrx, s)]
           /\ Goto(t, [pc |-> "replace", slot |-> s, mode |-> task[t].mode, muted |-> FALSE, asked |-> TRUE,
                       old |-> {Vrx[x] : x \in DOMAIN Vrx \intersect {s}}])
    /\ UNCHANGED <<lock, spectrum, radios, ringCount, vrxs, intent, slipped, autohistory>>

\* The old pipeline is joined without the mutex.
StopOld(t) ==
    /\ At(t, "replace")
    /\ Halt(task[t].old)
    /\ Goto(t, [task[t] EXCEPT !.pc = "spawn", !.old = {}])
    /\ UNCHANGED <<session, lock, spectrum, radios, ringCount, intent, slipped, autohistory>>

\* Hl2::baseband_ring: the slot's ring or else the first one.
RingFor(rings, s) == IF s \in DOMAIN rings THEN rings[s] ELSE rings[Min(DOMAIN rings)]

\* Mutant of Spawn: always the first ring.
SpawnOnFirst(t) ==
    /\ At(t, "spawn")
    /\ lock = Free
    /\ LET me == task[t]
           rings == radios[session.radio].rings
       IN  /\ vrxs' = Append(vrxs, [slot |-> me.slot, mode |-> me.mode, muted |-> me.muted, running |-> TRUE,
                                    ring |-> rings[Min(DOMAIN rings)], radio |-> session.radio, nco |-> 0])
           /\ Goto(t, [pc |-> "insert", slot |-> me.slot, vrx |-> Len(vrxs) + 1, asked |-> me.asked])
    /\ UNCHANGED <<session, lock, spectrum, radios, ringCount, intent, slipped, autohistory>>

\* The ring is fetched under the mutex and the pipeline spawned on it.
Spawn(t) ==
    /\ At(t, "spawn")
    /\ lock = Free
    /\ LET me == task[t]
       IN  /\ vrxs' = Append(vrxs, [slot |-> me.slot, mode |-> me.mode, muted |-> me.muted, running |-> TRUE,
                                    ring |-> RingFor(radios[session.radio].rings, me.slot),
                                    radio |-> session.radio, nco |-> 0])
           /\ Goto(t, [pc |-> "insert", slot |-> me.slot, vrx |-> Len(vrxs) + 1, asked |-> me.asked])
    /\ UNCHANGED <<session, lock, spectrum, radios, ringCount, intent, slipped, autohistory>>

SpawnFails(t) ==
    /\ At(t, "spawn")
    /\ Failures
    /\ lock = Free
    /\ Goto(t, Idle)
    /\ UNCHANGED <<session, lock, spectrum, radios, ringCount, vrxs, intent, slipped, autohistory>>

\* Mutant of Insert: a displaced pipeline is forgotten, not dropped.
InsertForget(t) ==
    /\ At(t, "insert")
    /\ lock = Free
    /\ session' = [session EXCEPT !.vrx = With(Vrx, task[t].slot, task[t].vrx)]
    /\ Goto(t, Idle)
    /\ intent' = IF task[t].asked THEN [intent EXCEPT ![task[t].slot] = FALSE] ELSE intent
    /\ UNCHANGED <<lock, spectrum, radios, ringCount, vrxs, slipped, autohistory>>

\* A pipeline that is in the map by now is displaced and dropped.
Insert(t) ==
    /\ At(t, "insert")
    /\ lock = Free
    /\ session' = [session EXCEPT !.vrx = With(Vrx, task[t].slot, task[t].vrx)]
    /\ DropThen(t, {Vrx[s] : s \in DOMAIN Vrx \intersect {task[t].slot}}, Idle)
    /\ intent' = IF task[t].asked THEN [intent EXCEPT ![task[t].slot] = FALSE] ELSE intent
    /\ UNCHANGED <<spectrum, radios, ringCount, vrxs, slipped, autohistory>>
-----------------------------------------------------------------------------
(* SetVrx with no configuration, SetVrxOff and SetVrxMute.                 *)

\* Take the slots' pipelines out of the map and join them.
TakeOut(t, slots) ==
    /\ Begins(t)
    /\ lock = Free
    /\ session' = IF session = None THEN None
                  ELSE [session EXCEPT !.vrx = Restrict(Vrx, DOMAIN Vrx \ slots)]
    /\ Goto(t, [pc |-> "join", vrxs |-> {Vrx[s] : s \in DOMAIN Vrx \intersect slots}, next |-> Idle])
    /\ UNCHANGED <<lock, spectrum, radios, ringCount, vrxs, intent, slipped, autohistory>>

SetVrxNone(t) == TakeOut(t, Slots)

SetVrxOff(t, s) == TakeOut(t, {s})

SetVrxMute(t, s, muted) ==
    /\ Begins(t)
    /\ lock = Free
    /\ vrxs' = IF s \in DOMAIN Vrx THEN [vrxs EXCEPT ![Vrx[s]].muted = muted] ELSE vrxs
    /\ intent' = [intent EXCEPT ![s] = muted]
    /\ UNCHANGED <<session, lock, spectrum, radios, ringCount, task, slipped, autohistory>>
-----------------------------------------------------------------------------
(* AutoDecode.                                                             *)

\* The NCO the decoders are built for is the one of the snapshot taken first.
AutoRead(t, s) ==
    /\ Begins(t)
    /\ lock = Free
    /\ Goto(t, IF Started /\ s \in DOMAIN session.tuning
               THEN [pc |-> "autotake", slot |-> s, nco |-> session.tuning[s]]
               ELSE Idle)
    /\ overtaken' = overtaken \ {t}
    /\ UNCHANGED <<session, lock, spectrum, radios, ringCount, vrxs, intent, slipped, stale>>

\* The decoders of slot s are taken out of the map and joined.
TakeAutos(t, s, next) ==
    /\ lock = Free
    /\ session' = IF session = None THEN None ELSE [session EXCEPT !.auto = Without(Autos, s)]
    /\ Goto(t, [pc |-> "join", vrxs |-> AutosOf(s), next |-> next])
    /\ UNCHANGED <<lock, spectrum, radios, ringCount, vrxs, intent, slipped, autohistory>>

AutoTake(t) ==
    /\ At(t, "autotake")
    /\ TakeAutos(t, task[t].slot, [task[t] EXCEPT !.pc = "autospawn"])

\* No known frequency is near an NCO of 0, and a decoder that cannot be
\* built is left out.
AutoSpawn(t) ==
    /\ At(t, "autospawn")
    /\ lock = Free
    /\ LET me == task[t]
       IN  \/ /\ me.nco # 0
              /\ vrxs' = Append(vrxs, [slot |-> me.slot, mode |-> AutoMode, muted |-> TRUE, running |-> TRUE,
                                       ring |-> RingFor(radios[session.radio].rings, me.slot),
                                       radio |-> session.radio, nco |-> me.nco])
              /\ Goto(t, [pc |-> "autoinsert", slot |-> me.slot, vrxs |-> {Len(vrxs) + 1}])
           \/ /\ me.nco = 0 \/ Failures
              /\ Goto(t, [pc |-> "autoinsert", slot |-> me.slot, vrxs |-> {}])
              /\ UNCHANGED vrxs
    /\ UNCHANGED <<session, lock, spectrum, radios, ringCount, intent, slipped, autohistory>>

\* A set that is in the map by now is displaced and dropped.
AutoInsert(t) ==
    /\ At(t, "autoinsert")
    /\ lock = Free
    /\ session' = [session EXCEPT !.auto = With(Autos, task[t].slot, task[t].vrxs)]
    /\ DropThen(t, AutosOf(task[t].slot), Idle)
    /\ stale' = IF t \in overtaken THEN stale \union {task[t].slot} ELSE stale \ {task[t].slot}
    /\ overtaken' = overtaken \ {t}
    /\ UNCHANGED <<spectrum, radios, ringCount, vrxs, intent, slipped>>

AutoOff(t, s) ==
    /\ Begins(t)
    /\ TakeAutos(t, s, Idle)
-----------------------------------------------------------------------------
Init ==
    /\ session = None
    /\ lock = Free
    /\ spectrum = None
    /\ radios = <<>>
    /\ ringCount = 0
    /\ vrxs = <<>>
    /\ task = [t \in Tasks |-> Idle]
    /\ intent = [s \in Slots |-> FALSE]
    /\ slipped = {}
    /\ overtaken = {}
    /\ stale = {}
    /\ overlap = FALSE
    /\ commands = 0

Continue(t) ==
    \/ Connect(t) \/ Install(t) \/ Drop(t) \/ StartAbort(t) \/ StartStore(t)
    \/ StopMark(t) \/ StopAbort(t) \/ Join(t)
    \/ TunePeek(t) \/ TuneApply(t) \/ TuneNote(t) \/ RebindTake(t)
    \/ InPlace(t) \/ Remove(t) \/ StopOld(t) \/ Spawn(t) \/ Insert(t)
    \/ AutoTake(t) \/ AutoSpawn(t) \/ AutoInsert(t)
    \/ ConnectFails(t) \/ SpawnFails(t)

Begin(t) ==
    \/ StartCheck(t) \/ StopRead(t)
    \/ \E s \in Slots : \E f \in Ncos : TuneRead(t, s, f)
    \/ \E s \in Slots : \E m \in Modes : SetVrxCheck(t, s, m)
    \/ SetVrxNone(t)
    \/ \E s \in Slots : SetVrxOff(t, s)
    \/ \E s \in Slots : \E muted \in BOOLEAN : SetVrxMute(t, s, muted)
    \/ \E s \in AutoSlots : AutoRead(t, s) \/ AutoOff(t, s)

Next == \E t \in Tasks : Begin(t) \/ Continue(t)

Spec == Init /\ [][Next]_vars

\* The runtime keeps polling every task, a thread that was told to stop does
\* so.
FairSpec == Spec /\ \A t \in Tasks : WF_vars(Continue(t))
-----------------------------------------------------------------------------
(* Properties under any interleaving.                                      *)

Quiescent == \A t \in Tasks : task[t] = Idle

Ids == 1..Len(vrxs)
Radios == 1..Len(radios)
Receivers == [slot : Slots, mode : Modes \union {AutoMode}, muted : BOOLEAN, running : BOOLEAN,
              ring : 1..ringCount, radio : Radios, nco : Ncos]
Handles == [rings : Maps(1..ringCount) \ {Empty}, reader : {"starter", "spectrum", "gone"}]

\* A receiver's ring and handle exist, and so do the receivers of the map.
StateOK ==
    /\ session = None \/ session \in Sessions(Radios, Ids)
    /\ lock \in Tasks \union {Free}
    /\ spectrum \in Radios \union {None}
    /\ radios \in Seq(Handles)
    /\ ringCount \in Nat
    /\ vrxs \in Seq(Receivers)
    /\ task = [t \in Tasks |-> task[t]]
    /\ intent \in [Slots -> BOOLEAN]
    /\ slipped \subseteq Slots
    /\ overlap \in BOOLEAN
    /\ commands \in 0..MaxCommands

\* Type correctness of the session, of everything it refers to, and of what is
\* remembered of it.
TypeOK ==
    /\ StateOK
    /\ overtaken \subseteq Tasks
    /\ stale \subseteq Slots

\* The pipelines that a task has in its hands.
Held(t) ==
    CASE task[t].pc \in {"drop", "abortjoin", "join", "autoinsert"} -> task[t].vrxs
      [] task[t].pc = "replace"                                     -> task[t].old
      [] task[t].pc = "insert"                                      -> {task[t].vrx}
      [] OTHER                                                      -> {}

MapEntries(i) == Cardinality({s \in DOMAIN Vrx : Vrx[s] = i}) + Cardinality({s \in DOMAIN Autos : i \in Autos[s]})

\* No pipeline leaks and none is stopped twice: whoever displaces, replaces
\* or races whom, a running receiver or decoder is in the session's maps or
\* in the hands of exactly one task that will insert or stop it, and the
\* maps show the clients only pipelines that run.
OneOwner ==
    \A i \in Ids :
        IF vrxs[i].running
        THEN Cardinality({t \in Tasks : i \in Held(t)}) + MapEntries(i) = 1
        ELSE MapEntries(i) = 0

\* "Rebuild only this slot's pipeline (other slots keep streaming)": a
\* command about one slot never takes a receiver of another slot out.
OtherSlotsUndisturbed ==
    [][\A t \in Tasks :
          task[t].pc \in {"take", "remove", "insert"} /\ task'[t] # task[t] =>
             \A s \in DOMAIN Vrx \ {task[t].slot} : s \in DOMAIN Vrx' /\ Vrx'[s] = Vrx[s]]_vars

\* Every command ends: nobody keeps the session's mutex, not even a task
\* that joins threads while it holds it.
CommandsFinish == \A t \in Tasks : task[t] # Idle ~> task[t] = Idle
-----------------------------------------------------------------------------
(* Properties of commands none of which overlapped another.                *)

Settled == Quiescent /\ ~overlap

\* A receiver on an active slot reads that slot's present ring, through
\* every order of tuning, closing, SetVrx before or after the first tune and
\* restarts; not so after a tune that failed or a re-anchoring of slot 1.
InSync ==
    Settled /\ Started =>
        \A s \in (DOMAIN Vrx \intersect DOMAIN radios[session.radio].rings) \ slipped :
            vrxs[Vrx[s]].ring = radios[session.radio].rings[s]

\* A receiver keeps the mute it was told when a Tune rebinds it.  A rebuild by
\* SetVrx starts it unmuted; the page tells it again.
MuteKept == Settled => \A s \in DOMAIN Vrx : vrxs[Vrx[s]].muted = intent[s]

\* Automatic decoders run for the NCO their slot has now: their offsets are
\* computed from it once and for all.  This holds while commands overlap, but
\* for a set that an AutoDecode computed before a Tune of its slot or a Start
\* and put into the map after it.  And without overlap they hear the slot's
\* ring.
AutoOnTuning ==
    /\ \A s \in DOMAIN Autos : \A i \in Autos[s] : s \in stale \/ vrxs[i].nco = session.tuning[s]
    /\ Settled /\ Started =>
          \A s \in DOMAIN Autos \ slipped : \A i \in Autos[s] :
              /\ vrxs[i].nco = session.tuning[s]
              /\ vrxs[i].ring = RingFor(radios[session.radio].rings, s)

\* Stop leaves no pipeline running.
StoppedIsQuiet == Settled /\ ~Started => \A i \in Ids : ~vrxs[i].running

\* The pump of the started session has its consumer, and no other pump has
\* one and so goes on driving a board.
PumpFollowsSession ==
    Settled => {k \in Radios : radios[k].reader # "gone"} = (IF Started THEN {session.radio} ELSE {})
-----------------------------------------------------------------------------
(* What a comment says and the code does not do.                           *)

\* rebind_vrx_on_activate: the hub sends the tunes, so it "can keep the vrx
\* in sync".
AlwaysInSync ==
    Settled /\ Started =>
        \A s \in DOMAIN Vrx \intersect DOMAIN radios[session.radio].rings :
            vrxs[Vrx[s]].ring = radios[session.radio].rings[s]
=============================================================================
