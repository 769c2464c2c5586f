----------------------------- MODULE ClientSync -----------------------------
(***************************************************************************)
(* Shared state between the hub and its browser clients: the revision that *)
(* stamps every snapshot (RadioHub::handle_cmd, snapshot), the broadcast   *)
(* channel that carries them, and what a client does with one (ui/app.rs,  *)
(* on_text): drop it if it is stale, else mirror it and reconcile, that is *)
(* send the commands that lead from what the server runs to what its own   *)
(* operator wants.                                                         *)
(*                                                                         *)
(* A command is a task of its own on the server and a step of it is what   *)
(* it does between two awaits.  The runtime has several worker threads, so *)
(* another task may run between a task's reading of a snapshot and its     *)
(* sending that.  HubSession has the receivers' threads and rings; here a  *)
(* receiver is off, muted or live.                                         *)
(*                                                                         *)
(* A command that can fail (Start, Tune, SetVrx, a gain) takes a snapshot  *)
(* before its work and answers with that if it does: an answer may tell    *)
(* what others have made untrue since, or what it has itself.              *)
(*                                                                         *)
(* A stamp is kept as its age, the number of commands begun since it was   *)
(* loaded: state_at >= last_state_at iff age(state_at) <= age(last).       *)
(***************************************************************************)
EXTENDS Integers, Sequences, FiniteSets, BagsExt, Functions, Bags

CONSTANTS Browsers,      \* browser tabs
          Slots,         \* receiver slots, slot 1 among them
          Hubs,          \* the states of the hub that a client may find
          MaxTasks,      \* bound: tasks of the server in progress
          MaxChan,       \* bound: messages on their way to a client
          MaxAge,        \* bound: age of a stamp that is still in flight
          MaxActs        \* bound: what the operators and others do in a behaviour

Receiver == {"off", "muted", "live"}

HubStates == [started : BOOLEAN, active : SUBSET Slots, tuned : SUBSET Slots, vrx : [Slots -> Receiver]]

Sizes ==
    /\ 1 \in Slots
    /\ Hubs \subseteq HubStates
    /\ {MaxTasks, MaxChan, MaxAge, MaxActs} \subseteq Nat

ASSUME SyncAssumption == Sizes

VARIABLES
    radio,   \* started, the fan-out's active slots, the tuning map, the receivers
    tasks,   \* the bag of tasks in progress on the server
    chan,    \* per client: snapshots broadcast and not yet handled
    ui,      \* per client: its mirror of the hub and its operator's wishes
    since,   \* history: commands begun since what a page shows of the hub changed
    untold,  \* history: that last change may be hidden from the pages
    acts     \* counter of a bound

history == <<since, untold>>
syncvars == <<radio, tasks, chan, ui, history, acts>>

AllOff == [s \in Slots |-> "off"]
Sound(muted) == IF muted THEN "muted" ELSE "live"

\* SharedState as Session::shared_state builds it; a message is one with its stamp.
Shared == [started |-> radio.started, tuned |-> radio.tuned, vrx |-> radio.vrx]

\* What a page shows of the hub, of a snapshot or of its mirror.
Picture(x) == <<x.started, x.vrx>>

-----------------------------------------------------------------------------
(* What a client wants and sends.                                          *)

ClientCmd(op, s, sound) == [op |-> op, slot |-> s, sound |-> sound, pc |-> "sent"]

\* The active tab is spawned; another tab only while it is unmuted.
Desired(u, s) ==
    CASE ~u.started                     -> "off"
      [] u.started /\ u.slot = s        -> Sound(u.muted[s])
      [] u.started /\ u.slot # s        -> IF u.muted[s] THEN "off" ELSE "live"

RepairsPresence(u, s) ==
    LET want == Desired(u, s)
        have == u.vrx[s]
    IN  CASE want = "off" /\ have # "off"   -> {ClientCmd("off", s, "off")}
          [] want # "off" /\ have = "off"   -> {ClientCmd("setvrx", s, "live"), ClientCmd("mute", s, want)}
          [] OTHER                          -> {}

\* The commands that one slot needs; SetVrx carries no mute.
Repairs(u, s) ==
    LET want == Desired(u, s)
        have == u.vrx[s]
    IN  CASE want = have                    -> {}
          [] want = "off" /\ have # "off"   -> {ClientCmd("off", s, "off")}
          [] want # "off" /\ have = "off"   -> {ClientCmd("setvrx", s, "live"), ClientCmd("mute", s, want)}
          [] OTHER                          -> {ClientCmd("mute", s, want)}

Reconcile(u) == UNION {Repairs(u, s) : s \in Slots}

\* Each text message is spawned as a task of the server.
Send(commands) ==
    /\ BagCardinality(tasks) + Cardinality(commands) <= MaxTasks
    /\ tasks' = tasks (+) SetToBag(commands)

-----------------------------------------------------------------------------
(* The operators.                                                          *)

Act ==
    /\ acts < MaxActs
    /\ acts' = acts + 1
    /\ UNCHANGED <<radio, chan, history>>

\* The EP4 tab shows the raw band and leaves the panel on slot 1.
Ep4 == 0
PanelSlotRaw(tab) == tab
PanelSlot(tab) == IF tab = Ep4 THEN 1 ELSE tab

\* The operator selects a tab.
SelectTab(c, tab) ==
    LET u == [ui[c] EXCEPT !.slot = PanelSlot(tab)]
    IN  /\ Act
        /\ ui' = [ui EXCEPT ![c] = u]
        /\ Send(Reconcile(u))

\* The mute button sends the mute itself and then reconciles.
ToggleMute(c) ==
    LET s == ui[c].slot
        u == [ui[c] EXCEPT !.muted[s] = ~@]
    IN  /\ Act
        /\ ui[c].vrx[s] # "off"
        /\ ui' = [ui EXCEPT ![c] = u]
        /\ BagCardinality(tasks) + 1 + Cardinality(Reconcile(u)) <= MaxTasks
        /\ tasks' = tasks (+) SetToBag({ClientCmd("mute", s, Sound(u.muted[s]))}) (+) SetToBag(Reconcile(u))

\* The switch shows what was clicked until a snapshot says otherwise.
Switch(c, on) ==
    /\ Act
    /\ ui[c].started # on
    /\ ui' = [ui EXCEPT ![c].started = on, ![c].local = on]
    /\ Send({ClientCmd(IF on THEN "start" ELSE "stop", 1, "off")})

\* The frequency stepper tunes the tab's slot.
Step(c) ==
    /\ Act
    /\ ui[c].started
    /\ Send({ClientCmd("tune", ui[c].slot, "off")})
    /\ UNCHANGED ui

\* Mutant of Fresh: the page applies every snapshot.
FreshAlways(m, u) == TRUE

\* on_text applies a snapshot unless it holds a newer one.
Fresh(m, u) == m.age <= u.last

\* A snapshot reaches the page.  The edge tunes slot 1 once per local start.
OnText(c) ==
    /\ chan[c] # <<>>
    /\ chan' = [chan EXCEPT ![c] = Tail(@)]
    /\ LET m == Head(chan[c])
           edge == ~ui[c].prev /\ m.state.started /\ ui[c].local
           u == [ui[c] EXCEPT !.last = m.age, !.prev = m.state.started, !.started = m.state.started,
                              !.local = @ /\ ~edge, !.vrx = m.state.vrx]
       IN  IF Fresh(m, ui[c])
           THEN /\ ui' = [ui EXCEPT ![c] = u]
                /\ Send(Reconcile(u) \union IF edge /\ 1 \notin m.state.tuned THEN {ClientCmd("tune", 1, "off")} ELSE {})
           ELSE UNCHANGED <<ui, tasks>>
    /\ UNCHANGED <<radio, history, acts>>

-----------------------------------------------------------------------------
(* The hub: the steps of a command.                                        *)

At(t, pc) ==
    /\ t.pc = pc
    /\ UNCHANGED acts

\* Task t goes on as u.  A step that changes what pages show has an answer to
\* come that tells them.
Goto(t, u) ==
    /\ tasks' = BagAdd(BagRemove(tasks, t), u)
    /\ IF Picture(radio') = Picture(radio) THEN UNCHANGED history ELSE since' = 0 /\ untold' = FALSE

GotoPc(t, pc) == Goto(t, [t EXCEPT !.pc = pc])

\* snapshot() loads the stamp before it waits for the mutex.
Respond(t) == Goto(t, [pc |-> "read", age |-> 0])

\* The snapshot has been read; it is sent when the mutex is released.
Answer(t, age, state) == Goto(t, [pc |-> "send", age |-> age, state |-> state])

\* The error answer has the snapshot that was taken first.
Fail(t) == Answer(t, t.age, t.state)

\* No client lags so far that the channel drops a message.
BroadcastState(t, m) ==
    /\ \A c \in Browsers : Len(chan[c]) < MaxChan
    /\ chan' = [c \in Browsers |-> Append(chan[c], m)]
    /\ tasks' = BagRemove(tasks, t)

\* What holds a stamp: a task that loaded one, a message.
Holds(t) == "age" \in DOMAIN t
Aged(t) == IF Holds(t) THEN [t EXCEPT !.age = @ + 1] ELSE t
Younger(t) == IF Holds(t) THEN [t EXCEPT !.age = @ - 1] ELSE t
AgedTasks(bag) == [u \in {Aged(t) : t \in BagToSet(bag)} |-> bag[Younger(u)]]
Stamps == {t \in BagToSet(tasks) : Holds(t)} \union UNION {Range(chan[c]) : c \in Browsers}

\* The revision is bumped before the command is looked at.  SetVrx loads the
\* stamp of its first snapshot then.
Begin(t) ==
    /\ At(t, "sent")
    /\ \A x \in Stamps : x.age < MaxAge
    /\ tasks' = BagAdd(AgedTasks(BagRemove(tasks, t)),
                       CASE t.op = "setvrx" -> [pc |-> "state0", op |-> "setvrx", slot |-> t.slot, age |-> 0]
                         [] t.op = "other"  -> [pc |-> "read", age |-> 0]
                         [] OTHER           -> [t EXCEPT !.pc = t.op])
    /\ chan' = [c \in Browsers |-> [i \in DOMAIN chan[c] |-> Aged(chan[c][i])]]
    /\ ui' = [c \in Browsers |-> [ui[c] EXCEPT !.last = IF @ = MaxAge THEN @ ELSE @ + 1]]
    /\ since' = IF since = MaxAge THEN since ELSE since + 1
    /\ UNCHANGED <<radio, untold>>

\* snapshot() reads the session under its mutex.
Read(t) ==
    /\ At(t, "read")
    /\ UNCHANGED <<radio, chan, ui>>
    /\ Answer(t, t.age, Shared)

\* The broadcast.  It hides the last change of the hub if it tells what was
\* before that under a stamp that is no older than the change.
Sent(t) ==
    /\ At(t, "send")
    /\ BroadcastState(t, [age |-> t.age, state |-> t.state])
    /\ untold' = (untold \/ (Picture(t.state) # Picture(radio) /\ t.age <= since))
    /\ UNCHANGED <<radio, ui, since>>

\* Start, Tune and the gain look at whether the radio is started.
StartCheck(t) ==
    /\ At(t, "start")
    /\ UNCHANGED <<radio, chan, ui>>
    /\ IF radio.started
       THEN Answer(t, 0, Shared)
       ELSE Goto(t, [pc |-> "state0", op |-> "start", slot |-> t.slot, age |-> 0])

RadioCheck(t) ==
    /\ \E op \in {"tune", "gain"} : At(t, op)
    /\ UNCHANGED <<radio, chan, ui>>
    /\ IF radio.started THEN Goto(t, [pc |-> "state0", op |-> t.pc, slot |-> t.slot, age |-> 0]) ELSE Respond(t)

\* The snapshot they take first.  SetVrx looks at that; Tune asks the fan-out
\* whether it activates the slot.
Work(t) ==
    CASE t.op = "start"  -> "connect"
      [] t.op = "gain"   -> "lna"
      [] t.op = "tune"   -> IF t.slot \in radio.active THEN "apply" ELSE "activate"
      [] t.op = "setvrx" -> IF radio.started THEN "inplace" ELSE "send"

Snapshot0(t) ==
    /\ At(t, "state0")
    /\ UNCHANGED <<radio, chan, ui>>
    /\ IF Work(t) = "send"
       THEN Answer(t, t.age, Shared)
       ELSE Goto(t, [pc |-> Work(t), slot |-> t.slot, age |-> t.age, state |-> Shared])

\* A receiver on an active slot is retuned in place, which changes nothing here.
InPlace(t) ==
    /\ At(t, "inplace")
    /\ UNCHANGED <<radio, chan, ui>>
    /\ IF t.slot \in radio.active /\ radio.vrx[t.slot] # "off" THEN Respond(t) ELSE GotoPc(t, "remove")

\* A receiver is rebuilt outside the map.
Remove(t) ==
    /\ At(t, "remove")
    /\ radio' = [radio EXCEPT !.vrx[t.slot] = "off"]
    /\ GotoPc(t, IF radio.vrx[t.slot] = "off" THEN "spawn" ELSE "respawn")
    /\ UNCHANGED <<chan, ui>>

\* It comes back live.
Spawn(t) ==
    /\ \E pc \in {"spawn", "respawn"} : At(t, pc)
    /\ radio' = [radio EXCEPT !.vrx[t.slot] = "live"]
    /\ Respond(t)
    /\ UNCHANGED <<chan, ui>>

\* Or the demodulator refuses its settings.  A receiver that was removed for it
\* is in the snapshot which is the answer.
SpawnFails(t) ==
    /\ \E pc \in {"spawn", "respawn"} : At(t, pc)
    /\ tasks' = BagAdd(BagRemove(tasks, t), [pc |-> "send", age |-> t.age, state |-> t.state])
    /\ untold' = (untold \/ t.pc = "respawn")
    /\ UNCHANGED <<radio, chan, ui, since>>

SetVrxMute(t) ==
    /\ At(t, "mute")
    /\ radio' = IF radio.vrx[t.slot] = "off" THEN radio ELSE [radio EXCEPT !.vrx[t.slot] = t.sound]
    /\ Respond(t)
    /\ UNCHANGED <<chan, ui>>

SetVrxOff(t) ==
    /\ At(t, "off")
    /\ radio' = [radio EXCEPT !.vrx[t.slot] = "off"]
    /\ Respond(t)
    /\ UNCHANGED <<chan, ui>>

\* A tune that activates the slot rebinds its receiver, which keeps its mute.
TuneApply(t) ==
    /\ \E pc \in {"apply", "activate"} : At(t, pc)
    /\ radio' = [radio EXCEPT !.active = @ \union {t.slot}, !.tuned = @ \union {t.slot}]
    /\ IF t.pc = "apply" THEN Respond(t) ELSE Goto(t, [pc |-> "rebind", slot |-> t.slot])
    /\ UNCHANGED <<chan, ui>>

\* A tune whose frame cannot be sent has registered the slot.
TuneFails(t) ==
    /\ \E pc \in {"apply", "activate"} : At(t, pc)
    /\ radio' = [radio EXCEPT !.active = @ \union {t.slot}]
    /\ Fail(t)
    /\ UNCHANGED <<chan, ui>>

Rebind(t) ==
    /\ At(t, "rebind")
    /\ radio' = [radio EXCEPT !.vrx[t.slot] = "off"]
    /\ IF radio.vrx[t.slot] = "off"
       THEN Respond(t)
       ELSE Goto(t, [pc |-> "insert", slot |-> t.slot, sound |-> radio.vrx[t.slot]])
    /\ UNCHANGED <<chan, ui>>

\* It fails without a word, and the answer shows that it did.
Insert(t) ==
    /\ At(t, "insert")
    /\ \E sound \in {t.sound, "off"} :
          radio' = IF sound = "off" THEN radio ELSE [radio EXCEPT !.vrx[t.slot] = sound]
    /\ Respond(t)
    /\ UNCHANGED <<chan, ui>>

GainWorks(t) ==
    /\ At(t, "lna")
    /\ UNCHANGED <<radio, chan, ui>>
    /\ Respond(t)

ConnectWorks(t) ==
    /\ At(t, "connect")
    /\ radio' = [started |-> TRUE, active |-> {1}, tuned |-> {}, vrx |-> AllOff]
    /\ Respond(t)
    /\ UNCHANGED <<chan, ui>>

\* No radio answers, or the gain cannot be sent.
SettingFails(t) ==
    /\ \E pc \in {"connect", "lna"} : At(t, pc)
    /\ UNCHANGED <<radio, chan, ui>>
    /\ Fail(t)

StopCheck(t) ==
    /\ At(t, "stop")
    /\ UNCHANGED <<radio, chan, ui>>
    /\ IF radio.started THEN GotoPc(t, "halt") ELSE Respond(t)

StopMark(t) ==
    /\ At(t, "halt")
    /\ radio' = [radio EXCEPT !.started = FALSE, !.vrx = AllOff]
    /\ Respond(t)
    /\ UNCHANGED <<chan, ui>>

\* run_levels and push_welcome broadcast a snapshot that no command asked for.
PushWelcome ==
    /\ Act
    /\ Send({[pc |-> "read", age |-> 0]})
    /\ UNCHANGED ui

\* A command about something else: the gain, or state, discovery, relays and
\* the spectrum, which cannot fail.
Other ==
    /\ Act
    /\ \E op \in {"other", "gain"} : Send({ClientCmd(op, 1, "off")})
    /\ UNCHANGED ui

-----------------------------------------------------------------------------
\* A hub that is stopped, and one that another client started and tuned.
Stopped == [started |-> FALSE, active |-> {}, tuned |-> {}, vrx |-> AllOff]
Running(A) == [started |-> TRUE, active |-> A \union {1}, tuned |-> A, vrx |-> AllOff]

\* The clients have just connected: a welcome is on its way.
SyncInit ==
    /\ radio \in Hubs
    /\ tasks = SetToBag({[pc |-> "read", age |-> 0]})
    /\ chan = [c \in Browsers |-> <<>>]
    /\ ui = [c \in Browsers |-> [last |-> MaxAge, started |-> FALSE, prev |-> FALSE, local |-> FALSE,
                               vrx |-> AllOff, slot |-> 1, muted |-> [s \in Slots |-> TRUE]]]
    /\ since = MaxAge
    /\ untold = FALSE
    /\ acts = 0

Operator(c) ==
    \/ \E tab \in Slots \union {Ep4} : SelectTab(c, tab)
    \/ ToggleMute(c)
    \/ \E on \in BOOLEAN : Switch(c, on)
    \/ Step(c)

Serve(t) ==
    \/ Begin(t) \/ Read(t) \/ Sent(t) \/ StartCheck(t) \/ RadioCheck(t) \/ Snapshot0(t)
    \/ InPlace(t) \/ Remove(t) \/ Spawn(t) \/ SpawnFails(t) \/ SetVrxMute(t) \/ SetVrxOff(t)
    \/ TuneApply(t) \/ TuneFails(t) \/ Rebind(t) \/ Insert(t)
    \/ GainWorks(t) \/ ConnectWorks(t) \/ SettingFails(t) \/ StopCheck(t) \/ StopMark(t)

Runtime == \E t \in BagToSet(tasks) : Serve(t)

SyncNext ==
    \/ \E c \in Browsers : Operator(c) \/ OnText(c)
    \/ Runtime
    \/ PushWelcome
    \/ Other

SyncSpec == SyncInit /\ [][SyncNext]_syncvars

FairSpec == SyncSpec /\ WF_syncvars(Runtime) /\ \A c \in Browsers : SF_syncvars(OnText(c))

-----------------------------------------------------------------------------
State == [started : BOOLEAN, tuned : SUBSET Slots, vrx : [Slots -> Receiver]]

\* Type invariant.
TypeOK ==
    /\ radio \in HubStates
    /\ IsABag(tasks)
    /\ \A x \in Stamps : x.age \in 0..MaxAge
    /\ since \in 0..MaxAge
    /\ untold \in BOOLEAN
    /\ \A c \in Browsers : \A i \in DOMAIN chan[c] : chan[c][i].state \in State
    /\ ui \in [Browsers -> [last : 0..MaxAge, started : BOOLEAN, prev : BOOLEAN, local : BOOLEAN,
                           vrx : [Slots -> Receiver], slot : Slots, muted : [Slots -> BOOLEAN]]]

Quiet == tasks = EmptyBag /\ \A c \in Browsers : chan[c] = <<>>

\* Stamps never cost a client the last word: in whatever order snapshots were
\* stamped, read, sent and discarded, when nothing is in flight every page
\* shows the receivers and the started flag that the hub has, with two
\* exceptions since the hub's last change.  A snapshot read before the change
\* was sent after it under a stamp as new as the change: one that was taken
\* while the command that brought the change was under way.  Older ones, the
\* outdated answers of failed commands among them, do no harm.  Or a rebuild
\* failed after it had removed the receiver.
LastWord == Quiet /\ ~untold => \A c \in Browsers : Picture(ui[c]) = Picture(radio)

\* Reconciliation never gives up too early: when nothing is in flight, every
\* page shows the receivers that its operator wants, muted as wanted, whichever
\* commands have failed.
ShownAsWanted == Quiet => \A c \in Browsers : \A s \in Slots : ui[c].vrx[s] = Desired(ui[c], s)

\* The claim of the code (hub.rs, snapshot: "strictly-newer state than any
\* earlier command's response"): no page is ever left with an outdated picture.
ViewConverges == Quiet => \A c \in Browsers : Picture(ui[c]) = Picture(radio)

\* The hub runs exactly what the operators want.
Settled == Quiet /\ \A c \in Browsers : \A s \in Slots : radio.vrx[s] = Desired(ui[c], s)

\* Reconciliation ends: a client that is left alone stops sending commands.
Settles == <>[]Settled
=============================================================================
