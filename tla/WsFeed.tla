-------------------------------- MODULE WsFeed --------------------------------
(* The way from the hub to a page: one bounded broadcast channel for       *)
(* snapshots, spectrum and audio (hub.rs, fanout), a task per connection   *)
(* that forwards it (ws.rs, ws_route), a page that reads slowly, loses its *)
(* connection and comes back (app.rs, on_open, on_close, connect), and a   *)
(* server that restarts with its revision at zero.                         *)
(*                                                                         *)
(* A command is one step here: how commands interleave is ClientSync's     *)
(* subject, where no message is lost and no connection ends.               *)
EXTENDS Integers, Sequences

CONSTANTS
  Clients,    \* pages
  Cap,        \* capacity of the broadcast channel (256 in the code)
  WireCap,    \* bound: messages a connection holds on their way
  MaxRev,     \* bound: the revision up to which commands change the state
  MaxCrashes, \* bound: restarts of the server
  MaxCuts     \* bound: connections cut

ASSUME FeedAssumption ==
  /\ {Cap, WireCap} \subseteq Nat \ {0}
  /\ {MaxRev, MaxCrashes, MaxCuts} \subseteq Nat

VARIABLES
  hub,    \* [rev, val, discovers]: revision, state (0: stopped), commands to come
  ring,   \* what the channel retains, oldest first
  conn,   \* per client, the server's task: [pc, behind, snap]
  wire,   \* per client, messages sent and not handled
  page,   \* per client: [open, last, view], last the newest revision applied
  faults  \* [crashes, cuts] left
vars == <<hub, ring, conn, wire, page, faults>>

Off == [pc |-> "off", behind |-> 0, rev |-> 0, val |-> 0]
Snapshot == [kind |-> "state", rev |-> hub.rev, val |-> hub.val]
Frame == [kind |-> "frame", rev |-> 0, val |-> 0]
Unknown == -1

-----------------------------------------------------------------------------
(* The broadcast channel (tokio). *)

Last(seq, n) == IF Len(seq) <= n THEN seq ELSE SubSeq(seq, Len(seq) - n + 1, Len(seq))
(* A message enters; every subscriber is one further behind, and one that is *)
(* more than Cap behind has lost the oldest.                                 *)
Broadcast(m, cs) ==
  /\ ring' = Last(Append(ring, m), Cap)
  /\ conn' = [c \in Clients |->
       IF cs[c].pc \in {"welcome", "loop"} /\ cs[c].behind <= Cap
       THEN [cs[c] EXCEPT !.behind = @ + 1] ELSE cs[c]]

-----------------------------------------------------------------------------
(* The hub. *)

(* handle_cmd: a new revision, a new state, and a snapshot of it to all. *)
Command ==
  /\ hub.rev < MaxRev
  /\ hub' = [hub EXCEPT !.rev = @ + 1, !.val = hub.rev + 1]
  /\ Broadcast([kind |-> "state", rev |-> hub.rev + 1, val |-> hub.rev + 1], conn)
  /\ UNCHANGED <<wire, page, faults>>

(* The discover command a page sends when it opens changes no state. *)
Discover ==
  /\ hub.discovers > 0
  /\ hub' = [hub EXCEPT !.rev = @ + 1, !.discovers = @ - 1]
  /\ Broadcast([kind |-> "state", rev |-> hub.rev + 1, val |-> hub.val], conn)
  /\ UNCHANGED <<wire, page, faults>>

(* The spectrum task and the receivers broadcast as well. *)
Stream ==
  /\ hub.val > 0
  /\ Broadcast(Frame, conn)
  /\ UNCHANGED <<hub, wire, page, faults>>

(* run_levels repeats the snapshot while a meter moves. *)
Levels ==
  /\ hub.val > 0
  /\ Broadcast(Snapshot, conn)
  /\ UNCHANGED <<hub, wire, page, faults>>

-----------------------------------------------------------------------------
(* A connection's task, ws_route. *)

(* It subscribes before it takes the welcome's snapshot ... *)
Subscribe(c) ==
  /\ conn[c].pc = "accepted"
  /\ conn' = [conn EXCEPT ![c] = [pc |-> "welcome", behind |-> 0, rev |-> hub.rev, val |-> hub.val]]
  /\ UNCHANGED <<hub, ring, wire, page, faults>>

(* ... and broadcasts that to everyone, a command or two later perhaps. *)
Welcome(c) ==
  /\ conn[c].pc = "welcome"
  /\ Broadcast([kind |-> "state", rev |-> conn[c].rev, val |-> conn[c].val],
               [conn EXCEPT ![c].pc = "loop", ![c].rev = 0, ![c].val = 0])
  /\ UNCHANGED <<hub, wire, page, faults>>

(* The next message it has not forwarded, once the connection takes it. *)
Forward(c) ==
  LET n == conn[c].behind IN
  /\ conn[c].pc = "loop" /\ n \in 1..Cap
  /\ Len(wire[c]) < WireCap
  /\ wire' = [wire EXCEPT ![c] = Append(@, ring[Len(ring) - n + 1])]
  /\ conn' = [conn EXCEPT ![c].behind = @ - 1]
  /\ UNCHANGED <<hub, ring, page, faults>>

(* RecvError::Lagged: go on with the oldest message there is. *)
Lagged(c) ==
  /\ conn[c].pc = "loop" /\ conn[c].behind > Cap
  /\ conn' = [conn EXCEPT ![c].behind = Cap]
  /\ UNCHANGED <<hub, ring, wire, page, faults>>

-----------------------------------------------------------------------------
(* The page. *)

\* Mutant of OnOpen: the newest revision seen is kept.
OnOpenKeepMark(c) == [page[c] EXCEPT !.open = TRUE]

(* A fresh connection forgets the newest revision seen ... *)
OnOpen(c) == [page[c] EXCEPT !.open = TRUE, !.last = 0]

(* ... and asks for the devices; the page connects 3 s after it lost the last *)
(* connection, and again if that fails.                                       *)
Connect(c) ==
  /\ ~page[c].open
  /\ page' = [page EXCEPT ![c] = OnOpen(c)]
  /\ conn' = [conn EXCEPT ![c] = [Off EXCEPT !.pc = "accepted"]]
  /\ hub' = [hub EXCEPT !.discovers = @ + 1]
  /\ UNCHANGED <<ring, wire, faults>>

(* on_text applies a snapshot that is not older than the last; a frame is *)
(* drawn or played.                                                       *)
OnMessage(c) ==
  LET m == Head(wire[c]) IN
  /\ page[c].open /\ wire[c] # <<>>
  /\ wire' = [wire EXCEPT ![c] = Tail(@)]
  /\ page' = IF m.kind = "state" /\ m.rev >= page[c].last
             THEN [page EXCEPT ![c].last = m.rev, ![c].view = m.val] ELSE page
  /\ UNCHANGED <<hub, ring, conn, faults>>

(* A connection breaks: what was on it is gone and its task ends. *)
Cut(c) ==
  /\ faults.cuts > 0 /\ page[c].open
  /\ faults' = [faults EXCEPT !.cuts = @ - 1]
  /\ page' = [page EXCEPT ![c].open = FALSE]
  /\ conn' = [conn EXCEPT ![c] = Off]
  /\ wire' = [wire EXCEPT ![c] = <<>>]
  /\ UNCHANGED <<hub, ring>>

(* The server restarts: nothing of it is kept, its revision included. *)
Restart ==
  /\ faults.crashes > 0
  /\ faults' = [faults EXCEPT !.crashes = @ - 1]
  /\ hub' = [rev |-> 0, val |-> 0, discovers |-> 0]
  /\ ring' = <<>>
  /\ conn' = [c \in Clients |-> Off]
  /\ wire' = [c \in Clients |-> <<>>]
  /\ page' = [c \in Clients |-> [page[c] EXCEPT !.open = FALSE]]

-----------------------------------------------------------------------------
Init ==
  /\ hub = [rev |-> 0, val |-> 0, discovers |-> 0]
  /\ ring = <<>>
  /\ conn = [c \in Clients |-> Off]
  /\ wire = [c \in Clients |-> <<>>]
  /\ page = [c \in Clients |-> [open |-> FALSE, last |-> 0, view |-> Unknown]]
  /\ faults = [crashes |-> MaxCrashes, cuts |-> MaxCuts]

Server == Command \/ Discover \/ Stream \/ Levels \/ Restart

Next == \/ Server
        \/ \E c \in Clients : \/ Subscribe(c) \/ Welcome(c) \/ Forward(c) \/ Lagged(c)
                              \/ Connect(c) \/ OnMessage(c) \/ Cut(c)

Spec == Init /\ [][Next]_vars

-----------------------------------------------------------------------------
(* LastWordArrives: a page that has handled all that was sent to it shows the *)
(* hub's state, through slow reading, reconnects and restarts, as long as the *)
(* channel still retains a snapshot of that state: only Cap messages or more  *)
(* after the last snapshot can cost a lagging page the last word.             *)
LastWordArrives ==
  \A c \in Clients :
    /\ page[c].open /\ conn[c].pc = "loop" /\ conn[c].behind = 0 /\ wire[c] = <<>>
    /\ \E i \in DOMAIN ring : ring[i].kind = "state" /\ ring[i].val = hub.val
    => page[c].view = hub.val
=============================================================================
