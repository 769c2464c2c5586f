---------------------------- MODULE MCClientSync ----------------------------
(* A small instance of ClientSync for TLC. *)
EXTENDS ClientSync

CONSTANTS c1

\* A hub that another client started with every slot tuned; one that is stopped
\* and one with slot 1 alone.
RunningHub == {Running(Slots)}
SmallHubs == {Stopped, Running({1})}
=============================================================================
