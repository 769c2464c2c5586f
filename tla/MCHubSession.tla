---------------------------- MODULE MCHubSession ----------------------------
(* Model-checking instances of HubSession.                                 *)
EXTENDS HubSession, TLC

CONSTANTS t1, t2

MCSlots == {1, 2}
MCTasks == {t1, t2}
MCNcos == {0, 10, 20}
MCTunings == {1 :> 10}
=============================================================================
