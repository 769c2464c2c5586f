---------------------------- MODULE MCHl2Control ----------------------------
(* Instances of Hl2Control for TLC: values for its constants.              *)
EXTENDS Hl2Control

CONSTANTS c1, c2, none

TwoClients == {c1, c2}
TwoSlots == {1, 2}
OneFreq == {7}
TwoGains == {20, 30}
TwoMasks == {0, 1}
=============================================================================
