--------------------------- MODULE MCTeensyRadio ---------------------------
(* The knob may run into the lower end of the clamp, twice past it back. *)
EXTENDS TeensyRadio
=============================================================================
