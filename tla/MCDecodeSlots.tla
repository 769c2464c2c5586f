---------------------------- MODULE MCDecodeSlots ----------------------------
(* Model-checking instances of DecodeSlots.                                *)
EXTENDS DecodeSlots

MCNcos == {10, 20}
MCOffsets == {1, 2}
MCJumps == {-2, 1}
=============================================================================
