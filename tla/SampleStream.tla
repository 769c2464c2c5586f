---------------------------- MODULE SampleStream ----------------------------
(***************************************************************************)
(* What hl2/src/receiver/baseband_ring.rs promises its readers, without a  *)
(* buffer: one writer appends to an endless stream of samples (the i-th    *)
(* sample ever pushed is the number i, counted from 0), the newest Cap     *)
(* samples are retained, and each reader walks the stream from its own     *)
(* cursor.  A read hands over a contiguous piece of the true stream that   *)
(* starts at the cursor, or, when the cursor has been lapped, hands over   *)
(* nothing and moves the cursor to the oldest retained sample.             *)
(***************************************************************************)
EXTENDS Integers, Sequences

CONSTANTS Cap,       \* samples retained
          MaxRead,   \* longest block one read may hand over
          Readers    \* reader threads

VARIABLES total,     \* samples appended so far
          running,   \* which readers are alive
          cursor,    \* next sample each reader wants
          block      \* the block each reader was last handed

vars == <<total, running, cursor, block>>

Oldest == IF total <= Cap THEN 0 ELSE total - Cap

Run(from, n) == [i \in 1..n |-> from + i - 1]

Init ==
    /\ total = 0
    /\ running = [r \in Readers |-> FALSE]
    /\ cursor = [r \in Readers |-> 0]
    /\ block = [r \in Readers |-> <<>>]

Appended ==
    /\ total' \in Nat
    /\ total' >= total
    /\ UNCHANGED <<running, cursor, block>>

Joined(r) ==
    /\ ~running[r]
    /\ running' = [running EXCEPT ![r] = TRUE]
    /\ cursor' = [cursor EXCEPT ![r] = 0]
    /\ block' = [block EXCEPT ![r] = <<>>]
    /\ UNCHANGED total

Left(r) ==
    /\ running[r]
    /\ running' = [running EXCEPT ![r] = FALSE]
    /\ UNCHANGED <<total, cursor, block>>

Lapped(r) ==
    /\ running[r]
    /\ cursor[r] < Oldest
    /\ cursor' = [cursor EXCEPT ![r] = Oldest]
    /\ UNCHANGED <<total, running, block>>

Delivered(r) ==
    /\ running[r]
    /\ cursor[r] >= Oldest
    /\ \E n \in 0..MaxRead :
          /\ cursor[r] + n <= total
          /\ n = 0 => cursor[r] = total
          /\ block' = [block EXCEPT ![r] = Run(cursor[r], n)]
          /\ cursor' = [cursor EXCEPT ![r] = @ + n]
    /\ UNCHANGED <<total, running>>

Next ==
    \/ Appended
    \/ \E r \in Readers : Joined(r) \/ Left(r) \/ Lapped(r) \/ Delivered(r)

Spec == Init /\ [][Next]_vars
=============================================================================
