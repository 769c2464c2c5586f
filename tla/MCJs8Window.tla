---------------------------- MODULE MCJs8Window ----------------------------
(* Model-checking instances of Js8Window; the unit is 120 samples, which   *)
(* divides every constant of the code.                                     *)
EXTENDS Js8Window, TLC

\* JS8 A, B, C and E: NTXDUR * 12000, NN * nsps, astart * 12000.
MCModes ==
    {[nmax |-> 1500, span |-> 1264, astart |-> 50],
     [nmax |-> 1000, span |-> 790, astart |-> 20],
     [nmax |-> 600, span |-> 395, astart |-> 10],
     [nmax |-> 3000, span |-> 2528, astart |-> 50]}

\* Polls 0.5 s apart, or with 0.3 s or half a second of decoding between them.
MCGaps == {50, 80, 100}

MCSymmetry == Permutations(Bins)

\* At 0 and 50 the symbols end in time; at 400 they straddle two cycles of
\* JS8 A, B and C and end just before the cycle of JS8 E.
MCPhases == {0, 50, 400}
=============================================================================
