------------------------------- MODULE MCWsFeed -------------------------------
(* Two pages, interchangeable: the properties and the actions treat them alike. *)
EXTENDS WsFeed, TLC

CONSTANTS p1, p2
Pages == {p1, p2}
Symmetry == Permutations(Pages)
=============================================================================
