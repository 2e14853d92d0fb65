------------------------------- MODULE MCWsq -------------------------------
(* Two thieves and an owner on a ring of two slots: six pushes go round    *)
(* the ring three times.                                                   *)
EXTENDS Wsq, TLC

CONSTANTS p1, p2

MCThieves == {p1, p2}
MCCap == 2
MCMaxPush == 6
Symmetry == Permutations(MCThieves)
=============================================================================
