---------------------------- MODULE MCNormalize ----------------------------
(* Three workers with deques of two slots, on a heap in which a node has   *)
(* four arms, so that a deque fills and a location is visited in line, and *)
(* the cell 5 (a duplication) is under two others.                         *)
EXTENDS Normalize

MCLocs == 1..5
MCKids == [l \in MCLocs |->
             CASE l = 1 -> <<2, 3, 4, 5>>
               [] l = 3 -> <<0, 5>>
               [] OTHER -> <<>>]
=============================================================================
