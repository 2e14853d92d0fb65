------------------------------- MODULE MCCnf -------------------------------
(* Three workers.  In one scenario a worker collapses a term with          *)
(* superpositions of two labels at two depths, and the others help; in a   *)
(* second two workers collapse and help each other, and a field is erased; *)
(* the third lifts a priority wrapper, the fourth runs out of par_depth.   *)
(* In the fifth a term without superpositions forks at two depths, and its *)
(* result is plain; in the sixth this happens while another worker lifts a *)
(* superposition, each helping the other.                                  *)
EXTENDS CnfMeaning

Tree ==
  << <<"NODE", 2, 3>>, <<"LAM", 4>>, <<"NODE", 5, 10>>, <<"SUP", 7, 8>>,
     <<"SUP", 6, 7>>, <<"LEAF">>, <<"LEAF">>, <<"SUP", 6, 9>>, <<"ERA">>, <<"SUP", 6, 7>>,
     <<"NODE", 9, 7>>, <<"NODE", 6, 4>>,
     <<"LAM", 14>>, <<"INC", 12>>, <<"NODE", 7, 14>>,
     <<"LAM", 17>>, <<"NODE", 3, 11>>,
     <<"NODE", 6, 19>>, <<"NODE", 20, 7>>, <<"LAM", 6>> >>

MCLocs == DOMAIN Tree
MCKind == [l \in MCLocs |-> Tree[l][1]]
MCKids == [l \in MCLocs |-> Tail(Tree[l])]
MCLab == [l \in MCLocs |-> IF l = 5 THEN "B" ELSE "A"]

For(l0, l1) == [w \in Workers |-> CASE w = 0 -> l0 [] w = 1 -> l1 [] OTHER -> 0]
MCScenarios == {For(1, 0), For(11, 12), For(13, 0), For(16, 0), For(18, 0), For(19, 12)}
IncScenarios == {For(15, 0)}
=============================================================================
