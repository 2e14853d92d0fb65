----------------------------- MODULE BestFirst -----------------------------
(***************************************************************************)
(* What eval_collapse promises when one worker runs it                     *)
(* (src/clang/eval/collapse.c): a best-first search of a tree of terms.  A *)
(* superposition makes the key of its branches one worse, a priority       *)
(* wrapper one better; of the terms with the least key the oldest is next; *)
(* what is neither is printed at once, unless it is erased.                *)
(***************************************************************************)
EXTENDS Integers, Sequences

CONSTANTS Root, Kind, Kids,  \* the tree
          Keys               \* the number of keys; the last is that of all worse ones

VARIABLES todo,  \* todo[k]: the terms with key k, oldest first
          hand,  \* the term that is looked at and its key
          out    \* the lines printed

vars == <<todo, hand, out>>

None == [at |-> 0, key |-> 0]
Worse(k) == IF k + 1 < Keys THEN k + 1 ELSE Keys - 1
Better(k) == IF k > 0 THEN k - 1 ELSE k

Init ==
  /\ todo = [k \in 0..(Keys - 1) |-> IF k = 0 THEN <<Root>> ELSE <<>>]
  /\ hand = None /\ out = <<>>

Take(k) ==
  /\ hand = None
  /\ todo[k] # <<>> /\ \A j \in 0..(k - 1) : todo[j] = <<>>
  /\ todo' = [todo EXCEPT ![k] = Tail(@)]
  /\ hand' = [at |-> Head(todo[k]), key |-> k]
  /\ UNCHANGED out

Holds(kind) == hand # None /\ Kind[hand.at] = kind

Raise ==
  /\ Holds("INC")
  /\ hand' = [at |-> Kids[hand.at][1], key |-> Better(hand.key)]
  /\ UNCHANGED <<todo, out>>

Branch ==
  /\ Holds("SUP")
  /\ todo' = [todo EXCEPT ![Worse(hand.key)] = @ \o Kids[hand.at]]
  /\ hand' = None
  /\ UNCHANGED out

Drop ==
  /\ Holds("ERA")
  /\ hand' = None
  /\ UNCHANGED <<todo, out>>

Line ==
  /\ Holds("LEAF")
  /\ out' = Append(out, hand.at)
  /\ hand' = None
  /\ UNCHANGED todo

Next == (\E k \in 0..(Keys - 1) : Take(k)) \/ Raise \/ Branch \/ Drop \/ Line

Spec == Init /\ [][Next]_vars
=============================================================================
