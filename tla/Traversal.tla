----------------------------- MODULE Traversal -----------------------------
(***************************************************************************)
(* What eval_normalize promises (src/clang/eval/normalize.c): every heap   *)
(* location the result reaches is evaluated, each one once and only after  *)
(* its parent, and the evaluator returns when none is left.                *)
(***************************************************************************)
EXTENDS Naturals, Sequences, Functions

CONSTANTS Root,     \* the location of the term to normalize
          Kids      \* Kids[l]: the locations under the value of location l

VARIABLES done,     \* the locations whose value was computed
          halted    \* a worker saw the end

vars == <<done, halted>>

Under(l) == Range(Kids[l]) \ {0}
Due == {Root} \cup UNION {Under(l) : l \in done}

Init == done = {} /\ halted = FALSE

Evaluate ==
  /\ ~halted
  /\ \E l \in Due \ done : done' = done \cup {l}
  /\ UNCHANGED halted

Halt ==
  /\ Due \subseteq done
  /\ halted' = TRUE
  /\ UNCHANGED done

Next == Evaluate \/ Halt

Spec == Init /\ [][Next]_vars
=============================================================================
