--------------------------- MODULE ProgramMeaning ---------------------------
(***************************************************************************)
(* What the runs of Program mean: the parser's images of the sources       *)
(* (src/clang/parse/), the trees of sources, static terms and heaps, and   *)
(* what must hold between them.                                            *)
(***************************************************************************)
EXTENDS Program, Trees

Images == [p \in Programs |-> ParseProgram(p.defs, BankStart(0, p))]

\* The number of binders on the way to each static cell below l.
RECURSIVE LevelsBelow(_, _, _)
LevelsBelow(h, l, n) ==
  LET below(c) == LevelsBelow(h, c, n + Around(h[l], c))
  IN FoldSet(LAMBDA c, found : below(c) @@ found, l :> n, Cells(h[l]))

ImageLevels ==
  [p \in Programs |->
     LET s == Images[p]
     IN FoldSet(LAMBDA d, found : LevelsBelow(s.heap, s.book[d], 0) @@ found, <<>>, DOMAIN s.book)]

-----------------------------------------------------------------------------
\* What a word refers to: cells of its own, a side of a copied cell or a binder.
Ports(t) ==
  IF t.tag \in Dps \cup {"VAR"} THEN {<<t.tag, t.val>>} ELSE {<<"cell", l>> : l \in Cells(t)}
Follows(t) ==
  IF t.tag \in Dps \/ (t.tag = "VAR" /\ heap[t.val].sub) THEN {t.val} ELSE Cells(t)

RECURSIVE Reach(_, _)
Reach(found, new) ==
  IF new = {} THEN found
  ELSE Reach(found \cup new, (UNION {Follows(heap[l]) : l \in new}) \ (found \cup new))

\* Terms are linear: when no thread is inside wnf, each cell, each side of a
\* copy and each variable of the live term is held once, a lambda that was
\* applied or copied is dead, one that is marked as erased has no variable,
\* a cell that one copy left to the other is not held by both, and no cell is
\* still empty.
Quiet == exit \in {"running", "done"}
         /\ \A t \in Threads : pc[t] \in {"idle", "visit", "read", "below"}

Linear ==
  Quiet =>
    LET live == Reach({}, {root})
        held == [l \in live |-> Ports(heap[l])]
        ports == UNION {held[l] : l \in live}
    IN /\ MapThenSumSet(LAMBDA l : Cardinality(held[l]), live) = Cardinality(ports)
       /\ \A l \in live :
            LET t == heap[l]
            IN /\ t # Zero
               /\ t.tag = "LAM" => /\ ~ heap[t.val].sub
                                   /\ Erased(t) => <<"VAR", t.val>> \notin ports
               /\ t.tag = "DP0" /\ heap[t.val].sub => <<"DP1", t.val>> \notin ports

\* A program ends as it should, and its normal form means what it should: the
\* value that the interactions compute by sharing is the one that substituting
\* copies gives, whatever the threads did in which order.
ResultRight ==
  Ended => /\ exit = program.ends
           /\ exit = "done" =>
                HeapTree(heap, heap[root], 0, <<>>, <<>>) = Meaning(program.result)

\* Optimal sharing: the threads make together the interactions that one thread
\* makes (docs/theory/interaction_calculus.md), none of them twice.
SameWork ==
  exit = "done" => MapThenSumSet(LAMBDA t : itrs[t], Threads) = program.work

\* The parser makes of each definition a static term with the same meaning: the
\* variables resolve to their binders, through the levels that auto_dup moves.
\* No evaluation changes the static term.
Resolved ==
  exit # "running" =>
    \A d \in DOMAIN book :
      \E i \in DOMAIN program.defs :
        /\ program.defs[i][1] = d
        /\ BookTree(heap, heap[book[d]], 0, <<>>) = Meaning(program.defs[i][2])

\* Variables are affine (docs/hvm/core.md): a static term uses each variable,
\* and each side of a duplication, at most once.
RECURSIVE UsedOnce(_, _, _)
UsedOnce(h, t, depth) ==
  LET once(body, tip) == CountUses(h, body, tip) <= 1
      lvl == depth + 1
      inside(n) == \A l \in Cells(t) : UsedOnce(h, h[l], depth + n)
  IN CASE t.tag = "LAM" -> once(h[t.val], Tip("BJV", 0, lvl)) /\ inside(1)
       [] t.tag = "DUP" ->
            /\ \A side \in {"BJ0", "BJ1"} : once(h[t.val + 1], Tip(side, t.ext, lvl))
            /\ UsedOnce(h, h[t.val], depth) /\ UsedOnce(h, h[t.val + 1], lvl)
       [] OTHER -> inside(0)

Affine == exit # "running" => \A d \in DOMAIN book : UsedOnce(heap, heap[book[d]], 0)
=============================================================================
