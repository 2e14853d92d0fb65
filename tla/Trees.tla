------------------------------- MODULE Trees --------------------------------
(***************************************************************************)
(* The meaning of a term as a tree, read from three places: the source by  *)
(* lexical scoping, the static term that the parser made of it, and the    *)
(* heap after normalization.  A tree has no duplications: a copy stands    *)
(* for the value it copies, marked with its label and side unless the      *)
(* parser chose the label.  A variable is the number of lambdas around its *)
(* own.                                                                    *)
(***************************************************************************)
EXTENDS Parse

Tree(tag, ext, kids) == <<tag, ext, kids>>
Leaf(word) == Tree(word.tag, word.ext + word.val, <<>>)
VarTree(depth) == Tree("VAR", depth, <<>>)
Outside == Tree("OUTSIDE", 0, <<>>)    \* a variable outside its lambda
Copy(lab, side, tree) ==
  IF lab \in AutoLab..(DynLab - 1) THEN tree ELSE Tree("COPY", 2 * lab + side, <<tree>>)
Under(n, tree) ==
  LET nest[i \in 0..n] == IF i = 0 THEN tree ELSE Tree("LAM", 0, <<nest[i - 1]>>) IN nest[n]

-----------------------------------------------------------------------------
(* The source.                                                             *)

\* What a name stands for: one tree, or one for each side of a duplication.
One(x, depth) == [x |-> x, dup |-> FALSE, forked |-> FALSE, ends |-> <<VarTree(depth)>>]
Two(x, forked, end0, end1) == [x |-> x, dup |-> TRUE, forked |-> forked, ends |-> <<end0, end1>>]
Static(x, forked, lab, tree) == Two(x, forked, Copy(lab, 0, tree), Copy(lab, 1, tree))
Pick(x, forked, depth) == Two(x, forked, VarTree(depth), VarTree(depth + 1))
UserLab(lab) == IF lab = Auto THEN AutoLab ELSE lab

RECURSIVE SourceTree(_, _, _, _)
SourceTree(e, depth, env, branch) ==
  LET in(t, d, new) == SourceTree(t, depth + d, env \o new, branch)
      tree(t) == in(t, 0, <<>>)
      ddu(lab, val, body) == Tree("DDU", 0, <<lab, val, Under(2, body)>>)
  IN CASE e.is = "atom" -> Leaf(e.word)
       [] e.is = "none" -> Leaf(Num(0))
       [] e.is = "var" ->
            LET fits(b) == b.x = e.x /\ (b.dup = (e.side # -1) \/ b.forked)
                b == env[SelectLastInSeq(env, fits)]
            IN b.ends[IF ~ b.dup THEN 1 ELSE 1 + (IF e.side = -1 THEN branch ELSE e.side)]
       [] e.is = "form" -> Tree(e.tag, e.ext, [i \in DOMAIN e.parts |-> tree(e.parts[i])])
       [] e.is = "match" -> Tree(e.tag, e.ext, <<tree(e.val), tree(e.rest)>>)
       [] e.is = "lam" -> Under(1, in(e.body, 1, <<One(e.x, depth)>>))
       [] e.is = "lam dup" ->
            Under(1, in(e.body, 1, <<Static(e.x, FALSE, UserLab(e.lab), VarTree(depth))>>))
       [] e.is = "lam dyn" ->
            Under(1, ddu(in(e.lab, 1, <<>>), VarTree(depth),
                         in(e.body, 3, <<Pick(e.x, FALSE, depth + 1)>>)))
       [] e.is = "lam uns" ->
            Tree("UNS", 0, <<Under(2, Tree("APP", 0,
              <<VarTree(depth), in(e.body, 2, <<One(e.x, depth + 1)>>)>>))>>)
       [] e.is = "let uns" ->
            Tree("UNS", 0, <<Under(2, in(e.body, 2, <<One(e.f, depth), One(e.x, depth + 1)>>))>>)
       [] e.is = "let" ->
            LET lam == Under(1, in(e.body, 1, <<One(e.x, depth)>>))
            IN Tree("APP", 0, <<IF e.strict THEN Tree("USE", 0, <<lam>>) ELSE lam, tree(e.val)>>)
       [] e.is = "dup" -> in(e.body, 0, <<Static(e.x, FALSE, UserLab(e.lab), tree(e.val))>>)
       [] e.is = "dup dyn" ->
            ddu(tree(e.lab), tree(e.val), in(e.body, 2, <<Pick(e.x, FALSE, depth)>>))
       [] e.is = "fork" ->
            LET n == Len(e.xs)
                new == [i \in 1..n |-> Static(e.xs[i], TRUE, e.lab, VarTree(depth + i - 1))]
                branches == <<SourceTree(e.left, depth + n, env \o new, 0),
                              SourceTree(e.right, depth + n, env \o new, 1)>>
            IN Under(n, Tree("SUP", e.lab, branches))
       [] e.is = "fork dyn" ->
            LET n == Len(e.xs)
                lab == tree(e.lab)
                new == [i \in 1..n |-> Pick(e.xs[i], TRUE, depth + 3 * i - 2)]
                nest[i \in 0..n] ==
                  IF i = 0
                  THEN Tree("DSU", 0, <<lab, SourceTree(e.left, depth + 3 * n, env \o new, 0),
                                        SourceTree(e.right, depth + 3 * n, env \o new, 1)>>)
                  ELSE Under(1, ddu(lab, VarTree(depth + 3 * (n - i)), nest[i - 1]))
            IN nest[n]

Meaning(e) == SourceTree(e, 0, <<>>, -1)

-----------------------------------------------------------------------------
(* The static term.  env[l] is what level l stands for, with the label if  *)
(* it is a duplication.                                                    *)

RECURSIVE BookTree(_, _, _, _)
BookTree(h, t, depth, env) ==
  LET kid(l) == BookTree(h, h[l], depth, env)
      end(side) == IF t.val \in DOMAIN env /\ env[t.val].lab = t.ext
                   THEN Copy(t.ext, side, env[t.val].tree) ELSE Tree("WRONG", 0, <<>>)
  IN CASE t.tag = "BJV" -> IF t.val \in DOMAIN env THEN env[t.val].tree
                           ELSE Tree("WRONG", 0, <<>>)
       [] t.tag = "BJ0" -> end(0)
       [] t.tag = "BJ1" -> end(1)
       [] t.tag = "LAM" ->
            Under(1, BookTree(h, h[t.val], depth + 1,
                              Append(env, [lab |-> 0, tree |-> VarTree(depth)])))
       [] t.tag = "DUP" ->
            BookTree(h, h[t.val + 1], depth, Append(env, [lab |-> t.ext, tree |-> kid(t.val)]))
       [] Arity(t) = 0 -> Leaf(t)
       [] OTHER -> Tree(t.tag, t.ext, [i \in 1..Arity(t) |-> kid(t.val + i - 1)])

-----------------------------------------------------------------------------
(* The heap.  path holds the copies on the way, innermost last: one of the *)
(* label of a superposition picks its side.                                *)

RECURSIVE HeapTree(_, _, _, _, _)
HeapTree(h, t, depth, env, path) ==
  LET tree(u, p) == HeapTree(h, u, depth, env, p)
      mine(p) == p.lab = t.ext
      j == SelectLastInSeq(path, mine)
      cell == h[t.val]
  IN CASE t.tag = "VAR" -> IF cell.sub THEN tree(Bare(cell), path)
                           ELSE IF t.val \in DOMAIN env THEN VarTree(env[t.val]) ELSE Outside
       [] t.tag \in Dps ->
            tree(Bare(cell), IF cell.sub THEN path
                             ELSE Append(path, [lab |-> t.ext, side |-> IF t.tag = "DP0" THEN 0 ELSE 1]))
       [] t.tag = "SUP" /\ j # 0 ->
            tree(h[t.val + path[j].side], RemoveAt(path, j))
       [] t.tag = "LAM" -> Under(1, HeapTree(h, cell, depth + 1, (t.val :> depth) @@ env, path))
       [] Arity(t) = 0 -> Leaf(t)
       [] OTHER -> Tree(t.tag, t.ext, [i \in 1..Arity(t) |-> tree(h[t.val + i - 1], path)])
=============================================================================
