------------------------------- MODULE Rules --------------------------------
(***************************************************************************)
(* src/clang/wnf/<rule>.c: the interactions.  A rule reads the heap h and  *)
(* builds from k, the next free cell of the thread's bank.  Its result     *)
(* says how the machine goes on (enter the term t or apply it), the cells  *)
(* it writes, how many words it allocates and how many interactions it     *)
(* counts.                                                                 *)
(***************************************************************************)
EXTENDS Terms

Step(go, t, writes, words, count) ==
  [go |-> go, t |-> t, writes |-> writes, words |-> words, count |-> count]
Enter(t, writes, words) == Step("enter", t, writes, words, 1)
Apply(t, writes, words) == Step("apply", t, writes, words, 1)
Nothing == <<>>

\* A term meets an erasure: (&{} a), (mat &{}), (use &{}), @@opr(&{}, y), ...
Erase == Apply(Era, Nothing, 0)
Answer(b) == Apply(Num(Test(b)), Nothing, 0)

\* No interaction: the term waits in the cell of its frame.
Stuck(frame, cell, t) == Step("apply", frame, Write(cell, t), 0, 0)

-----------------------------------------------------------------------------
(* What several rules share.                                               *)

\* f(&L{a, b}, y) = &L{f(a, Y0), f(b, Y1)}: the node at loc takes the first
\* copy, a new one the second, and the SUP its own cells.
SupLeft(h, k, tag, ext, loc, sup, y) ==
  LET Y == Copies(sup.ext, k)
  IN Apply(sup,
           Node(loc, <<h[sup.val], Y.k0>>) ++ Write(k, y)
             ++ Node(k + 1, <<h[sup.val + 1], Y.k1>>)
             ++ Node(sup.val, <<Word(tag, ext, loc), Word(tag, ext, k + 1)>>),
           3)

\* f(inc x, y) = inc f(x, y), in the cells of the two nodes.
IncLeft(h, tag, loc, inc) ==
  Apply(inc, Write(loc, h[inc.val]) ++ Write(inc.val, At(tag, loc)), 0)

\* f(inc x) = inc f(x), in a new node.
IncNew(k, tag, ext, args, inc) ==
  Apply(inc, Node(k, args) ++ Write(inc.val, Word(tag, ext, k)), Len(args))

\* A superposition on the left of a binary node, or as a dynamic label.
Op2Sup(h, k, opr, loc, sup, y) == SupLeft(h, k, "OP2", opr, loc, sup, y)
EqlSup(h, k, loc, sup, b) == SupLeft(h, k, "EQL", 0, loc, sup, b)
AndSup(h, k, loc, sup, b) == SupLeft(h, k, "AND", 0, loc, sup, b)
OrSup(h, k, loc, sup, b) == SupLeft(h, k, "OR", 0, loc, sup, b)

\* An increment in each place that needs a value.
AppInc(h, loc, inc) == IncLeft(h, "APP", loc, inc)
EqlInc(h, loc, inc) == IncLeft(h, "EQL", loc, inc)
AndInc(h, loc, inc) == IncLeft(h, "AND", loc, inc)
OrInc(h, loc, inc) == IncLeft(h, "OR", loc, inc)
MatInc(h, k, mat, inc) == IncNew(k, "APP", 0, <<mat, h[inc.val]>>, inc)
UseInc(h, k, use, inc) == IncNew(k, "APP", 0, <<use, h[inc.val]>>, inc)
Op2Inc(h, k, opr, inc, y) == IncNew(k, "OP2", opr, <<h[inc.val], y>>, inc)
Op2NumInc(h, k, opr, x, inc) == IncNew(k, "OP2", opr, <<x, h[inc.val]>>, inc)
DsuInc(h, k, inc, a, b) == IncNew(k, "DSU", 0, <<h[inc.val], a, b>>, inc)
DduInc(h, k, inc, val, bod) == IncNew(k, "DDU", 0, <<h[inc.val], val, bod>>, inc)

\* (a === b) .&. (c === d), for the two fields of two nodes.
Pairwise(h, k, loc, a, b) ==
  Enter(At("AND", loc),
        Node(k, <<h[a.val], h[b.val]>>) ++ Node(k + 2, <<h[a.val + 1], h[b.val + 1]>>)
          ++ Node(loc, <<At("EQL", k), At("EQL", k + 2)>>),
        4)

-----------------------------------------------------------------------------
(* Applications.                                                           *)

\* ! ${f, v}; t: binds f to a lambda and v to its variable.
WnfUns(h, k, uns) ==
  Enter(At("APP", k + 4),
        Node(k, <<At("VAR", k + 1), At("LAM", k)>>)
          ++ Node(k + 2, <<h[uns.val], At("LAM", k + 1)>>)
          ++ Node(k + 4, <<At("APP", k + 2), At("VAR", k)>>),
        6)

\* (name a) and (^(f x) a), which count no interaction.
AppName(loc, t) == Step("apply", At("DRY", loc), Write(loc, t), 0, 0)

AppLam(h, lam, arg) ==
  Enter(h[lam.val], IF Erased(lam) THEN Nothing ELSE Write(lam.val, Subst(arg)), 0)

AppSup(h, k, loc, sup, arg) ==
  LET D == Copies(sup.ext, k)
  IN Apply(Word("SUP", sup.ext, loc),
           Write(k, arg) ++ Write(sup.val + 1, D.k0)
             ++ Node(k + 1, <<h[sup.val + 1], D.k1>>)
             ++ Node(loc, <<At("APP", sup.val), At("APP", k + 1)>>),
           3)

\* A slip: both branches get the same copy of the match.
MatSupOneCopy(h, k, mat, sup) ==
  LET M == Copies(sup.ext, k)
  IN Apply(sup, Write(k, mat) ++ Node(k + 1, <<M.k0, h[sup.val]>>)
                  ++ Node(k + 3, <<M.k0, h[sup.val + 1]>>)
                  ++ Node(sup.val, <<At("APP", k + 1), At("APP", k + 3)>>), 5)

MatSup(h, k, mat, sup) ==
  LET M == Copies(sup.ext, k)
  IN Apply(sup, Write(k, mat) ++ Node(k + 1, <<M.k0, h[sup.val]>>)
                  ++ Node(k + 3, <<M.k1, h[sup.val + 1]>>)
                  ++ Node(sup.val, <<At("APP", k + 1), At("APP", k + 3)>>), 5)

\* (mat a) for another a: try the rest of the match.
MatMiss(h, mat, t) ==
  Enter(At("APP", mat.val), Node(mat.val, <<h[mat.val + 1], t>>), 0)

\* The branch applied to the fields: the first application takes the cells of
\* the match, the second those of the constructor, and the others are new.
MatHit(h, k, mat, ctr) ==
  LET n == Arity(ctr)
      place(i) == IF i = 0 THEN mat.val ELSE IF i = 1 THEN ctr.val ELSE k + 2 * (i - 2)
      fun(i) == IF i = 0 THEN h[mat.val] ELSE At("APP", place(i - 1))
      cells == UNION {{place(i), place(i) + 1} : i \in 0..(n - 1)}
  IN Enter(fun(n),
           [l \in cells |-> LET i == CHOOSE i \in 0..(n - 1) : l \in {place(i), place(i) + 1}
                            IN IF l = place(i) THEN fun(i) ELSE h[ctr.val + i]],
           IF n > 2 THEN 2 * (n - 2) ELSE 0)

MatCtr(h, k, mat, ctr) ==
  IF mat.ext = ctr.ext THEN MatHit(h, k, mat, ctr) ELSE MatMiss(h, mat, ctr)

MatNum(h, mat, num) ==
  IF mat.ext = num.val THEN Enter(h[mat.val], Nothing, 0) ELSE MatMiss(h, mat, num)

UseSup(h, k, use, sup) ==
  LET F == Copies(sup.ext, use.val)
  IN Apply(sup, Node(k, <<F.k0, F.k1>>) ++ Node(k + 2, <<At("USE", k), h[sup.val]>>)
                  ++ Node(k + 4, <<At("USE", k + 1), h[sup.val + 1]>>)
                  ++ Node(sup.val, <<At("APP", k + 2), At("APP", k + 4)>>), 6)

UseVal(h, k, use, t) == Enter(At("APP", k), Node(k, <<h[use.val], t>>), 2)

-----------------------------------------------------------------------------
(* Duplications: dp is the copy that is evaluated, its cell holds the other.*)

\* heap_subst_cop: this side takes its half, the cell keeps the other half.
HalfOf(dp, r0, r1) == IF dp.tag = "DP0" THEN r0 ELSE r1
\* A slip: the half that is left is not marked as one.
LeaveUnmarked(dp, r0, r1) == Write(dp.val, HalfOf(dp, r1, r0))

Leave(dp, r0, r1) == Write(dp.val, Subst(HalfOf(dp, r1, r0)))

\* A slip: nothing is left for the other copy.
DupAtomUnfilled(dp, t) == Apply(t, Nothing, 0)

DupAtom(dp, t) == Apply(t, Write(dp.val, Subst(t)), 0)

\* Two lambdas over the two copies of the body; the variable becomes the
\* superposition of the two new ones, unless the body does not use it.
DupLam(h, k, dp, lam) ==
  LET n == IF Erased(lam) THEN 2 ELSE 4
      B == Copies(dp.ext, k + n)
      l0 == Word("LAM", lam.ext, k)
      l1 == Word("LAM", lam.ext, k + 1)
      both == Node(k, <<B.k0, B.k1>>) ++ Write(k + n, h[lam.val]) ++ Leave(dp, l0, l1)
      bind == Node(k + 2, <<At("VAR", k), At("VAR", k + 1)>>)
                ++ Write(lam.val, Subst(Word("SUP", dp.ext, k + 2)))
  IN Apply(HalfOf(dp, l0, l1), IF Erased(lam) THEN both ELSE both ++ bind, n + 1)

\* A slip: a copy and a superposition annihilate whatever their labels.
DupSupAnyLabel(h, k, dp, sup) ==
  LET a == h[sup.val]
      b == h[sup.val + 1]
  IN Enter(HalfOf(dp, a, b), Leave(dp, a, b), 0)

\* Equal labels annihilate, others commute.
DupSup(h, k, dp, sup) ==
  LET A == Copies(dp.ext, sup.val)
      B == Copies(dp.ext, sup.val + 1)
      s0 == Word("SUP", sup.ext, k)
      s1 == Word("SUP", sup.ext, k + 2)
      a == h[sup.val]
      b == h[sup.val + 1]
  IN IF dp.ext = sup.ext
     THEN Enter(HalfOf(dp, a, b), Leave(dp, a, b), 0)
     ELSE Enter(HalfOf(dp, s0, s1),
                Node(k, <<A.k0, B.k0, A.k1, B.k1>>) ++ Leave(dp, s0, s1), 4)

\* The fields of the node become the cells of the copies.
DupNod(k, dp, t) ==
  LET n == Arity(t)
      r0 == Word(t.tag, t.ext, k)
      r1 == Word(t.tag, t.ext, k + n)
  IN IF n = 0 THEN Enter(t, Write(dp.val, Subst(t)), 0)
     ELSE Enter(HalfOf(dp, r0, r1),
                [l \in k..(k + 2 * n - 1) |->
                   IF l < k + n THEN Word("DP0", dp.ext, t.val + l - k)
                   ELSE Word("DP1", dp.ext, t.val + l - k - n)] ++ Leave(dp, r0, r1),
                2 * n)

-----------------------------------------------------------------------------
(* Numbers, equality and the short-circuit operations.                     *)

Op2NumNum(opr, x, y) == Apply(Num(Op2U32(opr, x, y)), Nothing, 0)

Op2NumSup(h, k, opr, x, sup) ==
  Apply(sup, Node(k, <<x, h[sup.val], x, h[sup.val + 1]>>)
               ++ Node(sup.val, <<Word("OP2", opr, k), Word("OP2", opr, k + 2)>>), 4)

EqlSupRight(h, k, loc, a, sup) ==
  LET A == Copies(sup.ext, k)
  IN Apply(sup, Node(loc, <<A.k0, h[sup.val]>>) ++ Write(k, a)
                  ++ Node(k + 1, <<A.k1, h[sup.val + 1]>>)
                  ++ Node(sup.val, <<At("EQL", loc), At("EQL", k + 1)>>), 3)

EqlIncRight(h, loc, a, inc) ==
  Apply(inc, Node(loc, <<a, h[inc.val]>>) ++ Write(inc.val, At("EQL", loc)), 0)

\* Both variables become the name fresh.
EqlLam(h, k, a, b, name) ==
  LET X == Word("NAM", name, 0)
  IN Enter(At("EQL", k),
           Node(k, <<h[a.val], h[b.val]>>) ++ Write(a.val, Subst(X)) ++ Write(b.val, Subst(X)), 2)

\* Field by field: the first equality takes the cells of the node at loc.
\* Successors and lists put what recurs under INC.
EqlCtr(h, k, loc, a, b) ==
  LET n == Arity(a)
      field(i) == <<h[a.val + i], h[b.val + i]>>
      first == Node(loc, field(0))
  IN IF a.tag # b.tag \/ a.ext # b.ext THEN Enter(Num(0), Nothing, 0)
     ELSE IF n = 0 THEN Enter(Num(1), Nothing, 0)
     ELSE IF a.ext = SymSuc /\ n = 1
       THEN Enter(At("INC", k), first ++ Write(k, At("EQL", loc)), 1)
     ELSE IF a.ext = SymCon /\ n = 2
       THEN Enter(At("INC", k + 5),
                  first ++ Node(k, field(1) \o <<At("EQL", k), At("EQL", loc), At("INC", k + 2),
                                                 At("AND", k + 3)>>), 6)
     ELSE LET and(i) == IF i = 0 THEN At("EQL", loc) ELSE At("AND", k + 4 * i - 2)
              rest == [l \in k..(k + 4 * (n - 1) - 1) |->
                         LET i == (l - k) \div 4 + 1
                         IN CASE (l - k) % 4 = 0 -> h[a.val + i]
                              [] (l - k) % 4 = 1 -> h[b.val + i]
                              [] (l - k) % 4 = 2 -> and(i - 1)
                              [] OTHER -> At("EQL", k + 4 * (i - 1))]
          IN Enter(and(n - 1), first ++ rest, 4 * (n - 1))

EqlMat(h, k, loc, a, b) ==
  IF a.ext = b.ext THEN Pairwise(h, k, loc, a, b) ELSE Enter(Num(0), Nothing, 0)

EqlUse(h, loc, a, b) == Enter(At("EQL", loc), Node(loc, <<h[a.val], h[b.val]>>), 0)

EqlNum(a, b) == Answer(a.val = b.val)
EqlNam(a, b) == Answer(a = b)
EqlDry(h, k, loc, a, b) == Pairwise(h, k, loc, a, b)

\* The two values of an equality, neither of them ERA, ANY, SUP or INC.
EqlValues(h, k, loc, a, b, name) ==
  LET both(S) == a.tag \in S /\ b.tag \in S
  IN IF both({"NUM"}) THEN EqlNum(a, b)
     ELSE IF both({"LAM"}) THEN EqlLam(h, k, a, b, name)
     ELSE IF both(Ctrs) THEN EqlCtr(h, k, loc, a, b)
     ELSE IF both(Mats) THEN EqlMat(h, k, loc, a, b)
     ELSE IF both({"USE"}) THEN EqlUse(h, loc, a, b)
     ELSE IF both(Names) THEN EqlNam(a, b)
     ELSE IF both({"DRY"}) THEN EqlDry(h, k, loc, a, b)
     ELSE Answer(FALSE)

\* 0 .&. b = 0, n .&. b = b; 0 .|. b = b, n .|. b = 1.
AndNum(num, b) == IF num.val = 0 THEN Enter(Num(0), Nothing, 0) ELSE Enter(b, Nothing, 0)
OrNum(num, b) == IF num.val = 0 THEN Enter(b, Nothing, 0) ELSE Enter(Num(1), Nothing, 0)

-----------------------------------------------------------------------------
(* Dynamic labels.                                                         *)

\* &(&L{x, y}){a, b} and ! X &(&L{x, y}) = a; b: one node for each label.
DynSup(h, k, tag, sup, a, b) ==
  LET A == Copies(sup.ext, k)
      B == Copies(sup.ext, k + 1)
  IN Apply(sup, Node(k, <<a, b, h[sup.val], A.k0, B.k0, h[sup.val + 1], A.k1, B.k1>>)
                  ++ Node(sup.val, <<At(tag, k + 2), At(tag, k + 5)>>), 8)

DsuSup(h, k, sup, a, b) == DynSup(h, k, "DSU", sup, a, b)
DduSup(h, k, sup, val, bod) == DynSup(h, k, "DDU", sup, val, bod)

DsuNum(k, num, a, b) == Apply(Word("SUP", num.val, k), Node(k, <<a, b>>), 2)

DduNum(k, num, val, bod) ==
  LET V == Copies(num.val, k)
  IN Enter(At("APP", k + 3), Node(k, <<val, bod, V.k0, At("APP", k + 1), V.k1>>), 5)

-----------------------------------------------------------------------------
(* The allocation of book terms: an ALO word is a book location and the    *)
(* list of the locations bound on the way to it.                           *)

\* The pair of a book location tm and a bind list ls, packed in one word.
Pair(ls, tm) == [sub |-> FALSE, tag |-> "PAIR", ext |-> ls, val |-> tm]

\* The location bound at level lvl of the list ls of length len, or 0.
Bound(h, ls, len, lvl) ==
  LET entry[i \in 0..len] ==
        IF i = 0 THEN ls ELSE IF entry[i - 1] = 0 THEN 0 ELSE h[entry[i - 1] + 1].val
  IN IF lvl = 0 \/ lvl > len THEN 0 ELSE entry[len - lvl]

\* term_new_alo_at and the write it makes: no pair for an empty list.
AloAt(cell, len, tm) == IF len = 0 THEN At("ALO", tm) ELSE Word("ALO", len, cell)
AloPair(cell, ls, len, tm) == IF len = 0 THEN Nothing ELSE Write(cell, Pair(ls, tm))

Alloc(t, writes, words) == Step("enter", t, writes, words, 0)

\* A quoted variable: the location bound at its level, if there is one.
AloVar(h, ls, len, book, tag, ext) ==
  LET loc == Bound(h, ls, len, book.val)
  IN Alloc(IF loc = 0 THEN Bare(book) ELSE Word(tag, ext, loc), Nothing, 0)

AloLam(k, cell, ls, len, book) ==
  LET body == IF len > 0 THEN cell ELSE k + 2
  IN Alloc(Word("LAM", book.ext, k),
           Node(k, <<Word("ALO", len + 1, body), At("NUM", ls)>>)
             ++ Write(body, Pair(k, book.val)),
           IF len > 0 THEN 2 ELSE 3)

AloDup(k, cell, ls, len, book) ==
  Alloc(Word("ALO", len + 1, k + 2),
        Node(k, <<AloAt(cell, len, book.val), At("NUM", ls), Pair(k, book.val + 1)>>)
          ++ AloPair(cell, ls, len, book.val),
        3)

\* The first part takes over the pair of the whole, the others get their own.
AloNod(k, cell, ls, len, book) ==
  LET n == Arity(book)
      pairs == IF len = 0 THEN 0 ELSE n - 1
      part(i) == IF i = 0 THEN cell ELSE k + i - 1
  IN IF n = 0 THEN Alloc(book, Nothing, 0)
     ELSE Alloc(Word(book.tag, book.ext, k + pairs),
                AloPair(cell, ls, len, book.val)
                  ++ [l \in k..(k + pairs - 1) |-> Pair(ls, book.val + l - k + 1)]
                  ++ [l \in (k + pairs)..(k + pairs + n - 1) |->
                        LET i == l - k - pairs IN AloAt(part(i), len, book.val + i)],
                pairs + n)

Alo(h, k, t) ==
  LET len == t.ext
      cell == IF len = 0 THEN 0 ELSE t.val
      ls == IF len = 0 THEN 0 ELSE h[t.val].ext
      book == h[IF len = 0 THEN t.val ELSE h[t.val].val]
  IN CASE book.tag \in {"VAR", "BJV"} -> AloVar(h, ls, len, book, "VAR", 0)
       [] book.tag \in {"DP0", "BJ0"} -> AloVar(h, ls, len, book, "DP0", book.ext)
       [] book.tag \in {"DP1", "BJ1"} -> AloVar(h, ls, len, book, "DP1", book.ext)
       [] book.tag = "LAM" -> AloLam(k, cell, ls, len, book)
       [] book.tag = "DUP" -> AloDup(k, cell, ls, len, book)
       [] OTHER -> AloNod(k, cell, ls, len, book)
=============================================================================
