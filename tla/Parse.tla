------------------------------- MODULE Parse --------------------------------
(***************************************************************************)
(* src/clang/parse/: a definition becomes a static term in the heap.       *)
(* Variables become bind levels, copies get labels, and a binder declared  *)
(* with & whose variable is used several times gets a chain of             *)
(* duplications.  The source is abstract syntax: characters, precedence    *)
(* and the messages of errors are left out.                                *)
(***************************************************************************)
EXTENDS Terms, SequencesExt

\* Variables, with a subscript (0 or 1) or without one (-1).
Var(x) == [is |-> "var", x |-> x, side |-> -1]
Dp(x, side) == [is |-> "var", x |-> x, side |-> side]

\* Terms that parse to one word or to a node over their parts.
Atom(tag, ext, val) == [is |-> "atom", word |-> Word(tag, ext, val)]
Form(tag, ext, parts) == [is |-> "form", tag |-> tag, ext |-> ext, parts |-> parts]

\* The syntax of terms without binders.
N(n) == Atom("NUM", 0, n)
Name(n) == Atom("NAM", n, 0)
RefTo(name) == Atom("REF", name, 0)
Wild == Atom("ANY", 0, 0)
Nothing0 == Atom("ERA", 0, 0)
Call(f, a) == Form("APP", 0, <<f, a>>)
Dry(f, a) == Form("DRY", 0, <<f, a>>)
Sup(lab, a, b) == Form("SUP", lab, <<a, b>>)
Dsu(lab, a, b) == Form("DSU", 0, <<lab, a, b>>)
Inc(x) == Form("INC", 0, <<x>>)
Use(f) == Form("USE", 0, <<f>>)
Op2(op, a, b) == Form("OP2", Op(op), <<a, b>>)
Same(a, b) == Form("EQL", 0, <<a, b>>)
Also(a, b) == Form("AND", 0, <<a, b>>)
Else(a, b) == Form("OR", 0, <<a, b>>)

\* #name{...}, [...], "...", 'c', n + x and n.
Ctor(name, parts) ==
  IF parts = <<>> THEN Atom("C00", name, 0) ELSE Form(Ctr[Len(parts) + 1], name, parts)
List(parts) == FoldRight(LAMBDA a, l : Ctor(SymCon, <<a, l>>), parts, Ctor(SymNil, <<>>))
Char(code) == Ctor(SymChr, <<N(code)>>)
Text(codes) == List([i \in DOMAIN codes |-> Char(codes[i])])
Succ(n, x) == FoldLeft(LAMBDA t, i : Ctor(SymSuc, <<t>>), x, [i \in 1..n |-> i])
Unary(n) == Succ(n, Ctor(SymZer, <<>>))

\* Binders.  A label is a number, or Auto for one that the parser picks.
Auto == -1
Lam(x, clone, body) == [is |-> "lam", x |-> x, clone |-> clone, body |-> body]
LamDup(x, clone, lab, body) ==
  [is |-> "lam dup", x |-> x, clone |-> clone, lab |-> lab, body |-> body]
LamDyn(x, clone, lab, body) ==
  [is |-> "lam dyn", x |-> x, clone |-> clone, lab |-> lab, body |-> body]
LamUns(x, body) == [is |-> "lam uns", x |-> x, body |-> body]
Let(x, clone, strict, val, body) ==
  [is |-> "let", x |-> x, clone |-> clone, strict |-> strict, val |-> val, body |-> body]
LetUns(f, x, body) == [is |-> "let uns", f |-> f, x |-> x, body |-> body]
Dup(x, clone, lab, val, body) ==
  [is |-> "dup", x |-> x, clone |-> clone, lab |-> lab, val |-> val, body |-> body]
DupDyn(x, clone, lab, val, body) ==
  [is |-> "dup dyn", x |-> x, clone |-> clone, lab |-> lab, val |-> val, body |-> body]
Match(tag, ext, val, rest) ==
  [is |-> "match", tag |-> tag, ext |-> ext, val |-> val, rest |-> rest]
None == [is |-> "none"]
Fork(lab, xs, left, right) ==
  [is |-> "fork", lab |-> lab, xs |-> xs, left |-> left, right |-> right]
ForkDyn(lab, xs, left, right) ==
  [is |-> "fork dyn", lab |-> lab, xs |-> xs, left |-> left, right |-> right]

-----------------------------------------------------------------------------
(* The state of the parser: the heap, its next free cell, the next label,  *)
(* the first error and the term parsed last.                               *)

AutoLab == 2^17          \* PARSE_FRESH_LAB starts here
DynLab == 2^18 - 1       \* PARSE_DYN_LAB marks a dynamic label

Fail(s, why) == IF s.error = "" THEN [s EXCEPT !.error = why] ELSE s
Yield(s, t) == [s EXCEPT !.t = t]

\* heap_alloc and the writes to the new cells.
Put(s, args) ==
  [s EXCEPT !.heap = Node(s.next, args) @@ @, !.next = @ + Len(args)]
Build(s, tag, ext, args) ==
  IF args = <<>> THEN Yield(s, Word(tag, ext, 0))
  ELSE Yield(Put(s, args), Word(tag, ext, s.next))
Poke(s, loc, t) == [s EXCEPT !.heap = (loc :> t) @@ @]

Tip(tag, ext, lvl) == [tag |-> tag, ext |-> ext, lvl |-> lvl]
Ref(tip) == Word(tip.tag, tip.ext, tip.lvl)
IsUse(t, tip) == t.tag = tip.tag /\ t.val = tip.lvl /\ (tip.tag = "BJV" \/ t.ext = tip.ext)

RECURSIVE CountUses(_, _, _)
CountUses(h, t, tip) ==
  Test(IsUse(t, tip)) + FoldSet(LAMBDA l, n : n + CountUses(h, h[l], tip), 0, Cells(t))

\* The occurrences of tip become the ends of n new duplications, in order;
\* the variables bound inside the body move n levels up.
RECURSIVE AutoDupGo(_, _, _, _, _, _)
AutoDupGo(r, loc, tip, base, n, lab) ==
  LET t == r.heap[loc]
      set(u) == [r EXCEPT !.heap[loc] = u]
  IN IF IsUse(t, tip)
     THEN [set(IF r.use < n THEN Word("BJ0", lab + r.use, base + 1 + r.use)
               ELSE Word("BJ1", lab + n - 1, base + n)) EXCEPT !.use = @ + 1]
     ELSE IF t.tag \in {"BJV", "BJ0", "BJ1"} /\ t.val > base
     THEN set(Word(t.tag, t.ext, t.val + n))
     ELSE FoldLeft(LAMBDA q, l : AutoDupGo(q, l, tip, base, n, lab), r,
                   [i \in 1..Arity(t) |-> t.val + i - 1])

\* A slip: the variables bound by the next binder inside stay where they are.
AutoDupLow(s, tip, base, uses) ==
  LET n == uses - 1
      gone == FoldLeft(LAMBDA q, l : AutoDupGo(q, l, tip, base + 1, n, s.lab),
                       [heap |-> s.heap, use |-> 0],
                       [i \in 1..Arity(s.t) |-> s.t.val + i - 1])
      copied(i) == IF i = 0 THEN Ref(tip) ELSE Word("BJ1", s.lab + i - 1, base + i)
  IN IF uses <= 1 THEN s
     ELSE FoldLeft(LAMBDA q, j : Build(q, "DUP", s.lab + n - j, <<copied(n - j), q.t>>),
                   [s EXCEPT !.heap = gone.heap, !.lab = s.lab + n],
                   [j \in 1..n |-> j])

\* parse_auto_dup: !d0&=x; !d1&=d0_1; ... body.
AutoDup(s, tip, base, uses) ==
  LET n == uses - 1
      lab == s.lab
      gone == FoldLeft(LAMBDA q, l : AutoDupGo(q, l, tip, base, n, lab),
                       [heap |-> s.heap, use |-> 0],
                       [i \in 1..Arity(s.t) |-> s.t.val + i - 1])
      copied(i) == IF i = 0 THEN Ref(tip) ELSE Word("BJ1", lab + i - 1, base + i)
  IN IF uses <= 1 THEN s
     ELSE IF lab + n > DynLab THEN Fail(s, "labels")
     ELSE FoldLeft(LAMBDA q, j : Build(q, "DUP", lab + n - j, <<copied(n - j), q.t>>),
                   [s EXCEPT !.heap = gone.heap, !.lab = lab + n],
                   [j \in 1..n |-> j])

\* A slip: nobody counts the uses of a variable that is not cloned.
CloseUnchecked(s, clone, tips, base) ==
  IF clone
  THEN FoldLeft(LAMBDA q, i : AutoDup(q, tips[i], base, CountUses(s.heap, s.t, tips[i])), s,
                [i \in DOMAIN tips |-> i])
  ELSE s

\* What every binder does with its body: a cloned variable is duplicated, any
\* other one is used at most once.
Close(s, clone, tips, base) ==
  LET uses == [i \in DOMAIN tips |-> CountUses(s.heap, s.t, tips[i])]
  IN IF clone
     THEN FoldLeft(LAMBDA q, i : AutoDup(q, tips[i], base, uses[i]), s,
                   [i \in DOMAIN tips |-> i])
     ELSE IF \E i \in DOMAIN tips : uses[i] > 1 THEN Fail(s, "affine") ELSE s

Unused(s, tips) == \A i \in DOMAIN tips : CountUses(s.heap, s.t, tips[i]) = 0
LamExt(level, unused) == IF unused THEN level + LamEra ELSE level

\* parse_bind_lookup: the innermost binder of x of the right kind.  A copy needs
\* a subscript or a fork, a plain variable has neither.
Lookup(binds, x, side) ==
  LET fits(b) == b.x = x /\ (IF side = -1 THEN b.lab = 0 \/ b.forked ELSE b.lab # 0)
  IN SelectLastInSeq(binds, fits)

Binder(x, depth, lab, forked) == [x |-> x, lvl |-> depth + 1, lab |-> lab, forked |-> forked]

\* parse_term_var: inside a fork the branch gives the side.
ParseVar(s, e, binds, branch) ==
  LET i == Lookup(binds, e.x, e.side)
      b == binds[i]
      side == IF e.side = -1 /\ b.forked THEN branch ELSE e.side
  IN IF i = 0 THEN Yield(Fail(s, "unbound"), Era)
     ELSE IF b.lab = DynLab
     THEN Yield(s, At("BJV", b.lvl + (IF side = 1 THEN 1 ELSE 0)))
     ELSE Yield(s, Word(CASE side = 0 -> "BJ0" [] side = 1 -> "BJ1" [] OTHER -> "BJV",
                        b.lab, b.lvl))

\* The label of a duplication, and the state after it was chosen.
Label(s, lab) == IF lab = Auto THEN s.lab ELSE lab
Labelled(s, lab) ==
  IF lab # Auto THEN s
  ELSE IF s.lab >= DynLab THEN Fail(s, "labels") ELSE [s EXCEPT !.lab = @ + 1]

Reserve(s) == Put(s, <<Zero>>)

\* The two ends of a duplication at level lvl.
Ends(lab, lvl) == <<Tip("BJ1", lab, lvl), Tip("BJ0", lab, lvl)>>
DynEnds(lvl) == <<Tip("BJV", 0, lvl), Tip("BJV", 0, lvl + 1)>>
Plain(lvl) == <<Tip("BJV", 0, lvl)>>

\* ! x &(lab) = val; body, whose two copies are bound at lvl and lvl + 1.
DynNode(s, lab, val, lvl) ==
  LET body == Build(s, "LAM", lvl + 1, <<s.t>>)
      both == Put(body, <<body.t>>)
  IN Build(both, "DDU", 0, <<lab, val, Word("LAM", lvl, body.next)>>)

\* The binders of a fork around its body, the last one first.
ForkBinders(s, lab, n, depth) ==
  FoldLeft(LAMBDA q, j :
             LET dd == depth + (n - j) * 2
                 dup == Build(q, "DUP", lab, <<At("BJV", dd + 1), q.t>>)
             IN Build(dup, "LAM", dd + 1, <<dup.t>>),
           s, [j \in 1..n |-> j])
ForkDynBinders(s, lab, n, depth) ==
  FoldLeft(LAMBDA q, j :
             LET dd == depth + (n - j) * 3
                 ddu == DynNode(q, lab, At("BJV", dd + 1), dd + 2)
             IN Build(ddu, "LAM", dd + 1, <<ddu.t>>),
           s, [j \in 1..n |-> j])

\* The check that a branch uses each forked variable at most once.  It looks
\* one level above the one that parse_bind_push gave the variable.
ForkLevels(n, d, depth) == {depth + (i - 1) * d + 1 : i \in 1..n}
ForkAffine(s, left, right, ends) ==
  IF \E e \in ends : CountUses(s.heap, left, e[1]) > 1 \/ CountUses(s.heap, right, e[2]) > 1
  THEN Fail(s, "affine") ELSE s

-----------------------------------------------------------------------------
(* One operator for each form that binds something.  The place c of a term *)
(* has the binders around it, their number and the branch of the fork that *)
(* it is in (PARSE_FORK_SIDE), if any.                                     *)

Top0 == [depth |-> 0, binds |-> <<>>, branch |-> -1]
Inside(c, d, new) == [c EXCEPT !.depth = @ + d, !.binds = @ \o new]

RECURSIVE Parse(_, _, _)

\* The parts of a node are parsed from left to right.
ParseForm(s, e, c) ==
  LET parsed == FoldLeft(LAMBDA q, p : LET r == Parse(q.s, p, c)
                                       IN [s |-> r, args |-> Append(q.args, r.t)],
                         [s |-> s, args |-> <<>>], e.parts)
  IN Build(parsed.s, e.tag, e.ext, parsed.args)

\* A case and the rest of its match, which may end without a default.
ParseMatch(s, e, c) ==
  LET val == Parse(s, e.val, c)
      node == Build(val, e.tag, e.ext, <<val.t, Num(0)>>)
      rest == Parse(node, e.rest, c)
  IN IF e.rest = None THEN node ELSE Yield(Poke(rest, val.next + 1, rest.t), node.t)

ParseLam(s, e, c) ==
  LET lvl == c.depth + 1
      body == Parse(s, e.body, Inside(c, 1, <<Binder(e.x, c.depth, 0, FALSE)>>))
      closed == Close(body, e.clone, Plain(lvl), lvl)
  IN Build(closed, "LAM", LamExt(lvl, Unused(body, Plain(lvl))), <<closed.t>>)

\* A lambda whose variable is duplicated at once.
ParseLamDup(s, e, c) ==
  LET lvl == c.depth + 2
      lab == Label(s, e.lab)
      ends == Ends(lab, lvl)
      body == Parse(Labelled(s, e.lab), e.body,
                    Inside(c, 2, <<Binder(e.x, c.depth + 1, lab, FALSE)>>))
      closed == Close(body, e.clone, ends, lvl)
      dup == Build(closed, "DUP", lab, <<At("BJV", lvl - 1), closed.t>>)
  IN Build(dup, "LAM", LamExt(lvl - 1, Unused(body, ends)), <<dup.t>>)

ParseLamDyn(s, e, c) ==
  LET lvl == c.depth + 2
      lab == Parse(s, e.lab, Inside(c, 1, <<>>))
      body == Parse(lab, e.body, Inside(c, 3, <<Binder(e.x, c.depth + 1, DynLab, FALSE)>>))
      closed == Close(body, e.clone, DynEnds(lvl), lvl + 1)
      ddu == DynNode(closed, lab.t, At("BJV", lvl - 1), lvl)
  IN Build(ddu, "LAM", LamExt(lvl - 1, Unused(body, DynEnds(lvl))), <<ddu.t>>)

\* !${f, x}; f(body), with a binder f that has no name.
ParseLamUns(s, e, c) ==
  LET lvl == c.depth + 2
      body == Parse(s, e.body, Inside(c, 2, <<Binder(e.x, c.depth + 1, 0, FALSE)>>))
      closed == Close(body, FALSE, Plain(lvl), lvl)
      app == Build(closed, "APP", 0, <<At("BJV", lvl - 1), closed.t>>)
      lamX == Build(app, "LAM", LamExt(lvl, Unused(body, Plain(lvl))), <<app.t>>)
      lamF == Build(lamX, "LAM", lvl - 1, <<lamX.t>>)
  IN Build(lamF, "UNS", 0, <<lamF.t>>)

ParseLetUns(s, e, c) ==
  LET lvl == c.depth + 1
      names == <<Binder(e.f, c.depth, 0, FALSE), Binder(e.x, lvl, 0, FALSE)>>
      body == Parse(Reserve(Reserve(s)), e.body, Inside(c, 2, names))
      closed == Close(body, FALSE, Plain(lvl) \o Plain(lvl + 1), lvl + 1)
      lamX == Word("LAM", lvl + 1, s.next + 1)
  IN Build(Poke(Poke(closed, s.next + 1, closed.t), s.next, lamX), "UNS", 0,
           <<Word("LAM", lvl, s.next)>>)

\* (lambda x. body)(val), through USE if the let is strict.
ParseLet(s, e, c) ==
  LET lvl == c.depth + 1
      val == Parse(s, e.val, c)
      body == Parse(Reserve(val), e.body, Inside(c, 1, <<Binder(e.x, c.depth, 0, FALSE)>>))
      closed == Close(body, e.clone, Plain(lvl), lvl)
      lam == Yield(Poke(closed, val.next, closed.t), Word("LAM", lvl, val.next))
      fun == IF e.strict THEN Build(lam, "USE", 0, <<lam.t>>) ELSE lam
  IN Build(fun, "APP", 0, <<fun.t, val.t>>)

ParseDup(s, e, c) ==
  LET lvl == c.depth + 1
      lab == Label(s, e.lab)
      cell == Labelled(s, e.lab)
      val == Parse(Reserve(Reserve(cell)), e.val, c)
      body == Parse(Poke(val, cell.next, val.t), e.body,
                    Inside(c, 1, <<Binder(e.x, c.depth, lab, FALSE)>>))
      closed == Close(body, e.clone, Ends(lab, lvl), lvl)
  IN Yield(Poke(closed, cell.next + 1, closed.t), Word("DUP", lab, cell.next))

ParseDupDyn(s, e, c) ==
  LET lvl == c.depth + 1
      lab == Parse(s, e.lab, c)
      val == Parse(lab, e.val, c)
      body == Parse(val, e.body, Inside(c, 2, <<Binder(e.x, c.depth, DynLab, FALSE)>>))
      closed == Close(body, e.clone, DynEnds(lvl), lvl + 1)
  IN DynNode(closed, lab.t, val.t, lvl)

\* The two branches of a fork: each variable takes d levels.
ParseBranches(s, e, c, lab, d) ==
  LET new == [i \in DOMAIN e.xs |-> Binder(e.xs[i], c.depth + (i - 1) * d + 1, lab, TRUE)]
      place(side) == [Inside(c, Len(e.xs) * d, new) EXCEPT !.branch = side]
      left == Parse(s, e.left, place(0))
  IN [left |-> left, right |-> Parse(left, e.right, place(1))]

ParseFork(s, e, c) ==
  LET p == ParseBranches(s, e, c, e.lab, 2)
      checked == ForkAffine(p.right, p.left.t, p.right.t,
                            {<<Tip("BJ0", e.lab, l), Tip("BJ1", e.lab, l)>> :
                               l \in ForkLevels(Len(e.xs), 2, c.depth)})
  IN ForkBinders(Build(checked, "SUP", e.lab, <<p.left.t, p.right.t>>), e.lab, Len(e.xs), c.depth)

ParseForkDyn(s, e, c) ==
  LET lab == Parse(s, e.lab, c)
      p == ParseBranches(lab, e, c, DynLab, 3)
      checked == ForkAffine(p.right, p.left.t, p.right.t,
                            {<<Tip("BJV", 0, l), Tip("BJV", 0, l + 1)>> :
                               l \in ForkLevels(Len(e.xs), 3, c.depth)})
  IN ForkDynBinders(Build(checked, "DSU", 0, <<lab.t, p.left.t, p.right.t>>),
                    lab.t, Len(e.xs), c.depth)

\* parse_term_atom; the first error ends the process.
Parse(s, e, c) ==
  CASE s.error # "" -> s
    [] e.is = "atom" -> Yield(s, e.word)
    [] e.is = "var" -> ParseVar(s, e, c.binds, c.branch)
    [] e.is = "form" -> ParseForm(s, e, c)
    [] e.is = "match" -> ParseMatch(s, e, c)
    [] e.is = "lam" -> ParseLam(s, e, c)
    [] e.is = "lam dup" -> ParseLamDup(s, e, c)
    [] e.is = "lam dyn" -> ParseLamDyn(s, e, c)
    [] e.is = "lam uns" -> ParseLamUns(s, e, c)
    [] e.is = "let uns" -> ParseLetUns(s, e, c)
    [] e.is = "let" -> ParseLet(s, e, c)
    [] e.is = "dup" -> ParseDup(s, e, c)
    [] e.is = "dup dyn" -> ParseDupDyn(s, e, c)
    [] e.is \in {"fork", "fork dyn"} /\ c.branch # -1 -> Yield(Fail(s, "nested fork"), Era)
    [] e.is = "fork" -> ParseFork(s, e, c)
    [] e.is = "fork dyn" -> ParseForkDyn(s, e, c)

\* parse_def: one definition after the other; the first error ends the process.
Blank(next) == [heap |-> <<>>, next |-> next, lab |-> AutoLab, error |-> "", t |-> Era,
                book |-> <<>>]

Define(s, name) == [Put(s, <<s.t>>) EXCEPT !.book = (name :> s.next) @@ @]
ParseDef(s, name, e) ==
  IF s.error # "" THEN s ELSE Define(Parse(s, e, Top0), name)

ParseProgram(defs, next) ==
  FoldLeft(LAMBDA s, d : ParseDef(s, d[1], d[2]), Blank(next), defs)
=============================================================================
