----------------------------- MODULE MCProgram ------------------------------
(***************************************************************************)
(* Small programs that between them use every form of the source and fire  *)
(* every interaction, with the results and the work of the real program.   *)
(***************************************************************************)
EXTENDS ProgramMeaning

\* The reference of @main, two others and one that is not defined.
MainName == 0
F == 1
G == 2
Missing == 9

\* Names of constructors.
R == 10
K == 11
J == 12
P == 13
T == 14

\* Labels and a free name.
A == 5
B == 6
Free == 7

Outer == Atom("OUTSIDE", 0, 0)    \* in results only

Row(parts) == Ctor(R, parts)
K0 == Ctor(K, <<>>)
Pair2(a, b) == Ctor(P, <<a, b>>)
Trio(a, b, c) == Ctor(T, <<a, b, c>>)
Both(x) == Pair2(Var(x), Var(x))
Sides(x) == Pair2(Dp(x, 0), Dp(x, 1))
Call2(f, a, b) == Call(Call(f, a), b)
Plus(a, b) == Op2("ADD", a, b)
Fn(x, body) == Lam(x, FALSE, body)
Id(x) == Fn(x, Var(x))
Share(x, v, body) == Let(x, TRUE, FALSE, v, body)
Case(name, val, rest) == Match("MAT", name, val, rest)

\* The wide programs: one thread.
Program1(defs, result, work) ==
  [defs |-> defs, threads |-> 1, steps |-> FALSE, words |-> 600,
   ends |-> "done", result |-> result, work |-> work]
Only(e) == <<<<MainName, e>>>>

Applications == Program1(
  Only(Row(<<Call(Nothing0, N(1)), Call(Name(Free), N(1)), Call2(Name(Free), N(1), N(2)),
             Call(Fn("x", N(7)), N(1)), Call(Id("x"), N(2)),
             Call(Sup(A, Id("x"), Fn("x", N(8))), N(3)), Call(Inc(Id("x")), N(4)),
             Fn("y", Call(Var("y"), N(5))), RefTo(Missing)>>)),
  Row(<<Nothing0, Dry(Name(Free), N(1)), Dry(Dry(Name(Free), N(1)), N(2)), N(7), N(2),
        Sup(A, N(3), N(8)), Inc(N(4)), Fn("y", Call(Var("y"), N(5))), RefTo(Missing)>>),
  9)

Copied == Program1(
  Only(Row(<<
    Share("x", Name(Free), Both("x")),
    Share("x", Pair2(N(1), Name(Free)), Both("x")),
    Share("f", Case(K, N(3), Id("z")), Pair2(Call(Var("f"), K0), Call(Var("f"), N(4)))),
    Share("f", Fn("x", N(7)), Pair2(Call(Var("f"), N(1)), Call(Var("f"), N(2)))),
    Share("f", Fn("x", Plus(Var("x"), N(1))), Pair2(Call(Var("f"), N(1)), Call(Var("f"), N(2)))),
    Share("x", Nothing0, Both("x")),
    Fn("y", Share("x", Plus(Var("y"), N(1)), Both("x"))),
    Fn("y", Share("x", Same(Var("y"), N(1)), Both("x"))),
    Share("f", Use(Id("x")), Pair2(Call(Var("f"), N(1)), Call(Var("f"), N(2)))),
    Share("x", Call(Name(Free), N(1)), Both("x")),
    Share("x", Inc(N(1)), Both("x")),
    Share("x", Wild, Pair2(Same(Var("x"), N(1)), Same(N(2), Var("x")))),
    Dup("x", FALSE, A, Sup(A, N(1), N(2)), Sides("x")),
    Dup("x", FALSE, A, Sup(B, N(1), N(2)), Sides("x")),
    Fn("y", Share("x", Dsu(Var("y"), N(1), N(2)), Both("x")))>>)),
  LET twice(a) == Pair2(a, a)
  IN Row(<<twice(Name(Free)), twice(Pair2(N(1), Name(Free))), Pair2(N(3), N(4)), twice(N(7)),
           Pair2(N(2), N(3)), twice(Nothing0), Fn("y", twice(Plus(Var("y"), N(1)))),
           Fn("y", twice(N(0))), Pair2(N(1), N(2)), twice(Dry(Name(Free), N(1))),
           twice(Inc(N(1))), twice(N(1)), Pair2(N(1), N(2)), twice(Sup(B, N(1), N(2))),
           Fn("y", twice(Dsu(Var("y"), N(1), N(2))))>>),
  63)

Dynamic == Program1(
  Only(Row(<<
    Dsu(Nothing0, N(1), N(2)), Dsu(N(3), N(1), N(2)), Dsu(Sup(A, N(3), N(4)), N(1), N(2)),
    Dsu(Inc(N(3)), N(1), N(2)), Fn("y", Dsu(Var("y"), N(1), N(2))),
    DupDyn("x", FALSE, Nothing0, N(1), Sides("x")),
    DupDyn("x", FALSE, N(3), Dsu(N(3), N(1), N(2)), Sides("x")),
    DupDyn("x", FALSE, Sup(A, N(3), N(4)), N(7), Sides("x")),
    DupDyn("x", FALSE, Inc(N(3)), N(7), Sides("x")),
    Fn("y", DupDyn("x", FALSE, Var("y"), N(7), Sides("x")))>>)),
  LET both == Pair2(N(7), N(7))
  IN Row(<<Nothing0, Sup(3, N(1), N(2)), Sup(A, Sup(3, N(1), N(2)), Sup(4, N(1), N(2))),
           Inc(Sup(3, N(1), N(2))), Fn("y", Dsu(Var("y"), N(1), N(2))), Nothing0,
           Pair2(N(1), N(2)), Sup(A, both, both), Inc(both),
           Fn("y", DupDyn("x", FALSE, Var("y"), N(7), Sides("x")))>>),
  35)

Equal == Program1(
  Only(Row(<<
    Same(Nothing0, N(1)), Same(N(1), Nothing0), Same(Wild, N(1)), Same(N(1), Wild),
    Same(Sup(A, N(1), N(2)), N(1)), Same(N(1), Sup(A, N(1), N(2))), Same(Inc(N(1)), N(1)),
    Same(N(1), Inc(N(1))), Same(N(1), N(2)), Same(Id("x"), Id("y")),
    Same(Pair2(N(1), N(2)), Pair2(N(1), N(3))), Same(K0, Ctor(J, <<>>)), Same(K0, K0),
    Same(Unary(2), Unary(2)), Same(List(<<N(1), N(2)>>), List(<<N(1), N(2)>>)), Same(N(1), K0)>>)),
  Row(<<Nothing0, Nothing0, N(1), N(1), Sup(A, N(1), N(0)), Sup(A, N(1), N(0)), Inc(N(1)),
        Inc(N(1)), N(0), N(1), N(0), N(0), N(1), Inc(Inc(N(1))),
        Inc(Inc(Inc(Inc(N(1))))), N(0)>>),
  36)

EqualMore == Program1(
  Only(Row(<<
    Same(Case(K, N(1), N(2)), Case(K, N(1), N(2))), Same(Case(K, N(1), N(2)), Case(J, N(1), N(2))),
    Same(Use(N(3)), Use(N(3))), Same(Name(Free), Name(Free)), Same(Name(Free), Name(8)),
    Same(Call(Name(Free), N(1)), Call(Name(Free), N(1))), Fn("y", Same(Var("y"), N(1))),
    Same(Ctor(J, <<N(1)>>), Ctor(J, <<N(1)>>)),
    Same(Trio(N(1), N(2), N(3)), Trio(N(1), N(2), N(3))), Same(K0, Ctor(J, <<N(1)>>))>>)),
  Row(<<N(1), N(0), N(1), N(1), N(0), N(1), Fn("y", N(0)), N(1), N(1), N(0)>>),
  23)

Logic == Program1(
  Only(Row(<<
    Also(Nothing0, N(1)), Also(Sup(A, N(0), N(1)), N(5)), Also(Inc(N(1)), N(5)),
    Also(N(0), N(5)), Also(N(1), N(5)), Fn("y", Also(Var("y"), N(5))),
    Else(Nothing0, N(1)), Else(Sup(A, N(0), N(1)), N(5)), Else(Inc(N(0)), N(5)),
    Else(N(0), N(5)), Else(N(1), N(5)), Fn("y", Else(Var("y"), N(5)))>>)),
  Row(<<Nothing0, Sup(A, N(0), N(5)), Inc(N(5)), N(0), N(5), Fn("y", Also(Var("y"), N(5))),
        Nothing0, Sup(A, N(5), N(1)), Inc(N(5)), N(5), N(1), Fn("y", Else(Var("y"), N(5)))>>),
  18)

Matching == Program1(
  <<<<F, Case(K, N(0), Case(J, Id("x"),
           Case(P, Fn("a", Fn("b", Plus(Var("a"), Var("b")))),
             Case(T, Fn("a", Fn("b", Fn("c", Plus(Plus(Var("a"), Var("b")), Var("c"))))),
               Fn("z", N(9))))))>>,
    <<G, Match("SWI", 0, N(5), Fn("n", Plus(Var("n"), N(1))))>>,
    <<MainName, LET f(a) == Call(RefTo(F), a)
                    g(a) == Call(RefTo(G), a)
                IN Row(<<
       f(K0), f(Ctor(J, <<N(3)>>)), f(Pair2(N(1), N(2))), f(Trio(N(1), N(2), N(3))),
       f(Ctor(15, <<>>)), f(Nothing0), f(Sup(A, K0, Ctor(J, <<N(4)>>))), f(Inc(K0)),
       g(N(0)), g(N(4)), g(Sup(A, N(0), N(1))),
       Call(Case(K, N(0), None), Name(Free)), Call(Case(K, N(0), None), Call(Name(Free), N(1))),
       Fn("y", Call(Case(K, N(0), None), Var("y")))>>)>>>>,
  Row(<<N(0), N(3), N(3), N(6), N(9), Nothing0, Sup(A, N(0), N(4)), Inc(N(0)),
        N(5), N(5), Sup(A, N(5), N(2)),
        Dry(Case(K, N(0), None), Name(Free)), Dry(Case(K, N(0), None), Dry(Name(Free), N(1))),
        Fn("y", Call(Case(K, N(0), None), Var("y")))>>),
  52)

Numbers == Program1(
  Only(Row(<<
    Plus(N(3), N(4)), Op2("SUB", N(3), N(4)), Plus(N(3), Call(Id("x"), N(5))),
    Plus(Nothing0, N(1)), Plus(N(1), Nothing0), Plus(Sup(A, N(1), N(2)), N(10)),
    Plus(N(10), Sup(A, N(1), N(2))), Plus(Inc(N(1)), N(2)), Plus(N(2), Inc(N(1))),
    Fn("y", Plus(Var("y"), N(1))), Fn("y", Plus(N(1), Var("y"))), Op2("AND", N(6), N(3)),
    Op2("OR", N(6), N(3)), Op2("XOR", N(6), N(3)), Op2("LSH", N(1), N(4)),
    Op2("RSH", N(16), N(2))>>)),
  Row(<<N(7), N(2^NumBits - 1), N(8), Nothing0, Nothing0, Sup(A, N(11), N(12)),
        Sup(A, N(11), N(12)), Inc(N(3)), Inc(N(3)), Fn("y", Plus(Var("y"), N(1))),
        Fn("y", Plus(N(1), Var("y"))), N(2), N(7), N(5), N(16), N(4)>>),
  22)

Unscoped == Program1(
  Only(Row(<<LetUns("f", "x", Pair2(Call(Var("f"), N(1)), Var("x"))),
             LamUns("x", Pair2(Var("x"), N(2)))>>)),
  Row(<<Pair2(Fn("a", N(1)), Outer), Fn("b", Pair2(Var("b"), N(2)))>>),
  8)

Uses == Program1(
  <<<<F, Use(Fn("x", Plus(Var("x"), N(1))))>>,
    <<MainName, Row(<<Call(RefTo(F), N(1)), Call(RefTo(F), Nothing0),
                      Call(RefTo(F), Sup(A, N(1), N(2))), Call(RefTo(F), Inc(N(1)))>>)>>>>,
  Row(<<N(2), Nothing0, Sup(A, N(2), N(3)), Inc(N(2))>>),
  19)

Binders == Program1(
  LET four(x) == List(<<Dp(x, 0), Dp(x, 0), Dp(x, 1), Dp(x, 1)>>)
  IN Only(Row(<<
    Call(LamDup("x", FALSE, A, Sides("x")), N(1)), Call(LamDup("x", FALSE, Auto, Sides("x")), N(2)),
    Call(LamDup("x", TRUE, A, four("x")), N(3)), Call(LamDyn("x", FALSE, N(3), Sides("x")), N(4)),
    Call(LamDyn("x", TRUE, N(3), four("x")), N(5)),
    Let("x", FALSE, FALSE, N(6), Ctor(J, <<Var("x")>>)),
    Let("x", FALSE, TRUE, Plus(N(1), N(6)), Ctor(J, <<Var("x")>>)),
    Share("x", N(8), Trio(Var("x"), Var("x"), Var("x"))),
    Let("x", TRUE, TRUE, N(9), Both("x")), Dup("x", TRUE, A, N(10), four("x")),
    Dup("x", FALSE, Auto, N(11), Sides("x")),
    DupDyn("x", TRUE, N(3), N(12), Trio(Dp("x", 0), Dp("x", 1), Dp("x", 1))),
    Call2(Lam("x", TRUE, Lam("y", TRUE,
            List(<<Var("x"), Fn("z", Pair2(Var("y"), Var("z"))), Var("y"), Var("x")>>))),
          N(13), N(14))>>)),
  LET two(a) == Pair2(a, a)
      four(a) == List(<<a, a, a, a>>)
  IN Row(<<two(N(1)), two(N(2)), four(N(3)), two(N(4)), four(N(5)), Ctor(J, <<N(6)>>),
           Ctor(J, <<N(7)>>), Trio(N(8), N(8), N(8)), two(N(9)), four(N(10)), two(N(11)),
           Trio(N(12), N(12), N(12)),
           List(<<N(13), Fn("z", Pair2(N(14), Var("z"))), N(14), N(13)>>)>>),
  43)

Forks == Program1(
  LET single == <<Ctor(J, <<Var("x")>>), Pair2(Var("x"), N(1))>>
      double == <<Pair2(Var("x"), Var("y")), Pair2(Var("y"), Var("x"))>>
  IN Only(Row(<<
    Call(Fork(A, <<"x">>, single[1], single[2]), N(3)),
    Call2(Fork(A, <<"x", "y">>, double[1], double[2]), N(1), N(2)),
    Call(ForkDyn(N(7), <<"x">>, single[1], single[2]), N(3)),
    Call2(ForkDyn(N(7), <<"x", "y">>, double[1], double[2]), N(1), N(2))>>)),
  LET single(lab) == Sup(lab, Ctor(J, <<N(3)>>), Pair2(N(3), N(1)))
      double(lab) == Sup(lab, Pair2(N(1), N(2)), Pair2(N(2), N(1)))
  IN Row(<<single(A), double(A), single(7), double(7)>>),
  23)

\* Two applied to two, each with labels of its own, to (1 +) and to 5.
Church2 == Lam("f", TRUE, Fn("x", Call(Var("f"), Call(Var("f"), Var("x")))))
Church == Program1(
  <<<<F, Church2>>, <<G, Church2>>,
    <<MainName, Call(Call2(RefTo(F), RefTo(G), Fn("x", Plus(Var("x"), N(1)))), N(5))>>>>,
  N(9), 31)

Letters == Program1(
  LET letter(t) == Call(Match("SWI", 98, N(1), Fn("x", Plus(Var("x"), N(1)))), t)
  IN Only(Row(<<
    Same(Text(<<97, 98>>), Text(<<97, 98>>)), Same(Text(<<97, 98>>), Text(<<97, 99>>)),
    letter(Char(98)), letter(N(98)), Same(Succ(2, Ctor(J, <<N(1)>>)), Succ(2, Ctor(J, <<N(2)>>))),
    Same(List(<<>>), Text(<<>>))>>)),
  Row(<<Inc(Inc(Inc(Inc(N(1))))), Inc(Inc(Inc(N(0)))), Plus(Char(98), N(1)), N(1),
        Inc(Inc(N(0))), N(1)>>),
  25)

Wide == {Applications, Copied, Dynamic, Equal, EqualMore, Logic, Matching, Numbers, Unscoped,
         Uses, Binders, Forks, Church, Letters}

\* The programs that the parser or the machine refuses, and heaps that are full
\* when the book is read, when @main is stored and in the middle of a rule.
Bad(ends, e) == [Program1(Only(e), N(0), 0) EXCEPT !.ends = ends]
Crash == Bad("application", Pair2(N(1), Call(N(2), N(3))))
Refused == {Bad("rejected", Fn("x", Var("y"))), Bad("rejected", Fn("x", Both("x"))),
            Bad("rejected", Fork(A, <<"x">>, Fork(B, <<"y">>, Var("x"), Var("y")), Var("x"))),
            [Bad("rejected", N(0)) EXCEPT !.defs = <<<<F, N(0)>>>>], Crash}
Full == {[Church EXCEPT !.words = w, !.ends = "memory"] : w \in {20, 24, 60}}

\* The small programs: two threads in all interleavings.
Threads2 == {[p EXCEPT !.threads = 2] : p \in {
  Crash,
  Program1(<<<<F, Lam("x", TRUE, Both("x"))>>,
             <<MainName, Pair2(Call(RefTo(F), N(1)), Call(RefTo(F), N(2)))>>>>,
           Pair2(Pair2(N(1), N(1)), Pair2(N(2), N(2))), 4),
  Program1(Only(Share("x", Pair2(N(1), N(2)), Both("x"))),
           Pair2(Pair2(N(1), N(2)), Pair2(N(1), N(2))), 4),
  Program1(Only(Share("f", Fn("x", Plus(Var("x"), N(1))),
                      Pair2(Call(Var("f"), N(1)), Call(Var("f"), N(2))))),
           Pair2(N(2), N(3)), 9),
  Program1(Only(Share("x", Fn("y", Pair2(Var("y"), N(1))), Both("x"))),
           Pair2(Fn("y", Pair2(Var("y"), N(1))), Fn("y", Pair2(Var("y"), N(1)))), 5),
  Program1(Only(Fn("y", Share("x", Call(Var("y"), N(1)), Both("x")))),
           Fn("y", Pair2(Call(Var("y"), N(1)), Call(Var("y"), N(1)))), 1),
  Program1(Only(Dup("x", FALSE, A, Sup(B, N(1), N(2)), Sides("x"))),
           Pair2(Sup(B, N(1), N(2)), Sup(B, N(1), N(2))), 3),
  Program1(Only(Share("x", Plus(N(1), N(2)), Trio(Var("x"), Var("x"), Var("x")))),
           Trio(N(3), N(3), N(3)), 4)}}
Threads3 == {[Program1(Only(Share("x", Call(Id("y"), N(7)), Both("x"))), Pair2(N(7), N(7)), 3)
               EXCEPT !.threads = 3]}

MCPrograms == Wide \cup {[p EXCEPT !.steps = TRUE] : p \in Wide \cup {Crash}}
              \cup Refused \cup Full \cup Threads2 \cup Threads3

\* A fork whose branch uses its variable twice.
MCForks == {Bad("rejected", Call(Fork(A, <<"x">>, Both("x"), Var("x")), N(3)))}
=============================================================================
