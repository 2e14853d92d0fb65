----------------------------- MODULE ProgramProofs ------------------------------
(***************************************************************************)
(* The memory discipline of the machine of Program, for any programs,      *)
(* threads and sizes: every rule writes exactly the cells it allocated and *)
(* otherwise cells of terms, so no bank is left or shared, what a thread   *)
(* holds always refers to allocated cells, and nobody writes the book.     *)
(*                                                                         *)
(* The invariant names three sets of allocated cells besides those of the  *)
(* book: the cells of terms (F), the pairs of pending allocations (P) and, *)
(* among F, those that head a list of what is bound (B).  A rule is sound  *)
(* if it keeps them apart.  Of several threads it is assumed that none     *)
(* enters the empty word of a cell that another one has taken.             *)
(***************************************************************************)
EXTENDS Program, FiniteSetTheorems, SequenceTheorems, WellFoundedInduction, TLAPS

-----------------------------------------------------------------------------
(* Words.                                                                  *)

Twos == {"APP", "DRY", "SUP", "DUP", "OP2", "EQL", "AND", "OR", "MAT", "SWI"}
Ones == {"LAM", "USE", "UNS", "INC"}
Threes == {"DSU", "DDU"}

\* A word of a term.  F are the cells of terms, and A says where a pending
\* allocation may point: a word owns cells of terms, a copy or a variable
\* refers to one.
Firm(w, F, A) ==
  /\ Arity(w) > 0 => w.val \in Nat /\ Cells(w) \subseteq F
  /\ w.tag \in Dps \cup {"VAR"} => w.val \in F
  /\ w.tag = "ALO" => <<w.ext, w.val>> \in A

\* What a cell of a term holds: a word, or nothing while a thread has it, which
\* it may only when there are several (m).
Term(w, F, A, m) == Firm(w, F, A) \/ (m /\ Bare(w) = Zero)

\* The number of cells that a word owns depends on its tag only.
LEMMA ArityOf ==
  ASSUME NEW w
  PROVE  /\ Arity(w) \in 0..16
         /\ w.tag \in Twos => Arity(w) = 2
         /\ w.tag \in Ones => Arity(w) = 1
         /\ w.tag \in Threes => Arity(w) = 3
         /\ w.tag \notin Twos \cup Ones \cup Threes \cup Ctrs => Arity(w) = 0
<1>1. w.tag \in Ctrs => Fields(w.tag) \in 0..16
  <2> SUFFICES ASSUME w.tag \in Ctrs PROVE Fields(w.tag) \in 0..16
    OBVIOUS
  <2>1. PICK i \in DOMAIN Ctr : Ctr[i] = w.tag
    BY DEF Ctrs
  <2>2. (CHOOSE j \in DOMAIN Ctr : Ctr[j] = w.tag) \in DOMAIN Ctr
    BY <2>1
  <2>3. DOMAIN Ctr = 1..17
    BY DEF Ctr
  <2> QED BY <2>2, <2>3 DEF Fields
<1>2. (Twos \cup Ones \cup Threes) \cap Ctrs = {}
  BY DEF Twos, Ones, Threes, Ctrs, Ctr
<1> QED BY <1>1, <1>2 DEF Arity, Twos, Ones, Threes, Mats

\* A word owns as many cells as its tag says.
LEMMA SameArity ==
  ASSUME NEW w, NEW v, w.tag = v.tag
  PROVE  Arity(w) = Arity(v)
BY DEF Arity

\* The fields of a word that a constructor of Terms makes.
LEMMA WordIs ==
  ASSUME NEW tag, NEW e, NEW v
  PROVE  /\ Word(tag, e, v).tag = tag /\ Word(tag, e, v).val = v
         /\ Word(tag, e, v).ext = e % ExtSize
         /\ Bare(Word(tag, e, v)) = Word(tag, e, v)
BY DEF Word, Bare

LEMMA ZeroIs ==
  /\ Zero.tag = "APP" /\ Zero.val = 0 /\ Zero.ext = 0 /\ Zero.sub = FALSE
  /\ Bare(Zero) = Zero
BY DEF Zero, At, Word, ExtSize, Bare

LEMMA BareIs ==
  ASSUME NEW w
  PROVE  /\ Bare(w).tag = w.tag /\ Bare(w).val = w.val /\ Bare(w).ext = w.ext
         /\ Subst(w).tag = w.tag /\ Subst(w).val = w.val /\ Subst(w).ext = w.ext
         /\ Bare(Bare(w)) = Bare(w) /\ Bare(Subst(w)) = Bare(w)
         /\ Bare(w) = Zero => w.tag = "APP" /\ w.val = 0 /\ w.ext = 0
BY ZeroIs DEF Bare, Subst

\* The substitution bit does not matter.
LEMMA BareFirm ==
  ASSUME NEW w, NEW F, NEW A, Firm(w, F, A)
  PROVE  Firm(Bare(w), F, A) /\ Firm(Subst(w), F, A)
<1>1. Arity(Bare(w)) = Arity(w) /\ Arity(Subst(w)) = Arity(w)
  BY BareIs, SameArity
<1>2. Cells(Bare(w)) = Cells(w) /\ Cells(Subst(w)) = Cells(w)
  BY <1>1, BareIs DEF Cells
<1> QED BY <1>1, <1>2, BareIs DEF Firm

LEMMA BareTerm ==
  ASSUME NEW w, NEW F, NEW A, NEW m, Term(w, F, A, m)
  PROVE  Term(Bare(w), F, A, m) /\ Term(Subst(w), F, A, m)
BY BareFirm, BareIs DEF Term

\* A word stays firm when more cells are of terms and more allocations pend.
LEMMA FirmGrows ==
  ASSUME NEW w, NEW F, NEW A, Firm(w, F, A), NEW G, F \subseteq G, NEW B, A \subseteq B
  PROVE  Firm(w, G, B)
BY DEF Firm

LEMMA TermGrows ==
  ASSUME NEW w, NEW F, NEW A, NEW m, Term(w, F, A, m), NEW G, F \subseteq G, NEW B, A \subseteq B
  PROVE  Term(w, G, B, m)
BY FirmGrows DEF Term

-----------------------------------------------------------------------------
(* What a word owns.                                                       *)

\* What is left of a taken cell owns nothing.
LEMMA NotZero ==
  ASSUME NEW w, NEW F, NEW A, NEW m, Term(w, F, A, m), w.tag # "APP"
  PROVE  Firm(w, F, A)
BY BareIs DEF Term

LEMMA Owns ==
  ASSUME NEW w, NEW F, NEW A, Firm(w, F, A), F \subseteq Nat \ {0}
  PROVE  /\ \A i \in 0..(Arity(w) - 1) : w.val + i \in F
         /\ w.tag \in Twos => w.val \in F /\ w.val + 1 \in F
         /\ w.tag \in Ones => w.val \in F
         /\ w.tag \in Threes => w.val \in F /\ w.val + 1 \in F /\ w.val + 2 \in F
         /\ w.tag \in Dps \cup {"VAR"} => w.val \in F
         /\ Bare(w) # Zero
<1>1. Arity(w) > 0 => w.val \in Nat /\ Cells(w) \subseteq F
  BY DEF Firm
<1>2. Arity(w) \in Nat
  BY ArityOf
<1>3. ASSUME NEW i \in 0..(Arity(w) - 1)
      PROVE  w.val + i \in F
  BY <1>1, <1>2, <1>3 DEF Cells
<1>4. w.tag \in Twos => w.val \in F /\ w.val + 1 \in F
  BY <1>1, <1>2, ArityOf DEF Cells
<1>5. w.tag \in Ones => w.val \in F
  BY <1>1, <1>2, ArityOf DEF Cells
<1>6. w.tag \in Threes => w.val \in F /\ w.val + 1 \in F /\ w.val + 2 \in F
  BY <1>1, <1>2, ArityOf DEF Cells
<1>7. w.tag \in Dps \cup {"VAR"} => w.val \in F
  BY DEF Firm
<1>8. Bare(w) # Zero
  BY <1>4, BareIs DEF Twos
<1> QED BY <1>3, <1>4, <1>5, <1>6, <1>7, <1>8

-----------------------------------------------------------------------------
(* Words that rules build.                                                 *)

\* A word is firm if the cells it owns are cells of terms.
LEMMA Built ==
  ASSUME NEW tag, NEW e, NEW v \in Nat, NEW G, NEW A,
         \A i \in 0..(Arity(Word(tag, e, v)) - 1) : v + i \in G,
         tag \notin {"DP0", "DP1", "VAR", "ALO"}
  PROVE  Firm(Word(tag, e, v), G, A)
<1> DEFINE w == Word(tag, e, v)
<1>1. w.tag = tag /\ w.val = v
  BY WordIs
<1>2. Arity(w) \in Nat
  BY ArityOf
<1>3. Cells(w) \subseteq G
  <2> SUFFICES ASSUME NEW c \in Cells(w) PROVE c \in G
    OBVIOUS
  <2>1. c \in v..(v + Arity(w) - 1)
    BY <1>1 DEF Cells
  <2>2. c - v \in 0..(Arity(w) - 1) /\ v + (c - v) = c
    BY <2>1, <1>2
  <2> QED BY <2>2
<1> HIDE DEF w
<1> QED BY <1>1, <1>3 DEF Firm, w, Dps

LEMMA BuiltTwo ==
  ASSUME NEW tag, tag \in Twos, NEW e, NEW v \in Nat, NEW G, NEW A, v \in G, v + 1 \in G
  PROVE  Firm(Word(tag, e, v), G, A)
<1>1. Arity(Word(tag, e, v)) = 2
  BY ArityOf, WordIs
<1>2. \A i \in 0..(Arity(Word(tag, e, v)) - 1) : v + i \in G
  <2> SUFFICES ASSUME NEW i \in 0..1 PROVE v + i \in G
    BY <1>1
  <2>1. i = 0 \/ i = 1
    OBVIOUS
  <2> QED BY <2>1
<1> QED BY <1>2, Built DEF Twos

LEMMA BuiltOne ==
  ASSUME NEW tag, tag \in Ones, NEW e, NEW v \in Nat, NEW G, NEW A, v \in G
  PROVE  Firm(Word(tag, e, v), G, A)
<1>1. Arity(Word(tag, e, v)) = 1
  BY ArityOf, WordIs
<1>2. \A i \in 0..(Arity(Word(tag, e, v)) - 1) : v + i \in G
  <2> SUFFICES ASSUME NEW i \in 0..0 PROVE v + i \in G
    BY <1>1
  <2>1. i = 0
    OBVIOUS
  <2> QED BY <2>1
<1> QED BY <1>2, Built DEF Ones

LEMMA BuiltThree ==
  ASSUME NEW tag, tag \in Threes, NEW e, NEW v \in Nat, NEW G, NEW A,
         v \in G, v + 1 \in G, v + 2 \in G
  PROVE  Firm(Word(tag, e, v), G, A)
<1>1. Arity(Word(tag, e, v)) = 3
  BY ArityOf, WordIs
<1>2. \A i \in 0..(Arity(Word(tag, e, v)) - 1) : v + i \in G
  <2> SUFFICES ASSUME NEW i \in 0..2 PROVE v + i \in G
    BY <1>1
  <2>1. i = 0 \/ i = 1 \/ i = 2
    OBVIOUS
  <2> QED BY <2>1
<1> QED BY <1>2, Built DEF Threes

\* Atoms own nothing.
Atom(tag) == tag \notin Twos \cup Ones \cup Threes \cup Ctrs \cup {"DP0", "DP1", "VAR", "ALO"}

LEMMA AtomFirm ==
  ASSUME NEW w, Atom(w.tag), NEW G, NEW A
  PROVE  Firm(w, G, A)
<1>1. Arity(w) = 0
  BY ArityOf DEF Atom
<1> QED BY <1>1 DEF Firm, Atom, Dps

LEMMA BuiltAtom ==
  ASSUME NEW tag, Atom(tag), NEW e, NEW v, NEW G, NEW A
  PROVE  Firm(Word(tag, e, v), G, A)
BY AtomFirm, WordIs

LEMMA AtomTags ==
  /\ Atom("NUM") /\ Atom("ERA") /\ Atom("NAM") /\ Atom("BJV") /\ Atom("BJ0") /\ Atom("BJ1")
  /\ Atom("REF") /\ Atom("ANY") /\ Atom("F_OP2_NUM") /\ Atom("F_EQL_R")
BY DEF Atom, Twos, Ones, Threes, Ctrs, Ctr

LEMMA NumFirm ==
  ASSUME NEW n, NEW G, NEW A
  PROVE  Firm(Num(n), G, A) /\ Firm(Era, G, A)
BY BuiltAtom, AtomTags DEF Num, Era

\* A copy or a variable refers to a cell and owns none.
LEMMA BuiltRef ==
  ASSUME NEW tag, tag \in {"DP0", "DP1", "VAR"}, NEW e, NEW v, NEW G, NEW A, v \in G
  PROVE  Firm(Word(tag, e, v), G, A)
<1> DEFINE w == Word(tag, e, v)
<1>1. w.tag = tag /\ w.val = v
  BY WordIs
<1>2. w.tag \notin Twos \cup Ones \cup Threes \cup Ctrs /\ w.tag # "ALO"
  BY <1>1 DEF Twos, Ones, Threes, Ctrs, Ctr
<1>3. Arity(w) = 0
  BY <1>2, ArityOf
<1> HIDE DEF w
<1> QED BY <1>1, <1>2, <1>3 DEF Firm, w

-----------------------------------------------------------------------------
(* What rules write.                                                       *)

\* f writes terms into the cells D, all of them in G.
Writes(f, D, G, A, m) ==
  DOMAIN f = D /\ D \subseteq G /\ \A l \in D : Term(f[l], G, A, m)

LEMMA WritesNothing ==
  ASSUME NEW G, NEW A, NEW m
  PROVE  Writes(Nothing, {}, G, A, m)
BY DEF Writes, Nothing

LEMMA WritesOne ==
  ASSUME NEW loc, NEW G, loc \in G, NEW A, NEW m, NEW t, Term(t, G, A, m)
  PROVE  Writes(Write(loc, t), {loc}, G, A, m)
BY DEF Writes, Write

LEMMA WritesBoth ==
  ASSUME NEW f, NEW D, NEW G, NEW A, NEW m, Writes(f, D, G, A, m),
         NEW g, NEW E, Writes(g, E, G, A, m)
  PROVE  Writes(f ++ g, D \cup E, G, A, m)
<1>1. DOMAIN (f ++ g) = D \cup E
  BY DEF Writes, ++
<1>2. \A l \in D \cup E : (f ++ g)[l] = IF l \in D THEN f[l] ELSE g[l]
  BY DEF Writes, ++
<1> QED BY <1>1, <1>2 DEF Writes

LEMMA WritesTwo ==
  ASSUME NEW loc \in Nat, NEW G, loc \in G, loc + 1 \in G, NEW A, NEW m,
         NEW a, Term(a, G, A, m), NEW b, Term(b, G, A, m)
  PROVE  Writes(Node(loc, <<a, b>>), {loc, loc + 1}, G, A, m)
<1> DEFINE f == Node(loc, <<a, b>>)
<1>1. loc..(loc + 2 - 1) = {loc, loc + 1}
  OBVIOUS
<1>2. DOMAIN f = {loc, loc + 1}
  BY <1>1 DEF Node
<1>3. f[loc] = a /\ f[loc + 1] = b
  BY <1>1 DEF Node
<1> HIDE DEF f
<1> QED BY <1>2, <1>3 DEF Writes, f

LEMMA WritesThree ==
  ASSUME NEW loc \in Nat, NEW G, loc \in G, loc + 1 \in G, loc + 2 \in G, NEW A, NEW m,
         NEW a, Term(a, G, A, m), NEW b, Term(b, G, A, m), NEW c, Term(c, G, A, m)
  PROVE  Writes(Node(loc, <<a, b, c>>), {loc, loc + 1, loc + 2}, G, A, m)
<1> DEFINE f == Node(loc, <<a, b, c>>)
<1>1. loc..(loc + 3 - 1) = {loc, loc + 1, loc + 2}
  OBVIOUS
<1>2. DOMAIN f = {loc, loc + 1, loc + 2}
  BY <1>1 DEF Node
<1>3. f[loc] = a /\ f[loc + 1] = b /\ f[loc + 2] = c
  BY <1>1 DEF Node
<1> HIDE DEF f
<1> QED BY <1>2, <1>3 DEF Writes, f

LEMMA WritesFour ==
  ASSUME NEW loc \in Nat, NEW G, loc \in G, loc + 1 \in G, loc + 2 \in G, loc + 3 \in G,
         NEW A, NEW m, NEW a, Term(a, G, A, m), NEW b, Term(b, G, A, m),
         NEW c, Term(c, G, A, m), NEW d, Term(d, G, A, m)
  PROVE  Writes(Node(loc, <<a, b, c, d>>), {loc, loc + 1, loc + 2, loc + 3}, G, A, m)
<1> DEFINE f == Node(loc, <<a, b, c, d>>)
<1>1. loc..(loc + 4 - 1) = {loc, loc + 1, loc + 2, loc + 3}
  OBVIOUS
<1>2. DOMAIN f = {loc, loc + 1, loc + 2, loc + 3}
  BY <1>1 DEF Node
<1>3. f[loc] = a /\ f[loc + 1] = b /\ f[loc + 2] = c /\ f[loc + 3] = d
  BY <1>1 DEF Node
<1> HIDE DEF f
<1> QED BY <1>2, <1>3 DEF Writes, f

-----------------------------------------------------------------------------
(* Sound rules.                                                            *)

\* The n cells from k on.
New(k, n) == k..(k + n - 1)

\* A rule writes all the cells it asks for, and otherwise only cells of terms,
\* and leaves a term.
Sound(r, k, F, A, m) ==
  LET G == F \cup New(k, r.words)
  IN /\ r.words \in Nat /\ r.count \in Nat
     /\ r.go \in {"enter", "apply", "rebuild"}
     /\ New(k, r.words) \subseteq DOMAIN r.writes
     /\ Writes(r.writes, DOMAIN r.writes, G, A, m)
     /\ Term(r.t, G, A, m)
     /\ r.go # "enter" => Firm(r.t, G, A)

\* A rule is sound if it writes terms, its new cells among them, and leaves a
\* term.
LEMMA StepSound ==
  ASSUME NEW go, NEW t, NEW f, NEW n \in Nat, NEW c \in Nat, NEW k, NEW F, NEW A, NEW m,
         NEW D, New(k, n) \subseteq D, Writes(f, D, F \cup New(k, n), A, m),
         \/ go \in {"apply", "rebuild"} /\ Firm(t, F \cup New(k, n), A)
         \/ go = "enter" /\ Term(t, F \cup New(k, n), A, m)
  PROVE  Sound(Step(go, t, f, n, c), k, F, A, m)
<1> DEFINE r == Step(go, t, f, n, c)
<1>1. r.go = go /\ r.t = t /\ r.writes = f /\ r.words = n /\ r.count = c
  BY DEF Step
<1>2. DOMAIN f = D
  BY DEF Writes
<1>3. Term(t, F \cup New(k, n), A, m)
  BY DEF Term
<1> HIDE DEF r
<1> QED BY <1>1, <1>2, <1>3 DEF Sound, r

\* Rules that allocate nothing.
LEMMA NoNew ==
  ASSUME NEW k \in Nat, NEW F
  PROVE  New(k, 0) = {} /\ F \cup New(k, 0) = F
<1>1. New(k, 0) = {}
  BY DEF New
<1> QED BY <1>1

LEMMA StepInPlace ==
  ASSUME NEW go, NEW t, NEW f, NEW c \in Nat, NEW k \in Nat, NEW F, NEW A, NEW m,
         NEW D, Writes(f, D, F, A, m),
         \/ go \in {"apply", "rebuild"} /\ Firm(t, F, A)
         \/ go = "enter" /\ Term(t, F, A, m)
  PROVE  Sound(Step(go, t, f, 0, c), k, F, A, m)
BY NoNew, StepSound

\* The cells a rule allocates.
LEMMA NewIs ==
  ASSUME NEW k \in Nat \ {0}
  PROVE  /\ New(k, 1) = {k} /\ New(k, 2) = {k, k + 1} /\ New(k, 3) = {k, k + 1, k + 2}
         /\ New(k, 4) = {k, k + 1, k + 2, k + 3}
         /\ New(k, 5) = {k, k + 1, k + 2, k + 3, k + 4}
         /\ New(k, 6) = {k, k + 1, k + 2, k + 3, k + 4, k + 5}
         /\ New(k, 8) = {k, k + 1, k + 2, k + 3, k + 4, k + 5, k + 6, k + 7}
BY DEF New

LEMMA NewNat ==
  ASSUME NEW k \in Nat \ {0}, NEW n \in Nat
  PROVE  New(k, n) \subseteq Nat \ {0} /\ \A i \in 0..(n - 1) : k + i \in New(k, n)
BY DEF New

\* A node of any length.
LEMMA WritesSeq ==
  ASSUME NEW loc \in Nat, NEW n \in Nat, NEW args, Len(args) = n, NEW G, NEW A, NEW m,
         \A i \in 1..n : loc + i - 1 \in G /\ Term(args[i], G, A, m)
  PROVE  Writes(Node(loc, args), New(loc, n), G, A, m)
<1> DEFINE f == Node(loc, args)
<1>1. DOMAIN f = New(loc, n) /\ \A l \in New(loc, n) : f[l] = args[l - loc + 1]
  BY DEF Node, New
<1> HIDE DEF f
<1>2. ASSUME NEW l \in New(loc, n) PROVE l \in G /\ Term(f[l], G, A, m)
  <2>1. l - loc + 1 \in 1..n /\ loc + (l - loc + 1) - 1 = l
    BY DEF New
  <2>2. l \in G /\ Term(args[l - loc + 1], G, A, m)
    BY <2>1
  <2> QED BY <1>1, <2>2
<1> QED BY <1>1, <1>2 DEF Writes, f

HeapOk(h, F, A, m) == F \subseteq Nat \ {0} /\ \A l \in F : Term(h[l], F, A, m)

\* What is read from cells of terms are terms, also after an allocation.
Room(h, F, A, m, k, n, G) ==
  /\ G = F \cup New(k, n) /\ F \subseteq G /\ G \subseteq Nat \ {0}
  /\ \A i \in 0..(n - 1) : k + i \in G
  /\ \A l \in F : l \in G /\ l \in Nat /\ Term(h[l], G, A, m)
  /\ \A w : Firm(w, F, A) => Firm(w, G, A)
  /\ \A w : Term(w, F, A, m) => Term(w, G, A, m)

\* What was a term before an allocation is one after it.
LEMMA Grown ==
  ASSUME NEW h, NEW F, NEW A, NEW m, HeapOk(h, F, A, m), NEW k \in Nat \ {0}, NEW n \in Nat
  PROVE  Room(h, F, A, m, k, n, F \cup New(k, n))
<1> DEFINE G == F \cup New(k, n)
<1>1. F \subseteq G /\ G \subseteq Nat \ {0} /\ New(k, n) \subseteq G
  BY NewNat DEF HeapOk
<1>2. ASSUME NEW w, Firm(w, F, A) PROVE Firm(w, G, A)
  BY <1>1, <1>2, FirmGrows
<1>3. ASSUME NEW w, Term(w, F, A, m) PROVE Term(w, G, A, m)
  BY <1>1, <1>3, TermGrows
<1>4. \A i \in 0..(n - 1) : k + i \in G
  BY NewNat
<1>5. G = F \cup New(k, n)
  OBVIOUS
<1> HIDE DEF G
<1>6. \A l \in F : l \in G /\ l \in Nat /\ Term(h[l], G, A, m)
  BY <1>1, <1>3 DEF HeapOk
<1> QED BY <1>1, <1>2, <1>3, <1>4, <1>5, <1>6 DEF Room

\* The parts of a superposition, and of other nodes.
LEMMA TwoParts ==
  ASSUME NEW h, NEW F, NEW A, NEW m, HeapOk(h, F, A, m), NEW w, Firm(w, F, A), w.tag \in Twos
  PROVE  /\ w.val \in F /\ w.val + 1 \in F /\ w.val \in Nat \ {0} /\ w.val + 1 \in Nat
         /\ Term(h[w.val], F, A, m) /\ Term(h[w.val + 1], F, A, m)
<1>1. w.val \in F /\ w.val + 1 \in F
  BY Owns DEF HeapOk
<1> QED BY <1>1 DEF HeapOk

LEMMA OnePart ==
  ASSUME NEW h, NEW F, NEW A, NEW m, HeapOk(h, F, A, m), NEW w, Firm(w, F, A), w.tag \in Ones
  PROVE  w.val \in F /\ w.val \in Nat \ {0} /\ Term(h[w.val], F, A, m)
<1>1. w.val \in F
  BY Owns DEF HeapOk
<1> QED BY <1>1 DEF HeapOk

-----------------------------------------------------------------------------
(* The rules.                                                              *)

\* A superposition on the left: three cells, two copies of the right argument.
LEMMA SupLeftSound ==
  ASSUME NEW h, NEW F, NEW A, NEW m, HeapOk(h, F, A, m), NEW k \in Nat \ {0},
         NEW tag, tag \in Twos, NEW ext, NEW loc, loc \in F, loc + 1 \in F,
         NEW sup, Firm(sup, F, A), sup.tag = "SUP", NEW y, Term(y, F, A, m)
  PROVE  Sound(SupLeft(h, k, tag, ext, loc, sup, y), k, F, A, m)
<1> DEFINE G == F \cup New(k, 3)
           Y0 == Word("DP0", sup.ext, k)
           Y1 == Word("DP1", sup.ext, k)
           l == Word(tag, ext, loc)
           r == Word(tag, ext, k + 1)
           f == Node(loc, <<h[sup.val], Y0>>)
           g == Node(k + 1, <<h[sup.val + 1], Y1>>)
           e == Node(sup.val, <<l, r>>)
           all == f ++ Write(k, y) ++ g ++ e
           D == (({loc, loc + 1} \cup {k}) \cup {k + 1, k + 1 + 1}) \cup {sup.val, sup.val + 1}
<1>1. SupLeft(h, k, tag, ext, loc, sup, y) = Step("apply", sup, all, 3, 1)
  BY DEF SupLeft, Apply, Copies
<1>2. Room(h, F, A, m, k, 3, G)
  BY Grown
<1> HIDE DEF G
<1>3. /\ loc \in G /\ loc + 1 \in G /\ loc \in Nat
      /\ sup.val \in G /\ sup.val + 1 \in G /\ sup.val \in Nat
      /\ Term(h[sup.val], G, A, m) /\ Term(h[sup.val + 1], G, A, m) /\ Term(y, G, A, m)
      /\ Firm(sup, G, A)
  BY <1>2, TwoParts DEF Room, Twos
<1>4. k \in G /\ k + 1 \in G /\ k + 1 + 1 \in G /\ k + 1 \in Nat
        /\ New(k, 3) = {k, k + 1, k + 1 + 1}
  BY <1>2, NewIs DEF Room
<1>5. Term(Y0, G, A, m) /\ Term(Y1, G, A, m) /\ Term(l, G, A, m) /\ Term(r, G, A, m)
  BY <1>4, BuiltRef, BuiltTwo, <1>3 DEF Term
<1> HIDE DEF Y0, Y1, l, r
<1>6. Writes(f, {loc, loc + 1}, G, A, m)
  BY <1>4, <1>3, <1>5, WritesTwo
<1>7. Writes(Write(k, y), {k}, G, A, m)
  BY <1>4, <1>3, WritesOne
<1>8. Writes(g, {k + 1, k + 1 + 1}, G, A, m)
  BY <1>4, <1>3, <1>5, WritesTwo
<1>9. Writes(e, {sup.val, sup.val + 1}, G, A, m)
  BY <1>3, <1>5, WritesTwo
<1> HIDE DEF f, g, e
<1>10. Writes(all, D, G, A, m)
  BY <1>6, <1>7, <1>8, <1>9, WritesBoth
<1>11. New(k, 3) \subseteq D
  BY <1>4
<1> QED BY <1>1, <1>3, <1>10, <1>11, StepSound DEF G

LEMMA IncLeftSound ==
  ASSUME NEW h, NEW F, NEW A, NEW m, HeapOk(h, F, A, m), NEW k \in Nat \ {0},
         NEW tag, tag \in Twos, NEW loc, loc \in F, loc + 1 \in F,
         NEW inc, Firm(inc, F, A), inc.tag = "INC"
  PROVE  Sound(IncLeft(h, tag, loc, inc), k, F, A, m)
<1> DEFINE f == Write(loc, h[inc.val])
           g == Write(inc.val, At(tag, loc))
<1>1. IncLeft(h, tag, loc, inc) = Step("apply", inc, f ++ g, 0, 1)
  BY DEF IncLeft, Apply
<1>2. inc.val \in F /\ Term(h[inc.val], F, A, m) /\ loc \in Nat
  BY OnePart DEF Ones, HeapOk
<1>3. Term(At(tag, loc), F, A, m)
  BY <1>2, BuiltTwo DEF At, Term
<1>4. Writes(f, {loc}, F, A, m) /\ Writes(g, {inc.val}, F, A, m)
  BY <1>2, <1>3, WritesOne
<1> HIDE DEF f, g
<1>5. Writes(f ++ g, {loc} \cup {inc.val}, F, A, m)
  BY <1>4, WritesBoth
<1> QED BY <1>1, <1>5, StepInPlace

LEMMA IncNewTwo ==
  ASSUME NEW h, NEW F, NEW A, NEW m, HeapOk(h, F, A, m), NEW k \in Nat \ {0},
         NEW tag, tag \in Twos, NEW ext, NEW a, Term(a, F, A, m), NEW b, Term(b, F, A, m),
         NEW inc, Firm(inc, F, A), inc.tag = "INC"
  PROVE  Sound(IncNew(k, tag, ext, <<a, b>>, inc), k, F, A, m)
<1> DEFINE G == F \cup New(k, 2)
           f == Node(k, <<a, b>>)
           g == Write(inc.val, Word(tag, ext, k))
<1>1. IncNew(k, tag, ext, <<a, b>>, inc) = Step("apply", inc, f ++ g, 2, 1)
  BY DEF IncNew, Apply
<1>2. Room(h, F, A, m, k, 2, G)
  BY Grown
<1> HIDE DEF G
<1>3. inc.val \in G /\ Firm(inc, G, A) /\ Term(a, G, A, m) /\ Term(b, G, A, m)
  BY <1>2, OnePart DEF Room, Ones
<1>4. k \in G /\ k + 1 \in G /\ New(k, 2) = {k, k + 1}
  BY <1>2, NewIs DEF Room
<1>5. Term(Word(tag, ext, k), G, A, m)
  BY <1>4, BuiltTwo DEF Term
<1>6. Writes(f, {k, k + 1}, G, A, m)
  BY <1>3, <1>4, WritesTwo
<1>7. Writes(g, {inc.val}, G, A, m)
  BY <1>3, <1>5, WritesOne
<1> HIDE DEF f, g
<1>8. Writes(f ++ g, {k, k + 1} \cup {inc.val}, G, A, m)
  BY <1>6, <1>7, WritesBoth
<1>9. New(k, 2) \subseteq {k, k + 1} \cup {inc.val}
  BY <1>4
<1> QED BY <1>1, <1>3, <1>8, <1>9, StepSound DEF G

LEMMA IncNewThree ==
  ASSUME NEW h, NEW F, NEW A, NEW m, HeapOk(h, F, A, m), NEW k \in Nat \ {0},
         NEW tag, tag \in Threes, NEW ext, NEW a, Term(a, F, A, m), NEW b, Term(b, F, A, m),
         NEW c, Term(c, F, A, m), NEW inc, Firm(inc, F, A), inc.tag = "INC"
  PROVE  Sound(IncNew(k, tag, ext, <<a, b, c>>, inc), k, F, A, m)
<1> DEFINE G == F \cup New(k, 3)
           f == Node(k, <<a, b, c>>)
           g == Write(inc.val, Word(tag, ext, k))
<1>1. IncNew(k, tag, ext, <<a, b, c>>, inc) = Step("apply", inc, f ++ g, 3, 1)
  BY DEF IncNew, Apply
<1>2. Room(h, F, A, m, k, 3, G)
  BY Grown
<1> HIDE DEF G
<1>3. inc.val \in G /\ Firm(inc, G, A) /\ Term(a, G, A, m) /\ Term(b, G, A, m) /\ Term(c, G, A, m)
  BY <1>2, OnePart DEF Room, Ones
<1>4. k \in G /\ k + 1 \in G /\ k + 2 \in G /\ New(k, 3) = {k, k + 1, k + 2}
  BY <1>2, NewIs DEF Room
<1>5. Term(Word(tag, ext, k), G, A, m)
  BY <1>4, BuiltThree DEF Term
<1>6. Writes(f, {k, k + 1, k + 2}, G, A, m)
  BY <1>3, <1>4, WritesThree
<1>7. Writes(g, {inc.val}, G, A, m)
  BY <1>3, <1>5, WritesOne
<1> HIDE DEF f, g
<1>8. Writes(f ++ g, {k, k + 1, k + 2} \cup {inc.val}, G, A, m)
  BY <1>6, <1>7, WritesBoth
<1>9. New(k, 3) \subseteq {k, k + 1, k + 2} \cup {inc.val}
  BY <1>4
<1> QED BY <1>1, <1>3, <1>8, <1>9, StepSound DEF G

\* Two nodes compared part by part, in four new cells.
LEMMA PairwiseSound ==
  ASSUME NEW h, NEW F, NEW A, NEW m, HeapOk(h, F, A, m), NEW k \in Nat \ {0},
         NEW loc, loc \in F, loc + 1 \in F,
         NEW a, Firm(a, F, A), a.tag \in Twos, NEW b, Firm(b, F, A), b.tag \in Twos
  PROVE  Sound(Pairwise(h, k, loc, a, b), k, F, A, m)
<1> DEFINE G == F \cup New(k, 4)
           f == Node(k, <<h[a.val], h[b.val]>>)
           g == Node(k + 2, <<h[a.val + 1], h[b.val + 1]>>)
           e == Node(loc, <<At("EQL", k), At("EQL", k + 2)>>)
           D == ({k, k + 1} \cup {k + 2, k + 2 + 1}) \cup {loc, loc + 1}
<1>1. Pairwise(h, k, loc, a, b) = Step("enter", At("AND", loc), f ++ g ++ e, 4, 1)
  BY DEF Pairwise, Enter
<1>2. Room(h, F, A, m, k, 4, G)
  BY Grown
<1> HIDE DEF G
<1>3. /\ loc \in G /\ loc + 1 \in G /\ loc \in Nat
      /\ Term(h[a.val], G, A, m) /\ Term(h[a.val + 1], G, A, m)
      /\ Term(h[b.val], G, A, m) /\ Term(h[b.val + 1], G, A, m)
  BY <1>2, TwoParts DEF Room
<1>4. /\ k \in G /\ k + 1 \in G /\ k + 2 \in G /\ k + 2 + 1 \in G /\ k + 2 \in Nat
      /\ New(k, 4) = {k, k + 1, k + 2, k + 2 + 1}
  BY <1>2, NewIs DEF Room
<1>5. /\ Term(At("EQL", k), G, A, m) /\ Term(At("EQL", k + 2), G, A, m)
      /\ Term(At("AND", loc), G, A, m)
  BY <1>3, <1>4, BuiltTwo DEF Term, At, Twos
<1>6. Writes(f, {k, k + 1}, G, A, m)
  BY <1>3, <1>4, WritesTwo
<1>7. Writes(g, {k + 2, k + 2 + 1}, G, A, m)
  BY <1>3, <1>4, WritesTwo
<1>8. Writes(e, {loc, loc + 1}, G, A, m)
  BY <1>3, <1>5, WritesTwo
<1> HIDE DEF f, g, e
<1>9. Writes(f ++ g ++ e, D, G, A, m)
  BY <1>6, <1>7, <1>8, WritesBoth
<1>10. New(k, 4) \subseteq D
  BY <1>4
<1> QED BY <1>1, <1>5, <1>9, <1>10, StepSound DEF G

LEMMA UnsSound ==
  ASSUME NEW h, NEW F, NEW A, NEW m, HeapOk(h, F, A, m), NEW k \in Nat \ {0},
         NEW uns, Firm(uns, F, A), uns.tag = "UNS"
  PROVE  Sound(WnfUns(h, k, uns), k, F, A, m)
<1> DEFINE G == F \cup New(k, 6)
           f == Node(k, <<At("VAR", k + 1), At("LAM", k)>>)
           g == Node(k + 2, <<h[uns.val], At("LAM", k + 1)>>)
           e == Node(k + 4, <<At("APP", k + 2), At("VAR", k)>>)
           D == ({k, k + 1} \cup {k + 2, k + 2 + 1}) \cup {k + 4, k + 4 + 1}
<1>1. WnfUns(h, k, uns) = Step("enter", At("APP", k + 4), f ++ g ++ e, 6, 1)
  BY DEF WnfUns, Enter
<1>2. Room(h, F, A, m, k, 6, G)
  BY Grown
<1> HIDE DEF G
<1>3. Term(h[uns.val], G, A, m)
  BY <1>2, OnePart DEF Room, Ones
<1>4. /\ k \in G /\ k + 1 \in G /\ k + 2 \in G /\ k + 2 + 1 \in G /\ k + 4 \in G /\ k + 4 + 1 \in G
      /\ k + 1 \in Nat /\ k + 2 \in Nat /\ k + 4 \in Nat
      /\ New(k, 6) = {k, k + 1, k + 2, k + 2 + 1, k + 4, k + 4 + 1}
  BY <1>2, NewIs DEF Room
<1>5. /\ Term(At("VAR", k), G, A, m) /\ Term(At("VAR", k + 1), G, A, m)
      /\ Term(At("LAM", k), G, A, m) /\ Term(At("LAM", k + 1), G, A, m)
      /\ Term(At("APP", k + 2), G, A, m) /\ Term(At("APP", k + 4), G, A, m)
  BY <1>4, BuiltTwo, BuiltOne, BuiltRef DEF Term, At, Twos, Ones
<1>6. Writes(f, {k, k + 1}, G, A, m)
  BY <1>4, <1>5, WritesTwo
<1>7. Writes(g, {k + 2, k + 2 + 1}, G, A, m)
  BY <1>3, <1>4, <1>5, WritesTwo
<1>8. Writes(e, {k + 4, k + 4 + 1}, G, A, m)
  BY <1>4, <1>5, WritesTwo
<1> HIDE DEF f, g, e
<1>9. Writes(f ++ g ++ e, D, G, A, m)
  BY <1>6, <1>7, <1>8, WritesBoth
<1>10. New(k, 6) \subseteq D
  BY <1>4
<1> QED BY <1>1, <1>5, <1>9, <1>10, StepSound DEF G

\* Rules that only leave a term.
LEMMA LeavesSound ==
  ASSUME NEW F, NEW A, NEW m, NEW k \in Nat \ {0}, NEW t,
         NEW go, NEW c \in Nat,
         \/ go \in {"apply", "rebuild"} /\ Firm(t, F, A)
         \/ go = "enter" /\ Term(t, F, A, m)
  PROVE  Sound(Step(go, t, Nothing, 0, c), k, F, A, m)
BY WritesNothing, StepInPlace

LEMMA AnswerSound ==
  ASSUME NEW F, NEW A, NEW m, NEW k \in Nat \ {0}
  PROVE  Sound(Erase, k, F, A, m) /\ \A b : Sound(Answer(b), k, F, A, m)
BY LeavesSound, NumFirm DEF Erase, Answer, Apply

\* Rules that write one cell.
LEMMA OneSound ==
  ASSUME NEW F, NEW A, NEW m, NEW k \in Nat \ {0}, NEW t, NEW go, NEW c \in Nat,
         \/ go \in {"apply", "rebuild"} /\ Firm(t, F, A)
         \/ go = "enter" /\ Term(t, F, A, m),
         NEW loc, loc \in F, NEW v, Term(v, F, A, m)
  PROVE  Sound(Step(go, t, Write(loc, v), 0, c), k, F, A, m)
<1>1. Writes(Write(loc, v), {loc}, F, A, m)
  BY WritesOne
<1> QED BY <1>1, StepInPlace

\* Rules that build a new node of two parts.
LEMMA PairSound ==
  ASSUME NEW h, NEW F, NEW A, NEW m, HeapOk(h, F, A, m), NEW k \in Nat \ {0},
         NEW go \in {"apply", "rebuild", "enter"}, NEW c \in Nat,
         NEW tag, tag \in Twos, NEW ext, NEW a, Term(a, F, A, m), NEW b, Term(b, F, A, m)
  PROVE  Sound(Step(go, Word(tag, ext, k), Node(k, <<a, b>>), 2, c), k, F, A, m)
<1> DEFINE G == F \cup New(k, 2)
<1>1. Room(h, F, A, m, k, 2, G)
  BY Grown
<1> HIDE DEF G
<1>2. k \in G /\ k + 1 \in G /\ New(k, 2) \subseteq {k, k + 1}
  BY <1>1, NewIs DEF Room
<1>3. Term(a, G, A, m) /\ Term(b, G, A, m)
  BY <1>1 DEF Room
<1>4. Writes(Node(k, <<a, b>>), {k, k + 1}, G, A, m)
  BY <1>2, <1>3, WritesTwo
<1>5. Firm(Word(tag, ext, k), G, A) /\ Term(Word(tag, ext, k), G, A, m)
  BY <1>2, BuiltTwo DEF Term
<1> QED BY <1>2, <1>4, <1>5, StepSound DEF G

LEMMA AppNameSound ==
  ASSUME NEW F, NEW A, NEW m, F \subseteq Nat \ {0}, NEW k \in Nat \ {0},
         NEW loc, loc \in F, loc + 1 \in F, NEW v, Firm(v, F, A)
  PROVE  Sound(AppName(loc, v), k, F, A, m)
<1>1. Firm(At("DRY", loc), F, A) /\ Term(v, F, A, m)
  BY BuiltTwo DEF At, Twos, Term
<1> QED BY <1>1, OneSound DEF AppName

LEMMA AppLamSound ==
  ASSUME NEW h, NEW F, NEW A, NEW m, HeapOk(h, F, A, m), NEW k \in Nat \ {0},
         NEW lam, Firm(lam, F, A), lam.tag = "LAM", NEW arg, Term(arg, F, A, m)
  PROVE  Sound(AppLam(h, lam, arg), k, F, A, m)
<1>1. lam.val \in F /\ Term(h[lam.val], F, A, m) /\ Term(Subst(arg), F, A, m)
  BY OnePart, BareTerm DEF Ones
<1>2. CASE Erased(lam)
  <2>1. AppLam(h, lam, arg) = Step("enter", h[lam.val], Nothing, 0, 1)
    BY <1>2 DEF AppLam, Enter
  <2> QED BY <1>1, <2>1, LeavesSound
<1>3. CASE ~ Erased(lam)
  <2>1. AppLam(h, lam, arg) = Step("enter", h[lam.val], Write(lam.val, Subst(arg)), 0, 1)
    BY <1>3 DEF AppLam, Enter
  <2> QED BY <1>1, <2>1, OneSound
<1> QED BY <1>2, <1>3

LEMMA AppSupSound ==
  ASSUME NEW h, NEW F, NEW A, NEW m, HeapOk(h, F, A, m), NEW k \in Nat \ {0},
         NEW loc, loc \in F, loc + 1 \in F,
         NEW sup, Firm(sup, F, A), sup.tag = "SUP", NEW arg, Term(arg, F, A, m)
  PROVE  Sound(AppSup(h, k, loc, sup, arg), k, F, A, m)
<1> DEFINE G == F \cup New(k, 3)
           D0 == Word("DP0", sup.ext, k)
           D1 == Word("DP1", sup.ext, k)
           t == Word("SUP", sup.ext, loc)
           f == Write(k, arg)
           g == Write(sup.val + 1, D0)
           e == Node(k + 1, <<h[sup.val + 1], D1>>)
           d == Node(loc, <<At("APP", sup.val), At("APP", k + 1)>>)
           D == (({k} \cup {sup.val + 1}) \cup {k + 1, k + 1 + 1}) \cup {loc, loc + 1}
<1>1. AppSup(h, k, loc, sup, arg) = Step("apply", t, f ++ g ++ e ++ d, 3, 1)
  BY DEF AppSup, Apply, Copies
<1>2. Room(h, F, A, m, k, 3, G)
  BY Grown
<1> HIDE DEF G
<1>3. /\ loc \in G /\ loc + 1 \in G /\ loc \in Nat
      /\ sup.val \in G /\ sup.val + 1 \in G /\ sup.val \in Nat
      /\ Term(h[sup.val + 1], G, A, m) /\ Term(arg, G, A, m)
  BY <1>2, TwoParts DEF Room, Twos
<1>4. k \in G /\ k + 1 \in G /\ k + 1 + 1 \in G /\ k + 1 \in Nat
        /\ New(k, 3) = {k, k + 1, k + 1 + 1}
  BY <1>2, NewIs DEF Room
<1>5. /\ Term(D0, G, A, m) /\ Term(D1, G, A, m) /\ Firm(t, G, A)
      /\ Term(At("APP", sup.val), G, A, m) /\ Term(At("APP", k + 1), G, A, m)
  BY <1>3, <1>4, BuiltRef, BuiltTwo DEF Term, At, Twos
<1> HIDE DEF D0, D1, t
<1>6. Writes(f, {k}, G, A, m) /\ Writes(g, {sup.val + 1}, G, A, m)
  BY <1>3, <1>4, <1>5, WritesOne
<1>7. Writes(e, {k + 1, k + 1 + 1}, G, A, m)
  BY <1>3, <1>4, <1>5, WritesTwo
<1>8. Writes(d, {loc, loc + 1}, G, A, m)
  BY <1>3, <1>5, WritesTwo
<1> HIDE DEF f, g, e, d
<1>9. Writes(f ++ g ++ e ++ d, D, G, A, m)
  BY <1>6, <1>7, <1>8, WritesBoth
<1>10. New(k, 3) \subseteq D
  BY <1>4
<1> QED BY <1>1, <1>5, <1>9, <1>10, StepSound DEF G

LEMMA MatSupSound ==
  ASSUME NEW h, NEW F, NEW A, NEW m, HeapOk(h, F, A, m), NEW k \in Nat \ {0},
         NEW mat, Term(mat, F, A, m), NEW sup, Firm(sup, F, A), sup.tag = "SUP"
  PROVE  Sound(MatSup(h, k, mat, sup), k, F, A, m)
<1> DEFINE G == F \cup New(k, 5)
           M0 == Word("DP0", sup.ext, k)
           M1 == Word("DP1", sup.ext, k)
           f == Write(k, mat)
           g == Node(k + 1, <<M0, h[sup.val]>>)
           e == Node(k + 3, <<M1, h[sup.val + 1]>>)
           d == Node(sup.val, <<At("APP", k + 1), At("APP", k + 3)>>)
           D == (({k} \cup {k + 1, k + 1 + 1}) \cup {k + 3, k + 3 + 1}) \cup {sup.val, sup.val + 1}
<1>1. MatSup(h, k, mat, sup) = Step("apply", sup, f ++ g ++ e ++ d, 5, 1)
  BY DEF MatSup, Apply, Copies
<1>2. Room(h, F, A, m, k, 5, G)
  BY Grown
<1> HIDE DEF G
<1>3. /\ sup.val \in G /\ sup.val + 1 \in G /\ sup.val \in Nat /\ Firm(sup, G, A)
      /\ Term(h[sup.val], G, A, m) /\ Term(h[sup.val + 1], G, A, m) /\ Term(mat, G, A, m)
  BY <1>2, TwoParts DEF Room, Twos
<1>4. /\ k \in G /\ k + 1 \in G /\ k + 1 + 1 \in G /\ k + 3 \in G /\ k + 3 + 1 \in G
      /\ k + 1 \in Nat /\ k + 3 \in Nat
      /\ New(k, 5) = {k, k + 1, k + 1 + 1, k + 3, k + 3 + 1}
  BY <1>2, NewIs DEF Room
<1>5. /\ Term(M0, G, A, m) /\ Term(M1, G, A, m)
      /\ Term(At("APP", k + 1), G, A, m) /\ Term(At("APP", k + 3), G, A, m)
  BY <1>4, BuiltRef, BuiltTwo DEF Term, At, Twos
<1> HIDE DEF M0, M1
<1>6. Writes(f, {k}, G, A, m)
  BY <1>3, <1>4, WritesOne
<1>7. Writes(g, {k + 1, k + 1 + 1}, G, A, m) /\ Writes(e, {k + 3, k + 3 + 1}, G, A, m)
  BY <1>3, <1>4, <1>5, WritesTwo
<1>8. Writes(d, {sup.val, sup.val + 1}, G, A, m)
  BY <1>3, <1>5, WritesTwo
<1> HIDE DEF f, g, e, d
<1>9. Writes(f ++ g ++ e ++ d, D, G, A, m)
  BY <1>6, <1>7, <1>8, WritesBoth
<1>10. New(k, 5) \subseteq D
  BY <1>4
<1> QED BY <1>1, <1>3, <1>9, <1>10, StepSound DEF G

LEMMA MatMissSound ==
  ASSUME NEW h, NEW F, NEW A, NEW m, HeapOk(h, F, A, m), NEW k \in Nat \ {0},
         NEW mat, Firm(mat, F, A), mat.tag \in Twos, NEW v, Term(v, F, A, m)
  PROVE  Sound(MatMiss(h, mat, v), k, F, A, m)
<1> DEFINE f == Node(mat.val, <<h[mat.val + 1], v>>)
<1>1. MatMiss(h, mat, v) = Step("enter", At("APP", mat.val), f, 0, 1)
  BY DEF MatMiss, Enter
<1>2. mat.val \in F /\ mat.val + 1 \in F /\ mat.val \in Nat /\ Term(h[mat.val + 1], F, A, m)
  BY TwoParts
<1>3. Writes(f, {mat.val, mat.val + 1}, F, A, m)
  BY <1>2, WritesTwo
<1>4. Term(At("APP", mat.val), F, A, m)
  BY <1>2, BuiltTwo DEF At, Twos, Term
<1> HIDE DEF f
<1> QED BY <1>1, <1>3, <1>4, StepInPlace

LEMMA MatNumSound ==
  ASSUME NEW h, NEW F, NEW A, NEW m, HeapOk(h, F, A, m), NEW k \in Nat \ {0},
         NEW mat, Firm(mat, F, A), mat.tag \in Twos, NEW num, Term(num, F, A, m)
  PROVE  Sound(MatNum(h, mat, num), k, F, A, m)
<1>1. CASE mat.ext = num.val
  <2>1. MatNum(h, mat, num) = Step("enter", h[mat.val], Nothing, 0, 1)
    BY <1>1 DEF MatNum, Enter
  <2> QED BY <2>1, TwoParts, LeavesSound
<1>2. CASE mat.ext # num.val
  <2>1. MatNum(h, mat, num) = MatMiss(h, mat, num)
    BY <1>2 DEF MatNum
  <2> QED BY <2>1, MatMissSound
<1> QED BY <1>1, <1>2

LEMMA UseSupSound ==
  ASSUME NEW h, NEW F, NEW A, NEW m, HeapOk(h, F, A, m), NEW k \in Nat \ {0},
         NEW use, Firm(use, F, A), use.tag = "USE", NEW sup, Firm(sup, F, A), sup.tag = "SUP"
  PROVE  Sound(UseSup(h, k, use, sup), k, F, A, m)
<1> DEFINE G == F \cup New(k, 6)
           F0 == Word("DP0", sup.ext, use.val)
           F1 == Word("DP1", sup.ext, use.val)
           f == Node(k, <<F0, F1>>)
           g == Node(k + 2, <<At("USE", k), h[sup.val]>>)
           e == Node(k + 4, <<At("USE", k + 1), h[sup.val + 1]>>)
           d == Node(sup.val, <<At("APP", k + 2), At("APP", k + 4)>>)
           D == (({k, k + 1} \cup {k + 2, k + 2 + 1}) \cup {k + 4, k + 4 + 1})
                  \cup {sup.val, sup.val + 1}
<1>1. UseSup(h, k, use, sup) = Step("apply", sup, f ++ g ++ e ++ d, 6, 1)
  BY DEF UseSup, Apply, Copies
<1>2. Room(h, F, A, m, k, 6, G)
  BY Grown
<1> HIDE DEF G
<1>3. /\ sup.val \in G /\ sup.val + 1 \in G /\ sup.val \in Nat /\ Firm(sup, G, A)
      /\ Term(h[sup.val], G, A, m) /\ Term(h[sup.val + 1], G, A, m) /\ use.val \in G
  BY <1>2, TwoParts, OnePart DEF Room, Twos, Ones
<1>4. /\ k \in G /\ k + 1 \in G /\ k + 2 \in G /\ k + 2 + 1 \in G /\ k + 4 \in G /\ k + 4 + 1 \in G
      /\ k + 1 \in Nat /\ k + 2 \in Nat /\ k + 4 \in Nat
      /\ New(k, 6) = {k, k + 1, k + 2, k + 2 + 1, k + 4, k + 4 + 1}
  BY <1>2, NewIs DEF Room
<1>5. /\ Term(F0, G, A, m) /\ Term(F1, G, A, m)
      /\ Term(At("USE", k), G, A, m) /\ Term(At("USE", k + 1), G, A, m)
      /\ Term(At("APP", k + 2), G, A, m) /\ Term(At("APP", k + 4), G, A, m)
  BY <1>3, <1>4, BuiltRef, BuiltOne, BuiltTwo DEF Term, At, Twos, Ones
<1> HIDE DEF F0, F1
<1>6. Writes(f, {k, k + 1}, G, A, m) /\ Writes(g, {k + 2, k + 2 + 1}, G, A, m)
  BY <1>3, <1>4, <1>5, WritesTwo
<1>7. Writes(e, {k + 4, k + 4 + 1}, G, A, m)
  BY <1>3, <1>4, <1>5, WritesTwo
<1>8. Writes(d, {sup.val, sup.val + 1}, G, A, m)
  BY <1>3, <1>5, WritesTwo
<1> HIDE DEF f, g, e, d
<1>9. Writes(f ++ g ++ e ++ d, D, G, A, m)
  BY <1>6, <1>7, <1>8, WritesBoth
<1>10. New(k, 6) \subseteq D
  BY <1>4
<1> QED BY <1>1, <1>3, <1>9, <1>10, StepSound DEF G

LEMMA UseValSound ==
  ASSUME NEW h, NEW F, NEW A, NEW m, HeapOk(h, F, A, m), NEW k \in Nat \ {0},
         NEW use, Firm(use, F, A), use.tag = "USE", NEW v, Term(v, F, A, m)
  PROVE  Sound(UseVal(h, k, use, v), k, F, A, m)
<1>1. Term(h[use.val], F, A, m)
  BY OnePart DEF Ones
<1> QED BY <1>1, PairSound DEF UseVal, Enter, At, Twos

LEMMA MatHitSound ==
  ASSUME NEW h, NEW F, NEW A, NEW m, HeapOk(h, F, A, m), NEW k \in Nat \ {0},
         NEW mat, Firm(mat, F, A), mat.tag \in Twos, NEW ctr, Firm(ctr, F, A)
  PROVE  Sound(MatHit(h, k, mat, ctr), k, F, A, m)
<1> DEFINE n == Arity(ctr)
           words == IF n > 2 THEN 2 * (n - 2) ELSE 0
           G == F \cup New(k, words)
           place(i) == IF i = 0 THEN mat.val ELSE IF i = 1 THEN ctr.val ELSE k + 2 * (i - 2)
           fun(i) == IF i = 0 THEN h[mat.val] ELSE At("APP", place(i - 1))
           cells == UNION {{place(i), place(i) + 1} : i \in 0..(n - 1)}
           f == [l \in cells |-> LET i == CHOOSE i \in 0..(n - 1) : l \in {place(i), place(i) + 1}
                                 IN IF l = place(i) THEN fun(i) ELSE h[ctr.val + i]]
<1>1. MatHit(h, k, mat, ctr) = Step("enter", fun(n), f, words, 1)
  BY DEF MatHit, Enter
<1>2. n \in Nat /\ words \in Nat
  BY ArityOf
<1>3. Room(h, F, A, m, k, words, G)
  BY <1>2, Grown
<1>4. /\ mat.val \in G /\ mat.val + 1 \in G /\ mat.val \in Nat /\ Term(h[mat.val], G, A, m)
  BY <1>3, TwoParts DEF Room
<1>5. ASSUME NEW i \in 0..(n - 1)
      PROVE  ctr.val + i \in G /\ Term(h[ctr.val + i], G, A, m)
  <2>1. ctr.val + i \in F
    BY Owns DEF HeapOk
  <2> QED BY <1>3, <2>1 DEF Room
<1>6. n > 0 => ctr.val \in Nat
  BY DEF Firm
<1> HIDE DEF n
<1>7. ASSUME NEW i \in 0..(n - 1)
      PROVE  place(i) \in G /\ place(i) + 1 \in G /\ place(i) \in Nat
  <2>1. CASE i = 0
    BY <1>4, <2>1
  <2>2. CASE i = 1
    <3>1. 0 \in 0..(n - 1) /\ 1 \in 0..(n - 1) /\ n > 0
      BY <1>2, <2>2
    <3>2. ctr.val \in Nat /\ ctr.val + 0 \in G /\ ctr.val + 1 \in G
      BY <1>5, <1>6, <3>1
    <3>3. ctr.val + 0 = ctr.val /\ place(i) = ctr.val
      BY <2>2, <3>2
    <3> QED BY <3>2, <3>3
  <2>3. CASE i > 1
    <3>1. 2 * (i - 2) \in 0..(words - 1) /\ 2 * (i - 2) + 1 \in 0..(words - 1)
      BY <1>2, <2>3
    <3>2. k + 2 * (i - 2) \in G /\ k + (2 * (i - 2) + 1) \in G
      BY <1>3, <3>1 DEF Room
    <3> QED BY <2>3, <3>2
  <2> QED BY <2>1, <2>2, <2>3
<1> HIDE DEF G
<1>8. ASSUME NEW i \in 0..n PROVE Term(fun(i), G, A, m)
  <2>1. CASE i = 0
    BY <1>4, <2>1
  <2>2. CASE i # 0
    <3>1. i - 1 \in 0..(n - 1)
      BY <1>2, <2>2
    <3>2. place(i - 1) \in G /\ place(i - 1) + 1 \in G /\ place(i - 1) \in Nat
      BY <1>7, <3>1
    <3> HIDE DEF place
    <3> QED BY <2>2, <3>2, BuiltTwo DEF At, Twos, Term
  <2> QED BY <2>1, <2>2
<1>9. New(k, words) \subseteq cells
  <2> SUFFICES ASSUME NEW l \in New(k, words) PROVE l \in cells
    OBVIOUS
  <2>1. l \in Int /\ k <= l /\ l < k + 2 * (n - 2) /\ n > 2
    BY <1>2 DEF New
  <2> DEFINE i == (l - k) \div 2 + 2
  <2>2. i \in 0..(n - 1) /\ i > 1
    BY <1>2, <2>1
  <2>3. l = k + 2 * (i - 2) \/ l = k + 2 * (i - 2) + 1
    BY <2>1
  <2>4. place(i) = k + 2 * (i - 2)
    BY <2>2
  <2> HIDE DEF i, place
  <2> QED BY <2>2, <2>3, <2>4
<1> HIDE DEF place, fun
<1>10. ASSUME NEW l \in cells PROVE l \in G /\ Term(f[l], G, A, m)
  <2>1. PICK j \in 0..(n - 1) : l \in {place(j), place(j) + 1}
    OBVIOUS
  <2> DEFINE i == CHOOSE i \in 0..(n - 1) : l \in {place(i), place(i) + 1}
  <2>2. i \in 0..(n - 1)
    BY <2>1
  <2>3. f[l] = IF l = place(i) THEN fun(i) ELSE h[ctr.val + i]
    OBVIOUS
  <2> HIDE DEF i, f
  <2>4. Term(fun(i), G, A, m) /\ Term(h[ctr.val + i], G, A, m)
    BY <1>2, <1>5, <1>8, <2>2
  <2> QED BY <1>7, <2>1, <2>3, <2>4
<1>11. DOMAIN f = cells
  OBVIOUS
<1> HIDE DEF f, cells
<1>12. Writes(f, cells, G, A, m)
  BY <1>10, <1>11 DEF Writes
<1>13. Term(fun(n), G, A, m)
  BY <1>2, <1>8
<1> HIDE DEF words
<1> QED BY <1>1, <1>2, <1>9, <1>12, <1>13, StepSound DEF G

LEMMA HalfIs ==
  ASSUME NEW dp, NEW a, NEW b
  PROVE  HalfOf(dp, a, b) \in {a, b}
BY DEF HalfOf

LEMMA LeaveWrites ==
  ASSUME NEW dp, NEW G, NEW A, NEW m, dp.val \in G,
         NEW a, Term(a, G, A, m), NEW b, Term(b, G, A, m)
  PROVE  Writes(Leave(dp, a, b), {dp.val}, G, A, m)
<1>1. Term(HalfOf(dp, b, a), G, A, m)
  BY HalfIs
<1>2. Term(Subst(HalfOf(dp, b, a)), G, A, m)
  BY <1>1, BareTerm
<1> QED BY <1>2, WritesOne DEF Leave

LEMMA DupAtomSound ==
  ASSUME NEW F, NEW A, NEW m, NEW k \in Nat \ {0}, NEW dp, dp.val \in F, NEW v, Firm(v, F, A)
  PROVE  Sound(DupAtom(dp, v), k, F, A, m)
<1>1. Term(Subst(v), F, A, m)
  BY BareFirm DEF Term
<1> QED BY <1>1, OneSound DEF DupAtom, Apply

LEMMA DupLamSound ==
  ASSUME NEW h, NEW F, NEW A, NEW m, HeapOk(h, F, A, m), NEW k \in Nat \ {0},
         NEW dp, dp.val \in F, NEW lam, Firm(lam, F, A), lam.tag = "LAM"
  PROVE  Sound(DupLam(h, k, dp, lam), k, F, A, m)
<1> DEFINE n == IF Erased(lam) THEN 2 ELSE 4
           G == F \cup New(k, n + 1)
           B0 == Word("DP0", dp.ext, k + n)
           B1 == Word("DP1", dp.ext, k + n)
           l0 == Word("LAM", lam.ext, k)
           l1 == Word("LAM", lam.ext, k + 1)
           s == Subst(Word("SUP", dp.ext, k + 2))
           f == Node(k, <<B0, B1>>)
           g == Write(k + n, h[lam.val])
           e == Leave(dp, l0, l1)
           u == Node(k + 2, <<At("VAR", k), At("VAR", k + 1)>>)
           v == Write(lam.val, s)
           C == ({k, k + 1} \cup {k + n}) \cup {dp.val}
           D == C \cup ({k + 2, k + 2 + 1} \cup {lam.val})
<1>1. DupLam(h, k, dp, lam) = Step("apply", HalfOf(dp, l0, l1),
        IF Erased(lam) THEN f ++ g ++ e ELSE (f ++ g ++ e) ++ (u ++ v), n + 1, 1)
  BY DEF DupLam, Apply, Copies
<1>2. n \in Nat /\ n + 1 \in Nat /\ n \in {2, 4} /\ (Erased(lam) <=> n = 2)
  OBVIOUS
<1>3. Room(h, F, A, m, k, n + 1, G)
  BY <1>2, Grown
<1> HIDE DEF G, n
<1>4. dp.val \in G /\ lam.val \in G /\ Term(h[lam.val], G, A, m)
  BY <1>3, OnePart DEF Room, Ones
<1>5. /\ k \in G /\ k + 1 \in G /\ k + n \in G /\ k + 1 \in Nat
      /\ n = 4 => k + 2 \in G /\ k + 2 + 1 \in G /\ k + 2 \in Nat
  BY <1>2, <1>3 DEF Room
<1>6. /\ Term(B0, G, A, m) /\ Term(B1, G, A, m) /\ Firm(l0, G, A) /\ Firm(l1, G, A)
      /\ Term(l0, G, A, m) /\ Term(l1, G, A, m)
      /\ Term(At("VAR", k), G, A, m) /\ Term(At("VAR", k + 1), G, A, m)
  BY <1>5, BuiltRef, BuiltOne DEF Term, At, Ones
<1>7. n = 4 => Term(s, G, A, m)
  <2> SUFFICES ASSUME n = 4 PROVE Term(s, G, A, m)
    OBVIOUS
  <2>1. Firm(Word("SUP", dp.ext, k + 2), G, A)
    BY <1>5, BuiltTwo DEF Twos
  <2> QED BY <2>1, BareFirm DEF Term
<1> HIDE DEF B0, B1, l0, l1, s
<1>8. Writes(f, {k, k + 1}, G, A, m)
  BY <1>5, <1>6, WritesTwo
<1>9. Writes(g, {k + n}, G, A, m) /\ Writes(e, {dp.val}, G, A, m)
  BY <1>4, <1>5, <1>6, WritesOne, LeaveWrites
<1>10. n = 4 => Writes(u, {k + 2, k + 2 + 1}, G, A, m) /\ Writes(v, {lam.val}, G, A, m)
  BY <1>4, <1>5, <1>6, <1>7, WritesOne, WritesTwo
<1> HIDE DEF f, g, e, u, v
<1>11. Writes(f ++ g ++ e, C, G, A, m)
  BY <1>8, <1>9, WritesBoth
<1>12. Firm(HalfOf(dp, l0, l1), G, A)
  BY <1>6, HalfIs
<1>13. CASE Erased(lam)
  <2>1. n = 2 /\ New(k, n + 1) \subseteq C
    BY <1>2, <1>13, NewIs
  <2>2. DupLam(h, k, dp, lam) = Step("apply", HalfOf(dp, l0, l1), f ++ g ++ e, n + 1, 1)
    BY <1>1, <1>13
  <2> QED BY <1>2, <1>11, <1>12, <2>1, <2>2, StepSound DEF G
<1>14. CASE ~ Erased(lam)
  <2>1. n = 4 /\ New(k, n + 1) \subseteq D
    BY <1>2, <1>14, NewIs
  <2>2. Writes(u ++ v, {k + 2, k + 2 + 1} \cup {lam.val}, G, A, m)
    BY <1>10, <2>1, WritesBoth
  <2>3. Writes((f ++ g ++ e) ++ (u ++ v), D, G, A, m)
    BY <1>11, <2>2, WritesBoth
  <2>4. DupLam(h, k, dp, lam)
          = Step("apply", HalfOf(dp, l0, l1), (f ++ g ++ e) ++ (u ++ v), n + 1, 1)
    BY <1>1, <1>14
  <2> QED BY <1>2, <1>12, <2>1, <2>3, <2>4, StepSound DEF G
<1> QED BY <1>13, <1>14

LEMMA DupSupSound ==
  ASSUME NEW h, NEW F, NEW A, NEW m, HeapOk(h, F, A, m), NEW k \in Nat \ {0},
         NEW dp, dp.val \in F, NEW sup, Firm(sup, F, A), sup.tag = "SUP"
  PROVE  Sound(DupSup(h, k, dp, sup), k, F, A, m)
<1>1. CASE dp.ext = sup.ext
  <2> DEFINE a == h[sup.val]
             b == h[sup.val + 1]
  <2>1. DupSup(h, k, dp, sup) = Step("enter", HalfOf(dp, a, b), Leave(dp, a, b), 0, 1)
    BY <1>1 DEF DupSup, Enter
  <2>2. Term(a, F, A, m) /\ Term(b, F, A, m)
    BY TwoParts DEF Twos
  <2> HIDE DEF a, b
  <2>3. Writes(Leave(dp, a, b), {dp.val}, F, A, m)
    BY <2>2, LeaveWrites
  <2>4. Term(HalfOf(dp, a, b), F, A, m)
    BY <2>2, HalfIs
  <2> QED BY <2>1, <2>3, <2>4, StepInPlace
<1>2. CASE dp.ext # sup.ext
  <2> DEFINE G == F \cup New(k, 4)
             a0 == Word("DP0", dp.ext, sup.val)
             a1 == Word("DP1", dp.ext, sup.val)
             b0 == Word("DP0", dp.ext, sup.val + 1)
             b1 == Word("DP1", dp.ext, sup.val + 1)
             s0 == Word("SUP", sup.ext, k)
             s1 == Word("SUP", sup.ext, k + 2)
             f == Node(k, <<a0, b0, a1, b1>>)
             e == Leave(dp, s0, s1)
  <2>1. DupSup(h, k, dp, sup) = Step("enter", HalfOf(dp, s0, s1), f ++ e, 4, 1)
    BY <1>2 DEF DupSup, Enter, Copies
  <2>2. Room(h, F, A, m, k, 4, G)
    BY Grown
  <2> HIDE DEF G
  <2>3. dp.val \in G /\ sup.val \in G /\ sup.val + 1 \in G
    BY <2>2, TwoParts DEF Room, Twos
  <2>4. /\ k \in G /\ k + 1 \in G /\ k + 2 \in G /\ k + 3 \in G /\ k + 2 + 1 = k + 3
        /\ k + 2 \in Nat
        /\ New(k, 4) = {k, k + 1, k + 2, k + 3}
    BY <2>2, NewIs DEF Room
  <2>5. /\ Term(a0, G, A, m) /\ Term(a1, G, A, m) /\ Term(b0, G, A, m) /\ Term(b1, G, A, m)
        /\ Term(s0, G, A, m) /\ Term(s1, G, A, m)
    BY <2>3, <2>4, BuiltRef, BuiltTwo DEF Term, Twos
  <2> HIDE DEF a0, a1, b0, b1, s0, s1
  <2>6. Writes(f, {k, k + 1, k + 2, k + 3}, G, A, m)
    BY <2>4, <2>5, WritesFour
  <2>7. Writes(e, {dp.val}, G, A, m)
    BY <2>3, <2>5, LeaveWrites
  <2> HIDE DEF f, e
  <2>8. Writes(f ++ e, {k, k + 1, k + 2, k + 3} \cup {dp.val}, G, A, m)
    BY <2>6, <2>7, WritesBoth
  <2>9. New(k, 4) \subseteq {k, k + 1, k + 2, k + 3} \cup {dp.val}
    BY <2>4
  <2>10. Term(HalfOf(dp, s0, s1), G, A, m)
    BY <2>5, HalfIs
  <2> QED BY <2>1, <2>8, <2>9, <2>10, StepSound DEF G
<1> QED BY <1>1, <1>2

\* A copied node: its parts become superpositions of copies.
LEMMA DupNodSound ==
  ASSUME NEW h, NEW F, NEW A, NEW m, HeapOk(h, F, A, m), NEW k \in Nat \ {0},
         NEW dp, dp.val \in F, NEW t, Firm(t, F, A), t.tag \notin {"DP0", "DP1", "VAR", "ALO"}
  PROVE  Sound(DupNod(k, dp, t), k, F, A, m)
<1> DEFINE n == Arity(t)
<1>1. n \in Nat
  BY ArityOf
<1>2. CASE n = 0
  <2>1. DupNod(k, dp, t) = Step("enter", t, Write(dp.val, Subst(t)), 0, 1)
    BY <1>2 DEF DupNod, Enter
  <2>2. Term(t, F, A, m) /\ Term(Subst(t), F, A, m)
    BY BareFirm DEF Term
  <2> QED BY <2>1, <2>2, OneSound
<1>3. CASE n # 0
  <2> DEFINE G == F \cup New(k, 2 * n)
             r0 == Word(t.tag, t.ext, k)
             r1 == Word(t.tag, t.ext, k + n)
             f == [l \in k..(k + 2 * n - 1) |->
                     IF l < k + n THEN Word("DP0", dp.ext, t.val + l - k)
                     ELSE Word("DP1", dp.ext, t.val + l - k - n)]
             e == Leave(dp, r0, r1)
  <2>1. DupNod(k, dp, t) = Step("enter", HalfOf(dp, r0, r1), f ++ e, 2 * n, 1)
    BY <1>3 DEF DupNod, Enter
  <2>2. 2 * n \in Nat
    BY <1>1
  <2>3. Room(h, F, A, m, k, 2 * n, G)
    BY <2>2, Grown
  <2>4. ASSUME NEW i \in 0..(n - 1) PROVE t.val + i \in G
    <3>1. t.val + i \in F
      BY Owns DEF HeapOk
    <3> QED BY <2>3, <3>1 DEF Room
  <2>5. t.val \in Nat
    BY <1>1, <1>3 DEF Firm
  <2>6. Arity(r0) = n /\ Arity(r1) = n
    BY WordIs, SameArity
  <2>7. \A i \in 0..(Arity(r0) - 1) : k + i \in G
    BY <1>1, <2>3, <2>6 DEF Room
  <2>8. \A i \in 0..(Arity(r1) - 1) : k + n + i \in G
    <3> SUFFICES ASSUME NEW i \in 0..(n - 1) PROVE k + n + i \in G
      BY <2>6
    <3>1. n + i \in 0..(2 * n - 1) /\ k + (n + i) = k + n + i
      BY <1>1
    <3> QED BY <2>3, <3>1 DEF Room
  <2> HIDE DEF G, n
  <2>9. Firm(r0, G, A) /\ Firm(r1, G, A)
    BY <1>1, <2>7, <2>8, Built
  <2>10. ASSUME NEW l \in k..(k + 2 * n - 1) PROVE l \in G /\ Term(f[l], G, A, m)
    <3>1. l - k \in 0..(2 * n - 1) /\ k + (l - k) = l
      BY <1>1
    <3>2. l \in G
      BY <2>3, <3>1 DEF Room
    <3>3. CASE l < k + n
      <4>1. l - k \in 0..(n - 1) /\ t.val + (l - k) = t.val + l - k
        BY <1>1, <2>5, <3>3
      <4>2. f[l] = Word("DP0", dp.ext, t.val + l - k)
        BY <3>3
      <4>3. t.val + l - k \in G
        BY <2>4, <4>1
      <4> QED BY <3>2, <4>2, <4>3, BuiltRef DEF Term
    <3>4. CASE ~ (l < k + n)
      <4>1. l - k - n \in 0..(n - 1) /\ t.val + (l - k - n) = t.val + l - k - n
        BY <1>1, <2>5, <3>4
      <4>2. f[l] = Word("DP1", dp.ext, t.val + l - k - n)
        BY <3>4
      <4>3. t.val + l - k - n \in G
        BY <2>4, <4>1
      <4> QED BY <3>2, <4>2, <4>3, BuiltRef DEF Term
    <3> QED BY <3>3, <3>4
  <2>11. DOMAIN f = New(k, 2 * n)
    BY DEF New
  <2> HIDE DEF f, r0, r1
  <2>12. Writes(f, New(k, 2 * n), G, A, m)
    BY <2>10, <2>11 DEF Writes, New
  <2>13. Writes(e, {dp.val}, G, A, m)
    <3>1. dp.val \in G
      BY <2>3 DEF Room
    <3> QED BY <2>9, <3>1, LeaveWrites DEF Term
  <2> HIDE DEF e
  <2>14. Writes(f ++ e, New(k, 2 * n) \cup {dp.val}, G, A, m)
    BY <2>12, <2>13, WritesBoth
  <2>15. Term(HalfOf(dp, r0, r1), G, A, m)
    BY <2>9, HalfIs DEF Term
  <2>16. New(k, 2 * n) \subseteq New(k, 2 * n) \cup {dp.val}
    OBVIOUS
  <2> QED BY <2>1, <2>2, <2>14, <2>15, <2>16, StepSound DEF G
<1> QED BY <1>2, <1>3

LEMMA Op2NumSupSound ==
  ASSUME NEW h, NEW F, NEW A, NEW m, HeapOk(h, F, A, m), NEW k \in Nat \ {0}, NEW opr,
         NEW x, Term(x, F, A, m), NEW sup, Firm(sup, F, A), sup.tag = "SUP"
  PROVE  Sound(Op2NumSup(h, k, opr, x, sup), k, F, A, m)
<1> DEFINE G == F \cup New(k, 4)
           l == Word("OP2", opr, k)
           r == Word("OP2", opr, k + 2)
           f == Node(k, <<x, h[sup.val], x, h[sup.val + 1]>>)
           g == Node(sup.val, <<l, r>>)
           D == {k, k + 1, k + 2, k + 3} \cup {sup.val, sup.val + 1}
<1>1. Op2NumSup(h, k, opr, x, sup) = Step("apply", sup, f ++ g, 4, 1)
  BY DEF Op2NumSup, Apply
<1>2. Room(h, F, A, m, k, 4, G)
  BY Grown
<1> HIDE DEF G
<1>3. /\ sup.val \in G /\ sup.val + 1 \in G /\ sup.val \in Nat /\ Firm(sup, G, A)
      /\ Term(h[sup.val], G, A, m) /\ Term(h[sup.val + 1], G, A, m) /\ Term(x, G, A, m)
  BY <1>2, TwoParts DEF Room, Twos
<1>4. /\ k \in G /\ k + 1 \in G /\ k + 2 \in G /\ k + 3 \in G /\ k + 2 \in Nat /\ k + 2 + 1 = k + 3
      /\ New(k, 4) = {k, k + 1, k + 2, k + 3}
  BY <1>2, NewIs DEF Room
<1>5. Term(l, G, A, m) /\ Term(r, G, A, m)
  BY <1>4, BuiltTwo DEF Term, Twos
<1> HIDE DEF l, r
<1>6. Writes(f, {k, k + 1, k + 2, k + 3}, G, A, m)
  BY <1>3, <1>4, WritesFour
<1>7. Writes(g, {sup.val, sup.val + 1}, G, A, m)
  BY <1>3, <1>5, WritesTwo
<1> HIDE DEF f, g
<1>8. Writes(f ++ g, D, G, A, m)
  BY <1>6, <1>7, WritesBoth
<1>9. New(k, 4) \subseteq D
  BY <1>4
<1> QED BY <1>1, <1>3, <1>8, <1>9, StepSound DEF G

LEMMA EqlSupRightSound ==
  ASSUME NEW h, NEW F, NEW A, NEW m, HeapOk(h, F, A, m), NEW k \in Nat \ {0},
         NEW loc, loc \in F, loc + 1 \in F, NEW a, Term(a, F, A, m),
         NEW sup, Firm(sup, F, A), sup.tag = "SUP"
  PROVE  Sound(EqlSupRight(h, k, loc, a, sup), k, F, A, m)
<1> DEFINE G == F \cup New(k, 3)
           A0 == Word("DP0", sup.ext, k)
           A1 == Word("DP1", sup.ext, k)
           f == Node(loc, <<A0, h[sup.val]>>)
           g == Write(k, a)
           e == Node(k + 1, <<A1, h[sup.val + 1]>>)
           d == Node(sup.val, <<At("EQL", loc), At("EQL", k + 1)>>)
           D == (({loc, loc + 1} \cup {k}) \cup {k + 1, k + 1 + 1}) \cup {sup.val, sup.val + 1}
<1>1. EqlSupRight(h, k, loc, a, sup) = Step("apply", sup, f ++ g ++ e ++ d, 3, 1)
  BY DEF EqlSupRight, Apply, Copies
<1>2. Room(h, F, A, m, k, 3, G)
  BY Grown
<1> HIDE DEF G
<1>3. /\ loc \in G /\ loc + 1 \in G /\ loc \in Nat /\ Firm(sup, G, A)
      /\ sup.val \in G /\ sup.val + 1 \in G /\ sup.val \in Nat
      /\ Term(h[sup.val], G, A, m) /\ Term(h[sup.val + 1], G, A, m) /\ Term(a, G, A, m)
  BY <1>2, TwoParts DEF Room, Twos
<1>4. k \in G /\ k + 1 \in G /\ k + 1 + 1 \in G /\ k + 1 \in Nat
        /\ New(k, 3) = {k, k + 1, k + 1 + 1}
  BY <1>2, NewIs DEF Room
<1>5. /\ Term(A0, G, A, m) /\ Term(A1, G, A, m)
      /\ Term(At("EQL", loc), G, A, m) /\ Term(At("EQL", k + 1), G, A, m)
  BY <1>3, <1>4, BuiltRef, BuiltTwo DEF Term, At, Twos
<1> HIDE DEF A0, A1
<1>6. Writes(f, {loc, loc + 1}, G, A, m)
  BY <1>3, <1>5, WritesTwo
<1>7. Writes(g, {k}, G, A, m)
  BY <1>3, <1>4, WritesOne
<1>8. Writes(e, {k + 1, k + 1 + 1}, G, A, m)
  BY <1>3, <1>4, <1>5, WritesTwo
<1>9. Writes(d, {sup.val, sup.val + 1}, G, A, m)
  BY <1>3, <1>5, WritesTwo
<1> HIDE DEF f, g, e, d
<1>10. Writes(f ++ g ++ e ++ d, D, G, A, m)
  BY <1>6, <1>7, <1>8, <1>9, WritesBoth
<1>11. New(k, 3) \subseteq D
  BY <1>4
<1> QED BY <1>1, <1>3, <1>10, <1>11, StepSound DEF G

LEMMA EqlIncRightSound ==
  ASSUME NEW h, NEW F, NEW A, NEW m, HeapOk(h, F, A, m), NEW k \in Nat \ {0},
         NEW loc, loc \in F, loc + 1 \in F, NEW a, Term(a, F, A, m),
         NEW inc, Firm(inc, F, A), inc.tag = "INC"
  PROVE  Sound(EqlIncRight(h, loc, a, inc), k, F, A, m)
<1> DEFINE f == Node(loc, <<a, h[inc.val]>>)
           g == Write(inc.val, At("EQL", loc))
<1>1. EqlIncRight(h, loc, a, inc) = Step("apply", inc, f ++ g, 0, 1)
  BY DEF EqlIncRight, Apply
<1>2. inc.val \in F /\ Term(h[inc.val], F, A, m) /\ loc \in Nat
  BY OnePart DEF Ones, HeapOk
<1>3. Term(At("EQL", loc), F, A, m)
  BY <1>2, BuiltTwo DEF At, Twos, Term
<1>4. Writes(f, {loc, loc + 1}, F, A, m) /\ Writes(g, {inc.val}, F, A, m)
  BY <1>2, <1>3, WritesOne, WritesTwo
<1> HIDE DEF f, g
<1>5. Writes(f ++ g, {loc, loc + 1} \cup {inc.val}, F, A, m)
  BY <1>4, WritesBoth
<1> QED BY <1>1, <1>5, StepInPlace

LEMMA EqlLamSound ==
  ASSUME NEW h, NEW F, NEW A, NEW m, HeapOk(h, F, A, m), NEW k \in Nat \ {0}, NEW name,
         NEW a, Firm(a, F, A), a.tag = "LAM", NEW b, Firm(b, F, A), b.tag = "LAM"
  PROVE  Sound(EqlLam(h, k, a, b, name), k, F, A, m)
<1> DEFINE G == F \cup New(k, 2)
           x == Subst(Word("NAM", name, 0))
           f == Node(k, <<h[a.val], h[b.val]>>)
           g == Write(a.val, x)
           e == Write(b.val, x)
           D == ({k, k + 1} \cup {a.val}) \cup {b.val}
<1>1. EqlLam(h, k, a, b, name) = Step("enter", At("EQL", k), f ++ g ++ e, 2, 1)
  BY DEF EqlLam, Enter
<1>2. Room(h, F, A, m, k, 2, G)
  BY Grown
<1> HIDE DEF G
<1>3. a.val \in G /\ b.val \in G /\ Term(h[a.val], G, A, m) /\ Term(h[b.val], G, A, m)
  BY <1>2, OnePart DEF Room, Ones
<1>4. k \in G /\ k + 1 \in G /\ New(k, 2) = {k, k + 1}
  BY <1>2, NewIs DEF Room
<1>5. Term(x, G, A, m)
  <2>1. Firm(Word("NAM", name, 0), G, A)
    BY BuiltAtom, AtomTags
  <2> QED BY <2>1, BareFirm DEF Term
<1>6. Term(At("EQL", k), G, A, m)
  BY <1>4, BuiltTwo DEF At, Twos, Term
<1> HIDE DEF x
<1>7. Writes(f, {k, k + 1}, G, A, m)
  BY <1>3, <1>4, WritesTwo
<1>8. Writes(g, {a.val}, G, A, m) /\ Writes(e, {b.val}, G, A, m)
  BY <1>3, <1>5, WritesOne
<1> HIDE DEF f, g, e
<1>9. Writes(f ++ g ++ e, D, G, A, m)
  BY <1>7, <1>8, WritesBoth
<1>10. New(k, 2) \subseteq D
  BY <1>4
<1> QED BY <1>1, <1>6, <1>9, <1>10, StepSound DEF G

LEMMA EqlUseSound ==
  ASSUME NEW h, NEW F, NEW A, NEW m, HeapOk(h, F, A, m), NEW k \in Nat \ {0},
         NEW loc, loc \in F, loc + 1 \in F,
         NEW a, Firm(a, F, A), a.tag = "USE", NEW b, Firm(b, F, A), b.tag = "USE"
  PROVE  Sound(EqlUse(h, loc, a, b), k, F, A, m)
<1> DEFINE f == Node(loc, <<h[a.val], h[b.val]>>)
<1>1. EqlUse(h, loc, a, b) = Step("enter", At("EQL", loc), f, 0, 1)
  BY DEF EqlUse, Enter
<1>2. Term(h[a.val], F, A, m) /\ Term(h[b.val], F, A, m) /\ loc \in Nat
  BY OnePart DEF Ones, HeapOk
<1>3. Writes(f, {loc, loc + 1}, F, A, m)
  BY <1>2, WritesTwo
<1>4. Term(At("EQL", loc), F, A, m)
  BY <1>2, BuiltTwo DEF At, Twos, Term
<1> HIDE DEF f
<1> QED BY <1>1, <1>3, <1>4, StepInPlace

\* One equality for each field, each in its own cells, and the conjunctions:
\* the i-th one, and the cells after the first equality.
Meet(k, loc, i) == IF i = 0 THEN At("EQL", loc) ELSE At("AND", k + 4 * i - 2)
RestOf(h, k, loc, a, b) ==
  [l \in k..(k + 4 * (Arity(a) - 1) - 1) |->
     LET i == (l - k) \div 4 + 1
     IN CASE (l - k) % 4 = 0 -> h[a.val + i]
          [] (l - k) % 4 = 1 -> h[b.val + i]
          [] (l - k) % 4 = 2 -> Meet(k, loc, i - 1)
          [] OTHER -> At("EQL", k + 4 * (i - 1))]

LEMMA EqlFieldsSound ==
  ASSUME NEW h, NEW F, NEW A, NEW m, HeapOk(h, F, A, m), NEW k \in Nat \ {0},
         NEW loc, loc \in F, loc + 1 \in F, NEW a, Firm(a, F, A), NEW b, Firm(b, F, A),
         a.tag = b.tag, Arity(a) # 0
  PROVE  Sound(Enter(Meet(k, loc, Arity(a) - 1),
                     Node(loc, <<h[a.val + 0], h[b.val + 0]>>) ++ RestOf(h, k, loc, a, b),
                     4 * (Arity(a) - 1)), k, F, A, m)
<1> DEFINE n == Arity(a)
           words == 4 * (n - 1)
           G == F \cup New(k, words)
           and(i) == Meet(k, loc, i)
           rest == RestOf(h, k, loc, a, b)
           f == Node(loc, <<h[a.val + 0], h[b.val + 0]>>)
<1>1. n \in Nat \ {0} /\ Arity(b) = n /\ words \in Nat
  BY ArityOf, SameArity
<1>2. Room(h, F, A, m, k, words, G)
  BY <1>1, Grown
<1>3. ASSUME NEW i \in 0..(n - 1)
      PROVE  Term(h[a.val + i], G, A, m) /\ Term(h[b.val + i], G, A, m)
  <2>1. a.val + i \in F /\ b.val + i \in F
    BY <1>1, Owns DEF HeapOk
  <2> QED BY <1>2, <2>1 DEF Room
<1>4. loc \in G /\ loc + 1 \in G /\ loc \in Nat
  BY <1>2 DEF Room
<1>5. 0 \in 0..(n - 1)
  BY <1>1
<1>6. ASSUME NEW i \in 0..(words - 1) PROVE k + i \in G
  BY <1>2 DEF Room
<1> HIDE DEF G, n
<1>7. ASSUME NEW i \in 0..(n - 1) PROVE Term(and(i), G, A, m)
  <2>1. CASE i = 0
    BY <1>4, <2>1, BuiltTwo DEF At, Twos, Term, Meet
  <2>2. CASE i # 0
    <3>1. 4 * i - 2 \in 0..(words - 1) /\ 4 * i - 1 \in 0..(words - 1)
      BY <1>1, <2>2
    <3>2. k + (4 * i - 2) = k + 4 * i - 2 /\ k + (4 * i - 1) = k + 4 * i - 2 + 1
      OBVIOUS
    <3>3. k + 4 * i - 2 \in G /\ k + 4 * i - 2 + 1 \in G /\ k + 4 * i - 2 \in Nat
      BY <1>6, <2>2, <3>1, <3>2
    <3>4. Firm(Word("AND", 0, k + 4 * i - 2), G, A)
      BY <3>3, BuiltTwo DEF Twos
    <3> QED BY <2>2, <3>4 DEF At, Term, Meet
  <2> QED BY <2>1, <2>2
<1>8. DOMAIN rest = New(k, words)
  BY DEF New, RestOf, n
<1> HIDE DEF and
<1>9. ASSUME NEW l \in New(k, words) PROVE l \in G /\ Term(rest[l], G, A, m)
  <2> DEFINE i == (l - k) \div 4 + 1
             j == (l - k) % 4
  <2>1. l \in Int /\ l - k \in 0..(words - 1) /\ k + (l - k) = l
    BY <1>1 DEF New
  <2>2. i \in 1..(n - 1) /\ i \in 0..(n - 1) /\ i - 1 \in 0..(n - 1) /\ j \in 0..3
    BY <1>1, <2>1
  <2>3. l \in G
    BY <1>6, <2>1
  <2>4. rest[l] = CASE j = 0 -> h[a.val + i]
                    [] j = 1 -> h[b.val + i]
                    [] j = 2 -> and(i - 1)
                    [] OTHER -> At("EQL", k + 4 * (i - 1))
    BY DEF New, RestOf, and, n
  <2>5. Term(At("EQL", k + 4 * (i - 1)), G, A, m)
    <3>1. 4 * (i - 1) \in 0..(words - 1) /\ 4 * (i - 1) + 1 \in 0..(words - 1)
      BY <1>1, <2>2
    <3>2. k + (4 * (i - 1) + 1) = k + 4 * (i - 1) + 1
      BY <2>2
    <3>3. k + 4 * (i - 1) \in G /\ k + 4 * (i - 1) + 1 \in G /\ k + 4 * (i - 1) \in Nat
      BY <1>6, <2>2, <3>1, <3>2
    <3>4. Firm(Word("EQL", 0, k + 4 * (i - 1)), G, A)
      BY <3>3, BuiltTwo DEF Twos
    <3> QED BY <3>4 DEF At, Term
  <2>6. Term(and(i - 1), G, A, m) /\ Term(h[a.val + i], G, A, m) /\ Term(h[b.val + i], G, A, m)
    BY <1>3, <1>7, <2>2
  <2> HIDE DEF i, rest
  <2>7. CASE j = 0
    BY <2>3, <2>4, <2>6, <2>7
  <2>8. CASE j = 1
    BY <2>3, <2>4, <2>6, <2>8
  <2>9. CASE j = 2
    BY <2>3, <2>4, <2>6, <2>9
  <2>10. CASE j \notin {0, 1, 2}
    BY <2>3, <2>4, <2>5, <2>10
  <2> QED BY <2>7, <2>8, <2>9, <2>10
<1>10. Term(and(n - 1), G, A, m)
  BY <1>1, <1>7
<1> HIDE DEF rest
<1>11. Writes(rest, New(k, words), G, A, m)
  BY <1>8, <1>9 DEF Writes
<1>12. Writes(f, {loc, loc + 1}, G, A, m)
  BY <1>3, <1>4, <1>5, WritesTwo
<1> HIDE DEF f, words
<1>13. Writes(f ++ rest, {loc, loc + 1} \cup New(k, words), G, A, m)
  BY <1>11, <1>12, WritesBoth
<1>14. New(k, words) \subseteq {loc, loc + 1} \cup New(k, words)
  OBVIOUS
<1>15. Sound(Step("enter", and(n - 1), f ++ rest, words, 1), k, F, A, m)
  BY <1>1, <1>10, <1>13, <1>14, StepSound DEF G
<1> QED BY <1>15 DEF Enter, and, rest, f, words, n

LEMMA TagsApart ==
  /\ Ctrs \cap (Twos \cup Ones \cup Threes \cup {"DP0", "DP1", "VAR", "ALO"}) = {}
  /\ Mats \subseteq Twos /\ Dps = {"DP0", "DP1"}
  /\ \A x \in Names \cup {"ERA", "ANY", "NUM"} : Atom(x)
<1>1. Ctrs \cap (Twos \cup Ones \cup Threes \cup {"DP0", "DP1", "VAR", "ALO"}) = {}
  BY DEF Ctrs, Ctr, Twos, Ones, Threes
<1>2. Mats \subseteq Twos /\ Dps = {"DP0", "DP1"}
  BY DEF Mats, Twos, Dps
<1>3. \A x \in Names \cup {"ERA", "ANY", "NUM"} : Atom(x)
  BY AtomTags DEF Names
<1> QED BY <1>1, <1>2, <1>3

LEMMA JoinSix ==
  ASSUME NEW p, NEW q, NEW r, NEW s, NEW t, NEW u
  PROVE  <<p, q>> \o <<r, s, t, u>> = <<p, q, r, s, t, u>>
<1> DEFINE S == {p, q, r, s, t, u}
           a == <<p, q>>
           b == <<r, s, t, u>>
           c == <<p, q, r, s, t, u>>
<1>1. a \in Seq(S) /\ b \in Seq(S) /\ c \in Seq(S) /\ Len(a) = 2 /\ Len(b) = 4 /\ Len(c) = 6
  OBVIOUS
<1>2. a[1] = p /\ a[2] = q /\ b[1] = r /\ b[2] = s /\ b[3] = t /\ b[4] = u
  OBVIOUS
<1>3. c[1] = p /\ c[2] = q /\ c[3] = r /\ c[4] = s /\ c[5] = t /\ c[6] = u
  OBVIOUS
<1> HIDE DEF S, a, b, c
<1>4. /\ a \o b \in Seq(S) /\ Len(a \o b) = 6
      /\ \A i \in 1..6 : (a \o b)[i] = IF i <= 2 THEN a[i] ELSE b[i - 2]
  <2>1. /\ a \o b \in Seq(S) /\ Len(a \o b) = Len(a) + Len(b)
        /\ \A i \in 1..(Len(a) + Len(b)) :
             (a \o b)[i] = IF i <= Len(a) THEN a[i] ELSE b[i - Len(a)]
    BY <1>1, ConcatProperties, Zenon
  <2>2. Len(a) + Len(b) = 6
    BY <1>1
  <2> QED BY <1>1, <2>1, <2>2
<1>5. ASSUME NEW i \in 1..6 PROVE (a \o b)[i] = c[i]
  <2>1. i = 1 \/ i = 2 \/ i = 3 \/ i = 4 \/ i = 5 \/ i = 6
    OBVIOUS
  <2>2. (a \o b)[i] = IF i <= 2 THEN a[i] ELSE b[i - 2]
    BY <1>4
  <2> QED BY <1>2, <1>3, <2>1, <2>2
<1>6. a \o b = c
  BY <1>1, <1>4, <1>5, SeqEqual
<1> QED BY <1>6 DEF a, b, c

\* Two constructors: as many comparisons as fields, joined by AND.
LEMMA EqlCtrSound ==
  ASSUME NEW h, NEW F, NEW A, NEW m, HeapOk(h, F, A, m), NEW k \in Nat \ {0},
         NEW loc, loc \in F, loc + 1 \in F, NEW a, Firm(a, F, A), NEW b, Firm(b, F, A)
  PROVE  Sound(EqlCtr(h, k, loc, a, b), k, F, A, m)
<1> DEFINE n == Arity(a)
           first == Node(loc, <<h[a.val + 0], h[b.val + 0]>>)
<1>1. CASE a.tag # b.tag \/ a.ext # b.ext
  <2>1. EqlCtr(h, k, loc, a, b) = Step("enter", Num(0), Nothing, 0, 1)
    BY <1>1 DEF EqlCtr, Enter
  <2> QED BY <2>1, LeavesSound, NumFirm DEF Term
<1>2. CASE a.tag = b.tag /\ a.ext = b.ext /\ n = 0
  <2>1. EqlCtr(h, k, loc, a, b) = Step("enter", Num(1), Nothing, 0, 1)
    BY <1>2 DEF EqlCtr, Enter
  <2> QED BY <2>1, LeavesSound, NumFirm DEF Term
<1>3. CASE a.tag = b.tag /\ a.ext = b.ext /\ n = 1 /\ a.ext = SymSuc
  <2> DEFINE G == F \cup New(k, 1)
             g == Write(k, At("EQL", loc))
  <2>1. EqlCtr(h, k, loc, a, b) = Step("enter", At("INC", k), first ++ g, 1, 1)
    BY <1>3 DEF EqlCtr, Enter
  <2>2. Room(h, F, A, m, k, 1, G)
    BY Grown
  <2>3. 0 \in 0..(Arity(a) - 1) /\ 0 \in 0..(Arity(b) - 1)
    BY <1>3, SameArity
  <2>4. a.val + 0 \in F /\ b.val + 0 \in F
    BY <2>3, Owns DEF HeapOk
  <2> HIDE DEF G, n
  <2>5. /\ loc \in G /\ loc + 1 \in G /\ loc \in Nat /\ k \in G /\ New(k, 1) = {k}
        /\ Term(h[a.val + 0], G, A, m) /\ Term(h[b.val + 0], G, A, m)
    BY <2>2, <2>4, NewIs DEF Room
  <2>6. Term(At("EQL", loc), G, A, m) /\ Term(At("INC", k), G, A, m)
    BY <2>5, BuiltOne, BuiltTwo DEF At, Ones, Twos, Term
  <2>7. Writes(first, {loc, loc + 1}, G, A, m) /\ Writes(g, {k}, G, A, m)
    BY <2>5, <2>6, WritesOne, WritesTwo
  <2> HIDE DEF first, g
  <2>8. Writes(first ++ g, {loc, loc + 1} \cup {k}, G, A, m)
    BY <2>7, WritesBoth
  <2>9. New(k, 1) \subseteq {loc, loc + 1} \cup {k}
    BY <2>5
  <2> QED BY <2>1, <2>6, <2>8, <2>9, StepSound DEF G
<1>4. CASE a.tag = b.tag /\ a.ext = b.ext /\ n = 2 /\ a.ext = SymCon
  <2> DEFINE G == F \cup New(k, 6)
             args == <<h[a.val + 1], h[b.val + 1], At("EQL", k), At("EQL", loc),
                       At("INC", k + 2), At("AND", k + 3)>>
             g == Node(k, args)
  <2>1. EqlCtr(h, k, loc, a, b) = Step("enter", At("INC", k + 5), first ++ g, 6, 1)
    <3> DEFINE both == <<h[a.val + 1], h[b.val + 1]>>
                         \o <<At("EQL", k), At("EQL", loc), At("INC", k + 2), At("AND", k + 3)>>
    <3>1. both = args
      BY JoinSix
    <3>2. /\ ~ (a.tag # b.tag \/ a.ext # b.ext) /\ ~ (n = 0)
          /\ ~ (a.ext = SymSuc /\ n = 1) /\ a.ext = SymCon /\ n = 2
      BY <1>4
    <3>3. EqlCtr(h, k, loc, a, b) = Enter(At("INC", k + 5), first ++ Node(k, both), 6)
      BY <3>2, Zenon DEF EqlCtr
    <3> HIDE DEF both, args
    <3> QED BY <3>1, <3>3 DEF Enter
  <2>2. Room(h, F, A, m, k, 6, G)
    BY Grown
  <2>3. {0, 1} \subseteq 0..(Arity(a) - 1) /\ {0, 1} \subseteq 0..(Arity(b) - 1)
    BY <1>4, SameArity
  <2>4. a.val + 0 \in F /\ b.val + 0 \in F /\ a.val + 1 \in F /\ b.val + 1 \in F
    BY <2>3, Owns DEF HeapOk
  <2> HIDE DEF G, n
  <2>5. /\ loc \in G /\ loc + 1 \in G /\ loc \in Nat
        /\ Term(h[a.val + 0], G, A, m) /\ Term(h[b.val + 0], G, A, m)
        /\ Term(h[a.val + 1], G, A, m) /\ Term(h[b.val + 1], G, A, m)
    BY <2>2, <2>4 DEF Room
  <2>6. /\ k \in G /\ k + 1 \in G /\ k + 2 \in G /\ k + 3 \in G /\ k + 4 \in G /\ k + 5 \in G
        /\ k + 3 + 1 = k + 4 /\ k + 2 \in Nat /\ k + 3 \in Nat /\ k + 5 \in Nat
    BY <2>2 DEF Room
  <2>7. /\ Term(At("EQL", loc), G, A, m) /\ Term(At("EQL", k), G, A, m)
        /\ Term(At("INC", k + 2), G, A, m) /\ Term(At("INC", k + 5), G, A, m)
        /\ Term(At("AND", k + 3), G, A, m)
    BY <2>5, <2>6, BuiltOne, BuiltTwo DEF At, Ones, Twos, Term
  <2>8. Writes(first, {loc, loc + 1}, G, A, m)
    BY <2>5, WritesTwo
  <2>9. Writes(g, New(k, 6), G, A, m)
    <3>1. Len(args) = 6
      OBVIOUS
    <3>2. ASSUME NEW i \in 1..6 PROVE k + i - 1 \in G /\ Term(args[i], G, A, m)
      <4>1. i = 1 \/ i = 2 \/ i = 3 \/ i = 4 \/ i = 5 \/ i = 6
        OBVIOUS
      <4>2. Term(args[i], G, A, m)
        BY <2>5, <2>7, <4>1
      <4>3. k + i - 1 \in G
        BY <2>6, <4>1
      <4> QED BY <4>2, <4>3
    <3> HIDE DEF args
    <3> QED BY <3>1, <3>2, WritesSeq
  <2> HIDE DEF first, g
  <2>10. Writes(first ++ g, {loc, loc + 1} \cup New(k, 6), G, A, m)
    BY <2>8, <2>9, WritesBoth
  <2>11. New(k, 6) \subseteq {loc, loc + 1} \cup New(k, 6)
    OBVIOUS
  <2> QED BY <2>1, <2>7, <2>10, <2>11, StepSound DEF G
<1>5. CASE /\ a.tag = b.tag /\ a.ext = b.ext /\ n # 0
           /\ ~ (n = 1 /\ a.ext = SymSuc) /\ ~ (n = 2 /\ a.ext = SymCon)
  <2>1. EqlCtr(h, k, loc, a, b)
          = Enter(Meet(k, loc, n - 1), first ++ RestOf(h, k, loc, a, b), 4 * (n - 1))
    <3>1. /\ ~ (a.tag # b.tag \/ a.ext # b.ext) /\ ~ (n = 0)
          /\ ~ (a.ext = SymSuc /\ n = 1) /\ ~ (a.ext = SymCon /\ n = 2)
      BY <1>5
    <3> QED BY <3>1, Zenon DEF EqlCtr, Meet, RestOf
  <2>2. Sound(Enter(Meet(k, loc, n - 1), first ++ RestOf(h, k, loc, a, b), 4 * (n - 1)), k, F, A, m)
    BY <1>5, EqlFieldsSound
  <2> QED BY <2>1, <2>2
<1> QED BY <1>1, <1>2, <1>3, <1>4, <1>5

\* Two values, whatever they are.
LEMMA EqlValuesSound ==
  ASSUME NEW h, NEW F, NEW A, NEW m, HeapOk(h, F, A, m), NEW k \in Nat \ {0}, NEW name,
         NEW loc, loc \in F, loc + 1 \in F, NEW a, Term(a, F, A, m), NEW b, Firm(b, F, A)
  PROVE  Sound(EqlValues(h, k, loc, a, b, name), k, F, A, m)
<1> DEFINE r == EqlValues(h, k, loc, a, b, name)
<1>1. /\ Sound(EqlNum(a, b), k, F, A, m) /\ Sound(EqlNam(a, b), k, F, A, m)
      /\ Sound(Answer(FALSE), k, F, A, m)
  BY AnswerSound DEF EqlNum, EqlNam
<1>0. a.tag # "APP" => Firm(a, F, A)
  BY NotZero
<1>2. CASE a.tag = "LAM" /\ b.tag = "LAM"
  BY <1>0, <1>2, EqlLamSound DEF EqlValues
<1>3. CASE a.tag \in Ctrs /\ b.tag \in Ctrs
  <2>1. "APP" \notin Ctrs /\ "NUM" \notin Ctrs /\ "LAM" \notin Ctrs
    BY DEF Ctrs, Ctr
  <2>2. Sound(EqlCtr(h, k, loc, a, b), k, F, A, m)
    BY <1>0, <1>3, <2>1, EqlCtrSound
  <2>3. r = EqlCtr(h, k, loc, a, b)
    BY <1>3, <2>1 DEF EqlValues
  <2> QED BY <2>2, <2>3
<1>4. CASE a.tag \in Mats /\ b.tag \in Mats
  <2>1. Sound(Pairwise(h, k, loc, a, b), k, F, A, m)
    <3>1. a.tag # "APP" /\ a.tag \in Twos /\ b.tag \in Twos
      BY <1>4 DEF Mats, Twos
    <3> QED BY <1>0, <3>1, PairwiseSound
  <2>2. Sound(Enter(Num(0), Nothing, 0), k, F, A, m)
    BY LeavesSound, NumFirm DEF Enter, Term
  <2>3. Sound(EqlMat(h, k, loc, a, b), k, F, A, m)
    BY <2>1, <2>2 DEF EqlMat
  <2>4. a.tag \notin Ctrs \cup {"LAM", "NUM"}
    BY <1>4 DEF Mats, Ctrs, Ctr
  <2> QED BY <1>4, <2>3, <2>4 DEF EqlValues
<1>5. CASE a.tag = "USE" /\ b.tag = "USE"
  <2>1. "USE" \notin Ctrs \cup Mats \cup {"LAM", "NUM"}
    BY DEF Mats, Ctrs, Ctr
  <2>2. r = EqlUse(h, loc, a, b)
    BY <1>5, <2>1 DEF EqlValues
  <2> QED BY <1>0, <1>5, <2>2, EqlUseSound
<1>6. CASE a.tag = "DRY" /\ b.tag = "DRY"
  <2>1. "DRY" \notin Ctrs \cup Mats \cup Names \cup {"LAM", "NUM", "USE"}
    BY DEF Mats, Ctrs, Ctr, Names
  <2>2. r = Pairwise(h, k, loc, a, b)
    BY <1>6, <2>1 DEF EqlValues, EqlDry
  <2> QED BY <1>0, <1>6, <2>2, PairwiseSound DEF Twos
<1>7. CASE /\ ~ (a.tag \in Ctrs /\ b.tag \in Ctrs)
           /\ ~ (a.tag = "LAM" /\ b.tag = "LAM") /\ ~ (a.tag \in Mats /\ b.tag \in Mats)
           /\ ~ (a.tag = "USE" /\ b.tag = "USE") /\ ~ (a.tag = "DRY" /\ b.tag = "DRY")
  <2>1. r \in {EqlNum(a, b), EqlNam(a, b), Answer(FALSE)}
    BY <1>7 DEF EqlValues
  <2> QED BY <1>1, <2>1
<1> QED BY <1>2, <1>3, <1>4, <1>5, <1>6, <1>7

-----------------------------------------------------------------------------
(* Dynamic labels.                                                         *)

\* A dynamic node whose label is a superposition: one node for each side, over
\* copies of its arguments.
LEMMA DynSupSound ==
  ASSUME NEW h, NEW F, NEW A, NEW m, HeapOk(h, F, A, m), NEW k \in Nat \ {0},
         NEW tag, tag \in Threes, NEW a, Term(a, F, A, m), NEW b, Term(b, F, A, m),
         NEW sup, Firm(sup, F, A), sup.tag = "SUP"
  PROVE  Sound(DynSup(h, k, tag, sup, a, b), k, F, A, m)
<1> DEFINE G == F \cup New(k, 8)
           A0 == Word("DP0", sup.ext, k)
           A1 == Word("DP1", sup.ext, k)
           B0 == Word("DP0", sup.ext, k + 1)
           B1 == Word("DP1", sup.ext, k + 1)
           l == Word(tag, 0, k + 2)
           r == Word(tag, 0, k + 5)
           args == <<a, b, h[sup.val], A0, B0, h[sup.val + 1], A1, B1>>
           f == Node(k, args)
           g == Node(sup.val, <<l, r>>)
<1>1. DynSup(h, k, tag, sup, a, b) = Step("apply", sup, f ++ g, 8, 1)
  BY DEF DynSup, Apply, Copies, At
<1>2. Room(h, F, A, m, k, 8, G)
  BY Grown
<1> HIDE DEF G
<1>3. /\ sup.val \in G /\ sup.val + 1 \in G /\ sup.val \in Nat /\ Firm(sup, G, A)
      /\ Term(h[sup.val], G, A, m) /\ Term(h[sup.val + 1], G, A, m)
      /\ Term(a, G, A, m) /\ Term(b, G, A, m)
  BY <1>2, TwoParts DEF Room, Twos
<1>4. \A i \in 0..7 : k + i \in G
  BY <1>2 DEF Room
<1>5. /\ k \in G /\ k + 1 \in G /\ k + 2 \in G /\ k + 2 + 1 \in G /\ k + 2 + 2 \in G
      /\ k + 5 \in G /\ k + 5 + 1 \in G /\ k + 5 + 2 \in G /\ k + 2 \in Nat /\ k + 5 \in Nat
  <2>1. k + 0 \in G /\ k + 1 \in G /\ k + 2 \in G /\ k + 3 \in G /\ k + 4 \in G
        /\ k + 5 \in G /\ k + 6 \in G /\ k + 7 \in G
    BY <1>4
  <2> QED BY <2>1
<1>6. /\ Term(A0, G, A, m) /\ Term(A1, G, A, m) /\ Term(B0, G, A, m) /\ Term(B1, G, A, m)
      /\ Term(l, G, A, m) /\ Term(r, G, A, m)
  BY <1>5, BuiltRef, BuiltThree DEF Term
<1> HIDE DEF A0, A1, B0, B1, l, r
<1>7. Writes(f, New(k, 8), G, A, m)
  <2>1. Len(args) = 8
    OBVIOUS
  <2>2. ASSUME NEW i \in 1..8 PROVE k + i - 1 \in G /\ Term(args[i], G, A, m)
    <3>1. i = 1 \/ i = 2 \/ i = 3 \/ i = 4 \/ i = 5 \/ i = 6 \/ i = 7 \/ i = 8
      OBVIOUS
    <3>2. Term(args[i], G, A, m)
      BY <1>3, <1>6, <3>1
    <3>3. i - 1 \in 0..7 /\ k + (i - 1) = k + i - 1
      OBVIOUS
    <3> QED BY <1>4, <3>2, <3>3
  <2> HIDE DEF args
  <2> QED BY <2>1, <2>2, WritesSeq
<1>8. Writes(g, {sup.val, sup.val + 1}, G, A, m)
  BY <1>3, <1>6, WritesTwo
<1> HIDE DEF f, g
<1>9. Writes(f ++ g, New(k, 8) \cup {sup.val, sup.val + 1}, G, A, m)
  BY <1>7, <1>8, WritesBoth
<1>10. New(k, 8) \subseteq New(k, 8) \cup {sup.val, sup.val + 1}
  OBVIOUS
<1> QED BY <1>1, <1>3, <1>9, <1>10, StepSound DEF G

LEMMA DduNumSound ==
  ASSUME NEW h, NEW F, NEW A, NEW m, HeapOk(h, F, A, m), NEW k \in Nat \ {0}, NEW num,
         NEW a, Term(a, F, A, m), NEW b, Term(b, F, A, m)
  PROVE  Sound(DduNum(k, num, a, b), k, F, A, m)
<1> DEFINE G == F \cup New(k, 5)
           V0 == Word("DP0", num.val, k)
           V1 == Word("DP1", num.val, k)
           t == Word("APP", 0, k + 3)
           l == Word("APP", 0, k + 1)
           args == <<a, b, V0, l, V1>>
           f == Node(k, args)
<1>1. DduNum(k, num, a, b) = Step("enter", t, f, 5, 1)
  BY DEF DduNum, Enter, Copies, At
<1>2. Room(h, F, A, m, k, 5, G)
  BY Grown
<1> HIDE DEF G
<1>3. Term(a, G, A, m) /\ Term(b, G, A, m)
  BY <1>2 DEF Room
<1>4. \A i \in 0..4 : k + i \in G
  BY <1>2 DEF Room
<1>5. /\ k \in G /\ k + 1 \in G /\ k + 1 + 1 \in G /\ k + 3 \in G /\ k + 3 + 1 \in G
      /\ k + 1 \in Nat /\ k + 3 \in Nat
  <2>1. k + 0 \in G /\ k + 1 \in G /\ k + 2 \in G /\ k + 3 \in G /\ k + 4 \in G
    BY <1>4
  <2> QED BY <2>1
<1>6. Term(V0, G, A, m) /\ Term(V1, G, A, m) /\ Term(t, G, A, m) /\ Term(l, G, A, m)
  BY <1>5, BuiltRef, BuiltTwo DEF Term, Twos
<1> HIDE DEF V0, V1, t, l
<1>7. Writes(f, New(k, 5), G, A, m)
  <2>1. Len(args) = 5
    OBVIOUS
  <2>2. ASSUME NEW i \in 1..5 PROVE k + i - 1 \in G /\ Term(args[i], G, A, m)
    <3>1. i = 1 \/ i = 2 \/ i = 3 \/ i = 4 \/ i = 5
      OBVIOUS
    <3>2. Term(args[i], G, A, m)
      BY <1>3, <1>6, <3>1
    <3>3. i - 1 \in 0..4 /\ k + (i - 1) = k + i - 1
      OBVIOUS
    <3> QED BY <1>4, <3>2, <3>3
  <2> HIDE DEF args
  <2> QED BY <2>1, <2>2, WritesSeq
<1> HIDE DEF f
<1> QED BY <1>1, <1>6, <1>7, StepSound DEF G

-----------------------------------------------------------------------------
(* What a frame does with a value.                                         *)

\* The tags that the cases of a frame tell apart are apart.
LEMMA Kinds ==
  /\ {"ERA", "ANY", "SUP", "INC", "LAM", "NUM", "DRY", "USE", "OP2", "DSU", "DDU"}
       \cap (Names \cup Mats \cup Ctrs) = {}
  /\ Names \cap (Mats \cup Ctrs) = {} /\ Mats \cap Ctrs = {}
BY DEF Names, Mats, Ctrs, Ctr

\* A frame that cannot go on is written back with its value.
LEMMA StuckSound ==
  ASSUME NEW F, NEW A, NEW m, NEW k \in Nat \ {0}, NEW frame, Firm(frame, F, A),
         NEW cell, cell \in F, NEW v, Firm(v, F, A)
  PROVE  Sound(Stuck(frame, cell, v), k, F, A, m)
BY OneSound DEF Stuck, Term

\* One lemma per frame: whatever value comes, its rule is sound.
LEMMA AppRuleSound ==
  ASSUME NEW h, NEW F, NEW A, NEW m, HeapOk(h, F, A, m), NEW k \in Nat \ {0},
         NEW frame, Firm(frame, F, A), frame.tag = "APP", NEW v, Firm(v, F, A)
  PROVE  Sound(AppRule(h, k, frame, v), k, F, A, m)
<1> DEFINE r == AppRule(h, k, frame, v)
           loc == frame.val
<1>1. loc \in F /\ loc + 1 \in F /\ Term(h[loc + 1], F, A, m) /\ F \subseteq Nat \ {0}
  BY TwoParts DEF Twos, HeapOk
<1> HIDE DEF loc
<1>2. CASE v.tag = "ERA"
  <2>1. r = Erase
    BY Kinds, <1>2 DEF AppRule
  <2> QED BY <2>1, AnswerSound
<1>3. CASE v.tag \in Names \cup {"DRY"}
  <2>1. r = AppName(loc, v)
    BY <1>3 DEF AppRule, loc, Names
  <2> QED BY <1>1, <2>1, AppNameSound
<1>4. CASE v.tag = "LAM"
  <2>1. r = AppLam(h, v, h[loc + 1])
    BY <1>4 DEF AppRule, loc, Names
  <2> QED BY <1>1, <1>4, <2>1, AppLamSound
<1>5. CASE v.tag = "SUP"
  <2>1. r = AppSup(h, k, loc, v, h[loc + 1])
    BY <1>5 DEF AppRule, loc, Names
  <2> QED BY <1>1, <1>5, <2>1, AppSupSound
<1>6. CASE v.tag = "INC"
  <2>1. r = IncLeft(h, "APP", loc, v)
    BY <1>6 DEF AppRule, loc, Names, AppInc
  <2> QED BY <1>1, <1>6, <2>1, IncLeftSound DEF Twos
<1>7. CASE v.tag \notin {"ERA", "LAM", "SUP", "INC", "DRY"} \cup Names
  <2>1. r = Stuck(frame, loc, v)
    BY <1>7 DEF AppRule, loc
  <2> QED BY <1>1, <2>1, StuckSound
<1> QED BY <1>2, <1>3, <1>4, <1>5, <1>6, <1>7

LEMMA MatRuleSound ==
  ASSUME NEW h, NEW F, NEW A, NEW m, HeapOk(h, F, A, m), NEW k \in Nat \ {0},
         NEW mat, Firm(mat, F, A), mat.tag \in Mats, NEW v, Firm(v, F, A)
  PROVE  Sound(MatRule(h, k, mat, v), k, F, A, m)
<1> DEFINE r == MatRule(h, k, mat, v)
<1>1. mat.tag \in Twos /\ Term(mat, F, A, m) /\ Term(v, F, A, m)
  BY TagsApart DEF Term
<1>2. CASE v.tag = "ERA"
  <2>1. r = Erase
    BY Kinds, <1>2 DEF MatRule
  <2> QED BY <2>1, AnswerSound
<1>3. CASE v.tag = "SUP"
  <2>1. r = MatSup(h, k, mat, v)
    BY Kinds, <1>3 DEF MatRule
  <2> QED BY <1>1, <1>3, <2>1, MatSupSound
<1>4. CASE v.tag = "INC"
  <2>1. r = IncNew(k, "APP", 0, <<mat, h[v.val]>>, v)
    BY Kinds, <1>4 DEF MatRule, MatInc
  <2>2. Term(h[v.val], F, A, m)
    BY <1>4, OnePart DEF Ones
  <2> QED BY <1>1, <1>4, <2>1, <2>2, IncNewTwo DEF Twos
<1>5. CASE v.tag \in Ctrs
  <2>1. v.tag \notin {"ERA", "SUP", "INC"}
    BY <1>5 DEF Ctrs, Ctr
  <2>2. r = MatCtr(h, k, mat, v)
    BY Kinds, <1>5, <2>1 DEF MatRule
  <2>3. r = MatHit(h, k, mat, v) \/ r = MatMiss(h, mat, v)
    BY <2>2 DEF MatCtr
  <2> QED BY <1>1, <2>3, MatHitSound, MatMissSound
<1>6. CASE v.tag = "NUM"
  <2>1. "NUM" \notin Ctrs
    BY DEF Ctrs, Ctr
  <2>2. r = MatNum(h, mat, v)
    BY Kinds, <1>6, <2>1 DEF MatRule
  <2> QED BY <1>1, <2>2, MatNumSound
<1>7. CASE v.tag \notin {"ERA", "SUP", "INC", "NUM"} \cup Ctrs
  <2>1. \E tag \in {"DRY", "APP"} : r = Step("apply", Word(tag, 0, k), Node(k, <<mat, v>>), 2, 0)
    BY <1>7 DEF MatRule, At
  <2> QED BY <1>1, <2>1, PairSound DEF Twos
<1> QED BY <1>2, <1>3, <1>4, <1>5, <1>6, <1>7

LEMMA UseRuleSound ==
  ASSUME NEW h, NEW F, NEW A, NEW m, HeapOk(h, F, A, m), NEW k \in Nat \ {0},
         NEW use, Firm(use, F, A), use.tag = "USE", NEW v, Firm(v, F, A)
  PROVE  Sound(UseRule(h, k, use, v), k, F, A, m)
<1> DEFINE r == UseRule(h, k, use, v)
<1>1. Term(use, F, A, m) /\ Term(v, F, A, m)
  BY DEF Term
<1>2. CASE v.tag = "ERA"
  BY <1>2, AnswerSound DEF UseRule
<1>3. CASE v.tag = "SUP"
  BY <1>3, UseSupSound DEF UseRule
<1>4. CASE v.tag = "INC"
  <2>1. r = IncNew(k, "APP", 0, <<use, h[v.val]>>, v)
    BY <1>4 DEF UseRule, UseInc
  <2>2. Term(h[v.val], F, A, m)
    BY <1>4, OnePart DEF Ones
  <2> QED BY <1>1, <1>4, <2>1, <2>2, IncNewTwo DEF Twos
<1>5. CASE v.tag \notin {"ERA", "SUP", "INC"}
  BY <1>1, <1>5, UseValSound DEF UseRule
<1> QED BY <1>2, <1>3, <1>4, <1>5

LEMMA DupRuleSound ==
  ASSUME NEW h, NEW F, NEW A, NEW m, HeapOk(h, F, A, m), NEW k \in Nat \ {0},
         NEW dp, Firm(dp, F, A), dp.tag \in Dps, NEW v, Firm(v, F, A)
  PROVE  Sound(DupRule(h, k, dp, v), k, F, A, m)
<1> DEFINE r == DupRule(h, k, dp, v)
           nods == {"DRY", "USE", "INC", "OP2", "DSU", "DDU"} \cup Mats \cup Ctrs
<1>1. dp.val \in F
  BY DEF Firm
<1>2. CASE v.tag \in Names \cup {"ERA", "ANY", "NUM"}
  BY Kinds, <1>1, <1>2, DupAtomSound DEF DupRule
<1>3. CASE v.tag = "LAM"
  <2>1. r = DupLam(h, k, dp, v)
    BY Kinds, <1>3 DEF DupRule, Names
  <2> QED BY <1>1, <1>3, <2>1, DupLamSound
<1>4. CASE v.tag = "SUP"
  <2>1. r = DupSup(h, k, dp, v)
    BY Kinds, <1>4 DEF DupRule, Names
  <2> QED BY <1>1, <1>4, <2>1, DupSupSound
<1>5. CASE v.tag \in nods
  <2>1. nods \cap (Names \cup {"ERA", "ANY", "NUM", "LAM", "SUP", "DP0", "DP1", "VAR", "ALO"}) = {}
    BY DEF Names, Mats, Ctrs, Ctr
  <2>2. v.tag \notin Names \cup {"ERA", "ANY", "NUM", "LAM", "SUP", "DP0", "DP1", "VAR", "ALO"}
    BY <1>5, <2>1
  <2>3. r = DupNod(k, dp, v)
    BY <1>5, <2>2 DEF DupRule
  <2> QED BY <1>1, <2>2, <2>3, DupNodSound
<1>6. CASE v.tag \notin nods \cup Names \cup {"ERA", "ANY", "NUM", "LAM", "SUP"}
  <2>1. r = Stuck(dp, dp.val, v)
    BY <1>6 DEF DupRule
  <2> QED BY <1>1, <2>1, StuckSound
<1> QED BY <1>2, <1>3, <1>4, <1>5, <1>6

LEMMA Op2RuleSound ==
  ASSUME NEW h, NEW F, NEW A, NEW m, HeapOk(h, F, A, m), NEW k \in Nat \ {0},
         NEW frame, Firm(frame, F, A), frame.tag = "OP2", NEW v, Firm(v, F, A)
  PROVE  Sound(Op2Rule(h, k, frame, v), k, F, A, m)
<1> DEFINE r == Op2Rule(h, k, frame, v)
           y == h[frame.val + 1]
<1>1. frame.val \in F /\ frame.val + 1 \in F /\ Term(y, F, A, m)
  BY TwoParts DEF Twos
<1> HIDE DEF y
<1>2. CASE v.tag = "ERA"
  BY <1>2, AnswerSound DEF Op2Rule
<1>3. CASE v.tag = "NUM"
  <2>1. r = Step("apply", Num(Op2U32(frame.ext, v.val, y.val)), Nothing, 0, 1)
    BY <1>3 DEF Op2Rule, Op2NumNum, Apply, y
  <2> QED BY <2>1, NumFirm, LeavesSound
<1>4. CASE v.tag = "SUP"
  <2>1. r = SupLeft(h, k, "OP2", frame.ext, frame.val, v, y)
    BY <1>4 DEF Op2Rule, Op2Sup, y
  <2> QED BY <1>1, <1>4, <2>1, SupLeftSound DEF Twos
<1>5. CASE v.tag = "INC"
  <2>1. r = IncNew(k, "OP2", frame.ext, <<h[v.val], y>>, v)
    BY <1>5 DEF Op2Rule, Op2Inc, y
  <2>2. Term(h[v.val], F, A, m)
    BY <1>5, OnePart DEF Ones
  <2> QED BY <1>1, <1>5, <2>1, <2>2, IncNewTwo DEF Twos
<1>6. CASE v.tag \notin {"ERA", "NUM", "SUP", "INC"}
  <2>1. r = Stuck(frame, frame.val, v)
    BY <1>6 DEF Op2Rule
  <2> QED BY <1>1, <2>1, StuckSound
<1> QED BY <1>2, <1>3, <1>4, <1>5, <1>6

LEMMA Op2RightRuleSound ==
  ASSUME NEW h, NEW F, NEW A, NEW m, HeapOk(h, F, A, m), NEW k \in Nat \ {0},
         NEW frame, NEW v, Firm(v, F, A)
  PROVE  Sound(Op2RightRule(h, k, frame, v), k, F, A, m)
<1> DEFINE r == Op2RightRule(h, k, frame, v)
           x == Num(frame.val)
<1>1. Term(x, F, A, m) /\ Term(v, F, A, m)
  BY NumFirm DEF Term
<1> HIDE DEF x
<1>2. CASE v.tag = "ERA"
  BY <1>2, AnswerSound DEF Op2RightRule
<1>3. CASE v.tag = "NUM"
  <2>1. r = Step("apply", Num(Op2U32(frame.ext, frame.val, v.val)), Nothing, 0, 1)
    BY <1>3 DEF Op2RightRule, Op2NumNum, Apply
  <2> QED BY <2>1, NumFirm, LeavesSound
<1>4. CASE v.tag = "SUP"
  <2>1. r = Op2NumSup(h, k, frame.ext, x, v)
    BY <1>4 DEF Op2RightRule, x
  <2> QED BY <1>1, <1>4, <2>1, Op2NumSupSound
<1>5. CASE v.tag = "INC"
  <2>1. r = IncNew(k, "OP2", frame.ext, <<x, h[v.val]>>, v)
    BY <1>5 DEF Op2RightRule, Op2NumInc, x
  <2>2. Term(h[v.val], F, A, m)
    BY <1>5, OnePart DEF Ones
  <2> QED BY <1>1, <1>5, <2>1, <2>2, IncNewTwo DEF Twos
<1>6. CASE v.tag \notin {"ERA", "NUM", "SUP", "INC"}
  <2>1. r = Step("apply", Word("OP2", frame.ext, k), Node(k, <<x, v>>), 2, 0)
    BY <1>6 DEF Op2RightRule, x
  <2> QED BY <1>1, <2>1, PairSound DEF Twos
<1> QED BY <1>2, <1>3, <1>4, <1>5, <1>6

LEMMA EqlRuleSound ==
  ASSUME NEW h, NEW F, NEW A, NEW m, HeapOk(h, F, A, m), NEW k \in Nat \ {0},
         NEW frame, Firm(frame, F, A), frame.tag = "EQL",
         NEW v, Firm(v, F, A), v.tag \in EqlLeftTags
  PROVE  Sound(EqlRule(h, k, frame, v), k, F, A, m)
<1> DEFINE r == EqlRule(h, k, frame, v)
<1>1. frame.val \in F /\ frame.val + 1 \in F /\ Term(h[frame.val + 1], F, A, m)
  BY TwoParts DEF Twos
<1>2. CASE v.tag \in {"ERA", "ANY"}
  BY <1>2, AnswerSound DEF EqlRule
<1>3. CASE v.tag = "SUP"
  <2>1. r = SupLeft(h, k, "EQL", 0, frame.val, v, h[frame.val + 1])
    BY <1>3 DEF EqlRule, EqlSup
  <2> QED BY <1>1, <1>3, <2>1, SupLeftSound DEF Twos
<1>4. CASE v.tag = "INC"
  <2>1. r = IncLeft(h, "EQL", frame.val, v)
    BY <1>4 DEF EqlRule, EqlInc
  <2> QED BY <1>1, <1>4, <2>1, IncLeftSound DEF Twos
<1> QED BY <1>2, <1>3, <1>4 DEF EqlLeftTags

\* The left value waits in the cell loc.
LEMMA EqlRightRuleSound ==
  ASSUME NEW h, NEW F, NEW A, NEW m, HeapOk(h, F, A, m), NEW k \in Nat \ {0},
         NEW loc, loc \in F, loc + 1 \in F, NEW v, Firm(v, F, A)
  PROVE  Sound(EqlRightRule(h, k, loc, v), k, F, A, m)
<1> DEFINE r == EqlRightRule(h, k, loc, v)
<1>1. Term(h[loc], F, A, m)
  BY DEF HeapOk
<1>2. CASE v.tag \in {"ERA", "ANY"}
  BY <1>2, AnswerSound DEF EqlRightRule
<1>3. CASE v.tag = "SUP"
  <2>1. r = EqlSupRight(h, k, loc, h[loc], v)
    BY <1>3 DEF EqlRightRule
  <2> QED BY <1>1, <1>3, <2>1, EqlSupRightSound
<1>4. CASE v.tag = "INC"
  <2>1. r = EqlIncRight(h, loc, h[loc], v)
    BY <1>4 DEF EqlRightRule
  <2> QED BY <1>1, <1>4, <2>1, EqlIncRightSound
<1>5. CASE v.tag \notin {"ERA", "ANY", "SUP", "INC"}
  <2>1. r = EqlValues(h, k, loc, h[loc], v, fresh)
    BY <1>5 DEF EqlRightRule
  <2> QED BY <1>1, <2>1, EqlValuesSound
<1> QED BY <1>2, <1>3, <1>4, <1>5

LEMMA DsuRuleSound ==
  ASSUME NEW h, NEW F, NEW A, NEW m, HeapOk(h, F, A, m), NEW k \in Nat \ {0},
         NEW frame, Firm(frame, F, A), frame.tag = "DSU", NEW v, Firm(v, F, A)
  PROVE  Sound(DsuRule(h, k, frame, v), k, F, A, m)
<1> DEFINE r == DsuRule(h, k, frame, v)
           a == h[frame.val + 1]
           b == h[frame.val + 2]
<1>1. frame.val \in F /\ Term(a, F, A, m) /\ Term(b, F, A, m)
  BY Owns DEF Threes, HeapOk
<1> HIDE DEF a, b
<1>2. CASE v.tag = "ERA"
  BY <1>2, AnswerSound DEF DsuRule
<1>3. CASE v.tag = "NUM"
  <2>1. r = DsuNum(k, v, a, b)
    BY <1>3 DEF DsuRule, a, b
  <2>2. r = Step("apply", Word("SUP", v.val, k), Node(k, <<a, b>>), 2, 1)
    BY <2>1 DEF DsuNum, Apply
  <2> QED BY <1>1, <2>2, PairSound DEF Twos
<1>4. CASE v.tag = "SUP"
  <2>1. r = DynSup(h, k, "DSU", v, a, b)
    BY <1>4 DEF DsuRule, DsuSup, a, b
  <2> QED BY <1>1, <1>4, <2>1, DynSupSound DEF Threes
<1>5. CASE v.tag = "INC"
  <2>1. r = IncNew(k, "DSU", 0, <<h[v.val], a, b>>, v)
    BY <1>5 DEF DsuRule, DsuInc, a, b
  <2>2. Term(h[v.val], F, A, m)
    BY <1>5, OnePart DEF Ones
  <2> QED BY <1>1, <1>5, <2>1, <2>2, IncNewThree DEF Threes
<1>6. CASE v.tag \notin {"ERA", "NUM", "SUP", "INC"}
  <2>1. r = Stuck(frame, frame.val, v)
    BY <1>6 DEF DsuRule
  <2> QED BY <1>1, <2>1, StuckSound
<1> QED BY <1>2, <1>3, <1>4, <1>5, <1>6

LEMMA DduRuleSound ==
  ASSUME NEW h, NEW F, NEW A, NEW m, HeapOk(h, F, A, m), NEW k \in Nat \ {0},
         NEW frame, Firm(frame, F, A), frame.tag = "DDU", NEW v, Firm(v, F, A)
  PROVE  Sound(DduRule(h, k, frame, v), k, F, A, m)
<1> DEFINE r == DduRule(h, k, frame, v)
           a == h[frame.val + 1]
           b == h[frame.val + 2]
<1>1. frame.val \in F /\ Term(a, F, A, m) /\ Term(b, F, A, m)
  BY Owns DEF Threes, HeapOk
<1> HIDE DEF a, b
<1>2. CASE v.tag = "ERA"
  BY <1>2, AnswerSound DEF DduRule
<1>3. CASE v.tag = "NUM"
  <2>1. r = DduNum(k, v, a, b)
    BY <1>3 DEF DduRule, a, b
  <2> QED BY <1>1, <2>1, DduNumSound
<1>4. CASE v.tag = "SUP"
  <2>1. r = DynSup(h, k, "DDU", v, a, b)
    BY <1>4 DEF DduRule, DduSup, a, b
  <2> QED BY <1>1, <1>4, <2>1, DynSupSound DEF Threes
<1>5. CASE v.tag = "INC"
  <2>1. r = IncNew(k, "DDU", 0, <<h[v.val], a, b>>, v)
    BY <1>5 DEF DduRule, DduInc, a, b
  <2>2. Term(h[v.val], F, A, m)
    BY <1>5, OnePart DEF Ones
  <2> QED BY <1>1, <1>5, <2>1, <2>2, IncNewThree DEF Threes
<1>6. CASE v.tag \notin {"ERA", "NUM", "SUP", "INC"}
  <2>1. r = Stuck(frame, frame.val, v)
    BY <1>6 DEF DduRule
  <2> QED BY <1>1, <2>1, StuckSound
<1> QED BY <1>2, <1>3, <1>4, <1>5, <1>6

LEMMA AndRuleSound ==
  ASSUME NEW h, NEW F, NEW A, NEW m, HeapOk(h, F, A, m), NEW k \in Nat \ {0},
         NEW frame, Firm(frame, F, A), frame.tag = "AND", NEW v, Firm(v, F, A)
  PROVE  Sound(AndRule(h, k, frame, v), k, F, A, m)
<1> DEFINE r == AndRule(h, k, frame, v)
           b == h[frame.val + 1]
<1>1. frame.val \in F /\ frame.val + 1 \in F /\ Term(b, F, A, m)
  BY TwoParts DEF Twos
<1> HIDE DEF b
<1>2. CASE v.tag = "ERA"
  BY <1>2, AnswerSound DEF AndRule
<1>3. CASE v.tag = "SUP"
  <2>1. r = SupLeft(h, k, "AND", 0, frame.val, v, b)
    BY <1>3 DEF AndRule, AndSup, b
  <2> QED BY <1>1, <1>3, <2>1, SupLeftSound DEF Twos
<1>4. CASE v.tag = "INC"
  <2>1. r = IncLeft(h, "AND", frame.val, v)
    BY <1>4 DEF AndRule, AndInc
  <2> QED BY <1>1, <1>4, <2>1, IncLeftSound DEF Twos
<1>5. CASE v.tag = "NUM"
  <2>1. r = AndNum(v, b)
    BY <1>5 DEF AndRule, b
  <2>2. \E n : r = Enter(Num(n), Nothing, 0) \/ r = Enter(b, Nothing, 0)
    BY <2>1 DEF AndNum
  <2>3. Sound(Enter(b, Nothing, 0), k, F, A, m)
    BY <1>1, LeavesSound DEF Enter
  <2>4. \A n : Sound(Enter(Num(n), Nothing, 0), k, F, A, m)
    BY NumFirm, LeavesSound DEF Enter, Term
  <2> QED BY <2>2, <2>3, <2>4
<1>6. CASE v.tag \notin {"ERA", "NUM", "SUP", "INC"}
  <2>1. r = Stuck(frame, frame.val, v)
    BY <1>6 DEF AndRule
  <2> QED BY <1>1, <2>1, StuckSound
<1> QED BY <1>2, <1>3, <1>4, <1>5, <1>6

LEMMA OrRuleSound ==
  ASSUME NEW h, NEW F, NEW A, NEW m, HeapOk(h, F, A, m), NEW k \in Nat \ {0},
         NEW frame, Firm(frame, F, A), frame.tag = "OR", NEW v, Firm(v, F, A)
  PROVE  Sound(OrRule(h, k, frame, v), k, F, A, m)
<1> DEFINE r == OrRule(h, k, frame, v)
           b == h[frame.val + 1]
<1>1. frame.val \in F /\ frame.val + 1 \in F /\ Term(b, F, A, m)
  BY TwoParts DEF Twos
<1> HIDE DEF b
<1>2. CASE v.tag = "ERA"
  BY <1>2, AnswerSound DEF OrRule
<1>3. CASE v.tag = "SUP"
  <2>1. r = SupLeft(h, k, "OR", 0, frame.val, v, b)
    BY <1>3 DEF OrRule, OrSup, b
  <2> QED BY <1>1, <1>3, <2>1, SupLeftSound DEF Twos
<1>4. CASE v.tag = "INC"
  <2>1. r = IncLeft(h, "OR", frame.val, v)
    BY <1>4 DEF OrRule, OrInc
  <2> QED BY <1>1, <1>4, <2>1, IncLeftSound DEF Twos
<1>5. CASE v.tag = "NUM"
  <2>1. r = OrNum(v, b)
    BY <1>5 DEF OrRule, b
  <2>2. \E n : r = Enter(Num(n), Nothing, 0) \/ r = Enter(b, Nothing, 0)
    BY <2>1 DEF OrNum
  <2>3. Sound(Enter(b, Nothing, 0), k, F, A, m)
    BY <1>1, LeavesSound DEF Enter
  <2>4. \A n : Sound(Enter(Num(n), Nothing, 0), k, F, A, m)
    BY NumFirm, LeavesSound DEF Enter, Term
  <2> QED BY <2>2, <2>3, <2>4
<1>6. CASE v.tag \notin {"ERA", "NUM", "SUP", "INC"}
  <2>1. r = Stuck(frame, frame.val, v)
    BY <1>6 DEF OrRule
  <2> QED BY <1>1, <2>1, StuckSound
<1> QED BY <1>2, <1>3, <1>4, <1>5, <1>6

LEMMA RebuiltSound ==
  ASSUME NEW h, NEW F, NEW A, NEW m, HeapOk(h, F, A, m), NEW k \in Nat \ {0},
         NEW frame, Firm(frame, F, A),
         frame.tag \in Strict \cup Dps \cup Mats \cup {"USE", "F_OP2_NUM", "F_EQL_R"},
         frame.tag = "F_EQL_R" => frame.val \in F /\ frame.val + 1 \in F,
         NEW v, Term(v, F, A, m)
  PROVE  Sound(Rebuilt(h, k, frame, v), k, F, A, m)
<1> DEFINE r == Rebuilt(h, k, frame, v)
<1>1. Term(frame, F, A, m) /\ F \subseteq Nat \ {0}
  BY DEF Term, HeapOk
<1>2. CASE frame.tag = "APP"
  <2>1. frame.val \in F /\ frame.val + 1 \in F /\ frame.val \in Nat
    BY <1>2, TwoParts DEF Twos
  <2>2. Firm(At("APP", frame.val), F, A)
    BY <2>1, BuiltTwo DEF At, Twos
  <2>3. r = Step("rebuild", At("APP", frame.val), Write(frame.val, v), 0, 0)
    BY <1>2 DEF Rebuilt, Mats
  <2> QED BY <2>1, <2>2, <2>3, OneSound
<1>3. CASE frame.tag \in {"USE"} \cup Mats
  <2>1. frame.tag # "APP"
    BY <1>3 DEF Mats
  <2>2. r = Step("rebuild", Word("APP", 0, k), Node(k, <<frame, v>>), 2, 0)
    BY <1>3, <2>1 DEF Rebuilt, Mats, At
  <2> QED BY <1>1, <2>2, PairSound DEF Twos
<1>4. CASE frame.tag = "F_OP2_NUM"
  <2>1. r = Step("rebuild", Word("OP2", frame.ext, k), Node(k, <<Num(frame.val), v>>), 2, 0)
    BY <1>4 DEF Rebuilt, Mats, Mats
  <2>2. Term(Num(frame.val), F, A, m)
    BY NumFirm DEF Term
  <2> QED BY <2>1, <2>2, PairSound DEF Twos
<1>5. CASE frame.tag = "F_EQL_R"
  <2>1. frame.val \in F /\ frame.val + 1 \in F /\ frame.val \in Nat
    BY <1>1, <1>5
  <2>2. Firm(At("EQL", frame.val), F, A)
    BY <2>1, BuiltTwo DEF At, Twos
  <2>3. r = Step("rebuild", At("EQL", frame.val), Write(frame.val + 1, v), 0, 0)
    BY <1>5 DEF Rebuilt, Mats
  <2> QED BY <2>1, <2>2, <2>3, OneSound
<1>6. CASE frame.tag \in (Strict \ {"APP"}) \cup Dps
  <2>1. frame.tag \in Twos \cup Threes \cup Dps
    BY <1>6 DEF Strict, Twos, Threes
  <2>2. frame.val \in F
    BY <1>1, <2>1, Owns DEF Twos, Threes, Dps
  <2>3. r = Step("rebuild", frame, Write(frame.val, v), 0, 0)
    <3>1. frame.tag \notin {"APP", "USE", "F_OP2_NUM", "F_EQL_R"} \cup Mats
      BY <1>6 DEF Strict, Dps, Mats
    <3> QED BY <3>1 DEF Rebuilt
  <2> QED BY <2>2, <2>3, OneSound
<1> QED BY <1>2, <1>3, <1>4, <1>5, <1>6

-----------------------------------------------------------------------------
(* The heap.                                                               *)

\* Where a pending allocation may point: to a static place with no binder
\* around it, or to a pair (a place and the list of what is bound there) if no
\* more binders are bound than there are around its place.
Pending(h, P, level) ==
  {a \in Nat \X (DOMAIN level \cup P) :
     IF a[1] = 0 THEN a[2] \in DOMAIN level ELSE a[2] \in P /\ a[1] <= level[h[a[2]].val]}

\* The cells of a heap: those of the book, which nobody writes, terms (F), pairs
\* of pending allocations (P), and lists of what is bound, which are the cells B
\* of terms and the link in the cell after each.
Formed(h, F, P, B, level, still, m) ==
  /\ F \subseteq DOMAIN h /\ P \subseteq DOMAIN h /\ DOMAIN still \subseteq DOMAIN h
  /\ F \cap P = {} /\ F \cap DOMAIN still = {} /\ P \cap DOMAIN still = {}
  /\ B \subseteq F
  /\ HeapOk(h, F, Pending(h, P, level), m)
  /\ \A p \in P : h[p].val \in DOMAIN level /\ h[p].ext \in B \cup {0}
  /\ \A b \in B : /\ b + 1 \in DOMAIN h /\ b + 1 \notin F \cup P \cup DOMAIN still
                  /\ h[b + 1].val \in B \cup {0}
  /\ \A l \in DOMAIN still : h[l] = still[l]

\* The heap after the writes f of a rule that leaves the word t.
After(f, t, go, h, F, P, B, level, still, m) ==
  \E F2, P2, B2 :
    /\ F \subseteq F2 /\ Pending(h, P, level) \subseteq Pending(f ++ h, P2, level)
    /\ Formed(f ++ h, F2, P2, B2, level, still, m)
    /\ Term(t, F2, Pending(f ++ h, P2, level), m)
    /\ go # "enter" => Firm(t, F2, Pending(f ++ h, P2, level))

Keeps(r, k, h, F, P, B, level, still, m) ==
  /\ r.words \in Nat /\ r.count \in Nat /\ r.go \in {"enter", "apply", "rebuild"}
  /\ DOMAIN (r.writes ++ h) = DOMAIN h \cup New(k, r.words)
  /\ After(r.writes, r.t, r.go, h, F, P, B, level, still, m)

LEMMA PendingIs ==
  ASSUME NEW h, NEW P, NEW level, NEW n, NEW v
  PROVE  <<n, v>> \in Pending(h, P, level) <=>
           /\ n \in Nat
           /\ IF n = 0 THEN v \in DOMAIN level ELSE v \in P /\ n <= level[h[v].val]
BY DEF Pending

LEMMA PendingGrows ==
  ASSUME NEW h, NEW P, NEW level, NEW g, NEW Q, P \subseteq Q,
         \A p \in P : level[h[p].val] \in Nat /\ level[g[p].val] \in Nat
                      /\ level[h[p].val] <= level[g[p].val]
  PROVE  Pending(h, P, level) \subseteq Pending(g, Q, level)
<1> SUFFICES ASSUME NEW a \in Pending(h, P, level)
             PROVE  a \in Pending(g, Q, level)
  OBVIOUS
<1>1. a \in Nat \X (DOMAIN level \cup P)
  BY DEF Pending
<1>2. PICK n \in Nat, v \in DOMAIN level \cup P : a = <<n, v>>
  BY <1>1
<1>3. IF n = 0 THEN v \in DOMAIN level ELSE v \in P /\ n <= level[h[v].val]
  BY <1>2, PendingIs
<1>4. IF n = 0 THEN v \in DOMAIN level ELSE v \in Q /\ n <= level[g[v].val]
  BY <1>3
<1> QED BY <1>2, <1>4, PendingIs

\* The heap after writes.
LEMMA Over ==
  ASSUME NEW f, NEW h
  PROVE  /\ DOMAIN (f ++ h) = DOMAIN f \cup DOMAIN h
         /\ \A l \in DOMAIN f : (f ++ h)[l] = f[l]
         /\ \A l \in DOMAIN h : l \notin DOMAIN f => (f ++ h)[l] = h[l]
BY DEF ++

\* The heap after a rule, with the cells it allocated.
Filled(r, k, h, F, P, B, level, still, m) ==
  LET g == r.writes ++ h
      G == F \cup New(k, r.words)
      A == Pending(g, P, level)
  IN /\ DOMAIN g = DOMAIN h \cup New(k, r.words)
     /\ Pending(h, P, level) \subseteq A /\ Formed(g, G, P, B, level, still, m)
     /\ Term(r.t, G, A, m) /\ (r.go # "enter" => Firm(r.t, G, A))

\* After a sound rule the heap is formed, with the new cells among the terms.
LEMMA SoundForms ==
  ASSUME NEW h, NEW F, NEW P, NEW B, NEW level, NEW still, NEW m,
         Formed(h, F, P, B, level, still, m), \A l \in DOMAIN level : level[l] \in Nat,
         NEW k \in Nat \ {0}, NEW r, Sound(r, k, F, Pending(h, P, level), m),
         New(k, r.words) \cap DOMAIN h = {}
  PROVE  Filled(r, k, h, F, P, B, level, still, m)
<1> DEFINE N == New(k, r.words)
           G == F \cup N
           f == r.writes
           g == f ++ h
           A == Pending(h, P, level)
           A2 == Pending(g, P, level)
<1>1. /\ r.words \in Nat /\ r.count \in Nat /\ r.go \in {"enter", "apply", "rebuild"}
      /\ N \subseteq DOMAIN f /\ DOMAIN f \subseteq G
      /\ \A l \in DOMAIN f : Term(f[l], G, A, m)
      /\ Term(r.t, G, A, m) /\ (r.go # "enter" => Firm(r.t, G, A))
  BY DEF Sound, Writes
<1>2. /\ F \subseteq DOMAIN h /\ P \subseteq DOMAIN h /\ DOMAIN still \subseteq DOMAIN h
      /\ F \cap P = {} /\ F \cap DOMAIN still = {} /\ P \cap DOMAIN still = {} /\ B \subseteq F
      /\ F \subseteq Nat \ {0} /\ \A l \in F : Term(h[l], F, A, m)
  BY DEF Formed, HeapOk
<1>3. /\ \A p \in P : h[p].val \in DOMAIN level /\ h[p].ext \in B \cup {0}
      /\ \A b \in B : /\ b + 1 \in DOMAIN h /\ b + 1 \notin F \cup P \cup DOMAIN still
                      /\ h[b + 1].val \in B \cup {0}
      /\ \A l \in DOMAIN still : h[l] = still[l]
  BY DEF Formed
<1>4. N \subseteq Nat \ {0} /\ N \cap DOMAIN h = {}
  BY <1>1, NewNat
<1> HIDE DEF N, f
<1>5. /\ DOMAIN g = DOMAIN f \cup DOMAIN h
      /\ \A l \in DOMAIN f : g[l] = f[l]
      /\ \A l \in DOMAIN h : l \notin DOMAIN f => g[l] = h[l]
  BY Over
<1> HIDE DEF g
<1>6. \A l \in DOMAIN h : l \notin F => l \notin DOMAIN f /\ g[l] = h[l]
  BY <1>1, <1>4, <1>5
<1>7. A \subseteq A2
  <2>1. \A p \in P : g[p] = h[p]
    BY <1>2, <1>6
  <2>2. \A p \in P : level[h[p].val] \in Nat
    BY <1>3
  <2> QED BY <2>1, <2>2, PendingGrows
<1> HIDE DEF A, A2
<1>8. \A w : (Term(w, G, A, m) => Term(w, G, A2, m)) /\ (Firm(w, G, A) => Firm(w, G, A2))
  BY <1>7, FirmGrows, TermGrows
<1>9. ASSUME NEW l \in G PROVE Term(g[l], G, A2, m)
  <2>1. CASE l \in DOMAIN f
    BY <1>1, <1>5, <1>8, <2>1
  <2>2. CASE l \notin DOMAIN f
    <3>1. l \in F /\ g[l] = h[l]
      BY <1>1, <1>2, <1>5, <2>2
    <3>2. Term(h[l], G, A, m)
      BY <1>2, <3>1, TermGrows
    <3> QED BY <1>8, <3>1, <3>2
  <2> QED BY <2>1, <2>2
<1>10. DOMAIN g = DOMAIN h \cup N
  BY <1>1, <1>2, <1>5
<1>11. HeapOk(g, G, A2, m)
  BY <1>2, <1>4, <1>9 DEF HeapOk
<1>12. \A p \in P : g[p].val \in DOMAIN level /\ g[p].ext \in B \cup {0}
  BY <1>2, <1>3, <1>6
<1>13. \A b \in B : /\ b + 1 \in DOMAIN g /\ b + 1 \notin G \cup P \cup DOMAIN still
                    /\ g[b + 1].val \in B \cup {0}
  BY <1>3, <1>4, <1>6, <1>10
<1>14. \A l \in DOMAIN still : g[l] = still[l]
  BY <1>2, <1>3, <1>6
<1>15. /\ G \subseteq DOMAIN g /\ P \subseteq DOMAIN g /\ DOMAIN still \subseteq DOMAIN g
       /\ G \cap P = {} /\ G \cap DOMAIN still = {} /\ B \subseteq G
  BY <1>2, <1>4, <1>10
<1> HIDE DEF G
<1>16. Formed(g, G, P, B, level, still, m)
  BY <1>2, <1>11, <1>12, <1>13, <1>14, <1>15 DEF Formed, A2
<1>17. /\ DOMAIN g = DOMAIN h \cup N /\ A \subseteq A2 /\ Formed(g, G, P, B, level, still, m)
       /\ Term(r.t, G, A2, m) /\ (r.go # "enter" => Firm(r.t, G, A2))
  BY <1>1, <1>7, <1>8, <1>10, <1>16
<1> QED BY <1>17 DEF Filled, A, A2, G, f, N, g

\* A sound rule keeps the heap in order.
LEMMA SoundKeeps ==
  ASSUME NEW h, NEW F, NEW P, NEW B, NEW level, NEW still, NEW m,
         Formed(h, F, P, B, level, still, m), \A l \in DOMAIN level : level[l] \in Nat,
         NEW k \in Nat \ {0}, NEW r, Sound(r, k, F, Pending(h, P, level), m),
         New(k, r.words) \cap DOMAIN h = {}
  PROVE  Keeps(r, k, h, F, P, B, level, still, m)
<1> DEFINE g == r.writes ++ h
           G == F \cup New(k, r.words)
           A2 == Pending(g, P, level)
<1>1. r.words \in Nat /\ r.count \in Nat /\ r.go \in {"enter", "apply", "rebuild"}
  BY DEF Sound
<1>2. /\ DOMAIN g = DOMAIN h \cup New(k, r.words)
      /\ Pending(h, P, level) \subseteq A2 /\ Formed(g, G, P, B, level, still, m)
      /\ Term(r.t, G, A2, m) /\ (r.go # "enter" => Firm(r.t, G, A2))
  <2>1. Filled(r, k, h, F, P, B, level, still, m)
    BY SoundForms
  <2> QED BY <2>1 DEF Filled
<1>3. F \subseteq G
  OBVIOUS
<1> HIDE DEF G
<1>4. After(r.writes, r.t, r.go, h, F, P, B, level, still, m)
  BY <1>2, <1>3 DEF After
<1> QED BY <1>1, <1>2, <1>4 DEF Keeps

-----------------------------------------------------------------------------
(* The lists of what is bound.                                             *)

\* A nonempty set of numbers has a least one.
LEMMA LeastOf ==
  ASSUME NEW S \in SUBSET Nat, S # {}
  PROVE  \E m \in S : \A k \in S : m <= k
<1> DEFINE R == {p \in Nat \X Nat : p[1] < p[2]}
<1>1. IsWellFoundedOn(R, Nat)
  BY NatLessThanWellFounded DEF OpToRel
<1>2. \A m, k \in Nat : <<k, m>> \notin R => m <= k
  OBVIOUS
<1> HIDE DEF R
<1>3. \E m \in S : \A k \in S : ~(<<k, m>> \in R)
  BY <1>1, WFMin
<1> QED BY <1>2, <1>3

\* The walk along a list is defined, and stays in it.
LEMMA WalkIs ==
  ASSUME NEW h, NEW B, 0 \notin B, \A b \in B : h[b + 1].val \in B \cup {0},
         NEW ls, ls \in B \cup {0}, NEW len \in Nat, NEW e,
         e = CHOOSE f : f = [i \in 0..len |->
                               IF i = 0 THEN ls
                               ELSE IF f[i - 1] = 0 THEN 0 ELSE h[f[i - 1] + 1].val]
  PROVE  \A i \in 0..len : e[i] \in B \cup {0}
<1> DEFINE Val(f, i) == IF i = 0 THEN ls
                        ELSE IF f[i - 1] = 0 THEN 0 ELSE h[f[i - 1] + 1].val
           Solves(f) == f = [i \in 0..len |-> Val(f, i)]
           Part(f, n) == f = [i \in 0..n |-> f[i]] /\ \A i \in 0..n : f[i] = Val(f, i)
           Short == {n \in 0..len : ~ \E f : Part(f, n)}
<1>1. Short = {}
  <2> SUFFICES ASSUME Short # {} PROVE FALSE
    OBVIOUS
  <2>1. Short \in SUBSET Nat
    OBVIOUS
  <2>2. PICK n \in Short : \A j \in Short : n <= j
    BY <2>1, LeastOf
  <2>3. n \in 0..len /\ ~ \E f : Part(f, n)
    OBVIOUS
  <2>4. CASE n = 0
    <3> DEFINE g == [i \in 0..0 |-> ls]
    <3>1. g = [i \in 0..n |-> g[i]] /\ \A i \in 0..n : g[i] = Val(g, i)
      BY <2>4
    <3>2. Part(g, n)
      BY <3>1
    <3> HIDE DEF g, Part
    <3> QED BY <2>3, <3>2
  <2>5. CASE n # 0
    <3>1. n - 1 \in 0..len /\ n - 1 \notin Short
      BY <2>2, <2>3, <2>5
    <3>2. PICK f : Part(f, n - 1)
      BY <3>1
    <3> DEFINE g == [i \in 0..n |-> IF i = n THEN Val(f, n) ELSE f[i]]
    <3>3. g = [i \in 0..n |-> g[i]]
      OBVIOUS
    <3>4. \A i \in 0..(n - 1) : g[i] = f[i]
      BY <2>3
    <3>5. g[n] = Val(f, n)
      BY <2>3
    <3> HIDE DEF g
    <3>6. ASSUME NEW i \in 0..n PROVE g[i] = Val(g, i)
      <4>1. CASE i = 0
        BY <2>3, <2>5, <3>2, <3>4, <4>1
      <4>2. CASE i # 0 /\ i # n
        <5>1. i \in 0..(n - 1) /\ i - 1 \in 0..(n - 1)
          BY <2>3, <4>2
        <5>2. f[i] = Val(f, i)
          BY <3>2, <5>1
        <5> QED BY <3>4, <4>2, <5>1, <5>2
      <4>3. CASE i = n
        <5>1. n - 1 \in 0..(n - 1)
          BY <2>3, <2>5
        <5> QED BY <2>5, <3>4, <3>5, <4>3, <5>1
      <4> QED BY <4>1, <4>2, <4>3
    <3>7. Part(g, n)
      BY <3>3, <3>6
    <3> HIDE DEF Part
    <3> QED BY <2>3, <3>7
  <2> QED BY <2>4, <2>5
<1>2. PICK f : Part(f, len)
  BY <1>1
<1>3. Solves(f)
  <2>1. f = [i \in 0..len |-> f[i]] /\ \A i \in 0..len : f[i] = Val(f, i)
    BY <1>2
  <2> QED BY <2>1
<1> HIDE DEF Part, Short
<1>4. Solves(e)
  <2>1. e = CHOOSE d : Solves(d)
    OBVIOUS
  <2> HIDE DEF Solves
  <2> QED BY <1>3, <2>1
<1>5. \A i \in 0..len : e[i] = Val(e, i)
  BY <1>4
<1> DEFINE Bad == {i \in 0..len : e[i] \notin B \cup {0}}
<1> SUFFICES ASSUME Bad # {} PROVE FALSE
  OBVIOUS
<1>6. PICK i \in Bad : \A j \in Bad : i <= j
  <2>1. Bad \in SUBSET Nat
    OBVIOUS
  <2> QED BY <2>1, LeastOf
<1>7. i \in 0..len /\ e[i] \notin B \cup {0}
  OBVIOUS
<1>8. i # 0
  BY <1>5, <1>7
<1>9. i - 1 \in 0..len /\ e[i - 1] \in B \cup {0}
  BY <1>6, <1>7, <1>8
<1>10. e[i] = IF e[i - 1] = 0 THEN 0 ELSE h[e[i - 1] + 1].val
  BY <1>5, <1>7, <1>8
<1> QED BY <1>7, <1>9, <1>10

\* Walking a list of what is bound ends at one of its cells, or at none.
LEMMA BoundIs ==
  ASSUME NEW h, NEW B, 0 \notin B, \A b \in B : h[b + 1].val \in B \cup {0},
         NEW ls, ls \in B \cup {0}, NEW len \in Nat, NEW lvl \in Nat
  PROVE  Bound(h, ls, len, lvl) \in B \cup {0}
<1> DEFINE e == CHOOSE f : f = [i \in 0..len |->
                               IF i = 0 THEN ls
                               ELSE IF f[i - 1] = 0 THEN 0 ELSE h[f[i - 1] + 1].val]
<1>0. e = CHOOSE f : f = [i \in 0..len |->
                               IF i = 0 THEN ls
                               ELSE IF f[i - 1] = 0 THEN 0 ELSE h[f[i - 1] + 1].val]
  OBVIOUS
<1> HIDE DEF e
<1>1. \A i \in 0..len : e[i] \in B \cup {0}
  BY <1>0, WalkIs
<1> USE DEF e
<1>2. Bound(h, ls, len, lvl) = IF lvl = 0 \/ lvl > len THEN 0 ELSE e[len - lvl]
  BY DEF Bound
<1> HIDE DEF e
<1> QED BY <1>1, <1>2

-----------------------------------------------------------------------------
(* The allocation of a place of the book.                                  *)

Places(still, level) ==
  /\ DOMAIN level \subseteq DOMAIN still
  /\ \A l \in DOMAIN level :
       LET t == still[l]
       IN /\ level[l] \in Nat /\ level[l] < 65536
          /\ t.ext \in Nat /\ t.val \in Nat /\ Bare(t) = t
          /\ t.tag \notin {"VAR", "DP0", "DP1", "ALO"}
          /\ \A c \in Cells(t) : c \in DOMAIN level /\ level[c] >= level[l] + Around(t, c)

\* What Levels says of a place of the book and of the places below it.
LEMMA PlaceIs ==
  ASSUME NEW still, NEW level, Places(still, level), NEW x, x \in DOMAIN level,
         NEW t, t = still[x]
  PROVE  /\ level[x] \in Nat /\ level[x] < 65536
         /\ t.val \in Nat /\ t.ext \in Nat /\ Bare(t) = t
         /\ t.tag \notin {"VAR", "DP0", "DP1", "ALO"}
         /\ \A i \in 0..(Arity(t) - 1) :
              /\ t.val + i \in DOMAIN level /\ level[t.val + i] \in Nat /\ level[t.val + i] < 65536
              /\ level[t.val + i] >= level[x]
         /\ t.tag = "LAM" => t.val \in DOMAIN level /\ level[t.val] >= level[x] + 1
         /\ t.tag = "DUP" => /\ t.val \in DOMAIN level /\ level[t.val] >= level[x]
                             /\ t.val + 1 \in DOMAIN level
                             /\ level[t.val + 1] >= level[x] + 1
<1>1. /\ level[x] \in Nat /\ level[x] < 65536
      /\ t.ext \in Nat /\ t.val \in Nat /\ Bare(t) = t
      /\ t.tag \notin {"VAR", "DP0", "DP1", "ALO"}
      /\ \A c \in Cells(t) : c \in DOMAIN level /\ level[c] >= level[x] + Around(t, c)
      /\ \A l \in DOMAIN level : level[l] \in Nat /\ level[l] < 65536
  BY DEF Places
<1>2. t.val \in Nat /\ t.ext \in Nat /\ Bare(t) = t
  BY <1>1
<1>3. ASSUME NEW i \in 0..(Arity(t) - 1)
      PROVE  t.val + i \in Cells(t)
  BY <1>2, ArityOf DEF Cells
<1>4. \A c : Around(t, c) \in {0, 1}
  BY DEF Around
<1>5. ASSUME NEW i \in 0..(Arity(t) - 1)
      PROVE  /\ t.val + i \in DOMAIN level /\ level[t.val + i] \in Nat /\ level[t.val + i] < 65536
             /\ level[t.val + i] >= level[x]
  <2> DEFINE c == t.val + i
  <2>1. c \in DOMAIN level /\ level[c] >= level[x] + Around(t, c)
    BY <1>1, <1>3
  <2> HIDE DEF c
  <2>2. Around(t, c) = 0 \/ Around(t, c) = 1
    BY <1>4
  <2>3. level[c] \in Nat /\ level[c] < 65536
    BY <1>1, <2>1
  <2>4. level[c] >= level[x]
    BY <1>1, <2>1, <2>2, <2>3
  <2> QED BY <2>1, <2>3, <2>4 DEF c
<1>6. ASSUME t.tag = "LAM"
      PROVE  t.val \in DOMAIN level /\ level[t.val] >= level[x] + 1
  <2>1. Arity(t) = 1
    BY <1>6, ArityOf DEF Ones
  <2>2. t.val \in Cells(t)
    BY <1>2, <2>1 DEF Cells
  <2>3. Around(t, t.val) = 1
    BY <1>6 DEF Around
  <2>4. t.val \in DOMAIN level /\ level[t.val] >= level[x] + Around(t, t.val)
    BY <1>1, <2>2
  <2> QED BY <2>3, <2>4
<1>7. ASSUME t.tag = "DUP"
      PROVE  /\ t.val \in DOMAIN level /\ level[t.val] >= level[x]
             /\ t.val + 1 \in DOMAIN level /\ level[t.val + 1] >= level[x] + 1
  <2>1. Arity(t) = 2
    BY <1>7, ArityOf DEF Twos
  <2>2. t.val \in Cells(t) /\ t.val + 1 \in Cells(t)
    BY <1>2, <2>1 DEF Cells
  <2>3. Around(t, t.val + 1) = 1
    BY <1>2, <1>7 DEF Around
  <2>4. t.val + 1 \in DOMAIN level /\ level[t.val + 1] >= level[x] + Around(t, t.val + 1)
    BY <1>1, <2>2
  <2>5. 0 \in 0..(Arity(t) - 1) /\ t.val + 0 = t.val
    BY <1>2, <2>1
  <2>6. t.val \in DOMAIN level /\ level[t.val] >= level[x]
    BY <1>5, <2>5
  <2> QED BY <2>3, <2>4, <2>6
<1> QED BY <1>1, <1>2, <1>5, <1>6, <1>7

\* The new cells FN of terms, PN of pairs and BN of what is bound, and pairs
\* that move to a place under no fewer binders.
LEMMA AllocKeeps ==
  ASSUME NEW h, NEW F, NEW P, NEW B, NEW level, NEW still, NEW m,
         Formed(h, F, P, B, level, still, m), \A l \in DOMAIN level : level[l] \in Nat,
         NEW k \in Nat \ {0}, NEW words \in Nat, New(k, words) \cap DOMAIN h = {},
         NEW FN, FN \subseteq New(k, words), NEW PN, PN \subseteq New(k, words),
         FN \cap PN = {}, NEW BN, BN \subseteq FN,
         NEW f, New(k, words) \subseteq DOMAIN f, DOMAIN f \subseteq New(k, words) \cup P,
         \A p \in P : p \in DOMAIN f =>
           f[p].val \in DOMAIN level /\ f[p].ext \in B \cup BN \cup {0}
           /\ level[h[p].val] <= level[f[p].val],
         \A p \in PN : f[p].val \in DOMAIN level /\ f[p].ext \in B \cup BN \cup {0},
         \A b \in BN : b + 1 \in New(k, words) /\ b + 1 \notin FN \cup PN
                       /\ f[b + 1].val \in B \cup {0},
         \A l \in FN : Firm(f[l], F \cup FN, Pending(f ++ h, P \cup PN, level)),
         NEW t, Firm(t, F \cup FN, Pending(f ++ h, P \cup PN, level))
  PROVE  Keeps(Alloc(t, f, words), k, h, F, P, B, level, still, m)
<1> DEFINE N == New(k, words)
           G == F \cup FN
           Q == P \cup PN
           C == B \cup BN
           g == f ++ h
           A == Pending(h, P, level)
           A2 == Pending(g, Q, level)
           r == Alloc(t, f, words)
<1>1. /\ r.words = words /\ r.count = 0 /\ r.go = "enter" /\ r.t = t /\ r.writes = f
  BY DEF Alloc, Step
<1>2. /\ F \subseteq DOMAIN h /\ P \subseteq DOMAIN h /\ DOMAIN still \subseteq DOMAIN h
      /\ F \cap P = {} /\ F \cap DOMAIN still = {} /\ P \cap DOMAIN still = {} /\ B \subseteq F
      /\ F \subseteq Nat \ {0} /\ \A l \in F : Term(h[l], F, A, m)
  BY DEF Formed, HeapOk
<1>3. /\ \A p \in P : h[p].val \in DOMAIN level /\ h[p].ext \in B \cup {0}
      /\ \A b \in B : /\ b + 1 \in DOMAIN h /\ b + 1 \notin F \cup P \cup DOMAIN still
                      /\ h[b + 1].val \in B \cup {0}
      /\ \A l \in DOMAIN still : h[l] = still[l]
  BY DEF Formed
<1>4. N \subseteq Nat \ {0} /\ N \cap DOMAIN h = {}
  BY NewNat
<1>0. /\ DOMAIN (f ++ h) = DOMAIN f \cup DOMAIN h
      /\ \A l \in DOMAIN f : (f ++ h)[l] = f[l]
      /\ \A l \in DOMAIN h : l \notin DOMAIN f => (f ++ h)[l] = h[l]
  BY DEF ++
<1> HIDE DEF N, r
<1>5. /\ DOMAIN g = DOMAIN f \cup DOMAIN h
      /\ \A l \in DOMAIN f : g[l] = f[l]
      /\ \A l \in DOMAIN h : l \notin DOMAIN f => g[l] = h[l]
  BY <1>0
<1>6. FN \subseteq N /\ PN \subseteq N /\ N \subseteq DOMAIN f /\ DOMAIN f \subseteq N \cup P
  BY DEF N
<1>7. \A l \in FN : Firm(g[l], G, A2)
  BY <1>5, <1>6
<1>8. Firm(t, G, A2)
  OBVIOUS
<1> HIDE DEF g
<1>9. \A l \in DOMAIN h : l \notin P => l \notin DOMAIN f /\ g[l] = h[l]
  BY <1>4, <1>5, <1>6
<1>10. \A p \in P : g[p].val \in DOMAIN level /\ g[p].ext \in C \cup {0}
                    /\ level[h[p].val] <= level[g[p].val]
  <2> SUFFICES ASSUME NEW p \in P
               PROVE  g[p].val \in DOMAIN level /\ g[p].ext \in C \cup {0}
                      /\ level[h[p].val] <= level[g[p].val]
    OBVIOUS
  <2>1. CASE p \in DOMAIN f
    BY <1>5, <2>1
  <2>2. CASE p \notin DOMAIN f
    <3>1. g[p] = h[p] /\ h[p].val \in DOMAIN level /\ h[p].ext \in B \cup {0}
      BY <1>2, <1>3, <1>5, <2>2
    <3>2. level[h[p].val] \in Nat
      BY <3>1
    <3> QED BY <3>1, <3>2
  <2> QED BY <2>1, <2>2
<1>11. \A p \in PN : g[p].val \in DOMAIN level /\ g[p].ext \in C \cup {0}
  BY <1>5, <1>6
<1>12. A \subseteq A2
  <2>1. \A p \in P : level[h[p].val] \in Nat /\ level[g[p].val] \in Nat
    BY <1>3, <1>10
  <2> QED BY <1>10, <2>1, PendingGrows
<1> HIDE DEF A, A2
<1>13. ASSUME NEW l \in G PROVE Term(g[l], G, A2, m)
  <2>1. CASE l \in FN
    BY <1>7, <2>1 DEF Term
  <2>2. CASE l \in F
    <3>1. g[l] = h[l] /\ Term(h[l], F, A, m)
      BY <1>2, <1>9, <2>2
    <3> QED BY <1>12, <3>1, TermGrows
  <2> QED BY <2>1, <2>2
<1>14. HeapOk(g, G, A2, m)
  BY <1>2, <1>4, <1>6, <1>13 DEF HeapOk
<1>15. DOMAIN g = DOMAIN h \cup N
  BY <1>2, <1>5, <1>6
<1>16. \A b \in C : /\ b + 1 \in DOMAIN g /\ b + 1 \notin G \cup Q \cup DOMAIN still
                    /\ g[b + 1].val \in C \cup {0}
  <2> SUFFICES ASSUME NEW b \in C
               PROVE  /\ b + 1 \in DOMAIN g /\ b + 1 \notin G \cup Q \cup DOMAIN still
                      /\ g[b + 1].val \in C \cup {0}
    OBVIOUS
  <2>1. CASE b \in B
    <3>1. b + 1 \in DOMAIN h /\ b + 1 \notin F \cup P \cup DOMAIN still
            /\ h[b + 1].val \in B \cup {0}
      BY <1>3, <2>1
    <3> QED BY <1>4, <1>6, <1>9, <1>15, <3>1
  <2>2. CASE b \in BN
    <3>1. b + 1 \in N /\ b + 1 \notin FN \cup PN /\ f[b + 1].val \in B \cup {0}
      BY <2>2 DEF N
    <3> QED BY <1>2, <1>4, <1>5, <1>6, <1>15, <3>1
  <2> QED BY <2>1, <2>2
<1>17. \A l \in DOMAIN still : g[l] = still[l]
  BY <1>2, <1>3, <1>9
<1>18. /\ G \subseteq DOMAIN g /\ Q \subseteq DOMAIN g /\ DOMAIN still \subseteq DOMAIN g
       /\ G \cap Q = {} /\ G \cap DOMAIN still = {} /\ Q \cap DOMAIN still = {} /\ C \subseteq G
  BY <1>2, <1>4, <1>6, <1>15
<1>19. \A p \in Q : g[p].val \in DOMAIN level /\ g[p].ext \in C \cup {0}
  BY <1>10, <1>11
<1> HIDE DEF G, Q, C
<1>20. Formed(g, G, Q, C, level, still, m)
  BY <1>14, <1>16, <1>17, <1>18, <1>19 DEF Formed, A2
<1>21. F \subseteq G
  BY DEF G
<1>22. After(f, t, "enter", h, F, P, B, level, still, m)
  BY <1>8, <1>12, <1>20, <1>21 DEF After, A, A2, g, Term
<1> QED BY <1>1, <1>15, <1>22 DEF Keeps, N, g, r

\* The allocation of a variable refers to the cell that the list holds for it.
LEMMA AloVarKeeps ==
  ASSUME NEW h, NEW F, NEW P, NEW B, NEW level, NEW still, NEW m,
         Formed(h, F, P, B, level, still, m), \A l \in DOMAIN level : level[l] \in Nat,
         NEW k \in Nat \ {0}, NEW ls, ls \in B \cup {0}, NEW len \in Nat,
         NEW t, t.val \in Nat, Atom(t.tag), NEW tag, tag \in {"VAR", "DP0", "DP1"}, NEW ext
  PROVE  Keeps(AloVar(h, ls, len, t, tag, ext), k, h, F, P, B, level, still, m)
<1> DEFINE A == Pending(h, P, level)
           loc == Bound(h, ls, len, t.val)
           r == AloVar(h, ls, len, t, tag, ext)
           w == IF loc = 0 THEN Bare(t) ELSE Word(tag, ext, loc)
<1>1. r = Step("enter", w, Nothing, 0, 0)
  BY DEF AloVar, Alloc
<1>2. loc \in B \cup {0}
  <2>1. 0 \notin B /\ \A b \in B : h[b + 1].val \in B \cup {0}
    BY DEF Formed, HeapOk
  <2> QED BY <2>1, BoundIs
<1> HIDE DEF loc
<1>3. Firm(Bare(t), F, A)
  BY AtomFirm, BareFirm
<1>4. loc # 0 => Firm(Word(tag, ext, loc), F, A)
  BY <1>2, BuiltRef DEF Formed
<1>5. Term(w, F, A, m)
  BY <1>3, <1>4 DEF Term
<1> HIDE DEF w
<1>6. Sound(r, k, F, A, m)
  BY <1>1, <1>5, LeavesSound
<1>7. New(k, r.words) \cap DOMAIN h = {}
  BY <1>1, NoNew DEF Step
<1> HIDE DEF r
<1>8. Keeps(r, k, h, F, P, B, level, still, m)
  BY <1>6, <1>7, SoundKeeps
<1> QED BY <1>8 DEF r

\* Nothing to allocate: an atom of the book.
LEMMA AloAtomKeeps ==
  ASSUME NEW h, NEW F, NEW P, NEW B, NEW level, NEW still, NEW m,
         Formed(h, F, P, B, level, still, m), \A l \in DOMAIN level : level[l] \in Nat,
         NEW k \in Nat \ {0}, NEW t, Firm(t, F, Pending(h, P, level))
  PROVE  Keeps(Alloc(t, Nothing, 0), k, h, F, P, B, level, still, m)
<1> DEFINE r == Alloc(t, Nothing, 0)
<1>1. r = Step("enter", t, Nothing, 0, 0)
  BY DEF Alloc
<1>2. Sound(r, k, F, Pending(h, P, level), m)
  BY <1>1, LeavesSound DEF Term
<1>3. New(k, r.words) \cap DOMAIN h = {}
  BY <1>1, NoNew DEF Step
<1> HIDE DEF r
<1>4. Keeps(r, k, h, F, P, B, level, still, m)
  BY <1>2, <1>3, SoundKeeps
<1> QED BY <1>4 DEF r

\* What a pending allocation of a place means: its list has at most as many
\* entries as there are binders around the place.
Pends(h, P, B, level, x, len, cell, ls) ==
  /\ x \in DOMAIN level /\ len \in Nat /\ len <= level[x] /\ ls \in B \cup {0}
  /\ len > 0 => cell \in P /\ h[cell].val = x

\* That of a lambda heads a new list with the cell of its binder.
LEMMA AloLamKeeps ==
  ASSUME NEW h, NEW F, NEW P, NEW B, NEW level, NEW still, NEW m,
         Formed(h, F, P, B, level, still, m), \A l \in DOMAIN level : level[l] \in Nat,
         Places(still, level), NEW k \in Nat \ {0},
         NEW x, NEW len, NEW cell, NEW ls, Pends(h, P, B, level, x, len, cell, ls),
         NEW t, t = still[x], t.tag = "LAM",
         New(k, AloLam(k, cell, ls, len, t).words) \cap DOMAIN h = {}
  PROVE  Keeps(AloLam(k, cell, ls, len, t), k, h, F, P, B, level, still, m)
<1> DEFINE words == IF len > 0 THEN 2 ELSE 3
           body == IF len > 0 THEN cell ELSE k + 2
           PN == IF len > 0 THEN {} ELSE {k + 2}
           N == New(k, words)
           u == Word("LAM", t.ext, k)
           w == Word("ALO", len + 1, body)
           v == At("NUM", ls)
           p == Pair(k, t.val)
           f1 == Node(k, <<w, v>>)
           f2 == Write(body, p)
           f == f1 ++ f2
           g == f ++ h
           r == AloLam(k, cell, ls, len, t)
<1>1. r = Alloc(u, f, words)
  BY DEF AloLam
<1>2. r.words = words
  BY <1>1 DEF Alloc, Step
<1>3. words \in Nat /\ N \cap DOMAIN h = {}
  BY <1>2
<1> HIDE DEF r
<1>4. /\ x \in DOMAIN level /\ len \in Nat /\ len <= level[x] /\ ls \in B \cup {0}
      /\ len > 0 => cell \in P /\ h[cell].val = x
  BY DEF Pends
<1>5. P \subseteq DOMAIN h /\ B \subseteq F
  BY DEF Formed
<1>6. /\ t.val \in DOMAIN level /\ level[t.val] >= level[x] + 1
      /\ level[t.val] \in Nat /\ level[t.val] < 65536 /\ level[x] \in Nat
  <2>1. t.val \in DOMAIN level /\ level[t.val] >= level[x] + 1 /\ level[x] \in Nat
    BY <1>4, PlaceIs
  <2>2. level[t.val] \in Nat /\ level[t.val] < 65536
    BY <2>1, PlaceIs
  <2> QED BY <2>1, <2>2
<1>7. k \in N /\ k + 1 \in N /\ k \notin PN /\ k + 1 \notin PN /\ PN \subseteq N
      /\ (len = 0 => k + 2 \in N /\ N = {k, k + 1, k + 2})
      /\ (len > 0 => N = {k, k + 1})
  <2>1. N = IF len > 0 THEN {k, k + 1} ELSE {k, k + 1, k + 2}
    BY NewIs
  <2> HIDE DEF N
  <2> QED BY <1>4, <2>1
<1>8. body \notin {k, k + 1}
  <2>1. CASE len > 0
    <3>1. body \in DOMAIN h
      BY <1>4, <1>5, <2>1
    <3> QED BY <1>3, <1>7, <3>1
  <2>2. CASE ~ (len > 0)
    BY <2>2
  <2> QED BY <2>1, <2>2
<1>9. DOMAIN f1 = {k, k + 1} /\ f1[k] = w /\ f1[k + 1] = v
  <2>1. k..(k + 2 - 1) = {k, k + 1}
    OBVIOUS
  <2> HIDE DEF w, v
  <2> QED BY <2>1 DEF Node
<1>10. DOMAIN f2 = {body} /\ f2[body] = p
  BY DEF Write
<1>11. w.tag = "ALO" /\ w.ext = len + 1 /\ w.val = body /\ v.val = ls
       /\ p.val = t.val /\ p.ext = k
  <2>1. (len + 1) % ExtSize = len + 1
    BY <1>4, <1>6 DEF ExtSize
  <2> QED BY <2>1, WordIs DEF At, Pair
<1> HIDE DEF f1, f2, w, v, p
<1>12. /\ DOMAIN f = {k, k + 1, body}
       /\ f[k] = w /\ f[k + 1] = v /\ f[body] = p
  BY <1>8, <1>9, <1>10 DEF ++
<1> HIDE DEF f
<1>13. g[body] = p
  BY <1>12 DEF ++
<1>14. body \in P \cup PN
  BY <1>4
<1>15. Firm(u, F \cup {k}, Pending(g, P \cup PN, level))
  BY BuiltOne DEF Ones
<1>16. Firm(w, F \cup {k}, Pending(g, P \cup PN, level))
  <2>1. <<len + 1, body>> \in Pending(g, P \cup PN, level)
    <3>1. len + 1 \in Nat /\ len + 1 # 0 /\ len + 1 <= level[g[body].val]
      BY <1>4, <1>6, <1>11, <1>13
    <3> QED BY <1>14, <3>1, PendingIs
  <2>2. Arity(w) = 0
    BY <1>11, ArityOf DEF Twos, Ones, Threes, Ctrs, Ctr
  <2> QED BY <1>11, <2>1, <2>2 DEF Firm, Dps
<1>17. N \subseteq DOMAIN f /\ DOMAIN f \subseteq N \cup P
  BY <1>4, <1>7, <1>12
<1>18. \A q \in P : q \in DOMAIN f =>
         f[q].val \in DOMAIN level /\ f[q].ext \in B \cup {k} \cup {0}
         /\ level[h[q].val] <= level[f[q].val]
  <2> SUFFICES ASSUME NEW q \in P, q \in DOMAIN f
               PROVE  f[q].val \in DOMAIN level /\ f[q].ext \in B \cup {k} \cup {0}
                      /\ level[h[q].val] <= level[f[q].val]
    OBVIOUS
  <2>1. q \notin N
    BY <1>3, <1>5
  <2>2. q = body /\ len > 0
    BY <1>4, <1>7, <1>12, <2>1
  <2>3. h[q].val = x /\ f[q] = p
    BY <1>4, <1>12, <2>2
  <2> QED BY <1>6, <1>11, <2>3
<1>19. \A q \in PN : f[q].val \in DOMAIN level /\ f[q].ext \in B \cup {k} \cup {0}
  BY <1>6, <1>11, <1>12
<1>20. \A b \in {k} : b + 1 \in N /\ b + 1 \notin {k} \cup PN /\ f[b + 1].val \in B \cup {0}
  BY <1>4, <1>7, <1>11, <1>12
<1>21. {k} \subseteq N /\ PN \subseteq N /\ {k} \cap PN = {}
  BY <1>7
<1>22. \A l \in {k} : Firm(f[l], F \cup {k}, Pending(g, P \cup PN, level))
  BY <1>12, <1>16
<1> HIDE DEF words, PN, u, body
<1>23. Keeps(Alloc(u, f, words), k, h, F, P, B, level, still, m)
  BY <1>3, <1>15, <1>17, <1>18, <1>19, <1>20, <1>21, <1>22, AllocKeeps
<1> QED BY <1>1, <1>23 DEF r

\* So does that of a copy.
LEMMA AloDupKeeps ==
  ASSUME NEW h, NEW F, NEW P, NEW B, NEW level, NEW still, NEW m,
         Formed(h, F, P, B, level, still, m), \A l \in DOMAIN level : level[l] \in Nat,
         Places(still, level), NEW k \in Nat \ {0},
         NEW x, NEW len, NEW cell, NEW ls, Pends(h, P, B, level, x, len, cell, ls),
         NEW t, t = still[x], t.tag = "DUP",
         New(k, AloDup(k, cell, ls, len, t).words) \cap DOMAIN h = {}
  PROVE  Keeps(AloDup(k, cell, ls, len, t), k, h, F, P, B, level, still, m)
<1> DEFINE N == New(k, 3)
           u == Word("ALO", len + 1, k + 2)
           w == AloAt(cell, len, t.val)
           v == At("NUM", ls)
           p == Pair(k, t.val + 1)
           q == Pair(ls, t.val)
           C == IF len = 0 THEN {} ELSE {cell}
           f1 == Node(k, <<w, v, p>>)
           f2 == AloPair(cell, ls, len, t.val)
           f == f1 ++ f2
           g == f ++ h
           r == AloDup(k, cell, ls, len, t)
<1>1. r = Alloc(u, f, 3)
  BY DEF AloDup
<1>2. r.words = 3
  BY <1>1 DEF Alloc, Step
<1>3. N \cap DOMAIN h = {} /\ N = {k, k + 1, k + 2}
  BY <1>2, NewIs
<1> HIDE DEF r
<1>4. /\ x \in DOMAIN level /\ len \in Nat /\ len <= level[x] /\ ls \in B \cup {0}
      /\ len > 0 => cell \in P /\ h[cell].val = x
  BY DEF Pends
<1>5. P \subseteq DOMAIN h /\ B \subseteq F
  BY DEF Formed
<1>6. /\ t.val \in DOMAIN level /\ level[t.val] >= level[x] /\ level[t.val] \in Nat
      /\ t.val + 1 \in DOMAIN level /\ level[t.val + 1] >= level[x] + 1
      /\ level[t.val + 1] \in Nat /\ level[t.val + 1] < 65536 /\ level[x] \in Nat
  <2>1. /\ t.val \in DOMAIN level /\ level[t.val] >= level[x] /\ level[x] \in Nat
        /\ t.val + 1 \in DOMAIN level /\ level[t.val + 1] >= level[x] + 1
    BY <1>4, PlaceIs
  <2>2. /\ level[t.val] \in Nat
        /\ level[t.val + 1] \in Nat /\ level[t.val + 1] < 65536
    BY <2>1, PlaceIs
  <2> QED BY <2>1, <2>2
<1> HIDE DEF N
<1>7. C \subseteq P /\ C \cap N = {}
  BY <1>3, <1>4, <1>5
<1>8. DOMAIN f1 = {k, k + 1, k + 2} /\ f1[k] = w /\ f1[k + 1] = v /\ f1[k + 2] = p
  <2>1. k..(k + 3 - 1) = {k, k + 1, k + 2}
    OBVIOUS
  <2> HIDE DEF w, v, p
  <2> QED BY <2>1 DEF Node
<1>9. DOMAIN f2 = C /\ \A l \in C : f2[l] = q
  BY DEF Write, AloPair, Nothing
<1>10. /\ u.tag = "ALO" /\ u.ext = len + 1 /\ u.val = k + 2 /\ v.val = ls
       /\ p.val = t.val + 1 /\ p.ext = k /\ q.val = t.val /\ q.ext = ls
       /\ w.tag = "ALO" /\ w.ext = len /\ (len = 0 => w.val = t.val)
       /\ (len # 0 => w.val = cell)
  <2>1. (len + 1) % ExtSize = len + 1 /\ len % ExtSize = len /\ 0 % ExtSize = 0
    BY <1>4, <1>6 DEF ExtSize
  <2> QED BY <2>1, WordIs DEF At, Pair, AloAt
<1>11. Arity(w) = 0 /\ Arity(u) = 0
  BY <1>10, ArityOf DEF Twos, Ones, Threes, Ctrs, Ctr
<1> HIDE DEF f1, f2, w, v, p, q, u
<1>12. /\ DOMAIN f = {k, k + 1, k + 2} \cup C
       /\ f[k] = w /\ f[k + 1] = v /\ f[k + 2] = p /\ \A l \in C : f[l] = q
  BY <1>3, <1>7, <1>8, <1>9 DEF ++
<1> HIDE DEF f
<1>13. g[k + 2] = p /\ \A l \in C : g[l] = q
  BY <1>12 DEF ++
<1> DEFINE G == F \cup {k}
           Q == P \cup {k + 2}
           A == Pending(g, Q, level)
<1> HIDE DEF g
<1>14. Firm(u, G, A)
  <2>1. len + 1 \in Nat /\ len + 1 # 0 /\ len + 1 <= level[g[k + 2].val]
    BY <1>4, <1>6, <1>10, <1>13
  <2>2. <<len + 1, k + 2>> \in A
    BY <2>1, PendingIs
  <2> QED BY <1>10, <1>11, <2>2 DEF Firm, Dps
<1>15. Firm(w, G, A)
  <2>1. CASE len = 0
    <3>1. <<0, t.val>> \in A
      BY <1>6, PendingIs
    <3> QED BY <1>10, <1>11, <2>1, <3>1 DEF Firm, Dps
  <2>2. CASE len # 0
    <3>1. cell \in Q /\ len <= level[g[cell].val]
      BY <1>4, <1>6, <1>10, <1>13, <2>2
    <3>2. <<len, cell>> \in A
      BY <1>4, <2>2, <3>1, PendingIs
    <3> QED BY <1>10, <1>11, <2>2, <3>2 DEF Firm, Dps
  <2> QED BY <2>1, <2>2
<1>16. N \subseteq DOMAIN f /\ DOMAIN f \subseteq N \cup P
  BY <1>3, <1>7, <1>12
<1>17. \A l \in P : l \in DOMAIN f =>
         f[l].val \in DOMAIN level /\ f[l].ext \in B \cup {k} \cup {0}
         /\ level[h[l].val] <= level[f[l].val]
  <2> SUFFICES ASSUME NEW l \in P, l \in DOMAIN f
               PROVE  f[l].val \in DOMAIN level /\ f[l].ext \in B \cup {k} \cup {0}
                      /\ level[h[l].val] <= level[f[l].val]
    OBVIOUS
  <2>1. l \notin N
    BY <1>3, <1>5
  <2>2. l = cell /\ len # 0 /\ l \in C
    BY <1>3, <1>12, <2>1
  <2>3. h[l].val = x /\ f[l] = q
    BY <1>4, <1>12, <2>2
  <2> QED BY <1>4, <1>6, <1>10, <2>3
<1>18. \A l \in {k + 2} : f[l].val \in DOMAIN level /\ f[l].ext \in B \cup {k} \cup {0}
  BY <1>6, <1>10, <1>12
<1>19. \A b \in {k} : b + 1 \in N /\ b + 1 \notin {k} \cup {k + 2} /\ f[b + 1].val \in B \cup {0}
  BY <1>3, <1>4, <1>10, <1>12
<1>20. {k} \subseteq N /\ {k + 2} \subseteq N /\ {k} \cap {k + 2} = {}
  BY <1>3
<1>21. \A l \in {k} : Firm(f[l], G, A)
  BY <1>12, <1>15
<1>22. Keeps(Alloc(u, f, 3), k, h, F, P, B, level, still, m)
  BY <1>3, <1>14, <1>16, <1>17, <1>18, <1>19, <1>20, <1>21, AllocKeeps DEF N, g
<1> QED BY <1>1, <1>22 DEF r

\* That of a node writes one pending allocation per part.
LEMMA AloNodKeeps ==
  ASSUME NEW h, NEW F, NEW P, NEW B, NEW level, NEW still, NEW m,
         Formed(h, F, P, B, level, still, m), \A l \in DOMAIN level : level[l] \in Nat,
         Places(still, level), NEW k \in Nat \ {0},
         NEW x, NEW len, NEW cell, NEW ls, Pends(h, P, B, level, x, len, cell, ls),
         NEW t, t = still[x],
         New(k, AloNod(k, cell, ls, len, t).words) \cap DOMAIN h = {}
  PROVE  Keeps(AloNod(k, cell, ls, len, t), k, h, F, P, B, level, still, m)
<1> DEFINE n == Arity(t)
           pairs == IF len = 0 THEN 0 ELSE n - 1
           part(i) == IF i = 0 THEN cell ELSE k + i - 1
           words == pairs + n
           N == New(k, words)
           PN == k..(k + pairs - 1)
           FN == (k + pairs)..(k + pairs + n - 1)
           C == IF len = 0 THEN {} ELSE {cell}
           u == Word(t.tag, t.ext, k + pairs)
           q == Pair(ls, t.val)
           f1 == AloPair(cell, ls, len, t.val)
           f2 == [l \in PN |-> Pair(ls, t.val + l - k + 1)]
           f3 == [l \in FN |-> LET i == l - k - pairs IN AloAt(part(i), len, t.val + i)]
           f == f1 ++ f2 ++ f3
           g == f ++ h
           r == AloNod(k, cell, ls, len, t)
<1>1. t.tag \notin {"VAR", "DP0", "DP1", "ALO"} /\ t.val \in Nat /\ n \in 0..16
  BY PlaceIs, ArityOf DEF Pends
<1>2. CASE n = 0
  <2>1. r = Alloc(t, Nothing, 0)
    BY <1>2 DEF AloNod
  <2>2. Firm(t, F, Pending(h, P, level))
    BY <1>1, <1>2 DEF Firm, Dps
  <2> QED BY <2>1, <2>2, AloAtomKeeps
<1>3. CASE n # 0
  <2>1. r = Alloc(u, f, words)
    BY <1>3 DEF AloNod
  <2>2. r.words = words
    BY <2>1 DEF Alloc, Step
  <2>3. N \cap DOMAIN h = {}
    BY <2>2
  <2> HIDE DEF r
  <2>4. /\ x \in DOMAIN level /\ len \in Nat /\ len <= level[x] /\ ls \in B \cup {0}
        /\ len > 0 => cell \in P /\ h[cell].val = x
    BY DEF Pends
  <2>5. P \subseteq DOMAIN h /\ B \subseteq F
    BY DEF Formed
  <2>6. level[x] \in Nat /\ level[x] < 65536
    BY <2>4, PlaceIs
  <2>7. ASSUME NEW i \in 0..(n - 1)
        PROVE  /\ t.val + i \in DOMAIN level /\ level[t.val + i] \in Nat
               /\ level[t.val + i] >= level[x] /\ len <= level[t.val + i]
    <3>1. /\ t.val + i \in DOMAIN level /\ level[t.val + i] \in Nat
          /\ level[t.val + i] >= level[x]
      BY <2>4, PlaceIs
    <3> QED BY <2>4, <2>6, <3>1
  <2> HIDE DEF n
  <2>8. pairs \in Nat /\ words \in Nat /\ n \in Nat
    BY <1>1, <1>3
  <2>9. N = PN \cup FN /\ PN \cap FN = {}
    BY <2>8 DEF New
  <2>10. C \subseteq P /\ C \cap N = {}
    BY <2>3, <2>4, <2>5
  <2>11. DOMAIN f1 = C /\ \A l \in C : f1[l] = q
    BY DEF Write, AloPair, Nothing
  <2>12. q.val = t.val /\ q.ext = ls /\ \A i : Pair(ls, i).val = i /\ Pair(ls, i).ext = ls
    BY DEF Pair
  <2>13. DOMAIN f2 = PN /\ \A l \in PN : f2[l].val = t.val + l - k + 1 /\ f2[l].ext = ls
    BY DEF Pair
  <2>14. \A j, c : /\ AloAt(c, len, j).tag = "ALO" /\ AloAt(c, len, j).ext = len
                   /\ (len = 0 => AloAt(c, len, j).val = j)
                   /\ (len # 0 => AloAt(c, len, j).val = c)
    <3>1. len % ExtSize = len /\ 0 % ExtSize = 0
      BY <2>4, <2>6 DEF ExtSize
    <3> QED BY <3>1, WordIs DEF At, AloAt
  <2>15. DOMAIN f3 = FN
           /\ \A l \in FN : f3[l] = AloAt(part(l - k - pairs), len, t.val + (l - k - pairs))
    OBVIOUS
  <2> HIDE DEF f1, f2, f3, q, N
  <2>16. /\ DOMAIN f = C \cup PN \cup FN
         /\ \A l \in C : f[l] = q
         /\ \A l \in PN : f[l] = f2[l]
         /\ \A l \in FN : f[l] = f3[l]
    <3>1. C \cap PN = {} /\ C \cap FN = {} /\ PN \cap FN = {}
      BY <2>9, <2>10
    <3> HIDE DEF C, PN, FN
    <3> QED BY <2>11, <2>13, <2>15, <3>1 DEF ++
  <2> HIDE DEF f
  <2>17. \A l \in C \cup PN : g[l] = f[l]
    BY <2>16 DEF ++
  <2> DEFINE G == F \cup FN
             Q == P \cup PN
             A == Pending(g, Q, level)
  <2> HIDE DEF g
  <2>18. Firm(u, G, A)
    <3>1. Arity(u) = n
      BY WordIs, SameArity DEF n
    <3>2. k + pairs \in Nat
      BY <2>8
    <3>3. \A i \in 0..(Arity(u) - 1) : k + pairs + i \in G
      BY <2>8, <3>1
    <3> QED BY <1>1, <3>2, <3>3, Built
  <2>19. ASSUME NEW l \in FN PROVE Firm(f[l], G, A)
    <3> DEFINE i == l - k - pairs
               w == AloAt(part(i), len, t.val + i)
    <3>1. i \in 0..(n - 1)
      BY <2>8
    <3>2. f[l] = w
      BY <2>15, <2>16
    <3>3. w.tag = "ALO" /\ w.ext = len /\ (len = 0 => w.val = t.val + i)
            /\ (len # 0 => w.val = part(i))
      BY <2>14
    <3> HIDE DEF w, i
    <3>4. <<w.ext, w.val>> \in A
      <4>1. CASE len = 0
        <5>1. t.val + i \in DOMAIN level
          BY <2>7, <3>1
        <5> QED BY <3>3, <4>1, <5>1, PendingIs
      <4>2. CASE len # 0 /\ i = 0
        <5>1. cell \in C /\ cell \in P
          BY <2>4, <4>2
        <5>2. g[cell].val = t.val + i
          BY <1>1, <2>12, <2>16, <2>17, <4>2, <5>1
        <5>3. len <= level[g[cell].val]
          BY <2>7, <3>1, <5>2
        <5> QED BY <2>4, <3>3, <4>2, <5>1, <5>3, PendingIs
      <4>3. CASE len # 0 /\ i # 0
        <5>1. k + i - 1 \in PN
          BY <2>8, <3>1, <4>3
        <5>2. g[k + i - 1].val = t.val + (k + i - 1) - k + 1
          BY <2>13, <2>16, <2>17, <5>1
        <5>3. t.val + (k + i - 1) - k + 1 = t.val + i
          BY <1>1, <3>1
        <5>4. len <= level[g[k + i - 1].val]
          BY <2>7, <3>1, <5>2, <5>3
        <5> QED BY <2>4, <3>3, <4>3, <5>1, <5>4, PendingIs
      <4> QED BY <4>1, <4>2, <4>3
    <3>5. Arity(w) = 0
      BY <3>3, ArityOf DEF Twos, Ones, Threes, Ctrs, Ctr
    <3> QED BY <3>2, <3>3, <3>4, <3>5 DEF Firm, Dps
  <2>20. N \subseteq DOMAIN f /\ DOMAIN f \subseteq N \cup P
    BY <2>9, <2>10, <2>16
  <2>21. \A l \in P : l \in DOMAIN f =>
           f[l].val \in DOMAIN level /\ f[l].ext \in B \cup {} \cup {0}
           /\ level[h[l].val] <= level[f[l].val]
    <3> SUFFICES ASSUME NEW l \in P, l \in DOMAIN f
                 PROVE  f[l].val \in DOMAIN level /\ f[l].ext \in B \cup {} \cup {0}
                        /\ level[h[l].val] <= level[f[l].val]
      OBVIOUS
    <3>1. l \notin N
      BY <2>3, <2>5
    <3>2. l = cell /\ len # 0 /\ l \in C
      BY <2>9, <2>16, <3>1
    <3>3. h[l].val = x /\ f[l] = q
      BY <2>4, <2>16, <3>2
    <3>4. 0 \in 0..(n - 1) /\ t.val + 0 = t.val
      BY <1>1, <1>3, <2>8
    <3>5. t.val \in DOMAIN level /\ level[x] <= level[t.val]
      BY <2>6, <2>7, <3>4
    <3> QED BY <2>4, <2>12, <3>3, <3>5
  <2>22. \A l \in PN : f[l].val \in DOMAIN level /\ f[l].ext \in B \cup {} \cup {0}
    <3> SUFFICES ASSUME NEW l \in PN
                 PROVE  f[l].val \in DOMAIN level /\ f[l].ext \in B \cup {} \cup {0}
      OBVIOUS
    <3>1. f[l].val = t.val + l - k + 1 /\ f[l].ext = ls
      BY <2>13, <2>16
    <3>2. l - k + 1 \in 0..(n - 1) /\ t.val + (l - k + 1) = t.val + l - k + 1
      BY <1>1, <2>8
    <3> QED BY <2>4, <2>7, <3>1, <3>2
  <2>23. PN \subseteq N /\ FN \subseteq N /\ FN \cap PN = {}
    BY <2>9
  <2>24. N \cap DOMAIN h = {} /\ N = New(k, words)
    BY <2>3 DEF N
  <2> HIDE DEF u, words, pairs, PN, FN, C, part
  <2>25. Keeps(Alloc(u, f, words), k, h, F, P, B, level, still, m)
    <3>1. \A b \in {} : b + 1 \in N /\ b + 1 \notin FN \cup PN /\ f[b + 1].val \in B \cup {0}
      OBVIOUS
    <3> QED BY <2>8, <2>18, <2>19, <2>20, <2>21, <2>22, <2>23, <2>24, <3>1, AllocKeeps DEF g
  <2> QED BY <2>1, <2>25 DEF r
<1> QED BY <1>2, <1>3

\* The allocation of any place keeps the heap in order.
LEMMA AloKeeps ==
  ASSUME NEW h, NEW F, NEW P, NEW B, NEW level, NEW still, NEW m,
         Formed(h, F, P, B, level, still, m), Places(still, level), NEW k \in Nat \ {0},
         NEW t, Firm(t, F, Pending(h, P, level)), t.tag = "ALO",
         New(k, Alo(h, k, t).words) \cap DOMAIN h = {}
  PROVE  Keeps(Alo(h, k, t), k, h, F, P, B, level, still, m)
<1> DEFINE len == t.ext
           cell == IF len = 0 THEN 0 ELSE t.val
           ls == IF len = 0 THEN 0 ELSE h[t.val].ext
           x == IF len = 0 THEN t.val ELSE h[t.val].val
           place == h[x]
           r == Alo(h, k, t)
<1>1. <<len, t.val>> \in Pending(h, P, level)
  BY DEF Firm
<1>2. len \in Nat /\ IF len = 0 THEN t.val \in DOMAIN level
                     ELSE t.val \in P /\ len <= level[h[t.val].val]
  BY <1>1, PendingIs
<1>3. \A p \in P : h[p].val \in DOMAIN level /\ h[p].ext \in B \cup {0}
  BY DEF Formed
<1>4. \A l \in DOMAIN level : level[l] \in Nat
  BY PlaceIs
<1>5. Pends(h, P, B, level, x, len, cell, ls)
  <2>1. level[x] \in Nat /\ len <= level[x] /\ x \in DOMAIN level
    BY <1>2, <1>3, <1>4
  <2> QED BY <1>2, <1>3, <2>1 DEF Pends
<1>6. place = still[x] /\ x \in DOMAIN level
  <2>1. x \in DOMAIN level
    BY <1>5 DEF Pends
  <2>2. x \in DOMAIN still
    BY <2>1 DEF Places
  <2> QED BY <2>1, <2>2 DEF Formed
<1>7. place.tag \notin {"VAR", "DP0", "DP1", "ALO"} /\ place.val \in Nat
  BY <1>6, PlaceIs
<1>8. r = CASE place.tag \in {"VAR", "BJV"} -> AloVar(h, ls, len, place, "VAR", 0)
            [] place.tag \in {"DP0", "BJ0"} -> AloVar(h, ls, len, place, "DP0", place.ext)
            [] place.tag \in {"DP1", "BJ1"} -> AloVar(h, ls, len, place, "DP1", place.ext)
            [] place.tag = "LAM" -> AloLam(k, cell, ls, len, place)
            [] place.tag = "DUP" -> AloDup(k, cell, ls, len, place)
            [] OTHER -> AloNod(k, cell, ls, len, place)
  BY DEF Alo
<1>9. New(k, r.words) \cap DOMAIN h = {}
  OBVIOUS
<1>10. ls \in B \cup {0} /\ len \in Nat
  BY <1>5 DEF Pends
<1> HIDE DEF r, place, ls, len, cell, x
<1>11. CASE place.tag = "BJV"
  <2>1. r = AloVar(h, ls, len, place, "VAR", 0)
    BY <1>8, <1>11
  <2>2. Keeps(r, k, h, F, P, B, level, still, m)
    BY <1>4, <1>7, <1>10, <1>11, <2>1, AloVarKeeps, AtomTags
  <2> QED BY <2>2 DEF r
<1>12. CASE place.tag = "BJ0"
  <2>1. r = AloVar(h, ls, len, place, "DP0", place.ext)
    BY <1>8, <1>12
  <2>2. Keeps(r, k, h, F, P, B, level, still, m)
    BY <1>4, <1>7, <1>10, <1>12, <2>1, AloVarKeeps, AtomTags
  <2> QED BY <2>2 DEF r
<1>13. CASE place.tag = "BJ1"
  <2>1. r = AloVar(h, ls, len, place, "DP1", place.ext)
    BY <1>8, <1>13
  <2>2. Keeps(r, k, h, F, P, B, level, still, m)
    BY <1>4, <1>7, <1>10, <1>13, <2>1, AloVarKeeps, AtomTags
  <2> QED BY <2>2 DEF r
<1>14. CASE place.tag = "LAM"
  <2>1. r = AloLam(k, cell, ls, len, place)
    BY <1>8, <1>14
  <2>2. Keeps(r, k, h, F, P, B, level, still, m)
    BY <1>4, <1>5, <1>6, <1>9, <1>14, <2>1, AloLamKeeps
  <2> QED BY <2>2 DEF r
<1>15. CASE place.tag = "DUP"
  <2>1. r = AloDup(k, cell, ls, len, place)
    BY <1>8, <1>15
  <2>2. Keeps(r, k, h, F, P, B, level, still, m)
    BY <1>4, <1>5, <1>6, <1>9, <1>15, <2>1, AloDupKeeps
  <2> QED BY <2>2 DEF r
<1>16. CASE place.tag \notin {"BJV", "BJ0", "BJ1", "LAM", "DUP"}
  <2>1. r = AloNod(k, cell, ls, len, place)
    BY <1>7, <1>8, <1>16
  <2>2. Keeps(r, k, h, F, P, B, level, still, m)
    BY <1>4, <1>5, <1>6, <1>9, <2>1, AloNodKeeps
  <2> QED BY <2>2 DEF r
<1> QED BY <1>11, <1>12, <1>13, <1>14, <1>15, <1>16

-----------------------------------------------------------------------------
(* The banks.                                                              *)

Bank(t) == BankStart(t, program)..(nextFree[t] - 1)

Banks ==
  /\ program \in Programs /\ threads = program.threads
  /\ end = [t \in Threads |-> IF InUse(t, program) THEN BankEnd(t, program) ELSE 0]
  /\ nextFree \in [Threads -> Nat]
  /\ \A t \in Threads :
       IF InUse(t, program) THEN BankStart(t, program) <= nextFree[t] /\ nextFree[t] <= end[t]
       ELSE nextFree[t] = 0
  /\ DOMAIN heap = UNION {Bank(t) : t \in {t \in Threads : InUse(t, program)}}

\* The slices of the threads are apart and in the order of the threads.
LEMMA BankIs ==
  ASSUME NEW p, p.words \in Nat, NEW n \in Nat \ {0}, p.threads = n, n <= p.words
  PROVE  /\ \A t \in 0..(n - 1) : /\ BankStart(t, p) \in Nat \ {0} /\ BankEnd(t, p) \in Nat
                                  /\ BankStart(t, p) <= BankEnd(t, p)
         /\ \A t, u \in 0..(n - 1) : t < u => BankEnd(t, p) <= BankStart(u, p)
<1> DEFINE q == p.words \div p.threads
<1>1. q \in Nat /\ q > 0 /\ q * n <= p.words
  OBVIOUS
<1> HIDE DEF q
<1>2. ASSUME NEW t \in 0..(n - 1)
      PROVE  t * q \in Nat /\ (t + 1) * q \in Nat /\ t * q <= (t + 1) * q
             /\ (t > 0 => t * q > 0) /\ (t + 1) * q <= p.words
  <2>1. t * q \in Nat /\ (t + 1) * q = t * q + q /\ (t + 1) * q \in Nat
    BY <1>1
  <2>2. t > 0 => t * q > 0
    BY <1>1
  <2>3. (t + 1) * q <= n * q
    <3> DEFINE d == n - (t + 1)
    <3>1. d \in Nat /\ n = t + 1 + d
      OBVIOUS
    <3>2. d * q \in Nat /\ (t + 1 + d) * q = (t + 1) * q + d * q
      BY <1>1, <3>1
    <3> QED BY <2>1, <3>1, <3>2
  <2> QED BY <1>1, <2>1, <2>2, <2>3
<1>3. \A t : BankStart(t, p) = IF t = 0 THEN 1 ELSE t * q
  BY DEF BankStart, q
<1>4. \A t : BankEnd(t, p) = IF t = n - 1 THEN p.words ELSE (t + 1) * q
  BY DEF BankEnd, q
<1>5. ASSUME NEW t \in 0..(n - 1)
      PROVE  /\ BankStart(t, p) \in Nat \ {0} /\ BankEnd(t, p) \in Nat
             /\ BankStart(t, p) <= BankEnd(t, p)
  <2>1. CASE t = 0
    <3>1. (t + 1) * q = q
      BY <1>1, <2>1
    <3> QED BY <1>1, <1>3, <1>4, <2>1, <3>1
  <2>2. CASE t # 0
    BY <1>2, <1>3, <1>4, <2>2
  <2> QED BY <2>1, <2>2
<1>6. ASSUME NEW t \in 0..(n - 1), NEW u \in 0..(n - 1), t < u
      PROVE  BankEnd(t, p) <= BankStart(u, p)
  <2>1. BankEnd(t, p) = (t + 1) * q /\ BankStart(u, p) = u * q
    BY <1>3, <1>4, <1>6
  <2> DEFINE d == u - (t + 1)
  <2>2. d \in Nat /\ u = t + 1 + d
    BY <1>6
  <2>3. d * q \in Nat /\ (t + 1 + d) * q = (t + 1) * q + d * q /\ (t + 1) * q \in Nat
    BY <1>1, <2>2
  <2> QED BY <2>1, <2>2, <2>3
<1> QED BY <1>5, <1>6

\* The free cells of a bank are free, and what a thread takes of them grows its
\* bank.
LEMMA FreeIs ==
  ASSUME Banks, NEW t \in Threads, InUse(t, program), NEW n \in Nat, nextFree[t] + n <= end[t]
  PROVE  nextFree[t] \in Nat \ {0} /\ New(nextFree[t], n) \cap DOMAIN heap = {}
<1> DEFINE k == nextFree[t]
           T == program.threads
<1>1. /\ T \in Nat \ {0} /\ T <= program.words /\ program.words \in Nat
      /\ \A u \in Threads : InUse(u, program) => u \in 0..(T - 1)
      /\ \A u \in Threads : u \in Nat
  BY ProgramAssumption, WnfAssumption DEF Banks, InUse, Threads
<1>2. \A u \in Threads : InUse(u, program) =>
        end[u] = BankEnd(u, program) /\ BankStart(u, program) <= nextFree[u]
        /\ nextFree[u] <= end[u] /\ nextFree[u] \in Nat
  BY DEF Banks
<1>3. /\ \A u \in 0..(T - 1) : /\ BankStart(u, program) \in Nat \ {0} /\ BankEnd(u, program) \in Nat
                               /\ BankStart(u, program) <= BankEnd(u, program)
      /\ \A u, v \in 0..(T - 1) : u < v => BankEnd(u, program) <= BankStart(v, program)
  BY <1>1, BankIs
<1>4. k \in Nat \ {0} /\ k + n <= BankEnd(t, program) /\ BankStart(t, program) <= k
  BY <1>1, <1>2, <1>3
<1>5. ASSUME NEW l \in New(k, n), l \in DOMAIN heap PROVE FALSE
  <2>1. PICK u \in Threads : InUse(u, program) /\ l \in Bank(u)
    BY <1>5 DEF Banks
  <2>2. l \in Int /\ k <= l /\ l < BankEnd(t, program)
    BY <1>4, <1>1, <1>3 DEF New
  <2>3. BankStart(u, program) <= l /\ l < nextFree[u] /\ nextFree[u] <= BankEnd(u, program)
    BY <1>1, <1>2, <1>3, <2>1, <2>2 DEF Bank
  <2>4. u # t
    BY <1>4, <2>2, <2>3
  <2>5. u < t \/ t < u
    BY <1>1, <2>4
  <2>6. CASE u < t
    <3>1. BankEnd(u, program) <= BankStart(t, program)
      BY <1>1, <1>3, <2>1, <2>6
    <3> QED BY <1>1, <1>2, <1>3, <1>4, <2>1, <2>2, <2>3, <3>1
  <2>7. CASE t < u
    <3>1. BankEnd(t, program) <= BankStart(u, program)
      BY <1>1, <1>3, <2>1, <2>7
    <3> QED BY <1>1, <1>2, <1>3, <1>4, <2>1, <2>2, <2>3, <3>1
  <2> QED BY <2>5, <2>6, <2>7
<1> QED BY <1>4, <1>5

\* An allocation within a bank keeps the banks.
LEMMA BanksStep ==
  ASSUME Banks, NEW t \in Threads, InUse(t, program), NEW n \in Nat, nextFree[t] + n <= end[t],
         nextFree' = [nextFree EXCEPT ![t] = @ + n], UNCHANGED <<program, threads, end>>,
         DOMAIN heap' = DOMAIN heap \cup New(nextFree[t], n)
  PROVE  Banks'
<1> DEFINE Use == {u \in Threads : InUse(u, program)}
<1>1. nextFree \in [Threads -> Nat] /\ nextFree' \in [Threads -> Nat]
      /\ nextFree'[t] = nextFree[t] + n /\ \A u \in Threads : u # t => nextFree'[u] = nextFree[u]
  BY DEF Banks
<1>2. \A u \in Threads :
        IF InUse(u, program) THEN BankStart(u, program) <= nextFree[u] /\ nextFree[u] <= end[u]
        ELSE nextFree[u] = 0
  BY DEF Banks
<1>3. BankStart(t, program) \in Nat /\ BankStart(t, program) <= nextFree[t]
  <2>1. program.threads \in Nat \ {0} /\ program.threads <= program.words /\ program.words \in Nat
        /\ t \in 0..(program.threads - 1)
    BY ProgramAssumption, WnfAssumption DEF Banks, InUse, Threads
  <2> QED BY <1>2, <2>1, BankIs
<1>4. \A u \in Threads :
        IF InUse(u, program) THEN BankStart(u, program) <= nextFree'[u] /\ nextFree'[u] <= end[u]
        ELSE nextFree'[u] = 0
  BY <1>1, <1>2, <1>3
<1>5. Bank(t)' = Bank(t) \cup New(nextFree[t], n)
  <2>1. Bank(t)' = BankStart(t, program)..(nextFree[t] + n - 1)
    BY <1>1 DEF Bank, BankStart
  <2> QED BY <1>1, <1>3, <2>1 DEF Bank, New
<1>6. \A u \in Use : u # t => Bank(u)' = Bank(u)
  BY <1>1 DEF Bank, BankStart
<1>7. t \in Use /\ DOMAIN heap = UNION {Bank(u) : u \in Use}
  BY DEF Banks
<1>8. DOMAIN heap' = UNION {Bank(u)' : u \in Use}
  <2> HIDE DEF Use
  <2> QED BY <1>5, <1>6, <1>7
<1>9. (UNION {Bank(u) : u \in {u \in Threads : InUse(u, program)}})' = UNION {Bank(u)' : u \in Use}
  BY DEF Threads, InUse
<1>10. program' \in Programs /\ threads' = program'.threads
       /\ end' = [u \in Threads |-> IF InUse(u, program') THEN BankEnd(u, program') ELSE 0]
  BY DEF Banks
<1> QED BY <1>1, <1>4, <1>8, <1>9, <1>10 DEF Banks

-----------------------------------------------------------------------------
(* The threads.                                                            *)

FrameOk(w, F, A) ==
  /\ Firm(w, F, A)
  /\ w.tag \in Strict \cup Dps \cup Mats \cup {"USE", "F_OP2_NUM", "F_EQL_R"}
  /\ w.tag = "F_EQL_R" => w.val \in F /\ w.val + 1 \in F

FramesOk(frames, F, A) == \E W : frames \in Seq(W) /\ \A w \in W : FrameOk(w, F, A)

\* A thread at a step, with its word, its frames and the cell it evaluates.
ThreadOk(step, w, frames, loc, F, A, m) ==
  /\ step = "enter" => Term(w, F, A, m)
  /\ step \in {"apply", "rebuild", "returned", "below"} => Firm(w, F, A)
  /\ step \notin {"idle", "visit"} => loc \in F
  /\ FramesOk(frames, F, A)

LEMMA FrameGrows ==
  ASSUME NEW w, NEW F, NEW A, FrameOk(w, F, A), NEW G, F \subseteq G, NEW B, A \subseteq B
  PROVE  FrameOk(w, G, B)
BY FirmGrows DEF FrameOk

LEMMA FramesGrow ==
  ASSUME NEW s, NEW F, NEW A, FramesOk(s, F, A), NEW G, F \subseteq G, NEW B, A \subseteq B
  PROVE  FramesOk(s, G, B)
<1>1. PICK W : s \in Seq(W) /\ \A w \in W : FrameOk(w, F, A)
  BY DEF FramesOk
<1>2. \A w \in W : FrameOk(w, G, B)
  BY <1>1, FrameGrows
<1> QED BY <1>1, <1>2 DEF FramesOk

LEMMA ThreadGrows ==
  ASSUME NEW step, NEW w, NEW s, NEW loc, NEW F, NEW A, NEW m,
         ThreadOk(step, w, s, loc, F, A, m), NEW G, F \subseteq G, NEW B, A \subseteq B
  PROVE  ThreadOk(step, w, s, loc, G, B, m)
BY FramesGrow, FirmGrows, TermGrows DEF ThreadOk

\* The stack of frames: its top and the rest.
LEMMA FramesTop ==
  ASSUME NEW s, NEW F, NEW A, FramesOk(s, F, A), s # <<>>
  PROVE  FrameOk(Last(s), F, A) /\ FramesOk(Front(s), F, A)
<1>1. PICK W : s \in Seq(W) /\ \A w \in W : FrameOk(w, F, A)
  BY DEF FramesOk
<1>2. Len(s) \in Nat \ {0}
  BY <1>1
<1>3. Last(s) \in W
  BY <1>1, <1>2 DEF Last
<1>4. Front(s) \in Seq(W)
  BY <1>1, <1>2 DEF Front
<1> QED BY <1>1, <1>3, <1>4 DEF FramesOk

LEMMA FramesPush ==
  ASSUME NEW s, NEW F, NEW A, FramesOk(s, F, A), NEW w, FrameOk(w, F, A)
  PROVE  FramesOk(Append(s, w), F, A)
<1>1. PICK W : s \in Seq(W) /\ \A v \in W : FrameOk(v, F, A)
  BY DEF FramesOk
<1>2. Append(s, w) \in Seq(W \cup {w})
  <2>1. s \in Seq(W \cup {w})
    BY <1>1, SeqMonotonic
  <2> QED BY <2>1
<1> QED BY <1>1, <1>2 DEF FramesOk

-----------------------------------------------------------------------------
(* The invariant.                                                          *)

Steps == {"idle", "visit", "read", "enter", "apply", "rebuild", "returned", "below"}
Exits == {"loading", "running", "done", "rejected", "memory", "application"}
Level == Levels[program]
Still == Image[program].heap
Many == threads > 1

Loaded ==
  /\ IF book = <<>> THEN heap = <<>> /\ exit # "running"
     ELSE Image[program].error = "" /\ book = Image[program].book

Counts == itrs \in [Threads -> Nat] /\ limit \in [Threads -> Nat] /\ fresh \in Nat

Shape(F, P, B) ==
  /\ IF book = <<>> THEN F = {} /\ P = {} /\ B = {}
     ELSE Formed(heap, F, P, B, Level, Still, Many)
  /\ pc \in [Threads -> Steps] /\ DOMAIN cur = Threads /\ DOMAIN stack = Threads
  /\ at \in [Threads -> F \cup {0}] /\ todo \in [Threads -> Seq(F)] /\ seen \subseteq F
  /\ \A t \in Threads :
       ThreadOk(pc[t], cur[t], stack[t], at[t], F, Pending(heap, P, Level), Many)
  /\ \A t \in Threads : ~ InUse(t, program) => pc[t] = "idle" /\ todo[t] = <<>>

IInv == Banks /\ Loaded /\ Counts /\ exit \in Exits /\ \E F, P, B : Shape(F, P, B)

\* What a step of the thread t leaves to the others.
Alone(t) ==
  /\ DOMAIN cur' = Threads /\ DOMAIN stack' = Threads
  /\ \A u \in Threads : u # t => /\ cur'[u] = cur[u] /\ stack'[u] = stack[u]
                                 /\ pc'[u] = pc[u] /\ at'[u] = at[u]

\* A step of one thread keeps the invariant if it keeps the heap in order, for
\* what the others hold stays good in more cells.
LEMMA ThreadStep ==
  ASSUME IInv, NEW t \in Threads, InUse(t, program), book # <<>>,
         NEW F, NEW P, NEW B, Shape(F, P, B),
         NEW F2, NEW P2, NEW B2, F \subseteq F2,
         Pending(heap, P, Level) \subseteq Pending(heap', P2, Level),
         Formed(heap', F2, P2, B2, Level, Still, Many),
         NEW n \in Nat, nextFree[t] + n <= end[t],
         nextFree' = [nextFree EXCEPT ![t] = @ + n],
         DOMAIN heap' = DOMAIN heap \cup New(nextFree[t], n),
         UNCHANGED <<static, program>>, exit' \in Exits, Counts',
         pc' \in [Threads -> Steps], Alone(t),
         at' \in [Threads -> F2 \cup {0}], todo' \in [Threads -> Seq(F2)], seen' \subseteq F2,
         \A u \in Threads : todo[u] = <<>> => u = t \/ todo'[u] = <<>>,
         ThreadOk(pc'[t], cur'[t], stack'[t], at'[t], F2, Pending(heap', P2, Level), Many)
  PROVE  IInv'
<1>1. Banks'
  BY BanksStep DEF IInv, static
<1>2. Loaded'
  BY DEF IInv, Loaded, static
<1>3. Level' = Level /\ Still' = Still /\ Many' = Many /\ book' = book
      /\ Threads' = Threads
  BY DEF Level, Still, Many, static, Threads
<1>4. \A u \in Threads :
        ThreadOk(pc'[u], cur'[u], stack'[u], at'[u], F2, Pending(heap', P2, Level), Many)
  <2> SUFFICES ASSUME NEW u \in Threads, u # t
               PROVE  ThreadOk(pc'[u], cur'[u], stack'[u], at'[u], F2,
                               Pending(heap', P2, Level), Many)
    OBVIOUS
  <2>1. ThreadOk(pc[u], cur[u], stack[u], at[u], F, Pending(heap, P, Level), Many)
    BY DEF Shape
  <2>2. ThreadOk(pc[u], cur[u], stack[u], at[u], F2, Pending(heap', P2, Level), Many)
    BY <2>1, ThreadGrows
  <2> QED BY <2>2 DEF Alone
<1>5. \A u \in Threads : ~ InUse(u, program) => pc'[u] = "idle" /\ todo'[u] = <<>>
  BY DEF Shape, Alone
<1>6. Shape(F2, P2, B2)'
  <2>1. InUse(t, program)' <=> InUse(t, program)
    BY DEF InUse
  <2> QED BY <1>3, <1>4, <1>5 DEF Shape, Alone, InUse
<1> QED BY <1>1, <1>2, <1>6 DEF IInv, Exits

LEMMA StaticIs ==
  ASSUME NEW s, NEW level, StaticTerms(s, level)
  PROVE  /\ Places(s.heap, level)
         /\ \A d \in DOMAIN s.book : s.book[d] \in DOMAIN level
         /\ DOMAIN s.book \subseteq Nat /\ DOMAIN level \subseteq DOMAIN s.heap
         /\ s.next \in Nat \ {0} /\ DOMAIN s.heap = 1..(s.next - 1)
BY DEF StaticTerms, Places

LEMMA BookIs ==
  ASSUME IInv, book # <<>>
  PROVE  /\ Places(Still, Level) /\ \A l \in DOMAIN Level : Level[l] \in Nat
         /\ \A d \in DOMAIN book : book[d] \in DOMAIN Level
         /\ DOMAIN book \subseteq Nat /\ DOMAIN Level \subseteq DOMAIN Still
<1>1. StaticTerms(Image[program], Levels[program]) /\ book = Image[program].book
  BY ImageAssumption DEF IInv, Banks, Loaded
<1>2. Places(Still, Level)
  BY <1>1, StaticIs DEF Still, Level
<1>3. \A l \in DOMAIN Level : Level[l] \in Nat
  BY <1>2, PlaceIs
<1>4. /\ \A d \in DOMAIN book : book[d] \in DOMAIN Level
      /\ DOMAIN book \subseteq Nat /\ DOMAIN Level \subseteq DOMAIN Still
  BY <1>1, StaticIs DEF Still, Level
<1> QED BY <1>2, <1>3, <1>4

\* A store into a cell of a term.
Put(h, loc, w) == [h EXCEPT ![loc] = w]

\* A term may be stored in any cell of terms.
LEMMA FormedStore ==
  ASSUME NEW h, NEW F, NEW P, NEW B, NEW level, NEW still, NEW m,
         Formed(h, F, P, B, level, still, m),
         NEW loc, loc \in F, NEW w, Term(w, F, Pending(h, P, level), m)
  PROVE  /\ DOMAIN Put(h, loc, w) = DOMAIN h /\ Formed(Put(h, loc, w), F, P, B, level, still, m)
         /\ Pending(Put(h, loc, w), P, level) = Pending(h, P, level)
<1> DEFINE A == Pending(h, P, level)
           g == Put(h, loc, w)
<1>1. /\ F \subseteq DOMAIN h /\ P \subseteq DOMAIN h /\ DOMAIN still \subseteq DOMAIN h
      /\ F \cap P = {} /\ F \cap DOMAIN still = {} /\ P \cap DOMAIN still = {} /\ B \subseteq F
      /\ F \subseteq Nat \ {0} /\ \A l \in F : Term(h[l], F, A, m)
      /\ \A p \in P : h[p].val \in DOMAIN level /\ h[p].ext \in B \cup {0}
      /\ \A b \in B : /\ b + 1 \in DOMAIN h /\ b + 1 \notin F \cup P \cup DOMAIN still
                      /\ h[b + 1].val \in B \cup {0}
      /\ \A l \in DOMAIN still : h[l] = still[l]
  BY DEF Formed, HeapOk
<1>2. DOMAIN g = DOMAIN h /\ g[loc] = w /\ \A l \in DOMAIN h : l # loc => g[l] = h[l]
  BY <1>1 DEF Put
<1> HIDE DEF g
<1>3. \A l \in DOMAIN h : l \notin F => g[l] = h[l]
  BY <1>2
<1>4. \A p \in P : g[p] = h[p]
  BY <1>1, <1>3
<1>5. Pending(g, P, level) = A
  <2>1. \A a \in Nat \X (DOMAIN level \cup P) :
          (IF a[1] = 0 THEN a[2] \in DOMAIN level ELSE a[2] \in P /\ a[1] <= level[g[a[2]].val])
          <=> (IF a[1] = 0 THEN a[2] \in DOMAIN level ELSE a[2] \in P /\ a[1] <= level[h[a[2]].val])
    BY <1>4
  <2> QED BY <2>1 DEF Pending
<1> HIDE DEF A
<1>6. HeapOk(g, F, A, m)
  <2>1. \A l \in F : Term(g[l], F, A, m)
    BY <1>1, <1>2 DEF A
  <2> QED BY <1>1, <2>1 DEF HeapOk
<1>7. \A b \in B : g[b + 1] = h[b + 1]
  BY <1>1, <1>3
<1>8. \A l \in DOMAIN still : g[l] = still[l]
  BY <1>1, <1>3
<1>9. Formed(g, F, P, B, level, still, m)
  <2>1. HeapOk(g, F, Pending(g, P, level), m)
    BY <1>5, <1>6
  <2>2. \A p \in P : g[p].val \in DOMAIN level /\ g[p].ext \in B \cup {0}
    BY <1>1, <1>4
  <2>3. \A b \in B : /\ b + 1 \in DOMAIN g /\ b + 1 \notin F \cup P \cup DOMAIN still
                     /\ g[b + 1].val \in B \cup {0}
    BY <1>1, <1>2, <1>7
  <2> QED BY <1>1, <1>2, <1>8, <2>1, <2>2, <2>3 DEF Formed
<1> QED BY <1>2, <1>5, <1>9 DEF A, g

\* A step that allocates nothing, and stores at most one word.
Stored(F, P) ==
  \/ heap' = heap
  \/ \E loc, w : loc \in F /\ Term(w, F, Pending(heap, P, Level), Many) /\ heap' = Put(heap, loc, w)

LEMMA StoredIs ==
  ASSUME NEW F, NEW P, NEW B, Formed(heap, F, P, B, Level, Still, Many), Stored(F, P)
  PROVE  /\ DOMAIN heap' = DOMAIN heap /\ Formed(heap', F, P, B, Level, Still, Many)
         /\ Pending(heap', P, Level) = Pending(heap, P, Level)
<1>1. CASE heap' = heap
  BY <1>1
<1>2. CASE heap' # heap
  <2>1. PICK loc, w : loc \in F /\ Term(w, F, Pending(heap, P, Level), Many)
                            /\ heap' = Put(heap, loc, w)
    BY <1>2 DEF Stored
  <2> QED BY <2>1, FormedStore
<1> QED BY <1>1, <1>2

\* A step that stores in at most one cell of terms.
LEMMA CellStep ==
  ASSUME IInv, NEW t \in Threads, InUse(t, program), book # <<>>,
         NEW F, NEW P, NEW B, Shape(F, P, B), Stored(F, P),
         UNCHANGED <<static, nextFree, program>>, exit' \in Exits, Counts',
         pc' \in [Threads -> Steps], Alone(t),
         at' \in [Threads -> F \cup {0}], todo' \in [Threads -> Seq(F)], seen' \subseteq F,
         \A u \in Threads : todo[u] = <<>> => u = t \/ todo'[u] = <<>>,
         ThreadOk(pc'[t], cur'[t], stack'[t], at'[t], F, Pending(heap, P, Level), Many)
  PROVE  IInv'
<1>1. Formed(heap, F, P, B, Level, Still, Many)
  BY DEF Shape
<1>2. /\ DOMAIN heap' = DOMAIN heap /\ Formed(heap', F, P, B, Level, Still, Many)
      /\ Pending(heap', P, Level) = Pending(heap, P, Level)
  BY <1>1, StoredIs
<1>3. nextFree \in [Threads -> Nat] /\ nextFree[t] <= end[t]
  BY DEF IInv, Banks
<1>4. nextFree[t] + 0 <= end[t] /\ nextFree' = [nextFree EXCEPT ![t] = @ + 0]
  BY <1>3
<1>5. DOMAIN heap' = DOMAIN heap \cup New(nextFree[t], 0)
  BY <1>2, <1>3, NoNew
<1> QED BY <1>2, <1>4, <1>5, ThreadStep

-----------------------------------------------------------------------------
(* A thread that fires a rule.                                             *)

\* A thread that fires a rule allocates what the rule asks for or stops.
LEMMA FireStep ==
  ASSUME IInv, NEW t \in Threads, InUse(t, program), book # <<>>,
         NEW F, NEW P, NEW B, Shape(F, P, B),
         NEW r, NEW rest, FramesOk(rest, F, Pending(heap, P, Level)),
         r.words \in Nat,
         HasRoom(t, r) => Keeps(r, nextFree[t], heap, F, P, B, Level, Still, Many),
         pc[t] \in {"enter", "apply", "rebuild"}, exit = "running",
         Fire(t, r, rest), fresh' \in Nat, UNCHANGED taskVars
  PROVE  IInv'
<1>1. /\ pc \in [Threads -> Steps] /\ DOMAIN cur = Threads /\ DOMAIN stack = Threads
      /\ at \in [Threads -> F \cup {0}] /\ todo \in [Threads -> Seq(F)] /\ seen \subseteq F
      /\ ThreadOk(pc[t], cur[t], stack[t], at[t], F, Pending(heap, P, Level), Many)
  BY DEF Shape
<1>2. itrs \in [Threads -> Nat] /\ limit \in [Threads -> Nat] /\ nextFree \in [Threads -> Nat]
  BY DEF IInv, Counts, Banks
<1>3. UNCHANGED <<program, at, todo, seen>>
  BY DEF taskVars
<1>4. CASE HasRoom(t, r) /\ exit' = exit
  <2>1. /\ HasRoom(t, r) /\ heap' = r.writes ++ heap
        /\ nextFree' = [nextFree EXCEPT ![t] = @ + r.words]
        /\ itrs' = [itrs EXCEPT ![t] = @ + r.count] /\ limit' = limit
        /\ stack' = [stack EXCEPT ![t] = rest] /\ cur' = [cur EXCEPT ![t] = r.t]
        /\ pc' = [pc EXCEPT ![t] = r.go] /\ UNCHANGED static
    BY <1>4 DEF Fire, To, Goto
  <2>2. /\ r.words \in Nat /\ r.count \in Nat /\ r.go \in {"enter", "apply", "rebuild"}
        /\ DOMAIN heap' = DOMAIN heap \cup New(nextFree[t], r.words)
        /\ After(r.writes, r.t, r.go, heap, F, P, B, Level, Still, Many)
    BY <2>1 DEF Keeps
  <2>3. PICK F2, P2, B2 :
          /\ F \subseteq F2 /\ Pending(heap, P, Level) \subseteq Pending(heap', P2, Level)
          /\ Formed(heap', F2, P2, B2, Level, Still, Many)
          /\ Term(r.t, F2, Pending(heap', P2, Level), Many)
          /\ r.go # "enter" => Firm(r.t, F2, Pending(heap', P2, Level))
    BY <2>1, <2>2 DEF After
  <2>4. pc' \in [Threads -> Steps] /\ pc'[t] = r.go /\ cur'[t] = r.t /\ stack'[t] = rest
    BY <1>1, <2>1, <2>2 DEF Steps
  <2>5. Alone(t)
    BY <1>1, <1>3, <2>1 DEF Alone
  <2>6. Counts'
    BY <1>2, <2>1, <2>2 DEF Counts
  <2>7. at' \in [Threads -> F2 \cup {0}] /\ todo' \in [Threads -> Seq(F2)] /\ seen' \subseteq F2
    <3>1. \A u \in Threads : todo[u] \in Seq(F2)
      BY <1>1, <2>3, SeqMonotonic
    <3> QED BY <1>1, <1>3, <2>3, <3>1
  <2>8. ThreadOk(pc'[t], cur'[t], stack'[t], at'[t], F2, Pending(heap', P2, Level), Many)
    <3>1. FramesOk(rest, F2, Pending(heap', P2, Level))
      BY <2>3, FramesGrow
    <3>2. at[t] \in F2
      BY <1>1, <2>3 DEF ThreadOk
    <3> QED BY <1>3, <2>2, <2>3, <2>4, <3>1, <3>2 DEF ThreadOk
  <2>9. nextFree[t] + r.words <= end[t] /\ exit' \in Exits
    BY <1>4, <2>1 DEF HasRoom, IInv
  <2> QED BY <1>3, <2>1, <2>2, <2>3, <2>4, <2>5, <2>6, <2>7, <2>8, <2>9, ThreadStep
<1>5. CASE ~ (HasRoom(t, r) /\ exit' = exit)
  <2>1. exit' = "memory" /\ UNCHANGED <<static, heap, nextFree, itrs, limit, pc, cur, stack>>
    BY <1>5 DEF Fire
  <2>2. Stored(F, P)
    BY <2>1 DEF Stored
  <2>3. exit' \in Exits /\ Counts'
    BY <1>2, <2>1 DEF Exits, Counts
  <2>4. Alone(t)
    BY <1>1, <1>3, <2>1 DEF Alone
  <2> QED BY <1>1, <1>3, <2>1, <2>2, <2>3, <2>4, CellStep
<1> QED BY <1>4, <1>5

-----------------------------------------------------------------------------
(* The steps of the machine.                                               *)

\* With several threads, none enters the word of a cell that was taken.
Safe == threads > 1 => NotEmptied

\* A thread at work has a bank and a book.
LEMMA RunIs ==
  ASSUME IInv, NEW t \in Threads, NEW step, Running(t, step), step # "idle"
  PROVE  InUse(t, program) /\ book # <<>> /\ exit = "running" /\ pc[t] = step
BY DEF IInv, Shape, Loaded, Running

LEMMA NextIs ==
  ASSUME IInv, NEW t \in Threads, InUse(t, program)
  PROVE  nextFree[t] \in Nat \ {0}
<1>1. nextFree[t] + 0 <= end[t]
  BY DEF IInv, Banks
<1> QED BY <1>1, FreeIs DEF IInv

LEMMA CellsAre ==
  ASSUME NEW F, NEW P, NEW B, Shape(F, P, B), book # <<>>
  PROVE  /\ F \subseteq Nat \ {0} /\ F \subseteq DOMAIN heap
         /\ \A l \in F : Term(heap[l], F, Pending(heap, P, Level), Many)
         /\ HeapOk(heap, F, Pending(heap, P, Level), Many)
BY DEF Shape, Formed, HeapOk

LEMMA EnterFirm ==
  ASSUME IInv, Safe, NEW t \in Threads, NEW F, NEW P, NEW B, Shape(F, P, B), Running(t, "enter")
  PROVE  Firm(cur[t], F, Pending(heap, P, Level)) /\ at[t] \in F
         /\ FramesOk(stack[t], F, Pending(heap, P, Level))
<1>1. ThreadOk(pc[t], cur[t], stack[t], at[t], F, Pending(heap, P, Level), Many)
  BY DEF Shape
<1>2. Term(cur[t], F, Pending(heap, P, Level), Many)
  BY <1>1 DEF ThreadOk, Running
<1>3. threads > 1 => Bare(cur[t]) # Zero
  BY DEF Safe, NotEmptied
<1> QED BY <1>1, <1>2, <1>3 DEF Term, Many, ThreadOk, Running

LEMMA ApplyFirm ==
  ASSUME NEW t \in Threads, NEW F, NEW P, NEW B, Shape(F, P, B),
         Running(t, "apply") \/ Running(t, "rebuild")
  PROVE  Firm(cur[t], F, Pending(heap, P, Level)) /\ at[t] \in F
         /\ FramesOk(stack[t], F, Pending(heap, P, Level))
<1>1. ThreadOk(pc[t], cur[t], stack[t], at[t], F, Pending(heap, P, Level), Many)
  BY DEF Shape
<1> QED BY <1>1 DEF ThreadOk, Running

\* The thread t goes to another step, word and frames.
Moves(t, f, g, x) == (g = f /\ x = f[t]) \/ g = [f EXCEPT ![t] = x]

\* A step of the machine that allocates nothing.
LEMMA MoveStep ==
  ASSUME IInv, NEW t \in Threads, InUse(t, program), book # <<>>,
         NEW F, NEW P, NEW B, Shape(F, P, B), Stored(F, P),
         UNCHANGED <<static, nextFree, itrs, fresh, limit>>, UNCHANGED taskVars, exit' \in Exits,
         NEW step, step \in Steps, NEW w, NEW s,
         Moves(t, pc, pc', step), Moves(t, cur, cur', w), Moves(t, stack, stack', s),
         ThreadOk(step, w, s, at[t], F, Pending(heap, P, Level), Many)
  PROVE  IInv'
<1>1. /\ pc \in [Threads -> Steps] /\ DOMAIN cur = Threads /\ DOMAIN stack = Threads
      /\ at \in [Threads -> F \cup {0}] /\ todo \in [Threads -> Seq(F)] /\ seen \subseteq F
  BY DEF Shape
<1>2. UNCHANGED <<program, at, todo, seen>>
  BY DEF taskVars
<1>3. pc' \in [Threads -> Steps] /\ pc'[t] = step /\ \A u \in Threads : u # t => pc'[u] = pc[u]
  BY <1>1 DEF Moves
<1>4. DOMAIN cur' = Threads /\ cur'[t] = w /\ \A u \in Threads : u # t => cur'[u] = cur[u]
  BY <1>1 DEF Moves
<1>5. DOMAIN stack' = Threads /\ stack'[t] = s /\ \A u \in Threads : u # t => stack'[u] = stack[u]
  BY <1>1 DEF Moves
<1>6. Alone(t)
  BY <1>2, <1>3, <1>4, <1>5 DEF Alone
<1>7. Counts'
  BY DEF IInv, Counts, static, Threads
<1> QED BY <1>1, <1>2, <1>3, <1>4, <1>5, <1>6, <1>7, CellStep

\* A thread that fires a sound rule keeps the invariant.
LEMMA SoundStep ==
  ASSUME IInv, NEW t \in Threads, InUse(t, program), book # <<>>,
         NEW F, NEW P, NEW B, Shape(F, P, B),
         NEW r, NEW rest, FramesOk(rest, F, Pending(heap, P, Level)),
         Sound(r, nextFree[t], F, Pending(heap, P, Level), Many),
         pc[t] \in {"enter", "apply", "rebuild"}, exit = "running",
         Fire(t, r, rest), fresh' \in Nat, UNCHANGED taskVars
  PROVE  IInv'
<1>1. Formed(heap, F, P, B, Level, Still, Many)
  BY DEF Shape
<1>2. \A l \in DOMAIN Level : Level[l] \in Nat
  BY BookIs
<1>3. nextFree[t] \in Nat \ {0}
  BY NextIs
<1>4. r.words \in Nat
  BY DEF Sound
<1>5. HasRoom(t, r) => New(nextFree[t], r.words) \cap DOMAIN heap = {}
  BY <1>4, FreeIs DEF IInv, HasRoom
<1>6. HasRoom(t, r) => Keeps(r, nextFree[t], heap, F, P, B, Level, Still, Many)
  BY <1>1, <1>2, <1>3, <1>5, SoundKeeps
<1> QED BY <1>4, <1>6, FireStep

LEMMA EnterLimitStep ==
  ASSUME IInv, Safe, NEW t \in Threads, EnterLimit(t), UNCHANGED taskVars
  PROVE  IInv'
<1>1. Running(t, "enter")
  BY DEF EnterLimit
<1>2. InUse(t, program) /\ book # <<>> /\ exit = "running" /\ pc[t] = "enter"
  BY <1>1, RunIs
<1>3. PICK F, P, B : Shape(F, P, B)
  BY DEF IInv
<1>4. /\ Firm(cur[t], F, Pending(heap, P, Level)) /\ at[t] \in F
      /\ FramesOk(stack[t], F, Pending(heap, P, Level))
  BY <1>1, <1>3, EnterFirm
<1>5. Stored(F, P) /\ exit' \in Exits
  BY DEF Stored, EnterLimit, IInv
<1>6. /\ Moves(t, pc, pc', "rebuild") /\ Moves(t, cur, cur', cur[t])
      /\ Moves(t, stack, stack', stack[t])
  BY DEF EnterLimit, Goto, Moves
<1>7. ThreadOk("rebuild", cur[t], stack[t], at[t], F, Pending(heap, P, Level), Many)
  BY <1>4 DEF ThreadOk
<1>8. UNCHANGED <<static, nextFree, itrs, fresh, limit>>
  BY DEF EnterLimit
<1> QED BY <1>2, <1>3, <1>5, <1>6, <1>7, <1>8, MoveStep DEF Steps

LEMMA EnterVarStep ==
  ASSUME IInv, Safe, NEW t \in Threads, EnterVar(t), UNCHANGED taskVars
  PROVE  IInv'
<1>1. Running(t, "enter") /\ cur[t].tag = "VAR"
  BY DEF EnterVar, Entering
<1>2. InUse(t, program) /\ book # <<>> /\ exit = "running" /\ pc[t] = "enter"
  BY <1>1, RunIs
<1>3. PICK F, P, B : Shape(F, P, B)
  BY DEF IInv
<1> DEFINE A == Pending(heap, P, Level)
           cell == heap[cur[t].val]
<1>4. Firm(cur[t], F, A) /\ at[t] \in F /\ FramesOk(stack[t], F, A)
  BY <1>1, <1>3, EnterFirm
<1>5. Stored(F, P) /\ exit' \in Exits /\ UNCHANGED <<static, nextFree, itrs, fresh, limit>>
  BY DEF Stored, EnterVar, IInv
<1>6. Moves(t, stack, stack', stack[t])
  BY DEF EnterVar, Moves
<1>7. cur[t].val \in F
  BY <1>1, <1>4 DEF Firm
<1>8. Term(Bare(cell), F, A, Many)
  BY <1>2, <1>3, <1>7, CellsAre, BareTerm
<1>9. CASE cell.sub
  <2>1. Moves(t, pc, pc', "enter") /\ Moves(t, cur, cur', Bare(cell))
    BY <1>2, <1>9 DEF EnterVar, To, Moves
  <2>2. ThreadOk("enter", Bare(cell), stack[t], at[t], F, A, Many)
    BY <1>4, <1>8 DEF ThreadOk
  <2> QED BY <1>2, <1>3, <1>5, <1>6, <2>1, <2>2, MoveStep DEF Steps
<1>10. CASE ~ cell.sub
  <2>1. Moves(t, pc, pc', "apply") /\ Moves(t, cur, cur', cur[t])
    BY <1>10 DEF EnterVar, Goto, Moves
  <2>2. ThreadOk("apply", cur[t], stack[t], at[t], F, A, Many)
    BY <1>4 DEF ThreadOk
  <2> QED BY <1>2, <1>3, <1>5, <1>6, <2>1, <2>2, MoveStep DEF Steps
<1> QED BY <1>9, <1>10

LEMMA EnterCopyStep ==
  ASSUME IInv, Safe, NEW t \in Threads, EnterCopy(t), UNCHANGED taskVars
  PROVE  IInv'
<1>1. Running(t, "enter") /\ cur[t].tag \in Dps
  BY DEF EnterCopy, Entering
<1>2. InUse(t, program) /\ book # <<>> /\ exit = "running" /\ pc[t] = "enter"
  BY <1>1, RunIs
<1>3. PICK F, P, B : Shape(F, P, B)
  BY DEF IInv
<1> DEFINE A == Pending(heap, P, Level)
           loc == cur[t].val
           cell == heap[loc]
<1>4. Firm(cur[t], F, A) /\ at[t] \in F /\ FramesOk(stack[t], F, A)
  BY <1>1, <1>3, EnterFirm
<1>5. exit' \in Exits /\ UNCHANGED <<static, nextFree, itrs, fresh, limit>>
  BY DEF EnterCopy, IInv
<1>6. loc \in F
  BY <1>1, <1>4 DEF Firm
<1>7. Term(Bare(cell), F, A, Many)
  BY <1>2, <1>3, <1>6, CellsAre, BareTerm
<1>8. Stored(F, P)
  <2>1. CASE threads = 1
    BY <2>1 DEF EnterCopy, Stored
  <2>2. CASE threads # 1
    <3>1. heap' = Put(heap, loc, Zero)
      BY <2>2 DEF EnterCopy, Put
    <3>2. Many
      <4>1. threads \in Nat \ {0}
        BY ProgramAssumption, WnfAssumption DEF IInv, Banks
      <4> QED BY <2>2, <4>1 DEF Many
    <3>3. Term(Zero, F, A, Many)
      BY <3>2, ZeroIs DEF Term
    <3> QED BY <1>6, <3>1, <3>3 DEF Stored
  <2> QED BY <2>1, <2>2
<1>9. Moves(t, pc, pc', "enter") /\ Moves(t, cur, cur', Bare(cell))
  BY <1>2 DEF EnterCopy, To, Moves
<1>10. CASE cell.sub
  <2>1. Moves(t, stack, stack', stack[t])
    BY <1>10 DEF EnterCopy, Moves
  <2>2. ThreadOk("enter", Bare(cell), stack[t], at[t], F, A, Many)
    BY <1>4, <1>7 DEF ThreadOk
  <2> QED BY <1>2, <1>3, <1>5, <1>8, <1>9, <2>1, <2>2, MoveStep DEF Steps
<1>11. CASE ~ cell.sub
  <2> DEFINE s == Append(stack[t], cur[t])
  <2>1. Moves(t, stack, stack', s)
    BY <1>11 DEF EnterCopy, Push, Moves
  <2>2. FrameOk(cur[t], F, A)
    BY <1>1, <1>4 DEF FrameOk, Dps
  <2>3. FramesOk(s, F, A)
    BY <1>4, <2>2, FramesPush
  <2> HIDE DEF s
  <2>4. ThreadOk("enter", Bare(cell), s, at[t], F, A, Many)
    BY <1>4, <1>7, <2>3 DEF ThreadOk
  <2> QED BY <1>2, <1>3, <1>5, <1>8, <1>9, <2>1, <2>4, MoveStep DEF Steps
<1> QED BY <1>10, <1>11

LEMMA EnterStrictStep ==
  ASSUME IInv, Safe, NEW t \in Threads, EnterStrict(t), UNCHANGED taskVars
  PROVE  IInv'
<1>1. Running(t, "enter") /\ cur[t].tag \in Strict
  BY DEF EnterStrict, Entering
<1>2. InUse(t, program) /\ book # <<>> /\ exit = "running" /\ pc[t] = "enter"
  BY <1>1, RunIs
<1>3. PICK F, P, B : Shape(F, P, B)
  BY DEF IInv
<1> DEFINE A == Pending(heap, P, Level)
           cell == heap[cur[t].val]
           s == Append(stack[t], cur[t])
<1>4. Firm(cur[t], F, A) /\ at[t] \in F /\ FramesOk(stack[t], F, A)
  BY <1>1, <1>3, EnterFirm
<1>5. Stored(F, P) /\ exit' \in Exits /\ UNCHANGED <<static, nextFree, itrs, fresh, limit>>
  BY DEF Stored, EnterStrict, IInv
<1>6. cur[t].val \in F
  BY <1>1, <1>2, <1>3, <1>4, CellsAre, Owns DEF Strict, Twos, Threes
<1>7. Term(cell, F, A, Many)
  BY <1>2, <1>3, <1>6, CellsAre
<1>8. /\ Moves(t, pc, pc', "enter") /\ Moves(t, cur, cur', cell) /\ Moves(t, stack, stack', s)
  BY <1>2 DEF EnterStrict, To, Push, Moves
<1>9. FrameOk(cur[t], F, A)
  BY <1>1, <1>4 DEF FrameOk, Strict
<1>10. FramesOk(s, F, A)
  BY <1>4, <1>9, FramesPush
<1> HIDE DEF s, cell
<1>11. ThreadOk("enter", cell, s, at[t], F, A, Many)
  BY <1>4, <1>7, <1>10 DEF ThreadOk
<1> QED BY <1>2, <1>3, <1>5, <1>8, <1>11, MoveStep DEF Steps

LEMMA EnterValueStep ==
  ASSUME IInv, Safe, NEW t \in Threads, EnterValue(t), UNCHANGED taskVars
  PROVE  IInv'
<1>1. Running(t, "enter")
  BY DEF EnterValue, Entering
<1>2. InUse(t, program) /\ book # <<>> /\ exit = "running" /\ pc[t] = "enter"
  BY <1>1, RunIs
<1>3. PICK F, P, B : Shape(F, P, B)
  BY DEF IInv
<1>4. /\ Firm(cur[t], F, Pending(heap, P, Level)) /\ at[t] \in F
      /\ FramesOk(stack[t], F, Pending(heap, P, Level))
  BY <1>1, <1>3, EnterFirm
<1>5. Stored(F, P) /\ exit' \in Exits /\ UNCHANGED <<static, nextFree, itrs, fresh, limit>>
  BY DEF Stored, EnterValue, IInv
<1>6. /\ Moves(t, pc, pc', "apply") /\ Moves(t, cur, cur', cur[t])
      /\ Moves(t, stack, stack', stack[t])
  BY DEF EnterValue, Goto, Moves
<1>7. ThreadOk("apply", cur[t], stack[t], at[t], F, Pending(heap, P, Level), Many)
  BY <1>4 DEF ThreadOk
<1> QED BY <1>2, <1>3, <1>5, <1>6, <1>7, MoveStep DEF Steps

LEMMA EnterRefStep ==
  ASSUME IInv, Safe, NEW t \in Threads, EnterRef(t), UNCHANGED taskVars
  PROVE  IInv'
<1>1. Running(t, "enter")
  BY DEF EnterRef, Entering
<1>2. InUse(t, program) /\ book # <<>> /\ exit = "running" /\ pc[t] = "enter"
  BY <1>1, RunIs
<1>3. PICK F, P, B : Shape(F, P, B)
  BY DEF IInv
<1> DEFINE A == Pending(heap, P, Level)
           d == cur[t].ext
           w == At("ALO", book[d])
<1>4. Firm(cur[t], F, A) /\ at[t] \in F /\ FramesOk(stack[t], F, A)
  BY <1>1, <1>3, EnterFirm
<1>5. Stored(F, P) /\ exit' \in Exits /\ UNCHANGED <<static, nextFree, itrs, fresh, limit>>
  BY DEF Stored, EnterRef, IInv
<1>6. Moves(t, stack, stack', stack[t])
  BY DEF EnterRef, Moves
<1>7. CASE d \in DOMAIN book
  <2>1. Moves(t, pc, pc', "enter") /\ Moves(t, cur, cur', w)
    BY <1>2, <1>7 DEF EnterRef, To, Moves
  <2>2. Firm(w, F, A)
    <3>1. w.tag = "ALO" /\ w.val = book[d] /\ w.ext = 0
      BY WordIs DEF At, ExtSize
    <3>2. book[d] \in DOMAIN Level
      BY <1>2, <1>7, BookIs
    <3>3. <<w.ext, w.val>> \in A
      BY <3>1, <3>2, PendingIs
    <3>4. Arity(w) = 0
      BY <3>1, ArityOf DEF Twos, Ones, Threes, Ctrs, Ctr
    <3> HIDE DEF w, A
    <3> QED BY <3>1, <3>3, <3>4 DEF Firm, Dps
  <2> HIDE DEF w
  <2>3. ThreadOk("enter", w, stack[t], at[t], F, A, Many)
    BY <1>4, <2>2 DEF ThreadOk, Term
  <2> QED BY <1>2, <1>3, <1>5, <1>6, <2>1, <2>3, MoveStep DEF Steps
<1>8. CASE d \notin DOMAIN book
  <2>1. Moves(t, pc, pc', "apply") /\ Moves(t, cur, cur', cur[t])
    BY <1>8 DEF EnterRef, Goto, Moves
  <2>2. ThreadOk("apply", cur[t], stack[t], at[t], F, A, Many)
    BY <1>4 DEF ThreadOk
  <2> QED BY <1>2, <1>3, <1>5, <1>6, <2>1, <2>2, MoveStep DEF Steps
<1> QED BY <1>7, <1>8

LEMMA EnterUnsStep ==
  ASSUME IInv, Safe, NEW t \in Threads, EnterUns(t), UNCHANGED taskVars
  PROVE  IInv'
<1>1. Running(t, "enter") /\ cur[t].tag = "UNS"
  BY DEF EnterUns, Entering
<1>2. InUse(t, program) /\ book # <<>> /\ exit = "running" /\ pc[t] = "enter"
  BY <1>1, RunIs
<1>3. PICK F, P, B : Shape(F, P, B)
  BY DEF IInv
<1> DEFINE A == Pending(heap, P, Level)
           r == WnfUns(heap, nextFree[t], cur[t])
<1>4. Firm(cur[t], F, A) /\ FramesOk(stack[t], F, A)
  BY <1>1, <1>3, EnterFirm
<1>5. Sound(r, nextFree[t], F, A, Many)
  BY <1>1, <1>2, <1>3, <1>4, CellsAre, NextIs, UnsSound
<1>6. Fire(t, r, stack[t]) /\ fresh' \in Nat
  BY DEF EnterUns, IInv, Counts
<1> HIDE DEF r
<1> QED BY <1>2, <1>3, <1>4, <1>5, <1>6, SoundStep

\* What an allocation asks for is a number of cells.
LEMMA AloWords ==
  ASSUME NEW h, NEW k, NEW t
  PROVE  Alo(h, k, t).words \in Nat
<1> DEFINE len == t.ext
           cell == IF len = 0 THEN 0 ELSE t.val
           ls == IF len = 0 THEN 0 ELSE h[t.val].ext
           b == h[IF len = 0 THEN t.val ELSE h[t.val].val]
<1>1. \A tag, ext : AloVar(h, ls, len, b, tag, ext).words \in Nat
  BY DEF AloVar, Alloc, Step
<1>2. AloLam(k, cell, ls, len, b).words \in Nat
  BY DEF AloLam, Alloc, Step
<1>3. AloDup(k, cell, ls, len, b).words \in Nat
  BY DEF AloDup, Alloc, Step
<1>4. AloNod(k, cell, ls, len, b).words \in Nat
  BY ArityOf DEF AloNod, Alloc, Step
<1> HIDE DEF cell, ls, len, b
<1>5. Alo(h, k, t).words \in Nat
  <2>1. Alo(h, k, t) = 
     CASE b.tag \in {"VAR", "BJV"} -> AloVar(h, ls, len, b, "VAR", 0)
       [] b.tag \in {"DP0", "BJ0"} -> AloVar(h, ls, len, b, "DP0", b.ext)
       [] b.tag \in {"DP1", "BJ1"} -> AloVar(h, ls, len, b, "DP1", b.ext)
       [] b.tag = "LAM" -> AloLam(k, cell, ls, len, b)
       [] b.tag = "DUP" -> AloDup(k, cell, ls, len, b)
       [] OTHER -> AloNod(k, cell, ls, len, b)
    BY DEF Alo, cell, ls, len, b
  <2> QED BY <1>1, <1>2, <1>3, <1>4, <2>1
<1> QED BY <1>5

LEMMA EnterAloStep ==
  ASSUME IInv, Safe, NEW t \in Threads, EnterAlo(t), UNCHANGED taskVars
  PROVE  IInv'
<1>1. Running(t, "enter") /\ cur[t].tag = "ALO"
  BY DEF EnterAlo, Entering
<1>2. InUse(t, program) /\ book # <<>> /\ exit = "running" /\ pc[t] = "enter"
  BY <1>1, RunIs
<1>3. PICK F, P, B : Shape(F, P, B)
  BY DEF IInv
<1> DEFINE A == Pending(heap, P, Level)
           r == Alo(heap, nextFree[t], cur[t])
<1>4. Firm(cur[t], F, A) /\ FramesOk(stack[t], F, A)
  BY <1>1, <1>3, EnterFirm
<1>5. r.words \in Nat
  BY AloWords
<1>6. HasRoom(t, r) => New(nextFree[t], r.words) \cap DOMAIN heap = {}
  BY <1>2, <1>5, FreeIs DEF IInv, HasRoom
<1>7. HasRoom(t, r) => Keeps(r, nextFree[t], heap, F, P, B, Level, Still, Many)
  BY <1>1, <1>2, <1>3, <1>4, <1>6, NextIs, BookIs, AloKeeps DEF Shape
<1>8. Fire(t, r, stack[t]) /\ fresh' \in Nat
  BY DEF EnterAlo, IInv, Counts
<1> HIDE DEF r
<1> QED BY <1>2, <1>3, <1>4, <1>5, <1>7, <1>8, FireStep

\* The frame on top of a thread that applies or rebuilds, and those below.
LEMMA TopIs ==
  ASSUME IInv, NEW t \in Threads, Running(t, "apply") \/ Running(t, "rebuild"),
         NEW F, NEW P, NEW B, Shape(F, P, B)
  PROVE  /\ InUse(t, program) /\ book # <<>> /\ exit = "running" /\ pc[t] \in {"apply", "rebuild"}
         /\ at[t] \in F /\ nextFree[t] \in Nat \ {0} /\ fresh \in Nat
         /\ HeapOk(heap, F, Pending(heap, P, Level), Many)
         /\ Firm(cur[t], F, Pending(heap, P, Level))
         /\ FramesOk(stack[t], F, Pending(heap, P, Level))
         /\ stack[t] # <<>> => /\ FrameOk(Top(t), F, Pending(heap, P, Level))
                               /\ Firm(Top(t), F, Pending(heap, P, Level))
                               /\ FramesOk(Below(t), F, Pending(heap, P, Level))
<1>1. InUse(t, program) /\ book # <<>> /\ exit = "running" /\ pc[t] \in {"apply", "rebuild"}
  BY RunIs
<1>2. nextFree[t] \in Nat \ {0} /\ fresh \in Nat
  BY <1>1, NextIs DEF IInv, Counts
<1>3. /\ Firm(cur[t], F, Pending(heap, P, Level)) /\ at[t] \in F
      /\ FramesOk(stack[t], F, Pending(heap, P, Level))
  BY ApplyFirm
<1>4. HeapOk(heap, F, Pending(heap, P, Level), Many)
  BY <1>1, CellsAre
<1> QED BY <1>1, <1>2, <1>3, <1>4, FramesTop DEF Top, Below, FrameOk

\* A frame that gives way to a sound rule.
LEMMA ReduceStep ==
  ASSUME IInv, NEW t \in Threads, Running(t, "apply") \/ Running(t, "rebuild"),
         stack[t] # <<>>, NEW F, NEW P, NEW B, Shape(F, P, B), NEW r,
         Sound(r, nextFree[t], F, Pending(heap, P, Level), Many),
         Fire(t, r, Below(t)), fresh' \in Nat, UNCHANGED taskVars
  PROVE  IInv'
BY TopIs, SoundStep

\* A thread that goes back, and one that has no frame left.
LEMMA TurnStep ==
  ASSUME IInv, NEW t \in Threads, Running(t, "apply") \/ Running(t, "rebuild"),
         NEW step, step \in {"apply", "rebuild", "returned"}, Goto(t, step),
         UNCHANGED <<static, heap, nextFree, itrs, fresh, limit, cur, stack, exit>>,
         UNCHANGED taskVars
  PROVE  IInv'
<1>1. PICK F, P, B : Shape(F, P, B)
  BY DEF IInv
<1> DEFINE A == Pending(heap, P, Level)
<1>2. /\ InUse(t, program) /\ book # <<>> /\ at[t] \in F
      /\ Firm(cur[t], F, A) /\ FramesOk(stack[t], F, A)
  BY <1>1, TopIs
<1>3. Stored(F, P) /\ exit' \in Exits
  BY DEF Stored, IInv
<1>4. /\ Moves(t, pc, pc', step) /\ Moves(t, cur, cur', cur[t])
      /\ Moves(t, stack, stack', stack[t])
  BY DEF Goto, Moves
<1>5. ThreadOk(step, cur[t], stack[t], at[t], F, A, Many)
  BY <1>2 DEF ThreadOk
<1>6. step \in Steps
  BY DEF Steps
<1> QED BY <1>1, <1>2, <1>3, <1>4, <1>5, <1>6, MoveStep

LEMMA ReturnSteps ==
  ASSUME IInv, NEW t \in Threads, Return(t) \/ ApplyLimit(t) \/ Rebuild(t), UNCHANGED taskVars
  PROVE  IInv'
<1>1. CASE Return(t)
  BY <1>1, TurnStep DEF Return
<1>2. CASE ApplyLimit(t)
  BY <1>2, TurnStep DEF ApplyLimit
<1>3. CASE Rebuild(t)
  BY <1>3, TurnStep DEF Rebuild
<1> QED BY <1>1, <1>2, <1>3

LEMMA ReduceSteps ==
  ASSUME IInv, NEW t \in Threads,
         \/ ApplyApp(t) \/ ApplyMat(t) \/ ApplyUse(t) \/ ApplyCopy(t) \/ ApplyOp2(t)
         \/ ApplyOp2Right(t) \/ ApplyEql(t) \/ ApplyDsu(t) \/ ApplyDdu(t) \/ ApplyAnd(t)
         \/ ApplyOr(t) \/ RebuildFrame(t),
         UNCHANGED taskVars
  PROVE  IInv'
<1> DEFINE k == nextFree[t]
           frame == Top(t)
           v == cur[t]
<1>1. PICK F, P, B : Shape(F, P, B)
  BY DEF IInv
<1> DEFINE A == Pending(heap, P, Level)
<1>2. (Running(t, "apply") \/ Running(t, "rebuild")) /\ stack[t] # <<>>
  BY DEF ApplyApp, ApplyMat, ApplyUse, ApplyCopy, ApplyOp2, ApplyOp2Right, ApplyEql,
         ApplyDsu, ApplyDdu, ApplyAnd, ApplyOr, RebuildFrame, Applying
<1>3. /\ k \in Nat \ {0} /\ fresh \in Nat /\ HeapOk(heap, F, A, Many)
      /\ Firm(v, F, A) /\ Firm(frame, F, A) /\ FrameOk(frame, F, A)
  BY <1>1, <1>2, TopIs
<1> HIDE DEF k, frame, v, A
<1>4. ASSUME NEW r, Sound(r, k, F, A, Many), Fire(t, r, Below(t)), UNCHANGED fresh
      PROVE  IInv'
  BY <1>1, <1>2, <1>3, <1>4, ReduceStep DEF k, A
<1>5. CASE ApplyApp(t)
  <2>1. frame.tag = "APP" /\ Fire(t, AppRule(heap, k, frame, v), Below(t)) /\ UNCHANGED fresh
    BY <1>5 DEF ApplyApp, Applying, Reduce, k, frame, v
  <2> QED BY <1>3, <1>4, <2>1, AppRuleSound
<1>6. CASE ApplyMat(t)
  <2>1. frame.tag \in Mats /\ Fire(t, MatRule(heap, k, frame, v), Below(t)) /\ UNCHANGED fresh
    BY <1>6 DEF ApplyMat, Applying, Reduce, k, frame, v
  <2> QED BY <1>3, <1>4, <2>1, MatRuleSound
<1>7. CASE ApplyUse(t)
  <2>1. frame.tag = "USE" /\ Fire(t, UseRule(heap, k, frame, v), Below(t)) /\ UNCHANGED fresh
    BY <1>7 DEF ApplyUse, Applying, Reduce, k, frame, v
  <2> QED BY <1>3, <1>4, <2>1, UseRuleSound
<1>8. CASE ApplyCopy(t)
  <2>1. frame.tag \in Dps /\ Fire(t, DupRule(heap, k, frame, v), Below(t)) /\ UNCHANGED fresh
    BY <1>8 DEF ApplyCopy, Applying, Reduce, k, frame, v
  <2> QED BY <1>3, <1>4, <2>1, DupRuleSound
<1>9. CASE ApplyOp2(t)
  <2>1. frame.tag = "OP2" /\ Fire(t, Op2Rule(heap, k, frame, v), Below(t)) /\ UNCHANGED fresh
    BY <1>9 DEF ApplyOp2, Applying, Reduce, k, frame, v
  <2> QED BY <1>3, <1>4, <2>1, Op2RuleSound
<1>10. CASE ApplyOp2Right(t)
  <2>1. Fire(t, Op2RightRule(heap, k, frame, v), Below(t)) /\ UNCHANGED fresh
    BY <1>10 DEF ApplyOp2Right, Applying, Reduce, k, frame, v
  <2> QED BY <1>3, <1>4, <2>1, Op2RightRuleSound
<1>11. CASE ApplyEql(t)
  <2>1. /\ frame.tag = "EQL" /\ Fire(t, EqlRule(heap, k, frame, v), Below(t)) /\ UNCHANGED fresh
        /\ v.tag \in EqlLeftTags
    BY <1>11 DEF ApplyEql, Applying, Reduce, k, frame, v
  <2> QED BY <1>3, <1>4, <2>1, EqlRuleSound
<1>12. CASE ApplyDsu(t)
  <2>1. frame.tag = "DSU" /\ Fire(t, DsuRule(heap, k, frame, v), Below(t)) /\ UNCHANGED fresh
    BY <1>12 DEF ApplyDsu, Applying, Reduce, k, frame, v
  <2> QED BY <1>3, <1>4, <2>1, DsuRuleSound
<1>13. CASE ApplyDdu(t)
  <2>1. frame.tag = "DDU" /\ Fire(t, DduRule(heap, k, frame, v), Below(t)) /\ UNCHANGED fresh
    BY <1>13 DEF ApplyDdu, Applying, Reduce, k, frame, v
  <2> QED BY <1>3, <1>4, <2>1, DduRuleSound
<1>14. CASE ApplyAnd(t)
  <2>1. frame.tag = "AND" /\ Fire(t, AndRule(heap, k, frame, v), Below(t)) /\ UNCHANGED fresh
    BY <1>14 DEF ApplyAnd, Applying, Reduce, k, frame, v
  <2> QED BY <1>3, <1>4, <2>1, AndRuleSound
<1>15. CASE ApplyOr(t)
  <2>1. frame.tag = "OR" /\ Fire(t, OrRule(heap, k, frame, v), Below(t)) /\ UNCHANGED fresh
    BY <1>15 DEF ApplyOr, Applying, Reduce, k, frame, v
  <2> QED BY <1>3, <1>4, <2>1, OrRuleSound
<1>16. CASE RebuildFrame(t)
  <2>1. Fire(t, Rebuilt(heap, k, frame, v), Below(t)) /\ UNCHANGED fresh
    BY <1>16 DEF RebuildFrame, Reduce, k, frame, v
  <2>2. Term(v, F, A, Many)
    BY <1>3 DEF Term
  <2> QED BY <1>3, <1>4, <2>1, <2>2, RebuiltSound DEF FrameOk
<1> QED BY <1>5, <1>6, <1>7, <1>8, <1>9, <1>10, <1>11, <1>12, <1>13, <1>14, <1>15, <1>16

LEMMA EqlRightStep ==
  ASSUME IInv, NEW t \in Threads, ApplyEqlRight(t), UNCHANGED taskVars
  PROVE  IInv'
<1> DEFINE k == nextFree[t]
           loc == Top(t).val
           v == cur[t]
           r == EqlRightRule(heap, k, loc, v)
<1>1. PICK F, P, B : Shape(F, P, B)
  BY DEF IInv
<1> DEFINE A == Pending(heap, P, Level)
<1>2. Running(t, "apply") /\ stack[t] # <<>> /\ Top(t).tag = "F_EQL_R"
  BY DEF ApplyEqlRight, Applying
<1>3. /\ k \in Nat \ {0} /\ fresh \in Nat /\ HeapOk(heap, F, A, Many)
      /\ Firm(v, F, A) /\ FrameOk(Top(t), F, A)
  BY <1>1, <1>2, TopIs
<1>4. loc \in F /\ loc + 1 \in F
  BY <1>2, <1>3 DEF FrameOk
<1>5. Sound(r, k, F, A, Many)
  BY <1>3, <1>4, EqlRightRuleSound
<1>6. Fire(t, r, Below(t)) /\ fresh' \in Nat
  BY <1>3 DEF ApplyEqlRight
<1> HIDE DEF r
<1> QED BY <1>1, <1>2, <1>5, <1>6, ReduceStep

\* The frame makes way for another one.
LEMMA DescendStep ==
  ASSUME IInv, NEW t \in Threads, Running(t, "apply"), stack[t] # <<>>,
         NEW F, NEW P, NEW B, Shape(F, P, B), Stored(F, P),
         NEW frame, NEW next, Descend(t, frame, next), FrameOk(frame, F, Pending(heap, P, Level)),
         Term(next, F, Pending(heap, P, Level), Many), UNCHANGED taskVars
  PROVE  IInv'
<1> DEFINE A == Pending(heap, P, Level)
           s == Append(Below(t), frame)
<1>1. InUse(t, program) /\ book # <<>> /\ at[t] \in F /\ FramesOk(Below(t), F, A)
  BY TopIs
<1>2. FramesOk(s, F, A)
  BY <1>1, FramesPush
<1>3. /\ Moves(t, pc, pc', "enter") /\ Moves(t, cur, cur', next) /\ Moves(t, stack, stack', s)
  BY DEF Descend, Goto, To, Moves
<1> HIDE DEF s
<1>4. ThreadOk("enter", next, s, at[t], F, A, Many)
  BY <1>1, <1>2 DEF ThreadOk
<1>5. exit' \in Exits /\ UNCHANGED <<static, nextFree, itrs, fresh, limit>>
  BY DEF Descend, IInv
<1> QED BY <1>1, <1>3, <1>4, <1>5, MoveStep DEF Steps

LEMMA DescendSteps ==
  ASSUME IInv, NEW t \in Threads, ApplyMatch(t) \/ ApplyOp2Left(t) \/ ApplyEqlLeft(t),
         UNCHANGED taskVars
  PROVE  IInv'
<1> DEFINE frame == Top(t)
           v == cur[t]
           next == heap[frame.val + 1]
<1>1. PICK F, P, B : Shape(F, P, B)
  BY DEF IInv
<1> DEFINE A == Pending(heap, P, Level)
<1>2. Running(t, "apply") /\ stack[t] # <<>> /\ frame.tag \in Twos
  BY DEF ApplyMatch, ApplyOp2Left, ApplyEqlLeft, Applying, Twos
<1>3. HeapOk(heap, F, A, Many) /\ Firm(v, F, A) /\ Firm(frame, F, A)
  BY <1>1, <1>2, TopIs
<1>4. frame.val \in F /\ frame.val + 1 \in F /\ Term(next, F, A, Many)
  BY <1>2, <1>3, TwoParts
<1>5. CASE ApplyMatch(t)
  <2>1. v.tag \in {"USE"} \cup Mats /\ Descend(t, v, next) /\ heap' = heap
    BY <1>5 DEF ApplyMatch
  <2>2. FrameOk(v, F, A) /\ Stored(F, P)
    BY <1>3, <2>1 DEF FrameOk, Stored, Mats
  <2> QED BY <1>1, <1>2, <1>4, <2>1, <2>2, DescendStep
<1>6. CASE ApplyOp2Left(t)
  <2> DEFINE w == Word("F_OP2_NUM", frame.ext, v.val)
  <2>1. Descend(t, w, next) /\ heap' = heap
    BY <1>6 DEF ApplyOp2Left
  <2>2. FrameOk(w, F, A)
    BY WordIs, BuiltAtom, AtomTags DEF FrameOk
  <2>3. Stored(F, P)
    BY <2>1 DEF Stored
  <2> QED BY <1>1, <1>2, <1>4, <2>1, <2>2, <2>3, DescendStep
<1>7. CASE ApplyEqlLeft(t)
  <2> DEFINE w == At("F_EQL_R", frame.val)
  <2>1. Descend(t, w, next) /\ heap' = Put(heap, frame.val, v)
    BY <1>7 DEF ApplyEqlLeft, Put
  <2>2. FrameOk(w, F, A)
    <3>1. w.tag = "F_EQL_R" /\ w.val = frame.val
      BY WordIs DEF At
    <3>2. Firm(w, F, A)
      BY BuiltAtom, AtomTags DEF At
    <3> HIDE DEF w
    <3> QED BY <1>4, <3>1, <3>2 DEF FrameOk
  <2>3. Stored(F, P)
    BY <1>3, <1>4, <2>1 DEF Stored, Term
  <2> QED BY <1>1, <1>2, <1>4, <2>1, <2>2, <2>3, DescendStep
<1> QED BY <1>5, <1>6, <1>7

LEMMA DataStep ==
  ASSUME IInv, NEW t \in Threads, ApplyData(t), UNCHANGED taskVars
  PROVE  IInv'
<1>1. PICK F, P, B : Shape(F, P, B)
  BY DEF IInv
<1>2. Running(t, "apply")
  BY DEF ApplyData, Applying
<1>3. InUse(t, program) /\ book # <<>>
  BY <1>1, <1>2, TopIs
<1>4. /\ Moves(t, pc, pc', pc[t]) /\ Moves(t, cur, cur', cur[t])
      /\ Moves(t, stack, stack', stack[t])
  BY DEF ApplyData, Moves
<1>5. Stored(F, P) /\ exit' \in Exits /\ UNCHANGED <<static, nextFree, itrs, fresh, limit>>
  BY DEF Stored, ApplyData, Exits
<1>6. pc[t] \in Steps /\ ThreadOk(pc[t], cur[t], stack[t], at[t], F, Pending(heap, P, Level), Many)
  BY <1>1 DEF Shape
<1> QED BY <1>1, <1>3, <1>4, <1>5, <1>6, MoveStep

LEMMA MachineStep ==
  ASSUME IInv, Safe, NEW t \in Threads, Machine(t)
  PROVE  IInv' \/ UNCHANGED vars
<1>1. UNCHANGED taskVars
  BY DEF Machine
<1>2. CASE Enters(t)
  <2>1. CASE EnterWait(t)
    BY <1>1, <2>1 DEF EnterWait, vars
  <2> QED
    BY <1>1, <1>2, <2>1, EnterLimitStep, EnterVarStep, EnterCopyStep, EnterStrictStep,
       EnterUnsStep, EnterRefStep, EnterAloStep, EnterValueStep DEF Enters
<1>3. CASE Applies(t)
  BY <1>1, <1>3, ReturnSteps, ReduceSteps, EqlRightStep, DescendSteps, DataStep DEF Applies
<1> QED BY <1>2, <1>3 DEF Machine

-----------------------------------------------------------------------------
(* The steps of the traversal.                                             *)

\* A step of the traversal.
LEMMA TaskStep ==
  ASSUME IInv, NEW t \in Threads, InUse(t, program), exit = "running",
         NEW F, NEW P, NEW B, Shape(F, P, B), Stored(F, P),
         UNCHANGED <<static, nextFree, itrs, fresh, program, stack, exit>>,
         limit' \in [Threads -> Nat],
         NEW step, step \in Steps, NEW w, NEW loc, loc \in F \cup {0},
         Moves(t, pc, pc', step), Moves(t, cur, cur', w), Moves(t, at, at', loc),
         todo' \in [Threads -> Seq(F)], seen' \subseteq F,
         \A u \in Threads : todo[u] = <<>> => u = t \/ todo'[u] = <<>>,
         ThreadOk(step, w, stack[t], loc, F, Pending(heap, P, Level), Many)
  PROVE  IInv'
<1>1. /\ pc \in [Threads -> Steps] /\ DOMAIN cur = Threads /\ DOMAIN stack = Threads
      /\ at \in [Threads -> F \cup {0}] /\ book # <<>>
  BY DEF Shape, IInv, Loaded
<1>2. pc' \in [Threads -> Steps] /\ pc'[t] = step /\ \A u \in Threads : u # t => pc'[u] = pc[u]
  BY <1>1 DEF Moves
<1>3. DOMAIN cur' = Threads /\ cur'[t] = w /\ \A u \in Threads : u # t => cur'[u] = cur[u]
  BY <1>1 DEF Moves
<1>4. at' \in [Threads -> F \cup {0}] /\ at'[t] = loc /\ \A u \in Threads : u # t => at'[u] = at[u]
  BY <1>1 DEF Moves
<1>5. Alone(t)
  BY <1>1, <1>2, <1>3, <1>4 DEF Alone
<1>6. Counts' /\ exit' \in Exits
  BY DEF IInv, Counts, static, Threads
<1>7. UNCHANGED stack
  OBVIOUS
<1> QED BY <1>1, <1>2, <1>3, <1>4, <1>5, <1>6, <1>7, CellStep

\* What is known of a thread at a step of the traversal.
LEMMA TaskIs ==
  ASSUME IInv, NEW t \in Threads, NEW step, Running(t, step), NEW F, NEW P, NEW B, Shape(F, P, B)
  PROVE  /\ exit = "running" /\ book # <<>> /\ limit \in [Threads -> Nat]
         /\ at[t] \in F \cup {0} /\ todo \in [Threads -> Seq(F)] /\ seen \subseteq F
         /\ FramesOk(stack[t], F, Pending(heap, P, Level))
         /\ step \notin {"idle", "visit"} => at[t] \in F
         /\ step \in {"returned", "below"} => Firm(cur[t], F, Pending(heap, P, Level))
<1>1. ThreadOk(step, cur[t], stack[t], at[t], F, Pending(heap, P, Level), Many)
  BY DEF Shape, Running
<1> QED BY <1>1 DEF Shape, IInv, Counts, Loaded, Running, ThreadOk

LEMMA PopStep ==
  ASSUME IInv, NEW t \in Threads, Pop(t)
  PROVE  IInv'
<1>1. PICK F, P, B : Shape(F, P, B)
  BY DEF IInv
<1>2. Running(t, "idle") /\ todo[t] # <<>>
  BY DEF Pop
<1>3. InUse(t, program)
  BY <1>1, <1>2 DEF Shape
<1>4. /\ exit = "running" /\ limit \in [Threads -> Nat] /\ todo \in [Threads -> Seq(F)]
      /\ seen \subseteq F /\ FramesOk(stack[t], F, Pending(heap, P, Level))
  BY <1>1, <1>2, TaskIs
<1>5. todo[t] \in Seq(F) /\ Len(todo[t]) \in Nat \ {0}
  BY <1>2, <1>4
<1>6. Last(todo[t]) \in F /\ Front(todo[t]) \in Seq(F)
  BY <1>5 DEF Last, Front
<1>7. todo' = [todo EXCEPT ![t] = Front(todo[t])]
  BY DEF Pop
<1>8. todo' \in [Threads -> Seq(F)] /\ \A u \in Threads : todo[u] = <<>> => u = t \/ todo'[u] = <<>>
  BY <1>4, <1>6, <1>7
<1>9. /\ Moves(t, pc, pc', "visit") /\ Moves(t, cur, cur', cur[t])
      /\ Moves(t, at, at', Last(todo[t]))
  BY DEF Pop, Visit, Goto, Moves
<1>10. ThreadOk("visit", cur[t], stack[t], Last(todo[t]), F, Pending(heap, P, Level), Many)
  BY <1>4 DEF ThreadOk
<1>11. Stored(F, P)
         /\ UNCHANGED <<static, nextFree, itrs, fresh, limit, program, stack, exit, seen>>
  BY DEF Pop, Stored
<1> QED BY <1>1, <1>3, <1>4, <1>6, <1>8, <1>9, <1>10, <1>11, TaskStep DEF Steps

LEMMA StealStep ==
  ASSUME IInv, NEW t \in Threads, NEW victim \in Threads, Steal(t, victim)
  PROVE  IInv'
<1> DEFINE s == todo[victim]
<1>1. PICK F, P, B : Shape(F, P, B)
  BY DEF IInv
<1>2. Running(t, "idle") /\ InUse(t, program) /\ s # <<>>
  BY DEF Steal
<1>3. /\ exit = "running" /\ limit \in [Threads -> Nat] /\ todo \in [Threads -> Seq(F)]
      /\ seen \subseteq F /\ FramesOk(stack[t], F, Pending(heap, P, Level))
  BY <1>1, <1>2, TaskIs
<1>4. s \in Seq(F)
  BY <1>3
<1>5. Head(s) \in F /\ Tail(s) \in Seq(F)
  BY <1>2, <1>4
<1>6. todo' = [todo EXCEPT ![victim] = Tail(s)]
  BY DEF Steal
<1>7. todo' \in [Threads -> Seq(F)] /\ \A u \in Threads : todo[u] = <<>> => u = t \/ todo'[u] = <<>>
  BY <1>2, <1>3, <1>5, <1>6
<1>8. /\ Moves(t, pc, pc', "visit") /\ Moves(t, cur, cur', cur[t]) /\ Moves(t, at, at', Head(s))
  BY DEF Steal, Visit, Goto, Moves
<1>9. ThreadOk("visit", cur[t], stack[t], Head(s), F, Pending(heap, P, Level), Many)
  BY <1>3 DEF ThreadOk
<1>10. Stored(F, P)
         /\ UNCHANGED <<static, nextFree, itrs, fresh, limit, program, stack, exit, seen>>
  BY DEF Steal, Stored
<1> QED BY <1>1, <1>2, <1>3, <1>5, <1>7, <1>8, <1>9, <1>10, TaskStep DEF Steps

LEMMA PassByStep ==
  ASSUME IInv, NEW t \in Threads, PassBy(t)
  PROVE  IInv'
<1>1. PICK F, P, B : Shape(F, P, B)
  BY DEF IInv
<1>2. Running(t, "visit") /\ InUse(t, program)
  BY RunIs DEF PassBy
<1>3. /\ exit = "running" /\ limit \in [Threads -> Nat] /\ todo \in [Threads -> Seq(F)]
      /\ seen \subseteq F /\ FramesOk(stack[t], F, Pending(heap, P, Level))
  BY <1>1, <1>2, TaskIs
<1>4. /\ Moves(t, pc, pc', "idle") /\ Moves(t, cur, cur', cur[t]) /\ Moves(t, at, at', 0)
  BY DEF PassBy, Goto, Moves
<1>5. ThreadOk("idle", cur[t], stack[t], 0, F, Pending(heap, P, Level), Many)
  BY <1>3 DEF ThreadOk
<1>6. Stored(F, P)
      /\ UNCHANGED <<static, nextFree, itrs, fresh, limit, program, stack, exit, todo, seen>>
  BY DEF PassBy, Stored
<1> QED BY <1>1, <1>2, <1>3, <1>4, <1>5, <1>6, TaskStep DEF Steps

LEMMA ClaimStep ==
  ASSUME IInv, NEW t \in Threads, Claim(t)
  PROVE  IInv'
<1>1. PICK F, P, B : Shape(F, P, B)
  BY DEF IInv
<1>2. Running(t, "visit") /\ InUse(t, program)
  BY RunIs DEF Claim
<1>3. /\ exit = "running" /\ limit \in [Threads -> Nat] /\ todo \in [Threads -> Seq(F)]
      /\ seen \subseteq F /\ FramesOk(stack[t], F, Pending(heap, P, Level)) /\ at[t] \in F \cup {0}
  BY <1>1, <1>2, TaskIs
<1>4. at[t] \in F /\ seen' \subseteq F
  BY <1>3 DEF Claim
<1>5. /\ Moves(t, pc, pc', "read") /\ Moves(t, cur, cur', cur[t]) /\ Moves(t, at, at', at[t])
  BY DEF Claim, Goto, Moves
<1>6. ThreadOk("read", cur[t], stack[t], at[t], F, Pending(heap, P, Level), Many)
  BY <1>3, <1>4 DEF ThreadOk
<1>7. Stored(F, P) /\ UNCHANGED <<static, nextFree, itrs, fresh, limit, program, stack, exit, todo>>
  BY DEF Claim, Stored
<1> QED BY <1>1, <1>2, <1>3, <1>4, <1>5, <1>6, <1>7, TaskStep DEF Steps

LEMMA ReadStep ==
  ASSUME IInv, NEW t \in Threads, Read(t)
  PROVE  IInv'
<1> DEFINE cell == heap[at[t]]
<1>1. PICK F, P, B : Shape(F, P, B)
  BY DEF IInv
<1> DEFINE A == Pending(heap, P, Level)
<1>2. Running(t, "read") /\ InUse(t, program)
  BY RunIs DEF Read
<1>3. /\ exit = "running" /\ limit \in [Threads -> Nat] /\ todo \in [Threads -> Seq(F)]
      /\ seen \subseteq F /\ FramesOk(stack[t], F, A) /\ at[t] \in F /\ book # <<>>
  BY <1>1, <1>2, TaskIs
<1>4. Term(cell, F, A, Many)
  BY <1>1, <1>3, CellsAre
<1>5. Moves(t, cur, cur', cell) /\ Moves(t, at, at', at[t])
  BY DEF Read, To, Moves
<1>6. Stored(F, P) /\ UNCHANGED <<static, nextFree, itrs, fresh, program, stack, exit, todo, seen>>
  BY DEF Read, Stored
<1>7. CASE cell.tag \in Values
  <2>1. Moves(t, pc, pc', "below") /\ limit' = limit
    BY <1>7 DEF Read, Goto, Moves
  <2>2. cell.tag # "APP"
    BY <1>7 DEF Values, Names, Mats, Ctrs, Ctr
  <2>3. Firm(cell, F, A)
    BY <1>4, <2>2, NotZero
  <2> HIDE DEF cell
  <2>4. ThreadOk("below", cell, stack[t], at[t], F, A, Many)
    BY <1>3, <2>3 DEF ThreadOk
  <2> QED BY <1>1, <1>2, <1>3, <1>5, <1>6, <2>1, <2>4, TaskStep DEF Steps
<1>8. CASE cell.tag \notin Values
  <2>1. /\ Moves(t, pc, pc', "enter")
        /\ limit' = IF program.steps THEN [limit EXCEPT ![t] = itrs[t] + 1] ELSE limit
    BY <1>8 DEF Read, Goto, Moves
  <2>2. limit' \in [Threads -> Nat]
    <3>1. itrs[t] \in Nat
      BY DEF IInv, Counts
    <3> QED BY <1>3, <2>1, <3>1
  <2> HIDE DEF cell
  <2>3. ThreadOk("enter", cell, stack[t], at[t], F, A, Many)
    BY <1>3, <1>4 DEF ThreadOk
  <2> QED BY <1>1, <1>2, <1>3, <1>5, <1>6, <2>1, <2>2, <2>3, TaskStep DEF Steps
<1> QED BY <1>7, <1>8

LEMMA BackStep ==
  ASSUME IInv, NEW t \in Threads, Back(t)
  PROVE  IInv'
<1>1. PICK F, P, B : Shape(F, P, B)
  BY DEF IInv
<1> DEFINE A == Pending(heap, P, Level)
<1>2. Running(t, "returned") /\ InUse(t, program)
  BY RunIs DEF Back
<1>3. /\ exit = "running" /\ limit \in [Threads -> Nat] /\ todo \in [Threads -> Seq(F)]
      /\ seen \subseteq F /\ FramesOk(stack[t], F, A) /\ at[t] \in F /\ Firm(cur[t], F, A)
  BY <1>1, <1>2, TaskIs
<1>4. Moves(t, cur, cur', cur[t]) /\ Moves(t, at, at', at[t])
  BY DEF Back, Moves
<1>5. UNCHANGED <<static, nextFree, itrs, fresh, program, stack, exit, todo, seen>>
  BY DEF Back
<1>6. Stored(F, P)
  <2>1. heap' = heap \/ heap' = Put(heap, at[t], cur[t])
    BY DEF Back, Put
  <2> QED BY <1>3, <2>1 DEF Stored, Term
<1>7. itrs[t] \in Nat
  BY DEF IInv, Counts
<1>8. \/ Goto(t, "enter") /\ limit' = [limit EXCEPT ![t] = itrs[t] + 1]
      \/ Goto(t, "below") /\ limit' = [limit EXCEPT ![t] = 0]
  BY DEF Back
<1>9. limit' \in [Threads -> Nat]
  BY <1>3, <1>7, <1>8
<1>10. PICK step \in {"enter", "below"} : Goto(t, step)
  BY <1>8
<1>11. Moves(t, pc, pc', step) /\ step \in Steps
  BY <1>10 DEF Goto, Moves, Steps
<1>12. ThreadOk(step, cur[t], stack[t], at[t], F, A, Many)
  BY <1>3 DEF ThreadOk, Term
<1> QED BY <1>1, <1>2, <1>3, <1>4, <1>5, <1>6, <1>9, <1>11, <1>12, TaskStep

LEMMA ListIs ==
  ASSUME NEW F, NEW m, m \in Nat, NEW f, f \in [1..m -> F]
  PROVE  f \in Seq(F)
OBVIOUS

LEMMA ChildrenStep ==
  ASSUME IInv, NEW t \in Threads, Children(t)
  PROVE  IInv'
<1> DEFINE w == cur[t]
           n == Arity(w)
           others == [i \in 1..(n - 1) |-> w.val + n - i]
           s == todo[t] \o others
<1>1. PICK F, P, B : Shape(F, P, B)
  BY DEF IInv
<1> DEFINE A == Pending(heap, P, Level)
<1>2. Running(t, "below") /\ InUse(t, program)
  BY RunIs DEF Children
<1>3. /\ exit = "running" /\ limit \in [Threads -> Nat] /\ todo \in [Threads -> Seq(F)]
      /\ seen \subseteq F /\ FramesOk(stack[t], F, A) /\ book # <<>> /\ Firm(w, F, A)
  BY <1>1, <1>2, TaskIs
<1>4. n \in Nat
  BY ArityOf
<1>5. F \subseteq Nat \ {0}
  BY <1>1, <1>3, CellsAre
<1>6. (\A i \in 0..(n - 1) : w.val + i \in F) /\ (w.tag \in Dps => w.val \in F)
  BY <1>3, <1>5, Owns
<1>7. n > 0 => w.val \in Nat
  BY <1>3 DEF Firm
<1>8. others \in Seq(F)
  <2>1. \A i \in 1..(n - 1) : w.val + n - i \in F
    <3> SUFFICES ASSUME NEW i \in 1..(n - 1) PROVE w.val + n - i \in F
      OBVIOUS
    <3>1. n - i \in 0..(n - 1) /\ w.val + (n - i) = w.val + n - i
      BY <1>4, <1>7
    <3> QED BY <1>6, <3>1
  <2>2. others \in [1..(n - 1) -> F]
    BY <2>1
  <2>3. n > 0 => n - 1 \in Nat
    BY <1>4
  <2>4. CASE n > 0
    <3>1. n - 1 \in Nat
      BY <2>3, <2>4
    <3> HIDE DEF n, others
    <3> QED BY <2>2, <3>1, ListIs
  <2>5. CASE n = 0
    <3>1. 1..(n - 1) = 1..0
      BY <2>5
    <3>2. others \in [1..0 -> F]
      BY <2>2, <3>1
    <3> HIDE DEF n, others
    <3> QED BY <3>2, ListIs
  <2> QED BY <1>4, <2>4, <2>5
<1>9. todo' = [todo EXCEPT ![t] = s]
  BY DEF Children
<1>10. s \in Seq(F)
  BY <1>3, <1>8, ConcatProperties
<1> HIDE DEF s, others
<1>11. todo' \in [Threads -> Seq(F)]
         /\ \A u \in Threads : todo[u] = <<>> => u = t \/ todo'[u] = <<>>
  BY <1>3, <1>9, <1>10
<1>12. Moves(t, cur, cur', Zero)
  BY DEF Children, To, Moves
<1>13. Stored(F, P)
       /\ UNCHANGED <<static, nextFree, itrs, fresh, limit, program, stack, exit, seen>>
  BY DEF Children, Stored
<1>14. CASE n = 0 /\ w.tag \notin Dps
  <2>1. Moves(t, pc, pc', "idle") /\ Moves(t, at, at', 0)
    BY <1>14 DEF Children, Goto, Moves
  <2>2. ThreadOk("idle", Zero, stack[t], 0, F, A, Many)
    BY <1>3 DEF ThreadOk
  <2> QED BY <1>1, <1>2, <1>3, <1>11, <1>12, <1>13, <2>1, <2>2, TaskStep DEF Steps
<1>15. CASE ~ (n = 0 /\ w.tag \notin Dps)
  <2>1. Moves(t, pc, pc', "visit") /\ Moves(t, at, at', w.val)
    BY <1>15 DEF Children, Visit, Goto, Moves
  <2>2. w.val \in F
    <3>1. CASE n > 0
      <4>1. 0 \in 0..(n - 1) /\ w.val + 0 = w.val
        BY <1>4, <1>7, <3>1
      <4> QED BY <1>6, <4>1
    <3> QED BY <1>4, <1>6, <1>15, <3>1
  <2>3. ThreadOk("visit", Zero, stack[t], w.val, F, A, Many)
    BY <1>3 DEF ThreadOk
  <2> QED BY <1>1, <1>2, <1>3, <1>11, <1>12, <1>13, <2>1, <2>2, <2>3, TaskStep DEF Steps
<1> QED BY <1>14, <1>15

LEMMA TasksStep ==
  ASSUME IInv, NEW t \in Threads, Tasks(t)
  PROVE  IInv' \/ UNCHANGED vars
<1>1. CASE ReadWait(t)
  BY <1>1 DEF ReadWait
<1> QED BY <1>1, PopStep, StealStep, PassByStep, ClaimStep, ReadStep, BackStep, ChildrenStep
        DEF Tasks

-----------------------------------------------------------------------------
(* The start and the end.                                                  *)

\* The first thread has a bank.
LEMMA FirstIs ==
  ASSUME IInv
  PROVE  0 \in Threads /\ InUse(0, program) /\ \A t \in Threads : t \in Nat
BY ProgramAssumption, WnfAssumption DEF IInv, Banks, Threads, InUse

LEMMA StutterStep ==
  ASSUME IInv, UNCHANGED vars
  PROVE  IInv'
<1>1. UNCHANGED <<threads, book, heap, nextFree, end, itrs, fresh, limit, pc, cur, stack, exit>>
      /\ UNCHANGED <<program, root, at, was, todo, seen>>
  BY DEF vars, wnfVars, taskVars
<1>2. Banks'
  BY <1>1 DEF IInv, Banks, Bank, Threads
<1>3. Loaded' /\ Counts' /\ exit' \in Exits'
  BY <1>1 DEF IInv, Loaded, Counts, Exits, Threads
<1>4. PICK F, P, B : Shape(F, P, B)
  BY DEF IInv
<1>5. Level' = Level /\ Still' = Still /\ Many' = Many /\ Threads' = Threads /\ Steps' = Steps
  BY <1>1 DEF Level, Still, Many, Threads, Steps
<1>6. Shape(F, P, B)'
  BY <1>1, <1>4, <1>5 DEF Shape, InUse
<1> QED BY <1>2, <1>3, <1>6 DEF IInv

\* The invariant holds of the initial states.
LEMMA InitInv == Init => IInv
<1> SUFFICES ASSUME Init PROVE IInv
  OBVIOUS
<1>1. program.threads \in Nat \ {0} /\ program.threads <= program.words /\ program.words \in Nat
      /\ \A t \in Threads : InUse(t, program) => t \in 0..(program.threads - 1)
  BY ProgramAssumption, WnfAssumption DEF Init, InUse, Threads
<1>2. \A t \in Threads : InUse(t, program) =>
        /\ BankStart(t, program) \in Nat \ {0} /\ BankEnd(t, program) \in Nat
        /\ BankStart(t, program) <= BankEnd(t, program)
  BY <1>1, BankIs
<1>3. /\ program \in Programs /\ threads = program.threads
      /\ nextFree = [t \in Threads |-> IF InUse(t, program) THEN BankStart(t, program) ELSE 0]
      /\ end = [t \in Threads |-> IF InUse(t, program) THEN BankEnd(t, program) ELSE 0]
      /\ heap = <<>> /\ book = <<>>
  BY DEF Init
<1>4. \A t \in Threads : InUse(t, program) => Bank(t) = {}
  <2> SUFFICES ASSUME NEW t \in Threads, InUse(t, program) PROVE Bank(t) = {}
    OBVIOUS
  <2>1. nextFree[t] = BankStart(t, program) /\ BankStart(t, program) \in Nat
    BY <1>2, <1>3
  <2> QED BY <2>1 DEF Bank
<1>5. Banks
  <2>1. DOMAIN heap = UNION {Bank(t) : t \in {t \in Threads : InUse(t, program)}}
    BY <1>3, <1>4
  <2>2. nextFree \in [Threads -> Nat]
    BY <1>2, <1>3
  <2>3. \A t \in Threads :
          IF InUse(t, program) THEN BankStart(t, program) <= nextFree[t] /\ nextFree[t] <= end[t]
          ELSE nextFree[t] = 0
    BY <1>2, <1>3
  <2> QED BY <1>3, <2>1, <2>2, <2>3 DEF Banks
<1>6. Loaded /\ Counts /\ exit \in Exits
  BY DEF Init, Loaded, Counts, Exits, ThreadFn
<1>7. Shape({}, {}, {})
  <2>1. /\ pc = [t \in Threads |-> "idle"] /\ cur = [t \in Threads |-> Zero]
        /\ stack = [t \in Threads |-> <<>>] /\ at = [t \in Threads |-> 0]
        /\ todo = [t \in Threads |-> <<>>] /\ seen = {}
    BY DEF Init, ThreadFn
  <2>2. \A A : FramesOk(<<>>, {}, A)
    <3>1. <<>> \in Seq({})
      OBVIOUS
    <3> QED BY <3>1 DEF FramesOk
  <2>3. \A A, m : ThreadOk("idle", Zero, <<>>, 0, {}, A, m)
    BY <2>2 DEF ThreadOk
  <2> QED BY <1>3, <2>1, <2>3 DEF Shape, Steps
<1> QED BY <1>5, <1>6, <1>7 DEF IInv

LEMMA OneLeast == \A n \in Nat \ {0} : 1 <= n
OBVIOUS

LEMMA NoneIs == DOMAIN <<>> = {}
OBVIOUS

\* A program that is not loaded.
LEMMA RejectStep ==
  ASSUME IInv, book = <<>>, exit' \in {"rejected", "memory"},
         UNCHANGED <<static, heap, nextFree, itrs, fresh, limit, pc, cur, stack, taskVars>>
  PROVE  IInv'
<1>1. UNCHANGED <<threads, book, heap, nextFree, end, itrs, fresh, limit, pc, cur, stack>>
      /\ UNCHANGED <<program, root, at, was, todo, seen>>
  BY DEF static, taskVars
<1>2. Banks'
  BY <1>1 DEF IInv, Banks, Bank, Threads
<1>3. Loaded' /\ Counts' /\ exit' \in Exits'
  BY <1>1 DEF IInv, Loaded, Counts, Exits, Threads
<1>4. PICK F, P, B : Shape(F, P, B)
  BY DEF IInv
<1>5. Level' = Level /\ Still' = Still /\ Many' = Many /\ Threads' = Threads /\ Steps' = Steps
  BY <1>1 DEF Level, Still, Many, Threads, Steps
<1>6. Shape(F, P, B)'
  BY <1>1, <1>4, <1>5 DEF Shape, InUse
<1> QED BY <1>2, <1>3, <1>6 DEF IInv

\* The parser's state is the start of bank 0.
LEMMA InstallStep ==
  ASSUME IInv, exit = "loading", book = <<>>,
         NEW s, s = Image[program], s.error = "", Main \in DOMAIN s.book, s.next <= end[0],
         book' = s.book, heap' = s.heap, nextFree' = [nextFree EXCEPT ![0] = s.next],
         UNCHANGED <<threads, end, itrs, fresh, limit, pc, cur, stack, exit, taskVars>>
  PROVE  IInv'
<1>1. 0 \in Threads /\ InUse(0, program)
  BY FirstIs
<1>2. program \in Programs /\ StaticTerms(s, Levels[program]) /\ heap = <<>>
  BY ImageAssumption DEF IInv, Banks, Loaded
<1>3. s.next \in Nat \ {0} /\ DOMAIN s.heap = 1..(s.next - 1)
  BY <1>2, StaticIs
<1>4. UNCHANGED <<threads, end, itrs, fresh, limit, pc, cur, stack, exit, program, at, todo, seen>>
  BY DEF taskVars
<1>5. book' # <<>>
  BY NoneIs
<1>6. BankStart(0, program) = 1
  BY DEF BankStart
<1> DEFINE Use == {t \in Threads : InUse(t, program)}
<1>7. nextFree \in [Threads -> Nat] /\ 0 \in Use /\ \A t \in Use : Bank(t) = {}
  <2>1. DOMAIN heap = UNION {Bank(t) : t \in Use}
    BY DEF IInv, Banks
  <2>2. DOMAIN heap = {}
    BY <1>2, NoneIs
  <2> QED BY <1>1, <2>1, <2>2 DEF IInv, Banks
<1>8. \A t \in Use : t # 0 => Bank(t)' = {}
  <2> SUFFICES ASSUME NEW t \in Use, t # 0 PROVE Bank(t)' = {}
    OBVIOUS
  <2>1. nextFree'[t] = nextFree[t]
    BY <1>7
  <2>2. Bank(t)' = Bank(t)
    BY <1>4, <2>1 DEF Bank
  <2> QED BY <1>7, <2>2
<1>9. Bank(0)' = 1..(s.next - 1)
  <2>1. nextFree'[0] = s.next
    BY <1>1, <1>7
  <2> QED BY <1>4, <1>6, <2>1 DEF Bank
<1>10. Banks'
  <2>1. DOMAIN heap' = UNION {Bank(t)' : t \in Use}
    <3> HIDE DEF Use
    <3> QED BY <1>3, <1>7, <1>8, <1>9
  <2>2. (UNION {Bank(t) : t \in {t \in Threads : InUse(t, program)}})'
          = UNION {Bank(t)' : t \in Use}
    BY <1>4 DEF Threads, InUse
  <2>3. nextFree' \in [Threads -> Nat] /\ nextFree'[0] = s.next
        /\ \A t \in Threads : t # 0 => nextFree'[t] = nextFree[t]
    BY <1>1, <1>3, <1>7
  <2>4. \A t \in Threads :
          IF InUse(t, program) THEN BankStart(t, program) <= nextFree'[t] /\ nextFree'[t] <= end[t]
          ELSE nextFree'[t] = 0
    <3>1. \A t \in Threads :
            IF InUse(t, program) THEN BankStart(t, program) <= nextFree[t] /\ nextFree[t] <= end[t]
            ELSE nextFree[t] = 0
      BY DEF IInv, Banks
    <3>2. IF InUse(0, program) THEN BankStart(0, program) <= nextFree'[0] /\ nextFree'[0] <= end[0]
          ELSE nextFree'[0] = 0
      <4>1. 1 <= s.next
        BY <1>3, OneLeast, Zenon
      <4> QED BY <1>1, <1>6, <2>3, <4>1
    <3>3. \A t \in Threads : t # 0 =>
            IF InUse(t, program)
            THEN BankStart(t, program) <= nextFree'[t] /\ nextFree'[t] <= end[t]
            ELSE nextFree'[t] = 0
      BY <2>3, <3>1
    <3> QED BY <3>2, <3>3
  <2>5. program' \in Programs /\ threads' = program'.threads
        /\ end' = [t \in Threads |-> IF InUse(t, program') THEN BankEnd(t, program') ELSE 0]
    BY <1>4 DEF IInv, Banks
  <2> QED BY <1>4, <2>1, <2>2, <2>3, <2>4, <2>5 DEF Banks, Threads
<1>11. Loaded' /\ Counts' /\ exit' \in Exits'
  BY <1>4, <1>5 DEF IInv, Loaded, Counts, Exits, Threads
<1>12. PICK F, P, B : Shape(F, P, B)
  BY DEF IInv
<1>13. F = {} /\ P = {} /\ B = {}
  BY <1>12 DEF Shape
<1>14. Level' = Level /\ Still' = Still /\ Many' = Many /\ Threads' = Threads /\ Steps' = Steps
  BY <1>4 DEF Level, Still, Many, Threads, Steps
<1>15. Pending(heap', {}, Level) = Pending(heap, {}, Level)
  BY DEF Pending
<1>16. Formed(heap', {}, {}, {}, Level, Still, Many)
  <2>1. heap' = Still
    BY DEF Still
  <2>2. HeapOk(heap', {}, Pending(heap', {}, Level), Many)
    BY DEF HeapOk
  <2> QED BY <2>1, <2>2 DEF Formed
<1>17. Shape({}, {}, {})'
  BY <1>4, <1>5, <1>12, <1>13, <1>14, <1>15, <1>16 DEF Shape, InUse
<1> QED BY <1>10, <1>11, <1>17 DEF IInv

LEMMA LoadStep ==
  ASSUME IInv, Load
  PROVE  IInv'
<1> DEFINE s == Image[program]
<1>1. /\ exit = "loading" /\ book = <<>> /\ Install(s)
      /\ UNCHANGED <<threads, end, itrs, fresh, limit, pc, cur, stack, taskVars>>
  BY DEF Load
<1>2. CASE s.error # "" \/ Main \notin DOMAIN s.book \/ s.next > end[0]
  BY <1>1, <1>2, RejectStep DEF Install, static
<1>3. CASE ~ (s.error # "" \/ Main \notin DOMAIN s.book \/ s.next > end[0])
  <2>1. s.error = "" /\ Main \in DOMAIN s.book /\ ~ (s.next > end[0])
    BY <1>3
  <2>2. s.next <= end[0]
    <3>1. s.next \in Nat
      BY <2>1, ImageAssumption, StaticIs DEF IInv, Banks
    <3>2. end[0] \in Nat
      BY BankIs, FirstIs, ProgramAssumption, WnfAssumption DEF IInv, Banks, InUse, Threads
    <3>3. \A i, j \in Nat : ~ (i > j) => i <= j
      OBVIOUS
    <3> QED BY <2>1, <3>1, <3>2, <3>3
  <2>3. /\ book' = s.book /\ heap' = s.heap /\ nextFree' = [nextFree EXCEPT ![0] = s.next]
        /\ exit' = exit
    BY <1>1, <2>1 DEF Install
  <2> QED BY <1>1, <2>1, <2>2, <2>3, InstallStep
<1> QED BY <1>2, <1>3

LEMMA StartStep ==
  ASSUME IInv, Start
  PROVE  IInv'
<1> DEFINE k == nextFree[0]
           w == Word("REF", Main, 0)
           r == Step("enter", w, Write(k, w), 1, 0)
<1>1. 0 \in Threads /\ InUse(0, program)
  BY FirstIs
<1>2. /\ book # <<>>
      /\ UNCHANGED <<static, itrs, fresh, limit, pc, cur, stack, program, at, was, seen>>
  BY DEF Start
<1>3. PICK F, P, B : Shape(F, P, B)
  BY DEF IInv
<1> DEFINE A == Pending(heap, P, Level)
<1>4. /\ pc \in [Threads -> Steps] /\ DOMAIN cur = Threads /\ DOMAIN stack = Threads
      /\ at \in [Threads -> F \cup {0}] /\ todo \in [Threads -> Seq(F)] /\ seen \subseteq F
      /\ ThreadOk(pc[0], cur[0], stack[0], at[0], F, A, Many)
      /\ Formed(heap, F, P, B, Level, Still, Many)
  BY <1>1, <1>2, <1>3 DEF Shape
<1>5. Alone(0)
  BY <1>2, <1>4 DEF Alone
<1>6. Counts'
  BY <1>2 DEF IInv, Counts, Threads
<1>7. CASE k + 1 > end[0]
  <2>1. exit' \in Exits /\ UNCHANGED <<heap, nextFree, todo>>
    BY <1>7 DEF Start, Exits
  <2> QED BY <1>1, <1>2, <1>3, <1>4, <1>5, <1>6, <2>1, CellStep DEF Stored
<1>8. CASE ~ (k + 1 > end[0])
  <2>1. /\ heap' = Write(k, w) ++ heap /\ nextFree' = [nextFree EXCEPT ![0] = @ + 1]
        /\ todo' = [todo EXCEPT ![0] = <<k>>] /\ exit' = "running"
    BY <1>8 DEF Start
  <2>2. k \in Nat \ {0}
    BY <1>1, NextIs
  <2>3. k + 1 <= end[0]
    <3>1. end[0] \in Nat
      BY BankIs, <1>1, ProgramAssumption, WnfAssumption DEF IInv, Banks, InUse, Threads
    <3> QED BY <1>8, <2>2, <3>1
  <2>4. New(k, 1) \cap DOMAIN heap = {}
    BY <1>1, <2>3, FreeIs DEF IInv
  <2>5. r.words = 1 /\ r.writes = Write(k, w)
    BY DEF Step
  <2>6. Firm(w, F \cup New(k, 1), A)
    BY BuiltAtom, AtomTags
  <2>7. Sound(r, k, F, A, Many)
    <3>1. New(k, 1) = {k}
      BY <2>2 DEF New
    <3> HIDE DEF w
    <3>2. DOMAIN Write(k, w) = {k} /\ Write(k, w)[k] = w
      BY DEF Write
    <3>3. Term(w, F \cup New(k, 1), A, Many)
      BY <2>6 DEF Term
    <3>4. Writes(Write(k, w), DOMAIN Write(k, w), F \cup New(k, 1), A, Many)
      BY <3>1, <3>2, <3>3 DEF Writes
    <3> QED BY <3>1, <3>2, <3>3, <3>4 DEF Sound, Step
  <2> DEFINE G == F \cup New(k, 1)
             A2 == Pending(heap', P, Level)
  <2>8. \A l \in DOMAIN Level : Level[l] \in Nat
    BY <1>2, BookIs
  <2> HIDE DEF r, w, k
  <2>9. /\ DOMAIN heap' = DOMAIN heap \cup New(k, 1) /\ A \subseteq A2
        /\ Formed(heap', G, P, B, Level, Still, Many)
    <3>1. Filled(r, k, heap, F, P, B, Level, Still, Many)
      BY <1>4, <2>2, <2>4, <2>5, <2>7, <2>8, SoundForms
    <3> QED BY <2>1, <2>5, <3>1 DEF Filled
  <2>10. k \in G
    BY <2>2 DEF New
  <2>11. at' \in [Threads -> G \cup {0}] /\ todo' \in [Threads -> Seq(G)] /\ seen' \subseteq G
    <3>1. F \subseteq G
      OBVIOUS
    <3>2. <<k>> \in Seq(G)
      BY <2>10
    <3> HIDE DEF G
    <3>3. \A u \in Threads : todo[u] \in Seq(G)
      BY <1>4, <3>1, SeqMonotonic
    <3> QED BY <1>2, <1>4, <2>1, <3>1, <3>2, <3>3
  <2>12. \A u \in Threads : todo[u] = <<>> => u = 0 \/ todo'[u] = <<>>
    BY <1>4, <2>1
  <2>13. F \subseteq G
    OBVIOUS
  <2> HIDE DEF G
  <2>14. ThreadOk(pc'[0], cur'[0], stack'[0], at'[0], G, A2, Many)
    BY <1>2, <1>4, <2>9, <2>13, ThreadGrows
  <2>15. exit' \in Exits /\ pc' \in [Threads -> Steps]
    BY <1>2, <1>4, <2>1 DEF Exits
  <2>16. nextFree' = [nextFree EXCEPT ![0] = @ + 1] /\ nextFree[0] + 1 <= end[0]
         /\ DOMAIN heap' = DOMAIN heap \cup New(nextFree[0], 1) /\ UNCHANGED <<static, program>>
    BY <1>2, <2>1, <2>3, <2>9 DEF k
  <2> QED BY <1>1, <1>2, <1>3, <1>5, <1>6, <2>9, <2>11, <2>12, <2>13, <2>14, <2>15, <2>16,
            ThreadStep
<1> QED BY <1>7, <1>8

LEMMA FinishStep ==
  ASSUME IInv, Finish
  PROVE  IInv'
<1>1. 0 \in Threads /\ InUse(0, program)
  BY FirstIs
<1>2. exit' \in Exits /\ exit = "running"
      /\ UNCHANGED <<static, heap, nextFree, itrs, fresh, limit, pc, cur, stack>>
      /\ UNCHANGED taskVars
  BY DEF Finish, Exits
<1>3. PICK F, P, B : Shape(F, P, B)
  BY DEF IInv
<1>4. book # <<>> /\ Stored(F, P)
  BY <1>2 DEF IInv, Loaded, Stored
<1>5. /\ Moves(0, pc, pc', pc[0]) /\ Moves(0, cur, cur', cur[0])
      /\ Moves(0, stack, stack', stack[0])
  BY <1>2 DEF Moves
<1>6. pc[0] \in Steps /\ ThreadOk(pc[0], cur[0], stack[0], at[0], F, Pending(heap, P, Level), Many)
  BY <1>1, <1>3 DEF Shape
<1> QED BY <1>1, <1>2, <1>3, <1>4, <1>5, <1>6, MoveStep

\* Every step keeps it.
LEMMA NextInv ==
  ASSUME IInv, Safe, [Next]_vars
  PROVE  IInv'
<1>1. CASE UNCHANGED vars
  BY <1>1, StutterStep
<1>2. CASE Next
  <2>1. CASE Load
    BY <2>1, LoadStep
  <2>2. CASE Start
    BY <2>2, StartStep
  <2>3. CASE Finish
    BY <2>3, FinishStep
  <2>4. CASE Rest
    BY <2>4, StutterStep DEF Rest
  <2>5. ASSUME NEW t \in Threads, Tasks(t)
        PROVE  IInv'
    BY <2>5, TasksStep, StutterStep
  <2>6. ASSUME NEW t \in Threads, Machine(t)
        PROVE  IInv'
    BY <2>6, MachineStep, StutterStep
  <2> QED BY <1>2, <2>1, <2>2, <2>3, <2>4, <2>5, <2>6 DEF Next
<1> QED BY <1>1, <1>2

\* The number of threads never changes.
LEMMA ThreadsStay ==
  ASSUME [Next]_vars
  PROVE  threads' = threads
<1>1. CASE UNCHANGED vars
  BY <1>1 DEF vars, wnfVars
<1>2. CASE Load \/ Start \/ Finish \/ Rest
  BY <1>1, <1>2 DEF Load, Start, Finish, Rest, static
<1>3. ASSUME NEW t \in Threads, Tasks(t)
      PROVE  threads' = threads
  BY <1>1, <1>3 DEF Tasks, Pop, Steal, PassBy, Claim, Read, ReadWait, Back, Children, static
<1>4. ASSUME NEW t \in Threads, Enters(t)
      PROVE  threads' = threads
  BY <1>4 DEF Enters, EnterLimit, EnterVar, EnterCopy, EnterWait, EnterStrict, EnterUns,
       EnterRef, EnterAlo, EnterValue, Fire, static, wnfVars
<1>5. ASSUME NEW t \in Threads, Applies(t)
      PROVE  threads' = threads
  BY <1>5 DEF Applies, ApplyApp, ApplyMatch, ApplyData, ApplyMat, ApplyUse, ApplyCopy, ApplyOp2,
       ApplyOp2Left, ApplyOp2Right, ApplyEql, ApplyEqlLeft, ApplyEqlRight, ApplyDsu, ApplyDdu,
       ApplyAnd, ApplyOr, ApplyLimit, RebuildFrame, Rebuild, Return, Reduce, Descend, Fire, static
<1> QED BY <1>1, <1>2, <1>3, <1>4, <1>5 DEF Next, Machine

-----------------------------------------------------------------------------
(* What the invariant says.                                                *)

\* It says what a state is made of,
LEMMA InvType ==
  ASSUME IInv
  PROVE  TypeOK
<1>1. PICK F, P, B : Shape(F, P, B)
  BY DEF IInv
<1>2. F \subseteq DOMAIN heap
  BY <1>1 DEF Shape, Formed
<1>3. DOMAIN book \subseteq Nat /\ \A d \in DOMAIN book : book[d] \in DOMAIN heap
  <2>1. CASE book = <<>>
    BY <2>1, NoneIs
  <2>2. CASE book # <<>>
    <3>1. DOMAIN Still \subseteq DOMAIN heap
      BY <1>1, <2>2 DEF Shape, Formed
    <3> QED BY <2>2, <3>1, BookIs
  <2> QED BY <2>1, <2>2
<1>4. /\ pc \in [Threads -> Steps] /\ at \in [Threads -> F \cup {0}]
      /\ todo \in [Threads -> Seq(F)] /\ seen \subseteq F
  BY <1>1 DEF Shape
<1>5. \A t \in Threads : \A i \in DOMAIN todo[t] : todo[t][i] \in DOMAIN heap
  <2> SUFFICES ASSUME NEW t \in Threads, NEW i \in DOMAIN todo[t]
               PROVE  todo[t][i] \in DOMAIN heap
    OBVIOUS
  <2>1. todo[t] \in Seq(F)
    BY <1>4
  <2> QED BY <1>2, <2>1
<1>6. at \in [Threads -> DOMAIN heap \cup {0}] /\ seen \subseteq DOMAIN heap
  BY <1>2, <1>4
<1>7. itrs \in [Threads -> Nat] /\ limit \in [Threads -> Nat] /\ fresh \in Nat
  BY DEF IInv, Counts
<1>8. program \in Programs /\ threads = program.threads
  BY DEF IInv, Banks
<1> QED BY <1>3, <1>4, <1>5, <1>6, <1>7, <1>8 DEF TypeOK, Steps, IInv, Exits

\* that each bank is allocated by its owner alone, without gaps,
LEMMA InvBanks ==
  ASSUME IInv
  PROVE  BanksKept
<1>1. DOMAIN heap = UNION {BankStart(t, program)..(nextFree[t] - 1) :
                             t \in {t \in Threads : InUse(t, program)}}
  BY DEF IInv, Banks, Bank
<1>2. \A t \in Threads : nextFree[t] <= end[t]
  BY DEF IInv, Banks
<1> QED BY <1>1, <1>2 DEF BanksKept

\* The words that the parser wrote.
BookKept == book # <<>> => \A l \in DOMAIN Image[program].heap : heap[l] = Image[program].heap[l]

\* and that nobody writes the book.
LEMMA InvBook ==
  ASSUME IInv
  PROVE  BookKept
BY DEF IInv, Shape, Formed, Still, BookKept

\* With any number of threads the machine keeps its memory discipline, if no
\* thread evaluates the word of a cell that another one has taken and not given
\* back: everything a thread holds refers to allocated cells (TypeOK), every
\* bank is allocated without gaps up to its free index and within its slice, by
\* its owner alone (BanksKept; heap_alloc), and the words of the book are never
\* written (BookKept).
THEOREM ManyThreads ==
  Spec /\ [](threads > 1 => NotEmptied) => [](TypeOK /\ BanksKept /\ BookKept)
<1>1. Init => IInv
  BY InitInv
<1>2. IInv /\ Safe /\ [Next]_vars => IInv'
  BY NextInv
<1>3. IInv => TypeOK /\ BanksKept /\ BookKept
  BY InvType, InvBanks, InvBook
<1> QED BY <1>1, <1>2, <1>3, PTL DEF Spec, Safe

\* On one thread it keeps it without any condition: no rule of the machine, in
\* whatever order the rules come, writes outside of the terms and of what it
\* allocated itself.
THEOREM OneThread ==
  Spec => [](threads = 1 => TypeOK /\ BanksKept /\ BookKept)
<1> DEFINE One == threads = 1 => IInv
<1>1. Init => One
  BY InitInv
<1>2. One /\ [Next]_vars => One'
  <2> SUFFICES ASSUME One, [Next]_vars, threads' = 1 PROVE IInv'
    BY DEF One
  <2>1. threads = 1
    BY ThreadsStay
  <2>2. IInv /\ Safe
    BY <2>1 DEF Safe
  <2> QED BY <2>2, NextInv
<1>3. One => (threads = 1 => TypeOK /\ BanksKept /\ BookKept)
  BY InvType, InvBanks, InvBook
<1> QED BY <1>1, <1>2, <1>3, PTL DEF Spec
=================================================================================
