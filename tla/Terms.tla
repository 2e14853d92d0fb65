------------------------------- MODULE Terms --------------------------------
(***************************************************************************)
(* src/clang/term/: the 64-bit words that terms are made of.  A word has a *)
(* substitution bit, a tag, an 18-bit ext (a label, a name, an operation,  *)
(* a bind depth) and a val (a location or a number).  Numbers have NumBits *)
(* bits: 32 in the code.                                                   *)
(***************************************************************************)
EXTENDS Integers, Sequences, FiniteSets

CONSTANT NumBits

ASSUME TermsAssumption == NumBits \in 1..15

ExtSize == 262144    \* 2^18: EXT_BITS
Word(tag, ext, val) == [sub |-> FALSE, tag |-> tag, ext |-> ext % ExtSize, val |-> val]
Bare(t) == [sub |-> FALSE, tag |-> t.tag, ext |-> t.ext, val |-> t.val]
Subst(t) == [sub |-> TRUE, tag |-> t.tag, ext |-> t.ext, val |-> t.val]

Num(n) == Word("NUM", 0, n % 2^NumBits)
Era == Word("ERA", 0, 0)
At(tag, loc) == Word(tag, 0, loc)

\* The word 0 is a cell that heap_take has emptied: nothing else builds an
\* application of the node 0.
Zero == At("APP", 0)

\* The tags of constructors with 0, 1, ... 16 fields.
Ctr == <<"C00", "C01", "C02", "C03", "C04", "C05", "C06", "C07", "C08", "C09",
         "C10", "C11", "C12", "C13", "C14", "C15", "C16">>
Ctrs == {Ctr[i] : i \in DOMAIN Ctr}
Fields(tag) == (CHOOSE i \in DOMAIN Ctr : Ctr[i] = tag) - 1

\* symbols_init: the names of the constructors 1n+, <>, [], 0n and of characters.
SymSuc == 1
SymCon == 2
SymNil == 3
SymZer == 4
SymChr == 7

Dps == {"DP0", "DP1"}
Mats == {"MAT", "SWI"}
Names == {"NAM", "BJV", "BJ0", "BJ1"}

\* term_arity: the number of cells that a word owns at its val.
Arity(t) ==
  IF t.tag \in Ctrs THEN Fields(t.tag)
  ELSE IF t.tag \in {"DSU", "DDU"} THEN 3
  ELSE IF t.tag \in {"APP", "DRY", "SUP", "DUP", "OP2", "EQL", "AND", "OR"} \cup Mats
       THEN 2
  ELSE IF t.tag \in {"LAM", "USE", "UNS", "INC"} THEN 1 ELSE 0

Cells(t) == t.val..(t.val + Arity(t) - 1)

\* The words that wnf_at leaves as they are.
Values == {"DRY", "ERA", "SUP", "LAM", "NUM", "USE", "INC"} \cup Names \cup Mats \cup Ctrs

LamEra == 131072    \* 2^17: LAM_ERA_MASK
Erased(lam) == (lam.ext \div LamEra) % 2 = 1

\* term_op2_u32.  A shift by the width of a number or more is undefined in C;
\* here it is what an x86 build does.
Ops == <<"ADD", "SUB", "MUL", "DIV", "MOD", "AND", "OR", "XOR", "LSH", "RSH", "NOT",
         "EQ", "NE", "LT", "LE", "GT", "GE">>
Op(name) == (CHOOSE i \in DOMAIN Ops : Ops[i] = name) - 1
Test(b) == IF b THEN 1 ELSE 0

\* The positions of the bits of a number that are set, and the number with those.
Bits(n) == {i \in 0..(NumBits - 1) : (n \div 2^i) % 2 = 1}
OfBits(S) == CHOOSE n \in 0..(2^NumBits - 1) : Bits(n) = S

Op2U32(opr, a, b) ==
  LET op == Ops[opr + 1]
  IN CASE op = "ADD" -> a + b
       [] op = "SUB" -> a - b
       [] op = "MUL" -> a * b
       [] op = "DIV" -> IF b = 0 THEN 0 ELSE a \div b
       [] op = "MOD" -> IF b = 0 THEN 0 ELSE a % b
       [] op = "AND" -> OfBits(Bits(a) \cap Bits(b))
       [] op = "OR"  -> OfBits(Bits(a) \cup Bits(b))
       [] op = "XOR" -> OfBits((Bits(a) \ Bits(b)) \cup (Bits(b) \ Bits(a)))
       [] op = "LSH" -> a * (2^(b % NumBits))
       [] op = "RSH" -> a \div (2^(b % NumBits))
       [] op = "NOT" -> -1 - b
       [] op = "EQ"  -> Test(a = b)
       [] op = "NE"  -> Test(a # b)
       [] op = "LT"  -> Test(a < b)
       [] op = "LE"  -> Test(a <= b)
       [] op = "GT"  -> Test(a > b)
       [] op = "GE"  -> Test(a >= b)

\* term_clone_at: the two copies of the cell loc.
Copies(lab, loc) == [k0 |-> Word("DP0", lab, loc), k1 |-> Word("DP1", lab, loc)]

\* What a rule writes: a term into a cell, args into the cells from loc on, and
\* the writes f with the writes g, where f goes before g.
Write(loc, t) == [l \in {loc} |-> t]
f ++ g == [l \in DOMAIN f \cup DOMAIN g |-> IF l \in DOMAIN f THEN f[l] ELSE g[l]]
Node(loc, args) == [l \in loc..(loc + Len(args) - 1) |-> args[l - loc + 1]]
=============================================================================
