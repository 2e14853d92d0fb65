----------------------------- MODULE CnfMeaning -----------------------------
(***************************************************************************)
(* What the result of src/clang/cnf/_.c means.  A term with superpositions *)
(* is a set of terms without, one for every choice of a side per label;    *)
(* this is the definition that the lifting of cnf_at must respect.         *)
(***************************************************************************)
EXTENDS Cnf

Labels == {Lab[l] : l \in {m \in Locs : Kind[m] = "SUP"}}
Choices == [Labels -> {1, 2}]

\* The term that t is under a choice; INC only orders the exploration.
RECURSIVE Denote(_, _)
Denote(t, c) ==
  LET sub == [i \in DOMAIN t.args |-> Denote(t.args[i], c)]
      node == IF Erased(sub) THEN Era ELSE Term(t.tag, t.at, sub)
  IN CASE t.tag = "AT"  -> Denote(Here(t.at), c)
       [] t.tag = "SUP" -> Denote(t.args[c[t.at]], c)
       [] t.tag = "CPY" -> Denote(t.args[1], [c EXCEPT ![t.at[1]] = t.at[2]])
       [] t.tag = "INC" -> Denote(t.args[1], c)
       [] t.tag \in {"LAM", "NODE"} -> node
       [] OTHER -> t

\* Collapsing in parallel keeps the meaning of a term: every field lands in its
\* place, an erased field erases the node, and superpositions with the same
\* label stay correlated when one of them is lifted over the other.
MeaningKept ==
  \A w \in Workers, c \in Choices : res[w] # None =>
    Denote(res[w], c) = Denote(At(root[w]), c)

\* Collapsed at every position: nothing to lift, to evaluate or to copy is left,
\* and no field lacks its result.
RECURSIVE Clean(_)
Clean(t) ==
  /\ t.tag \in {"LAM", "NODE", "LEAF"}
  /\ \A i \in DOMAIN t.args : Clean(t.args[i])

\* "Output is either SUP/ERA/INC at the root with arbitrary fields, or a term
\* with no SUP/ERA/INC at any position" (src/clang/cnf/_.c:3).  A result that is
\* plain at the root has come from fields that several workers collapsed, and is
\* plain and complete at every position.
HeadOrClean ==
  \A w \in Workers : res[w] # None =>
    res[w].tag \in {"SUP", "ERA", "INC"} \/ Clean(res[w])
=============================================================================
