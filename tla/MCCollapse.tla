----------------------------- MODULE MCCollapse -----------------------------
(* The trees the runs collapse; a cfg names the one it takes.              *)
EXTENDS Collapse

Tag(t, l) == t[l][1]
Under(t, l) == Tail(t[l])
Leaf == <<"LEAF">>
Era == <<"ERA">>
Inc(l) == <<"INC", l>>
Sup(l, r) == <<"SUP", l, r>>

\* Two leaves at two depths, an erased branch and a priority wrapper:
\*   &{ &{a, inc b}, era }
Half == <<Leaf, Inc(1), Leaf, Sup(3, 2), Era, Sup(4, 5)>>

\* &{ &{a, era}, b }
Two == <<Leaf, Era, Leaf, Sup(1, 2), Sup(4, 3)>>

\* &{ &{a, b}, &{c, d} }: four tasks of one key, for buckets of two.
Four == <<Leaf, Leaf, Leaf, Leaf, Sup(1, 2), Sup(3, 4), Sup(5, 6)>>

\* Ten leaves at depths one to four, under up to two priority wrappers.
Ten == <<Leaf, Leaf, Leaf, Era, Sup(2, 1), Leaf, Leaf,
         Inc(3), Leaf, Leaf, Sup(5, 4), Sup(7, 6), Leaf, Sup(9, 8),
         Sup(14, 10), Inc(15), Inc(11), Sup(13, 12), Leaf, Inc(16), Sup(18, 17),
         Sup(20, 19), Sup(22, 21)>>

\* No limit is UINT64_MAX in the code: enough for a print batch of 64 here.
None == 100000
NoLimit == {None}
MCLimits == {1, None}
OneLimits == {1, 7, None}
OneLine == {1}
NineLines == {9}

Shape(t) == [l \in DOMAIN t |-> Tag(t, l)]
Branches(t) == [l \in DOMAIN t |-> Under(t, l)]

HalfLocs == DOMAIN Half
HalfKind == Shape(Half)
HalfKids == Branches(Half)
TwoLocs == DOMAIN Two
TwoKind == Shape(Two)
TwoKids == Branches(Two)
FourLocs == DOMAIN Four
FourKind == Shape(Four)
FourKids == Branches(Four)
TenLocs == DOMAIN Ten
TenKind == Shape(Ten)
TenKids == Branches(Ten)
=============================================================================
