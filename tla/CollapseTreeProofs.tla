-------------------------- MODULE CollapseTreeProofs --------------------------
(***************************************************************************)
(* The lines of Collapse, for any number of workers, size of the key queue *)
(* and tree: none is printed twice, whatever the workers push, pop and     *)
(* steal at the same time, and far from the limit none is lost before a    *)
(* worker tells the others to stop.                                        *)
(***************************************************************************)
EXTENDS CollapseProofs, WellFoundedInduction

-----------------------------------------------------------------------------
(* The leaves below a location, as the least set of locations that holds   *)
(* it and what is under all its members: the recursion that defines Below  *)
(* has this solution and no other.                                         *)

LEMMA LeastOf ==
  ASSUME NEW S \in SUBSET Nat, S # {}
  PROVE  \E m \in S : \A k \in S : m <= k
<1> DEFINE R == {p \in Nat \X Nat : p[1] < p[2]}
<1>1. IsWellFoundedOn(R, Nat)
  BY NatLessThanWellFounded DEF OpToRel
<1>2. \A m, k \in Nat : <<k, m>> \notin R => m <= k
  OBVIOUS
<1> HIDE DEF R
<1>3. \E m \in S : \A k \in S : ~(<<k, m>> \in R)
  BY <1>1, WFMin
<1> QED BY <1>2, <1>3

Closed(S) == \A l \in S : \A i \in DOMAIN Kids[l] : Kids[l][i] \in S
Under(a) == {l \in Locs : \A S \in SUBSET Locs : a \in S /\ Closed(S) => l \in S}

LEMMA KidsAre ==
  ASSUME NEW a \in Locs
  PROVE  /\ Kids[a] \in Seq(Locs) /\ Len(Kids[a]) \in Nat
         /\ DOMAIN Kids[a] = 1..Len(Kids[a])
         /\ \A i \in DOMAIN Kids[a] : Kids[a][i] \in Locs /\ Kids[a][i] < a
         /\ ToSet(Kids[a]) = {Kids[a][i] : i \in DOMAIN Kids[a]}
         /\ Kind[a] \in {"SUP", "INC", "ERA", "LEAF"}
         /\ Kind[a] = "SUP" => DOMAIN Kids[a] = {1, 2}
         /\ Kind[a] = "INC" => DOMAIN Kids[a] = {1}
         /\ Kind[a] \in {"ERA", "LEAF"} => DOMAIN Kids[a] = {}
<1>1. Kids[a] \in Seq(Locs) /\ Kind[a] \in {"SUP", "INC", "ERA", "LEAF"}
  BY CollapseAssumption
<1>2. Len(Kids[a]) \in Nat /\ DOMAIN Kids[a] = 1..Len(Kids[a])
  BY <1>1
<1>3. \A i \in DOMAIN Kids[a] : Kids[a][i] \in Locs /\ Kids[a][i] < a
  BY <1>1, <1>2, TreeAssumption
<1>4. /\ Kind[a] = "SUP" => Len(Kids[a]) = 2
      /\ Kind[a] = "INC" => Len(Kids[a]) = 1
      /\ Kind[a] \in {"ERA", "LEAF"} => Len(Kids[a]) = 0
  BY CollapseAssumption, TreeAssumption
<1>5. 1..2 = {1, 2} /\ 1..1 = {1} /\ 1..0 = {}
  OBVIOUS
<1>6. ToSet(Kids[a]) = {Kids[a][i] : i \in DOMAIN Kids[a]}
  BY DEF ToSet
<1> QED BY <1>1, <1>2, <1>3, <1>4, <1>5, <1>6

LEMMA UnderLeast ==
  ASSUME NEW a \in Locs, NEW S \in SUBSET Locs, a \in S, Closed(S)
  PROVE  Under(a) \subseteq S
BY DEF Under

LEMMA UnderIs ==
  ASSUME NEW a \in Locs
  PROVE  /\ a \in Under(a) /\ Closed(Under(a)) /\ Under(a) \subseteq Locs
         /\ \A l \in Under(a) : l <= a
<1>1. a \in Under(a) /\ Under(a) \subseteq Locs
  BY DEF Under
<1>2. Closed(Under(a))
  <2> SUFFICES ASSUME NEW l \in Under(a), NEW i \in DOMAIN Kids[l]
               PROVE  Kids[l][i] \in Under(a)
    BY DEF Closed
  <2>1. l \in Locs /\ Kids[l][i] \in Locs
    BY <1>1, KidsAre
  <2>2. \A S \in SUBSET Locs : a \in S /\ Closed(S) => Kids[l][i] \in S
    BY DEF Under, Closed
  <2> QED BY <2>1, <2>2 DEF Under
<1>3. \A l \in Under(a) : l <= a
  <2> DEFINE S == {l \in Locs : l <= a}
  <2>1. Closed(S)
    <3> SUFFICES ASSUME NEW l \in S, NEW i \in DOMAIN Kids[l]
                 PROVE  Kids[l][i] \in S
      BY DEF Closed
    <3>1. l \in Locs /\ l \in Nat /\ a \in Nat /\ l <= a
      BY TreeAssumption
    <3>2. Kids[l][i] \in Locs /\ Kids[l][i] \in Nat /\ Kids[l][i] < l
      BY <3>1, KidsAre, TreeAssumption
    <3> QED BY <3>1, <3>2
  <2>2. a \in S /\ S \in SUBSET Locs
    BY TreeAssumption
  <2> QED BY <2>1, <2>2, UnderLeast
<1> QED BY <1>1, <1>2, <1>3

LEMMA UnderSplit ==
  ASSUME NEW a \in Locs
  PROVE  Under(a) = {a} \cup UNION {Under(Kids[a][i]) : i \in DOMAIN Kids[a]}
<1> DEFINE S == {a} \cup UNION {Under(Kids[a][i]) : i \in DOMAIN Kids[a]}
<1>1. \A i \in DOMAIN Kids[a] : Kids[a][i] \in Locs
  BY KidsAre
<1>2. S \in SUBSET Locs /\ a \in S
  BY <1>1 DEF Under
<1>3. Closed(S)
  <2> SUFFICES ASSUME NEW l \in S, NEW i \in DOMAIN Kids[l]
               PROVE  Kids[l][i] \in S
    BY DEF Closed
  <2>1. CASE l = a
    <3>1. Kids[a][i] \in Under(Kids[a][i])
      BY <1>1, <2>1, UnderIs
    <3> QED BY <2>1, <3>1
  <2>2. CASE l # a
    <3>1. PICK j \in DOMAIN Kids[a] : l \in Under(Kids[a][j])
      BY <2>2
    <3>2. Kids[l][i] \in Under(Kids[a][j])
      BY <1>1, <3>1, UnderIs DEF Closed
    <3> QED BY <3>2
  <2> QED BY <2>1, <2>2
<1>4. Under(a) \subseteq S
  BY <1>2, <1>3, UnderLeast
<1>5. \A i \in DOMAIN Kids[a] : Under(Kids[a][i]) \subseteq Under(a)
  <2> TAKE i \in DOMAIN Kids[a]
  <2>1. Under(a) \in SUBSET Locs /\ Kids[a][i] \in Under(a) /\ Closed(Under(a))
    BY UnderIs DEF Closed
  <2> QED BY <1>1, <2>1, UnderLeast
<1>6. a \in Under(a)
  BY UnderIs
<1> QED BY <1>4, <1>5, <1>6

\* Two branches of one term have nothing in common.
LEMMA UnderApart ==
  ASSUME NEW a \in Locs, NEW i \in DOMAIN Kids[a], NEW j \in DOMAIN Kids[a], i # j
  PROVE  Under(Kids[a][i]) \cap Under(Kids[a][j]) = {}
<1> DEFINE x == Kids[a][i]
           y == Kids[a][j]
           S == Under(x) \ Under(y)
<1>1. x \in Locs /\ y \in Locs /\ x < a /\ y < a /\ a \in Nat /\ Locs \subseteq Nat
  BY KidsAre, TreeAssumption
<1>2. a \notin Under(x) /\ a \notin Under(y)
  <2>1. ASSUME NEW z \in Locs, z < a
        PROVE  a \notin Under(z)
    <3>1. z \in Nat /\ ~(a <= z)
      BY <1>1, <2>1
    <3> QED BY <3>1, UnderIs
  <2> HIDE DEF x, y
  <2> QED BY <1>1, <2>1
\* Whatever is under y is y, or comes to be there by its only parent.
<1>3. ASSUME NEW p \in Locs, NEW k \in DOMAIN Kids[p], Kids[p][k] \in Under(y), p \notin Under(y)
      PROVE  p = a /\ k = j
  <2>1. CASE Kids[p][k] = y
    BY <2>1, TreeAssumption
  <2>2. CASE Kids[p][k] # y
    <3> DEFINE T == Under(y) \ {Kids[p][k]}
    <3>1. T \in SUBSET Locs /\ y \in T
      BY <1>1, <2>2, UnderIs
    <3>2. Closed(T)
      <4> SUFFICES ASSUME NEW l \in T, NEW m \in DOMAIN Kids[l]
                   PROVE  Kids[l][m] \in T
        BY DEF Closed
      <4>1. l \in Locs /\ l \in Under(y) /\ Kids[l][m] \in Under(y)
        BY <1>1, UnderIs DEF Closed
      <4>2. l # p
        BY <1>3, <4>1
      <4>3. Kids[l][m] # Kids[p][k]
        BY <4>1, <4>2, TreeAssumption
      <4> QED BY <4>1, <4>3
    <3>3. Under(y) \subseteq T
      BY <1>1, <3>1, <3>2, UnderLeast
    <3> QED BY <1>3, <3>3
  <2> QED BY <2>1, <2>2
<1>4. x \notin Under(y)
  BY <1>2, <1>3
<1>5. S \in SUBSET Locs /\ x \in S
  BY <1>1, <1>4, UnderIs
<1>6. Closed(S)
  <2> SUFFICES ASSUME NEW l \in S, NEW m \in DOMAIN Kids[l]
               PROVE  Kids[l][m] \in S
    BY DEF Closed
  <2>1. l \in Locs /\ l \in Under(x) /\ l \notin Under(y) /\ Kids[l][m] \in Under(x)
    BY <1>1, UnderIs DEF Closed
  <2>2. l # a
    BY <1>2, <2>1
  <2> QED BY <1>3, <2>1, <2>2
<1>7. Under(x) \subseteq S
  BY <1>1, <1>5, <1>6, UnderLeast
<1> QED BY <1>7

LeavesUnder(a) == {l \in Under(a) : Kind[l] = "LEAF"}

LEMMA LeavesUnderStep ==
  ASSUME NEW a \in Locs
  PROVE  LeavesUnder(a) = IF Kind[a] = "LEAF" THEN {a}
                          ELSE UNION {LeavesUnder(k) : k \in ToSet(Kids[a])}
<1>1. CASE Kind[a] = "LEAF"
  <2>1. DOMAIN Kids[a] = {}
    BY <1>1, KidsAre
  <2>2. Under(a) = {a}
    BY <2>1, UnderSplit
  <2> QED BY <1>1, <2>2 DEF LeavesUnder
<1>2. CASE Kind[a] # "LEAF"
  <2>1. ToSet(Kids[a]) = {Kids[a][i] : i \in DOMAIN Kids[a]}
    BY KidsAre
  <2>2. UNION {LeavesUnder(k) : k \in ToSet(Kids[a])}
          = {l \in UNION {Under(Kids[a][i]) : i \in DOMAIN Kids[a]} : Kind[l] = "LEAF"}
    BY <2>1 DEF LeavesUnder
  <2> QED BY <1>2, <2>2, UnderSplit DEF LeavesUnder
<1> QED BY <1>1, <1>2

\* The recursion is well founded: Below is defined and is the leaves under.
LEMMA BelowIs == \A l \in Locs : Below[l] = LeavesUnder(l)
<1> DEFINE Solves(f) ==
             f = [l \in Locs |-> IF Kind[l] = "LEAF" THEN {l}
                                 ELSE UNION {f[k] : k \in ToSet(Kids[l])}]
<1>1. Solves([l \in Locs |-> LeavesUnder(l)])
  <2> DEFINE g == [l \in Locs |-> LeavesUnder(l)]
  <2>1. ASSUME NEW l \in Locs
        PROVE  g[l] = IF Kind[l] = "LEAF" THEN {l} ELSE UNION {g[k] : k \in ToSet(Kids[l])}
    <3>1. \A k \in ToSet(Kids[l]) : g[k] = LeavesUnder(k)
      BY KidsAre
    <3>2. UNION {g[k] : k \in ToSet(Kids[l])} = UNION {LeavesUnder(k) : k \in ToSet(Kids[l])}
      BY <3>1
    <3> QED BY <3>2, LeavesUnderStep
  <2>2. g = [l \in Locs |-> g[l]]
    OBVIOUS
  <2> HIDE DEF g
  <2>3. Solves(g)
    BY <2>1, <2>2
  <2> QED BY <2>3 DEF g
<1>2. Below = CHOOSE f : Solves(f)
  BY DEF Below
<1>3. Solves(Below)
  <2> HIDE DEF Solves
  <2> QED BY <1>1, <1>2
<1>4. \A l \in Locs : Below[l] = IF Kind[l] = "LEAF" THEN {l}
                                 ELSE UNION {Below[k] : k \in ToSet(Kids[l])}
  BY <1>3
<1> HIDE DEF Solves
<1> DEFINE D == {l \in Locs : Below[l] # LeavesUnder(l)}
<1> SUFFICES ASSUME D # {}
             PROVE  FALSE
  OBVIOUS
<1>5. PICK m \in D : \A k \in D : m <= k
  <2>1. D \in SUBSET Nat
    BY TreeAssumption
  <2> QED BY <2>1, LeastOf
<1>6. m \in Locs /\ Below[m] # LeavesUnder(m)
  OBVIOUS
<1>7. \A k \in ToSet(Kids[m]) : Below[k] = LeavesUnder(k)
  <2> SUFFICES ASSUME NEW k \in ToSet(Kids[m])
               PROVE  k \notin D /\ k \in Locs
    OBVIOUS
  <2>1. k \in Locs /\ k < m
    <3>1. PICK i \in DOMAIN Kids[m] : k = Kids[m][i]
      BY <1>6, KidsAre
    <3> QED BY <1>6, <3>1, KidsAre
  <2>2. k \in Nat /\ m \in Nat
    BY <1>6, <2>1, TreeAssumption
  <2> QED BY <1>5, <2>1, <2>2
<1> HIDE DEF D
<1>8. UNION {Below[k] : k \in ToSet(Kids[m])} = UNION {LeavesUnder(k) : k \in ToSet(Kids[m])}
  BY <1>7
<1> QED BY <1>4, <1>6, <1>8, LeavesUnderStep

LEMMA BelowKinds ==
  ASSUME NEW a \in Locs
  PROVE  /\ Below[a] \subseteq Locs /\ \A l \in Below[a] : Kind[l] = "LEAF"
         /\ Kind[a] = "LEAF" => Below[a] = {a}
         /\ Kind[a] = "ERA" => Below[a] = {}
         /\ Kind[a] = "INC" => Kids[a][1] \in Locs /\ Below[Kids[a][1]] = Below[a]
         /\ Kind[a] = "SUP" => /\ Kids[a][1] \in Locs /\ Kids[a][2] \in Locs
                               /\ Below[Kids[a][1]] \cup Below[Kids[a][2]] = Below[a]
                               /\ Below[Kids[a][1]] \cap Below[Kids[a][2]] = {}
<1>1. \A l \in Locs : Below[l] = LeavesUnder(l)
  BY BelowIs
<1>2. Below[a] \subseteq Locs /\ \A l \in Below[a] : Kind[l] = "LEAF"
  BY <1>1 DEF LeavesUnder, Under
<1>3. CASE Kind[a] = "LEAF"
  BY <1>1, <1>2, <1>3, LeavesUnderStep
<1>4. ASSUME Kind[a] # "LEAF"
      PROVE  Below[a] = UNION {Below[Kids[a][i]] : i \in DOMAIN Kids[a]}
  <2>1. /\ \A i \in DOMAIN Kids[a] : Below[Kids[a][i]] = LeavesUnder(Kids[a][i])
        /\ ToSet(Kids[a]) = {Kids[a][i] : i \in DOMAIN Kids[a]}
    BY <1>1, KidsAre
  <2>2. LeavesUnder(a) = UNION {LeavesUnder(k) : k \in ToSet(Kids[a])}
    BY <1>4, LeavesUnderStep
  <2> QED BY <1>1, <2>1, <2>2
<1>5. CASE Kind[a] = "ERA"
  <2>1. DOMAIN Kids[a] = {}
    BY <1>5, KidsAre
  <2> QED BY <1>2, <1>4, <1>5, <2>1
<1>6. CASE Kind[a] = "INC"
  <2>1. DOMAIN Kids[a] = {1} /\ Kids[a][1] \in Locs
    BY <1>6, KidsAre
  <2> QED BY <1>2, <1>4, <1>6, <2>1
<1>7. CASE Kind[a] = "SUP"
  <2>1. DOMAIN Kids[a] = {1, 2} /\ Kids[a][1] \in Locs /\ Kids[a][2] \in Locs
    BY <1>7, KidsAre
  <2>2. Below[a] = Below[Kids[a][1]] \cup Below[Kids[a][2]]
    BY <1>4, <1>7, <2>1
  <2>3. Under(Kids[a][1]) \cap Under(Kids[a][2]) = {}
    BY <2>1, UnderApart
  <2>4. Below[Kids[a][1]] \cap Below[Kids[a][2]] = {}
    BY <1>1, <2>1, <2>3 DEF LeavesUnder
  <2> QED BY <1>2, <1>7, <2>1, <2>2, <2>4
<1> QED BY <1>2, <1>3, <1>5, <1>6, <1>7, KidsAre

LEMMA LeavesFinite == IsFiniteSet(Leaves) /\ Leaves \subseteq Locs
<1>1. Root \in Locs /\ Root \in Nat
  BY CollapseAssumption, TreeAssumption
<1>2. Leaves \subseteq Locs
  BY <1>1, BelowKinds DEF Leaves
<1>3. \A l \in Leaves : l <= Root
  BY <1>1, BelowIs, UnderIs DEF Leaves, LeavesUnder
<1>4. IsFiniteSet(Leaves)
  BY <1>1, <1>2, <1>3, TreeAssumption, FS_BoundedSetOfNaturals
<1> QED BY <1>2, <1>4

-----------------------------------------------------------------------------
(* The places.                                                             *)

Due(a) == IF a = 0 THEN {} ELSE Below[a]
Loads == [Slots -> Locs \cup {0}]

LEMMA OnceIs ==
  ASSUME NEW load \in Loads, NEW out
  PROVE  Once(load, out) <=>
           /\ \A s \in Slots : Due(load[s]) \subseteq Leaves /\ Due(load[s]) \cap out = {}
           /\ \A s, t \in Slots : s # t => Due(load[s]) \cap Due(load[t]) = {}
BY DEF Once, Loaded, Due

\* Everything at a place after a step was at one before, and nothing at two
\* places after it comes from one line.
LEMMA Moved ==
  ASSUME NEW load \in Loads, NEW then \in Loads,
         NEW was \in [Slots -> Slots],
         \A s \in Slots : Due(then[s]) \subseteq Due(load[was[s]]),
         \A s, t \in Slots : s # t /\ was[s] = was[t] => Due(then[s]) \cap Due(then[t]) = {}
  PROVE  \A out : Once(load, out) => Once(then, out)
<1> SUFFICES ASSUME NEW out, Once(load, out)
             PROVE  Once(then, out)
  OBVIOUS
<1> HIDE DEF Loads
<1>1. /\ \A s \in Slots : Due(load[s]) \subseteq Leaves /\ Due(load[s]) \cap out = {}
      /\ \A s, t \in Slots : s # t => Due(load[s]) \cap Due(load[t]) = {}
  BY OnceIs
<1>2. \A s \in Slots : Due(then[s]) \subseteq Leaves /\ Due(then[s]) \cap out = {}
  BY <1>1
<1>3. ASSUME NEW s \in Slots, NEW t \in Slots, s # t
      PROVE  Due(then[s]) \cap Due(then[t]) = {}
  <2>1. CASE was[s] = was[t]
    BY <1>3, <2>1
  <2>2. CASE was[s] # was[t]
    BY <1>1, <2>2
  <2> QED BY <2>1, <2>2
<1> QED BY <1>2, <1>3, OnceIs

AllDue(load) == UNION {Due(load[s]) : s \in Slots}

\* What is at place a goes to place b.
LEMMA Handed ==
  ASSUME NEW load \in Loads, NEW then \in Loads, NEW a \in Slots, NEW b \in Slots, a # b,
         load[b] = 0, then[b] = load[a], then[a] = 0,
         \A s \in Slots \ {a, b} : then[s] = load[s]
  PROVE  /\ \A out : Once(load, out) => Once(then, out)
         /\ AllDue(load) \subseteq AllDue(then)
<1> DEFINE was == [s \in Slots |-> IF s = b THEN a ELSE s]
<1>1. was \in [Slots -> Slots] /\ \A s \in Slots : was[s] = IF s = b THEN a ELSE s
  OBVIOUS
<1> HIDE DEF was, Loads
<1>2. \A s \in Slots : Due(then[s]) \subseteq Due(load[was[s]])
  BY <1>1 DEF Due
<1>3. \A s, t \in Slots : s # t /\ was[s] = was[t] => Due(then[s]) \cap Due(then[t]) = {}
  BY <1>1 DEF Due
<1>4. \A out : Once(load, out) => Once(then, out)
  BY <1>1, <1>2, <1>3, Moved
<1>5. ASSUME NEW l \in AllDue(load)
      PROVE  l \in AllDue(then)
  <2>1. PICK s \in Slots : l \in Due(load[s])
    BY DEF AllDue
  <2>2. CASE s = a
    BY <2>1, <2>2 DEF AllDue
  <2>3. CASE s = b
    BY <2>1, <2>3 DEF Due
  <2>4. CASE s # a /\ s # b
    BY <2>1, <2>4 DEF AllDue
  <2> QED BY <2>2, <2>3, <2>4
<1> QED BY <1>4, <1>5

LEMMA SlotKinds ==
  /\ \A w \in Workers : /\ <<w, -1, 1>> \in Slots /\ <<w, -2, 1>> \in Slots
                        /\ \A c \in Q!Buckets, i \in 1..Cap : <<w, c, i>> \in Slots
  /\ \A s \in Slots : /\ s = <<s[1], s[2], s[3]>> /\ s[1] \in Workers
                      /\ \/ s[2] \in {-1, -2} /\ s[3] = 1
                         \/ s[2] \in Q!Buckets /\ s[3] \in 1..Cap
  /\ \A c \in Q!Buckets : c \in Int /\ c # -1 /\ c # -2
  /\ Cap \in Nat \ {0}
<1>1. \A c \in Q!Buckets : c \in Int /\ c # -1 /\ c # -2
  BY CollapseAssumption DEF Q!Buckets
<1> QED BY <1>1, CollapseAssumption DEF Slots

\* The oldest task of bucket c of v goes to the hand of w.
LEMMA Shifted ==
  ASSUME NEW load \in Loads, NEW then \in Loads,
         NEW v \in Workers, NEW c \in Q!Buckets, NEW w \in Workers,
         load[<<w, -1, 1>>] = 0, then[<<w, -1, 1>>] = load[<<v, c, 1>>],
         \A i \in 1..Cap : then[<<v, c, i>>] = IF i < Cap THEN load[<<v, c, i + 1>>] ELSE 0,
         \A s \in Slots : s # <<w, -1, 1>> /\ ~(s[1] = v /\ s[2] = c) => then[s] = load[s]
  PROVE  /\ \A out : Once(load, out) => Once(then, out)
         /\ AllDue(load) \subseteq AllDue(then)
<1> DEFINE h == <<w, -1, 1>>
           next(s) == IF s = h THEN <<v, c, 1>>
                      ELSE IF s[1] = v /\ s[2] = c /\ s[3] < Cap THEN <<v, c, s[3] + 1>> ELSE s
           was == [s \in Slots |-> next(s)]
<1>1. Cap \in Nat /\ 1 \in 1..Cap /\ c # -1 /\ h \in Slots /\ <<v, c, 1>> \in Slots
  <2>1. Cap \in Nat /\ 1 \in 1..Cap /\ c # -1
    BY SlotKinds
  <2> QED BY <2>1, SlotKinds
<1>0. \A s \in Slots : s # h /\ s[1] = v /\ s[2] = c => s[3] \in 1..Cap /\ s = <<v, c, s[3]>>
  BY <1>1, SlotKinds
<1>2. ASSUME NEW s \in Slots
      PROVE  /\ next(s) \in Slots
             /\ s # h /\ s[1] = v /\ s[2] = c =>
                  /\ s[3] \in 1..Cap /\ s = <<v, c, s[3]>>
                  /\ (s[3] < Cap => s[3] + 1 \in 1..Cap)
  <2>1. s # h /\ s[1] = v /\ s[2] = c => s[3] \in 1..Cap /\ s = <<v, c, s[3]>>
    BY <1>0
  <2>2. \A i \in 1..Cap : i < Cap => i + 1 \in 1..Cap
    BY <1>1
  <2>3. s # h /\ s[1] = v /\ s[2] = c /\ s[3] < Cap => <<v, c, s[3] + 1>> \in Slots
    BY <2>1, <2>2, SlotKinds
  <2> QED BY <1>1, <2>1, <2>2, <2>3
<1>3. was \in [Slots -> Slots] /\ \A s \in Slots : was[s] = next(s)
  BY <1>2
<1> HIDE DEF was, Loads
<1>4. \A s \in Slots : \/ then[s] = load[was[s]]
                       \/ then[s] = 0 /\ s = <<v, c, Cap>>
  <2> TAKE s \in Slots
  <2>1. CASE s = h
    BY <1>3, <2>1
  <2>2. CASE s # h /\ s[1] = v /\ s[2] = c /\ s[3] < Cap
    <3>1. s[3] \in 1..Cap /\ s = <<v, c, s[3]>> /\ was[s] = <<v, c, s[3] + 1>>
      BY <1>0, <1>3, <2>2
    <3>2. then[<<v, c, s[3]>>] = load[<<v, c, s[3] + 1>>]
      BY <2>2, <3>1
    <3> QED BY <3>1, <3>2
  <2>3. CASE s # h /\ s[1] = v /\ s[2] = c /\ ~(s[3] < Cap)
    <3>1. s[3] \in 1..Cap /\ s = <<v, c, s[3]>>
      BY <1>0, <2>3
    <3>2. s[3] = Cap
      BY <1>1, <2>3, <3>1
    <3>3. then[<<v, c, s[3]>>] = 0
      BY <2>3, <3>1
    <3> QED BY <3>1, <3>2, <3>3
  <2>4. CASE s # h /\ ~(s[1] = v /\ s[2] = c)
    <3>1. was[s] = s
      BY <1>3, <2>4
    <3> QED BY <2>4, <3>1
  <2> QED BY <2>1, <2>2, <2>3, <2>4
<1>5. \A s \in Slots : Due(then[s]) \subseteq Due(load[was[s]])
  BY <1>4 DEF Due
<1>6. ASSUME NEW s \in Slots, NEW t \in Slots, s # t, was[s] = was[t]
      PROVE  s = <<v, c, Cap>> \/ t = <<v, c, Cap>>
  <2>1. next(s) = next(t)
    BY <1>3, <1>6
  <2>2. CASE s = h
    <3>1. t # h /\ next(t) = <<v, c, 1>>
      BY <1>6, <2>1, <2>2
    <3>2. t[1] = v /\ t[2] = c
      BY <3>1
    <3>3. t[3] \in 1..Cap /\ t = <<v, c, t[3]>>
      BY <1>0, <3>1, <3>2
    <3>4. CASE t[3] < Cap
      <4>1. t[3] + 1 = 1
        BY <3>1, <3>2, <3>4
      <4> QED BY <3>3, <4>1
    <3>5. CASE ~(t[3] < Cap)
      BY <1>1, <3>3, <3>5
    <3> QED BY <3>4, <3>5
  <2>3. CASE t = h
    <3>1. s # h /\ next(s) = <<v, c, 1>>
      BY <1>6, <2>1, <2>3
    <3>2. s[1] = v /\ s[2] = c
      BY <3>1
    <3>3. s[3] \in 1..Cap /\ s = <<v, c, s[3]>>
      BY <1>0, <3>1, <3>2
    <3>4. CASE s[3] < Cap
      <4>1. s[3] + 1 = 1
        BY <3>1, <3>2, <3>4
      <4> QED BY <3>3, <4>1
    <3>5. CASE ~(s[3] < Cap)
      BY <1>1, <3>3, <3>5
    <3> QED BY <3>4, <3>5
  <2>4. CASE s # h /\ t # h
    <3>1. CASE s[1] = v /\ s[2] = c /\ t[1] = v /\ t[2] = c
      <4>1. /\ s[3] \in 1..Cap /\ s = <<v, c, s[3]>> /\ t[3] \in 1..Cap /\ t = <<v, c, t[3]>>
        BY <1>0, <2>4, <3>1
      <4>2. s[3] # t[3]
        BY <1>6, <4>1
      <4>3. ~(s[3] < Cap) => s[3] = Cap
        BY <1>1, <4>1
      <4>4. ~(t[3] < Cap) => t[3] = Cap
        BY <1>1, <4>1
      <4>5. s[3] < Cap /\ t[3] < Cap => FALSE
        <5> SUFFICES ASSUME s[3] < Cap, t[3] < Cap
                     PROVE  FALSE
          OBVIOUS
        <5>1. <<v, c, s[3] + 1>> = <<v, c, t[3] + 1>>
          BY <2>1, <2>4, <3>1
        <5>2. s[3] + 1 = t[3] + 1
          BY <5>1
        <5> QED BY <4>1, <4>2, <5>2
      <4> QED BY <4>1, <4>3, <4>4, <4>5
    <3>2. CASE ~(s[1] = v /\ s[2] = c) /\ ~(t[1] = v /\ t[2] = c)
      BY <1>6, <2>1, <2>4, <3>2
    <3>3. CASE s[1] = v /\ s[2] = c /\ ~(t[1] = v /\ t[2] = c)
      <4>1. next(t) = t
        BY <2>4, <3>3
      <4>2. next(s)[1] = v /\ next(s)[2] = c
        BY <2>4, <3>3
      <4> QED BY <2>1, <3>3, <4>1, <4>2
    <3>4. CASE ~(s[1] = v /\ s[2] = c) /\ t[1] = v /\ t[2] = c
      <4>1. next(s) = s
        BY <2>4, <3>4
      <4>2. next(t)[1] = v /\ next(t)[2] = c
        BY <2>4, <3>4
      <4> QED BY <2>1, <3>4, <4>1, <4>2
    <3> QED BY <3>1, <3>2, <3>3, <3>4
  <2> QED BY <2>2, <2>3, <2>4
<1>7. Due(then[<<v, c, Cap>>]) = {}
  <2>1. Cap \in 1..Cap /\ ~(Cap < Cap)
    BY <1>1
  <2> QED BY <2>1 DEF Due
<1>8. \A s, t \in Slots : s # t /\ was[s] = was[t] => Due(then[s]) \cap Due(then[t]) = {}
  BY <1>6, <1>7
<1>9. \A out : Once(load, out) => Once(then, out)
  <2>1. was \in [Slots -> Slots]
    BY <1>3
  <2> QED BY <2>1, <1>5, <1>8, Moved
<1>10. ASSUME NEW l \in AllDue(load)
       PROVE  l \in AllDue(then)
  <2>1. PICK s \in Slots : l \in Due(load[s])
    BY DEF AllDue
  <2>2. s # h
    BY <2>1 DEF Due
  <2>3. CASE s[1] = v /\ s[2] = c
    <3>1. s[3] \in 1..Cap /\ s = <<v, c, s[3]>>
      BY <1>0, <2>2, <2>3
    <3>2. CASE s[3] = 1
      <4>1. l \in Due(then[h])
        BY <2>1, <3>1, <3>2
      <4> QED BY <1>1, <4>1 DEF AllDue
    <3>3. CASE s[3] # 1
      <4>1. s[3] - 1 \in 1..Cap /\ s[3] - 1 < Cap /\ (s[3] - 1) + 1 = s[3]
        BY <1>1, <3>1, <3>3
      <4>2. then[<<v, c, s[3] - 1>>] = load[<<v, c, s[3]>>]
        BY <4>1
      <4>3. l \in Due(then[<<v, c, s[3] - 1>>]) /\ <<v, c, s[3] - 1>> \in Slots
        BY <2>1, <3>1, <4>1, <4>2, SlotKinds
      <4> QED BY <4>3 DEF AllDue
    <3> QED BY <3>2, <3>3
  <2>4. CASE ~(s[1] = v /\ s[2] = c)
    BY <2>1, <2>2, <2>4 DEF AllDue
  <2> QED BY <2>3, <2>4
<1> QED BY <1>9, <1>10

PlacesRight ==
  /\ Places \in Loads
  /\ \A w \in Workers : Places[<<w, -1, 1>>] = fr[w].x /\ Places[<<w, -2, 1>>] = Hand(wk[w])
  /\ \A w \in Workers, c \in Q!Buckets, i \in 1..Cap :
       Places[<<w, c, i>>] = IF i <= Len(bank[w][c]) THEN bank[w][c][i] ELSE 0

LEMMA PlacesAre == Types /\ WorkersFit => PlacesRight
<1> SUFFICES ASSUME Types, WorkersFit PROVE PlacesRight
  OBVIOUS
<1>1. \A w \in Workers : fr[w].x \in Locs \cup {0} /\ Hand(wk[w]) \in Locs \cup {0}
  <2> TAKE w \in Workers
  <2>1. fr[w] \in FrameIn /\ wk[w] \in WorkerIn /\ WorkerFits(wk[w], fr[w], bank[w])
    BY DEF Types, WorkersFit
  <2>2. fr[w].x \in Locs \cup {0} /\ wk[w].at \in Locs \cup {0}
    BY <2>1 DEF FrameIn, WorkerIn
  <2>3. CASE wk[w].pc = "second"
    <3>1. wk[w].at \in Locs /\ Kind[wk[w].at] = "SUP"
      BY <2>1, <2>2, <2>3 DEF WorkerFits, InHand
    <3>2. Kids[wk[w].at][2] \in Locs
      BY <3>1, BelowKinds
    <3> QED BY <2>2, <2>3, <3>2 DEF Hand
  <2>4. CASE wk[w].pc # "second"
    BY <2>2, <2>4 DEF Hand
  <2> QED BY <2>2, <2>3, <2>4
<1>2. ASSUME NEW w \in Workers, NEW c \in Q!Buckets, NEW i \in 1..Cap
      PROVE  (IF i <= Len(bank[w][c]) THEN bank[w][c][i] ELSE 0) \in Locs \cup {0}
  <2>1. bank[w][c] \in Seq(Locs)
    BY DEF Types
  <2>2. CASE i <= Len(bank[w][c])
    <3>1. Len(bank[w][c]) \in Nat /\ i \in 1..Len(bank[w][c])
      BY <2>1, <2>2, SlotKinds
    <3> QED BY <2>1, <2>2, <3>1
  <2> QED BY <2>2
<1>3. \A w \in Workers : Places[<<w, -1, 1>>] = fr[w].x /\ Places[<<w, -2, 1>>] = Hand(wk[w])
  <2> TAKE w \in Workers
  <2>1. <<w, -1, 1>> \in Slots /\ <<w, -2, 1>> \in Slots
    BY SlotKinds
  <2>2. Places[<<w, -1, 1>>] = fr[w].x
    BY <2>1 DEF Places, Load
  <2>3. Places[<<w, -2, 1>>] = Hand(wk[w])
    BY <2>1 DEF Places, Load
  <2> QED BY <2>2, <2>3
<1>4. \A w \in Workers, c \in Q!Buckets, i \in 1..Cap :
        Places[<<w, c, i>>] = IF i <= Len(bank[w][c]) THEN bank[w][c][i] ELSE 0
  BY SlotKinds DEF Places, Load
<1>5. ASSUME NEW s \in Slots
      PROVE  Places[s] \in Locs \cup {0}
  <2>1. PICK w, c, i : s = <<w, c, i>> /\ w \in Workers
                      /\ ((c \in {-1, -2} /\ i = 1) \/ (c \in Q!Buckets /\ i \in 1..Cap))
    BY SlotKinds
  <2>2. CASE c \in {-1, -2} /\ i = 1
    BY <1>1, <1>3, <2>1, <2>2
  <2>3. CASE c \in Q!Buckets /\ i \in 1..Cap
    BY <1>2, <1>4, <2>1, <2>3
  <2> QED BY <2>1, <2>2, <2>3
<1>6. Places = [s \in Slots |-> Places[s]]
  BY DEF Places, Load
<1>7. Places \in Loads
  <2> HIDE DEF Places
  <2> QED BY <1>5, <1>6 DEF Loads
<1> QED BY <1>3, <1>4, <1>7 DEF PlacesRight

LEMMA PlacesThen == (Types /\ WorkersFit)' => PlacesRight'
BY PlacesAre, PTL

LEMMA PlacesBoth ==
  ASSUME IInv, IInv'
  PROVE  PlacesRight /\ PlacesRight'
<1>1. Types /\ WorkersFit /\ (Types /\ WorkersFit)'
  BY DEF IInv
<1> QED BY <1>1, PlacesAre, PlacesThen

\* A step after which every place of the others is as before.
LEMMA FrameStep ==
  ASSUME IInv, IInv', bank' = bank, NEW w \in Workers,
         \A u \in Workers \ {w} : fr'[u].x = fr[u].x /\ Hand(wk'[u]) = Hand(wk[u])
  PROVE  LET x == fr[w].x
             h == Hand(wk[w])
             y == fr'[w].x
             k == Hand(wk'[w])
         IN  /\ Due(y) \cup Due(k) \subseteq Due(x) \cup Due(h) /\ Due(y) \cap Due(k) = {} =>
                  \A out : Once(Places, out) => Once(Places', out)
             /\ Due(x) \cup Due(h) \subseteq Due(y) \cup Due(k) =>
                  AllDue(Places) \subseteq AllDue(Places')
<1> DEFINE a == <<w, -1, 1>>
           b == <<w, -2, 1>>
<1>1. /\ Places \in Loads /\ Places' \in Loads /\ a \in Slots /\ b \in Slots /\ a # b
      /\ Places[a] = fr[w].x /\ Places[b] = Hand(wk[w])
      /\ Places'[a] = fr'[w].x /\ Places'[b] = Hand(wk'[w])
  BY PlacesBoth, SlotKinds DEF PlacesRight
<1>2. ASSUME NEW s \in Slots, s # a, s # b
      PROVE  Places'[s] = Places[s]
  <2>1. PICK u, c, i : s = <<u, c, i>> /\ u \in Workers
                      /\ ((c \in {-1, -2} /\ i = 1) \/ (c \in Q!Buckets /\ i \in 1..Cap))
    BY SlotKinds
  <2>2. CASE c \in {-1, -2} /\ i = 1
    <3>1. u # w
      BY <1>2, <2>1, <2>2
    <3>2. fr'[u].x = fr[u].x /\ Hand(wk'[u]) = Hand(wk[u])
      BY <2>1, <3>1
    <3>3. /\ Places[<<u, -1, 1>>] = fr[u].x /\ Places[<<u, -2, 1>>] = Hand(wk[u])
          /\ Places'[<<u, -1, 1>>] = fr'[u].x /\ Places'[<<u, -2, 1>>] = Hand(wk'[u])
      BY <2>1, PlacesBoth DEF PlacesRight
    <3>4. CASE c = -1
      BY <2>1, <2>2, <3>2, <3>3, <3>4
    <3>5. CASE c = -2
      BY <2>1, <2>2, <3>2, <3>3, <3>5
    <3> QED BY <2>2, <3>4, <3>5
  <2>3. CASE c \in Q!Buckets /\ i \in 1..Cap
    BY <2>1, <2>3, PlacesBoth DEF PlacesRight
  <2> QED BY <2>1, <2>2, <2>3
<1> HIDE DEF a, b
<1> DEFINE x == fr[w].x
           h == Hand(wk[w])
           y == fr'[w].x
           k == Hand(wk'[w])
<1>3. Places[a] = x /\ Places[b] = h /\ Places'[a] = y /\ Places'[b] = k
  BY <1>1
<1> HIDE DEF x, h, y, k
<1>4. ASSUME Due(y) \cup Due(k) \subseteq Due(x) \cup Due(h), Due(y) \cap Due(k) = {},
             NEW out, Once(Places, out)
      PROVE  Once(Places', out)
  <2>1. /\ \A s \in Slots : Due(Places[s]) \subseteq Leaves /\ Due(Places[s]) \cap out = {}
        /\ \A s, t \in Slots : s # t => Due(Places[s]) \cap Due(Places[t]) = {}
    BY <1>1, <1>4, OnceIs
  <2>2. \A s \in Slots \ {a, b} : /\ (Due(x) \cup Due(h)) \cap Due(Places[s]) = {}
                                /\ Places'[s] = Places[s]
    BY <1>1, <1>2, <1>3, <2>1
  <2>3. \A s \in Slots \ {a, b} : (Due(y) \cup Due(k)) \cap Due(Places'[s]) = {}
    BY <1>4, <2>2
  <2>4. /\ Due(y) \cup Due(k) \subseteq Leaves /\ (Due(y) \cup Due(k)) \cap out = {}
    BY <1>1, <1>3, <1>4, <2>1
  <2>5. \A s \in Slots : Due(Places'[s]) \subseteq Leaves /\ Due(Places'[s]) \cap out = {}
    BY <1>2, <1>3, <2>1, <2>4
  <2>6. ASSUME NEW s \in Slots, NEW t \in Slots, s # t
        PROVE  Due(Places'[s]) \cap Due(Places'[t]) = {}
    <3>1. CASE s \in {a, b} /\ t \in {a, b}
      BY <1>3, <1>4, <2>6, <3>1
    <3>2. CASE s \in {a, b} /\ t \notin {a, b}
      BY <1>3, <2>3, <3>2
    <3>3. CASE s \notin {a, b} /\ t \in {a, b}
      BY <1>3, <2>3, <3>3
    <3>4. CASE s \notin {a, b} /\ t \notin {a, b}
      BY <1>2, <2>1, <2>6, <3>4
    <3> QED BY <3>1, <3>2, <3>3, <3>4
  <2> QED BY <1>1, <2>5, <2>6, OnceIs
<1>5. ASSUME Due(x) \cup Due(h) \subseteq Due(y) \cup Due(k)
      PROVE  AllDue(Places) \subseteq AllDue(Places')
  <2> SUFFICES ASSUME NEW s \in Slots, NEW l \in Due(Places[s])
               PROVE  \E t \in Slots : l \in Due(Places'[t])
    BY DEF AllDue
  <2>1. CASE s \in {a, b}
    BY <1>1, <1>3, <1>5, <2>1
  <2>2. CASE s \notin {a, b}
    BY <1>2, <2>2
  <2> QED BY <2>1, <2>2
<1> QED BY <1>4, <1>5 DEF x, h, y, k

LEMMA SamePlaces ==
  ASSUME bank' = bank,
         \A u \in Workers : fr'[u].x = fr[u].x /\ Hand(wk'[u]) = Hand(wk[u])
  PROVE  Places' = Places
<1>1. \A s \in Slots : s[1] \in Workers
  BY SlotKinds
<1> QED BY <1>1 DEF Places, Load

-----------------------------------------------------------------------------
(* The steps of the queue.                                                 *)

\* The step leaves what is due where it is, or moves it.
Keeps ==
  /\ \A out : Once(Places, out) => Once(Places', out)
  /\ AllDue(Places) \subseteq AllDue(Places')

LEMMA QueueQuiet ==
  ASSUME IInv, NEW w \in Workers, Q!Step(w), wk' = wk,
         ~Q!PushWrite(w), ~Q!PopTake(w), ~Q!StealTake(w)
  PROVE  bank' = bank /\ Places' = Places
<1>1. /\ fr[w] \in FrameIn /\ fr \in [Workers -> FrameIn]
      /\ QueueFits(w, wk[w], fr[w], bank[w], mask[w]) /\ Workers = Q!Workers
  BY Here DEF Workers
<1>2. bank' = bank /\ \A u \in Workers : fr'[u].x = fr[u].x
  <2>1. CASE Q!MaskSet(w)
    <3>1. fr[w].op = "mask" /\ fr[w].x = 0 /\ bank' = bank
      BY <1>1, <2>1 DEF Q!MaskSet, QueueFits
    <3>2. CASE fr[w].from = w
      BY <1>1, <2>1, <3>1, <3>2 DEF Q!MaskSet, Q!Free, FrameIn
    <3>3. CASE fr[w].from # w
      <4>1. fr' = [fr EXCEPT ![w] = [@ EXCEPT !.op = "take", !.got = fr[w].got + 1]]
        BY <1>1, <2>1, <3>3 DEF Q!MaskSet
      <4> QED BY <1>1, <3>1, <4>1 DEF FrameIn
    <3> QED BY <3>1, <3>2, <3>3
  <2>2. CASE Q!StealStop(w) \/ Q!StealNone(w)
    <3>1. /\ fr[w].op \in {"take", "look"} /\ fr[w].x = 0 /\ bank' = bank
          /\ fr' = [fr EXCEPT ![w] = [Q!Free(w) EXCEPT !.op = "stolen", !.got = fr[w].got]]
      BY <1>1, <2>2 DEF Q!StealStop, Q!StealNone, Q!Stolen, QueueFits
    <3> QED BY <1>1, <3>1 DEF Q!Free
  <2>3. CASE Q!Crash(w)
    <3>1. bank' = bank /\ fr' = [v \in Workers |-> [fr[v] EXCEPT !.op = "dead"]]
      BY <1>1, <2>3 DEF Q!Crash
    <3>2. \A u \in Workers : fr[u] \in FrameIn
      BY <1>1
    <3>3. \A u \in Workers : [fr[u] EXCEPT !.op = "dead"].x = fr[u].x
      BY <3>2 DEF FrameIn
    <3> QED BY <3>1, <3>3
  <2>4. CASE Q!FullCheck(w)
    BY <1>1, <2>4 DEF Q!FullCheck, FrameIn
  <2>8. CASE Q!FullYes(w)
    BY <1>1, <2>8 DEF Q!FullYes, FrameIn
  <2>9. CASE Q!FullNo(w)
    BY <1>1, <2>9 DEF Q!FullNo, FrameIn
  <2>6. CASE Q!PopMiss(w)
    BY <1>1, <2>6 DEF Q!PopMiss, FrameIn
  <2>7. CASE Q!MaskClear(w)
    BY <1>1, <2>7 DEF Q!MaskClear, FrameIn
  <2>5. CASE Q!PopNone(w)
    BY <1>1, <2>5 DEF Q!PopNone, FrameIn
  <2>10. CASE Q!StealSkip(w)
    BY <1>1, <2>10 DEF Q!StealSkip, FrameIn
  <2>11. CASE Q!StealPick(w)
    BY <1>1, <2>11 DEF Q!StealPick, FrameIn
  <2>12. CASE Q!StealMiss(w)
    BY <1>1, <2>12 DEF Q!StealMiss, FrameIn
  <2> QED BY <2>1, <2>2, <2>3, <2>4, <2>5, <2>6, <2>7, <2>8, <2>9, <2>10, <2>11, <2>12 DEF Q!Step
<1> QED BY <1>2, SamePlaces

LEMMA PushWriteKeeps ==
  ASSUME IInv, IInv', Capped, NEW w \in Workers, Q!PushWrite(w), wk' = wk
  PROVE  Keeps /\ Capped'
<1>1. /\ fr[w] \in FrameIn /\ fr \in [Workers -> FrameIn] /\ Cap \in Nat
      /\ QueueFits(w, wk[w], fr[w], bank[w], mask[w])
      /\ bank \in [Workers -> [Q!Buckets -> Seq(Locs)]]
  BY Here, SlotKinds DEF IInv, Types
<1>2. PICK c \in Q!Buckets, x \in Locs : c = fr[w].b /\ x = fr[w].x
  BY <1>1 DEF Q!PushWrite, QueueFits, FrameIn
<1>3. /\ fr[w].op = "push" /\ bank' = [bank EXCEPT ![w][c] = Append(bank[w][c], x)]
      /\ fr' = [fr EXCEPT ![w] = [@ EXCEPT !.op = "mask", !.x = 0]] /\ ~(Len(bank[w][c]) >= Cap)
  BY <1>1, <1>2 DEF Q!PushWrite, Q!Put, Q!Full
<1> DEFINE q == bank[w][c]
           n == Len(q) + 1
           a == <<w, -1, 1>>
           b == <<w, c, n>>
<1>4. /\ q \in Seq(Locs) /\ Append(q, x) \in Seq(Locs) /\ Len(q) \in Nat /\ n \in 1..Cap
      /\ Len(Append(q, x)) = n /\ Append(q, x)[n] = x
      /\ \A i \in 1..Len(q) : Append(q, x)[i] = q[i]
  BY <1>1, <1>2, <1>3
<1>5. /\ bank'[w][c] = Append(q, x)
      /\ \A u \in Workers, d \in Q!Buckets : u # w \/ d # c => bank'[u][d] = bank[u][d]
  BY <1>1, <1>3, <1>4, OneBucket
<1>6. Capped'
  BY <1>4, <1>5 DEF Capped
<1>7. fr'[w].x = 0 /\ \A u \in Workers \ {w} : fr'[u].x = fr[u].x
  BY <1>1, <1>3 DEF FrameIn
<1>8. /\ Places \in Loads /\ Places' \in Loads /\ a \in Slots /\ b \in Slots /\ a # b
      /\ Places[a] = x /\ Places'[a] = 0
  BY <1>2, <1>4, <1>7, PlacesBoth, SlotKinds DEF PlacesRight
<1>9. Places[b] = 0 /\ Places'[b] = x
  <2>1. ~(n <= Len(q)) /\ n <= Len(bank'[w][c])
    BY <1>4, <1>5
  <2> QED BY <1>4, <1>5, <2>1, PlacesBoth DEF PlacesRight
<1>10. ASSUME NEW s \in Slots \ {a, b}
       PROVE  Places'[s] = Places[s]
  <2>1. PICK u, d, i : s = <<u, d, i>> /\ u \in Workers
                      /\ ((d \in {-1, -2} /\ i = 1) \/ (d \in Q!Buckets /\ i \in 1..Cap))
    BY SlotKinds
  <2>2. CASE d = -1 /\ i = 1
    <3>1. u # w
      BY <2>1, <2>2
    <3>2. fr'[u].x = fr[u].x
      BY <1>7, <2>1, <3>1
    <3>3. Places[<<u, -1, 1>>] = fr[u].x /\ Places'[<<u, -1, 1>>] = fr'[u].x
      BY <2>1, PlacesBoth DEF PlacesRight
    <3> QED BY <2>1, <2>2, <3>2, <3>3
  <2>3. CASE d = -2 /\ i = 1
    BY <2>1, <2>3, PlacesBoth DEF PlacesRight
  <2>4. CASE d \in Q!Buckets /\ i \in 1..Cap
    <3>1. /\ Places[s] = IF i <= Len(bank[u][d]) THEN bank[u][d][i] ELSE 0
          /\ Places'[s] = IF i <= Len(bank'[u][d]) THEN bank'[u][d][i] ELSE 0
      BY <2>1, <2>4, PlacesBoth DEF PlacesRight
    <3>2. CASE u # w \/ d # c
      BY <1>5, <2>1, <2>4, <3>1, <3>2
    <3>3. CASE u = w /\ d = c
      <4>1. i # n /\ i \in Nat /\ 1 <= i
        BY <2>1, <2>4, <3>3
      <4>2. i <= n <=> i <= Len(q)
        BY <1>4, <4>1
      <4>3. i <= Len(q) => Append(q, x)[i] = q[i]
        BY <1>4, <4>1
      <4>4. bank[u][d] = q /\ bank'[u][d] = Append(q, x)
        BY <1>5, <3>3
      <4> HIDE DEF q, n
      <4> QED BY <1>4, <3>1, <4>2, <4>3, <4>4
    <3> QED BY <3>2, <3>3
  <2> QED BY <2>1, <2>2, <2>3, <2>4
<1> HIDE DEF a, b
<1> QED BY <1>6, <1>8, <1>9, <1>10, Handed DEF Keeps

\* A task of bucket c of v goes to the hand of w: the other places.
LEMMA OthersStay ==
  ASSUME IInv, IInv', NEW w \in Workers, NEW v \in Workers, NEW c \in Q!Buckets, wk' = wk,
         \A u \in Workers \ {w} : fr'[u].x = fr[u].x,
         \A u \in Workers, d \in Q!Buckets : u # v \/ d # c => bank'[u][d] = bank[u][d]
  PROVE  \A s \in Slots : s # <<w, -1, 1>> /\ ~(s[1] = v /\ s[2] = c) => Places'[s] = Places[s]
<1> SUFFICES ASSUME NEW s \in Slots, s # <<w, -1, 1>>, ~(s[1] = v /\ s[2] = c)
             PROVE  Places'[s] = Places[s]
  OBVIOUS
<1>1. PICK u, d, i : s = <<u, d, i>> /\ u \in Workers
                    /\ ((d \in {-1, -2} /\ i = 1) \/ (d \in Q!Buckets /\ i \in 1..Cap))
  BY SlotKinds
<1>2. CASE d = -1 /\ i = 1
  <2>1. u # w
    BY <1>1, <1>2
  <2>2. fr'[u].x = fr[u].x
    BY <1>1, <2>1
  <2>3. Places[<<u, -1, 1>>] = fr[u].x /\ Places'[<<u, -1, 1>>] = fr'[u].x
    BY <1>1, PlacesBoth DEF PlacesRight
  <2> QED BY <1>1, <1>2, <2>2, <2>3
<1>3. CASE d = -2 /\ i = 1
  BY <1>1, <1>3, PlacesBoth DEF PlacesRight
<1>4. CASE d \in Q!Buckets /\ i \in 1..Cap
  <2>1. bank'[u][d] = bank[u][d]
    BY <1>1, <1>4
  <2>2. /\ Places[s] = IF i <= Len(bank[u][d]) THEN bank[u][d][i] ELSE 0
        /\ Places'[s] = IF i <= Len(bank'[u][d]) THEN bank'[u][d][i] ELSE 0
    BY <1>1, <1>4, PlacesBoth DEF PlacesRight
  <2> QED BY <2>1, <2>2
<1> QED BY <1>1, <1>2, <1>3, <1>4

LEMMA OldestTaken ==
  ASSUME IInv, IInv', Capped, NEW w \in Workers, NEW v \in Workers, NEW c \in Q!Buckets, wk' = wk,
         bank[v][c] # <<>>, bank' = [bank EXCEPT ![v][c] = Tail(bank[v][c])],
         fr[w].x = 0, fr'[w].x = Head(bank[v][c]),
         \A u \in Workers \ {w} : fr'[u].x = fr[u].x
  PROVE  Keeps /\ Capped'
<1> DEFINE q == bank[v][c]
           r == Tail(q)
           h == <<w, -1, 1>>
<1>1. bank \in [Workers -> [Q!Buckets -> Seq(Locs)]] /\ q \in Seq(Locs) /\ q # <<>>
  BY DEF IInv, Types
<1>2. /\ r \in Seq(Locs) /\ Len(q) \in Nat \ {0} /\ Len(r) = Len(q) - 1 /\ Head(q) = q[1]
      /\ \A i \in 1..Len(r) : r[i] = q[i + 1]
  BY <1>1
<1>3. /\ bank'[v][c] = r
      /\ \A u \in Workers, d \in Q!Buckets : u # v \/ d # c => bank'[u][d] = bank[u][d]
  BY <1>1, <1>2, OneBucket
<1>4. Len(q) <= Cap /\ Cap \in Nat /\ 1 \in 1..Cap
  BY <1>2, SlotKinds DEF Capped
<1>5. Capped'
  BY <1>2, <1>3, <1>4 DEF Capped
<1>6. /\ Places \in Loads /\ Places' \in Loads /\ h \in Slots
      /\ Places[h] = 0 /\ Places'[h] = q[1]
  BY <1>2, PlacesBoth, SlotKinds DEF PlacesRight
<1>7. \A s \in Slots : s # h /\ ~(s[1] = v /\ s[2] = c) => Places'[s] = Places[s]
  BY <1>3, OthersStay
<1>8. /\ \A i \in 1..Cap : Places[<<v, c, i>>] = IF i <= Len(q) THEN q[i] ELSE 0
      /\ \A i \in 1..Cap : Places'[<<v, c, i>>] = IF i <= Len(r) THEN r[i] ELSE 0
  <2>1. /\ \A i \in 1..Cap : Places[<<v, c, i>>] = IF i <= Len(bank[v][c]) THEN bank[v][c][i] ELSE 0
        /\ \A i \in 1..Cap :
             Places'[<<v, c, i>>] = IF i <= Len(bank'[v][c]) THEN bank'[v][c][i] ELSE 0
    BY PlacesBoth DEF PlacesRight
  <2> HIDE DEF r
  <2> QED BY <1>3, <2>1
<1>9. Places'[h] = Places[<<v, c, 1>>]
  BY <1>2, <1>4, <1>6, <1>8
<1>10. ASSUME NEW i \in 1..Cap
       PROVE  Places'[<<v, c, i>>] = IF i < Cap THEN Places[<<v, c, i + 1>>] ELSE 0
  <2>1. Places'[<<v, c, i>>] = IF i <= Len(r) THEN r[i] ELSE 0
    BY <1>8
  <2>2. CASE i <= Len(r)
    <3>1. /\ i < Cap /\ i + 1 \in 1..Cap /\ i + 1 <= Len(q) /\ i \in 1..Len(r)
      BY <1>2, <1>4, <2>2
    <3>2. Places[<<v, c, i + 1>>] = q[i + 1]
      BY <1>8, <3>1
    <3> QED BY <1>2, <2>1, <2>2, <3>1, <3>2
  <2>3. CASE ~(i <= Len(r)) /\ i < Cap
    <3>1. i + 1 \in 1..Cap /\ ~(i + 1 <= Len(q))
      BY <1>2, <1>4, <2>3
    <3>2. Places[<<v, c, i + 1>>] = 0
      BY <1>8, <3>1
    <3> QED BY <2>1, <2>3, <3>2
  <2>4. CASE ~(i <= Len(r)) /\ ~(i < Cap)
    BY <2>1, <2>4
  <2> QED BY <2>2, <2>3, <2>4
<1> HIDE DEF q, r
<1>11. /\ \A out : Once(Places, out) => Once(Places', out)
       /\ AllDue(Places) \subseteq AllDue(Places')
  BY <1>6, <1>7, <1>9, <1>10, Shifted
<1> QED BY <1>5, <1>11 DEF Keeps

LEMMA YoungestTaken ==
  ASSUME IInv, IInv', Capped, NEW w \in Workers, NEW c \in Q!Buckets, wk' = wk,
         bank[w][c] # <<>>,
         bank' = [bank EXCEPT ![w][c] = SubSeq(bank[w][c], 1, Len(bank[w][c]) - 1)],
         fr[w].x = 0, fr'[w].x = bank[w][c][Len(bank[w][c])],
         \A u \in Workers \ {w} : fr'[u].x = fr[u].x
  PROVE  Keeps /\ Capped'
<1> DEFINE q == bank[w][c]
           n == Len(q)
           r == SubSeq(q, 1, n - 1)
           h == <<w, -1, 1>>
           a == <<w, c, n>>
<1>1. bank \in [Workers -> [Q!Buckets -> Seq(Locs)]] /\ q \in Seq(Locs) /\ q # <<>>
  BY DEF IInv, Types
<1>2. n \in Nat \ {0}
  BY <1>1
<1>3. r \in Seq(Locs) /\ Len(r) = n - 1 /\ \A i \in 1..(n - 1) : r[i] = q[i]
  <2>1. /\ r \in Seq(Locs) /\ Len(r) = (IF 1 <= n - 1 THEN n - 1 - 1 + 1 ELSE 0)
        /\ \A i \in 1..n - 1 - 1 + 1 : r[i] = q[1 + i - 1]
    BY <1>1, <1>2, SubSeqProperties
  <2> HIDE DEF r, q, n
  <2>2. Len(r) = n - 1
    BY <1>2, <2>1
  <2>3. \A i \in 1..(n - 1) : r[i] = q[i]
    BY <1>2, <2>1
  <2> QED BY <2>1, <2>2, <2>3
<1>4. /\ bank'[w][c] = r
      /\ \A u \in Workers, d \in Q!Buckets : u # w \/ d # c => bank'[u][d] = bank[u][d]
  BY <1>1, <1>3, OneBucket
<1>5. n <= Cap /\ Cap \in Nat /\ n \in 1..Cap
  <2>1. n <= Cap
    BY Zenon DEF Capped
  <2>2. Cap \in Nat
    BY SlotKinds
  <2> HIDE DEF n
  <2> QED BY <1>2, <2>1, <2>2
<1>6. Capped'
  BY <1>2, <1>3, <1>4, <1>5 DEF Capped
<1>7. /\ Places \in Loads /\ Places' \in Loads /\ h \in Slots /\ a \in Slots /\ a # h
      /\ Places[h] = 0 /\ Places'[h] = q[n]
  BY <1>5, PlacesBoth, SlotKinds DEF PlacesRight
<1>8. /\ \A i \in 1..Cap : Places[<<w, c, i>>] = IF i <= n THEN q[i] ELSE 0
      /\ \A i \in 1..Cap : Places'[<<w, c, i>>] = IF i <= n - 1 THEN r[i] ELSE 0
  BY <1>3, <1>4, PlacesBoth DEF PlacesRight
<1>9. Places[a] = q[n] /\ Places'[a] = 0
  BY <1>2, <1>5, <1>8
<1>10. ASSUME NEW s \in Slots \ {a, h}
       PROVE  Places'[s] = Places[s]
  <2>1. CASE s[1] = w /\ s[2] = c
    <3>1. s = <<w, c, s[3]>> /\ s[3] \in 1..Cap
      BY <2>1, <1>10, SlotKinds
    <3>2. s[3] # n
      BY <1>10, <3>1
    <3>3. PICK i \in 1..Cap : i = s[3] /\ i # n
      BY <3>1, <3>2
    <3>4. /\ Places[<<w, c, i>>] = IF i <= n THEN q[i] ELSE 0
          /\ Places'[<<w, c, i>>] = IF i <= n - 1 THEN r[i] ELSE 0
      BY <1>8
    <3>5. (i <= n <=> i <= n - 1) /\ (i <= n - 1 => i \in 1..(n - 1))
      BY <1>2, <3>3
    <3>6. Places'[<<w, c, i>>] = Places[<<w, c, i>>]
      BY <1>3, <3>4, <3>5
    <3> QED BY <3>1, <3>3, <3>6
  <2>2. CASE ~(s[1] = w /\ s[2] = c)
    BY <1>4, <1>10, <2>2, OthersStay
  <2> QED BY <2>1, <2>2
<1> HIDE DEF q, r, n, a, h
<1>11. /\ \A out : Once(Places, out) => Once(Places', out)
       /\ AllDue(Places) \subseteq AllDue(Places')
  BY <1>7, <1>9, <1>10, Handed
<1> QED BY <1>6, <1>11 DEF Keeps

LEMMA PopTakeKeeps ==
  ASSUME IInv, IInv', Capped, NEW w \in Workers, Q!PopTake(w), wk' = wk
  PROVE  Keeps /\ Capped'
<1>1. /\ fr[w] \in FrameIn /\ fr \in [Workers -> FrameIn]
      /\ QueueFits(w, wk[w], fr[w], bank[w], mask[w])
      /\ bank \in [Workers -> [Q!Buckets -> Seq(Locs)]]
  BY Here DEF IInv, Types
<1>2. PICK c \in fr[w].m :
        /\ bank[w][c] # <<>> /\ fr[w].op = "pop"
        /\ fr' = [fr EXCEPT ![w] = [@ EXCEPT !.op = "popped", !.b = c,
                                             !.x = Q!Taken(bank[w][c]), !.m = {}]]
        /\ bank' = [bank EXCEPT ![w][c] = Q!Left(bank[w][c])]
  BY <1>1 DEF Q!PopTake
<1>3. c \in Q!Buckets /\ fr[w].x = 0
  BY <1>1, <1>2 DEF FrameIn, QueueFits
<1>4. fr'[w].x = Q!Taken(bank[w][c]) /\ \A u \in Workers \ {w} : fr'[u].x = fr[u].x
  BY <1>1, <1>2 DEF FrameIn
<1>5. bank[w][c] # <<>>
  BY <1>2
<1>6. CASE N = 1
  <2>1. bank' = [bank EXCEPT ![w][c] = Tail(bank[w][c])] /\ fr'[w].x = Head(bank[w][c])
    BY <1>2, <1>4, <1>6 DEF Q!Taken, Q!Left
  <2> QED BY <1>3, <1>4, <1>5, <2>1, OldestTaken
<1>7. CASE N # 1
  <2>1. /\ bank' = [bank EXCEPT ![w][c] = SubSeq(bank[w][c], 1, Len(bank[w][c]) - 1)]
        /\ fr'[w].x = bank[w][c][Len(bank[w][c])]
    BY <1>2, <1>4, <1>7 DEF Q!Taken, Q!Left
  <2> QED BY <1>3, <1>4, <1>5, <2>1, YoungestTaken
<1> QED BY <1>6, <1>7

LEMMA StealTakeKeeps ==
  ASSUME IInv, IInv', Capped, NEW w \in Workers, Q!StealTake(w), wk' = wk
  PROVE  Keeps /\ Capped'
<1>1. /\ fr[w] \in FrameIn /\ fr \in [Workers -> FrameIn]
      /\ QueueFits(w, wk[w], fr[w], bank[w], mask[w])
  BY Here
<1>2. PICK v \in Workers, c \in Q!Buckets : v = fr[w].from /\ c = fr[w].b
  BY <1>1 DEF FrameIn
<1>3. /\ bank[v][c] # <<>> /\ fr[w].op = "take"
      /\ fr' = [fr EXCEPT ![w] = [@ EXCEPT !.op = "push", !.x = Head(bank[v][c])]]
      /\ bank' = [bank EXCEPT ![v][c] = Tail(bank[v][c])]
  BY <1>1, <1>2 DEF Q!StealTake
<1>4. /\ fr[w].x = 0 /\ fr'[w].x = Head(bank[v][c])
      /\ \A u \in Workers \ {w} : fr'[u].x = fr[u].x
  BY <1>1, <1>3 DEF FrameIn, QueueFits
<1> QED BY <1>3, <1>4, OldestTaken

LEMMA QueueKeeps ==
  ASSUME IInv, IInv', Capped, NEW w \in Workers, Queueing(w)
  PROVE  Keeps /\ Capped'
<1>1. Q!Step(w) /\ wk' = wk
  BY DEF Queueing
<1>2. CASE Q!PushWrite(w) \/ Q!PopTake(w) \/ Q!StealTake(w)
  BY <1>1, <1>2, PushWriteKeeps, PopTakeKeeps, StealTakeKeeps
<1>3. CASE ~(Q!PushWrite(w) \/ Q!PopTake(w) \/ Q!StealTake(w))
  <2>1. bank' = bank /\ Places' = Places
    BY <1>1, <1>3, QueueQuiet
  <2> QED BY <2>1 DEF Keeps, Capped
<1> QED BY <1>2, <1>3

-----------------------------------------------------------------------------
(* The steps of a worker, by what they do to the places: most change none; *)
(* the others pass a term, or its branches, between the two hands of the   *)
(* worker.  A calm step leaves the counting of the lines alone.            *)

Only(w) ==
  /\ bank' = bank /\ lines' = lines
  /\ \A u \in Workers \ {w} :
       /\ fr'[u].x = fr[u].x
       /\ wk'[u].at = wk[u].at /\ wk'[u].pc = wk[u].pc /\ wk'[u].local = wk[u].local

Quietly(w) == Only(w) /\ fr'[w].x = fr[w].x /\ Hand(wk'[w]) = Hand(wk[w])

Calm(w) ==
  /\ UNCHANGED <<printed, stop>> /\ wk'[w].local = wk[w].local
  /\ wk'[w].pc \in {"zero2", "set"} => wk[w].pc = "zero2"
  /\ wk'[w].pc \notin {"halt", "flush", "print"} /\ wk[w].pc \notin {"flush", "print"}

LEMMA OnlyHands ==
  ASSUME NEW w \in Workers, Only(w)
  PROVE  \A u \in Workers \ {w} : fr'[u].x = fr[u].x /\ Hand(wk'[u]) = Hand(wk[u])
BY DEF Only, Hand

LEMMA QuietKeeps ==
  ASSUME NEW w \in Workers, Quietly(w)
  PROVE  Places' = Places /\ Keeps
<1>1. bank' = bank /\ \A u \in Workers : fr'[u].x = fr[u].x /\ Hand(wk'[u]) = Hand(wk[u])
  BY OnlyHands DEF Quietly, Only
<1>2. Places' = Places
  BY <1>1, SamePlaces
<1> QED BY <1>2 DEF Keeps

\* A step that changes only the frame of the worker in the collapser.
LEMMA OwnFrame ==
  ASSUME NEW w \in Workers, bank' = bank, lines' = lines, fr' = fr,
         \A u \in Workers \ {w} : wk'[u] = wk[u], wk'[w].at = wk[w].at,
         wk'[w].pc \notin {"second", "pushed"}, wk[w].pc \notin {"second", "pushed"}
  PROVE  Quietly(w)
BY DEF Quietly, Only, Hand

LEMMA CalmOwn ==
  ASSUME IInv, NEW w \in Workers,
         \/ Stopped(w) \/ SeekOn(w) \/ SeekNone(w) \/ SeekFound(w) \/ Enter(w) \/ Retire(w)
         \/ ReadCnfPending(w) \/ Go(w) \/ HelpOff(w) \/ HelpDrop(w) \/ HelpNone(w)
         \/ HelpCount(w) \/ HelpDone(w) \/ JoinDrop(w) \/ JoinTake(w)
  PROVE  Quietly(w) /\ Calm(w)
<1>1. wk \in [Workers -> WorkerIn] /\ wk[w] \in WorkerIn
  BY Here
<1>2. /\ bank' = bank /\ lines' = lines /\ fr' = fr /\ UNCHANGED <<printed, stop>>
  BY DEF Stopped, SeekOn, SeekNone, SeekFound, Enter, Retire, ReadCnfPending, Go, HelpOff,
         HelpDrop, HelpNone, HelpCount, HelpDone, JoinDrop, JoinTake, queue, shared
<1> DEFINE Own == /\ \A u \in Workers \ {w} : wk'[u] = wk[u]
                  /\ wk'[w].at = wk[w].at /\ wk'[w].local = wk[w].local
                  /\ wk'[w].pc \in {"zero2", "set"} => wk[w].pc = "zero2"
                  /\ wk'[w].pc \notin {"halt", "flush", "print", "second", "pushed"}
                  /\ wk[w].pc \notin {"flush", "print", "second", "pushed"}
<1>3. CASE Stopped(w)
  <2>1. Own
    BY <1>1, <1>3 DEF Stopped, Goto, At, WorkerIn
  <2> QED BY <1>2, <2>1, OwnFrame DEF Calm
<1>4. CASE SeekOn(w)
  <2>1. Own
    BY <1>1, <1>4 DEF SeekOn, Goto, At, WorkerIn
  <2> QED BY <1>2, <2>1, OwnFrame DEF Calm
<1>5. CASE SeekNone(w)
  <2>1. Own
    BY <1>1, <1>5 DEF SeekNone, Goto, At, WorkerIn
  <2> QED BY <1>2, <2>1, OwnFrame DEF Calm
<1>6. CASE SeekFound(w)
  <2>1. Own
    BY <1>1, <1>6 DEF SeekFound, Goto, At, WorkerIn
  <2> QED BY <1>2, <2>1, OwnFrame DEF Calm
<1>7. CASE Enter(w)
  <2>1. Own
    BY <1>1, <1>7 DEF Enter, Goto, At, WorkerIn
  <2> QED BY <1>2, <2>1, OwnFrame DEF Calm
<1>8. CASE Retire(w)
  <2>1. /\ wk[w].pc = "retire"
        /\ \/ wk' = [wk EXCEPT ![w] = [@ EXCEPT !.pc = "zero", !.active = FALSE]]
           \/ wk' = [wk EXCEPT ![w].pc = "zero"]
    BY <1>8 DEF Retire, Goto, At
  <2>2. Own
    <3>1. CASE wk' = [wk EXCEPT ![w] = [@ EXCEPT !.pc = "zero", !.active = FALSE]]
      BY <1>1, <2>1, <3>1 DEF WorkerIn
    <3>2. CASE wk' = [wk EXCEPT ![w].pc = "zero"]
      BY <1>1, <2>1, <3>2 DEF WorkerIn
    <3> QED BY <2>1, <3>1, <3>2
  <2> QED BY <1>2, <2>2, OwnFrame DEF Calm
<1>9. CASE ReadCnfPending(w)
  <2>1. Own
    BY <1>1, <1>9 DEF ReadCnfPending, Goto, At, WorkerIn
  <2> QED BY <1>2, <2>1, OwnFrame DEF Calm
<1>10. CASE Go(w)
  <2>0. PICK n \in 0..Fields : wk' = [wk EXCEPT ![w] = [@ EXCEPT !.pc = "cnf", !.tasks = n]]
    BY <1>10 DEF Go
  <2>1. Own
    BY <1>1, <1>10, <2>0 DEF Go, At, WorkerIn
  <2> QED BY <1>2, <2>1, OwnFrame DEF Calm
<1>11. CASE HelpOff(w)
  <2>1. Own
    BY <1>1, <1>11 DEF HelpOff, Goto, At, WorkerIn
  <2> QED BY <1>2, <2>1, OwnFrame DEF Calm
<1>12. CASE HelpDrop(w)
  <2>1. Own
    BY <1>1, <1>12 DEF HelpDrop, Goto, At, WorkerIn
  <2> QED BY <1>2, <2>1, OwnFrame DEF Calm
<1>13. CASE HelpNone(w)
  <2>1. Own
    BY <1>1, <1>13 DEF HelpNone, Goto, At, WorkerIn
  <2> QED BY <1>2, <2>1, OwnFrame DEF Calm
<1>14. CASE HelpCount(w)
  <2>0. PICK n \in 0..Fields :
          wk' = [wk EXCEPT ![w] = [@ EXCEPT !.pc = "aid", !.pool = TRUE, !.tasks = n]]
    BY <1>14 DEF HelpCount
  <2>1. Own
    BY <1>1, <1>14, <2>0 DEF HelpCount, At, WorkerIn
  <2> QED BY <1>2, <2>1, OwnFrame DEF Calm
<1>15. CASE HelpDone(w)
  <2>1. Own
    BY <1>1, <1>15 DEF HelpDone, Goto, At, WorkerIn
  <2> QED BY <1>2, <2>1, OwnFrame DEF Calm
<1>16. CASE JoinDrop(w)
  <2>1. Own
    BY <1>1, <1>16 DEF JoinDrop, Waits, At, WorkerIn
  <2> QED BY <1>2, <2>1, OwnFrame DEF Calm
<1>17. CASE JoinTake(w)
  <2>1. Own
    BY <1>1, <1>17 DEF JoinTake, Waits, At, WorkerIn
  <2> QED BY <1>2, <2>1, OwnFrame DEF Calm
<1> QED BY <1>3, <1>4, <1>5, <1>6, <1>7, <1>8, <1>9, <1>10, <1>11, <1>12, <1>13, <1>14, <1>15,
           <1>16, <1>17

LEMMA MarkedOwn ==
  ASSUME IInv, NEW w \in Workers,
         \/ ReadPending(w) \/ SetStop(w) \/ Leave(w) \/ CnfLeaf(w) \/ LimitStop(w) \/ Flush(w)
  PROVE  Quietly(w)
<1>1. wk \in [Workers -> WorkerIn] /\ wk[w] \in WorkerIn
  BY Here
<1>2. bank' = bank /\ lines' = lines /\ fr' = fr
  BY DEF ReadPending, SetStop, Leave, CnfLeaf, LimitStop, Flush, queue, shared
<1> DEFINE Own == /\ \A u \in Workers \ {w} : wk'[u] = wk[u]
                  /\ wk'[w].at = wk[w].at
                  /\ wk'[w].pc \notin {"second", "pushed"} /\ wk[w].pc \notin {"second", "pushed"}
<1>3. CASE ReadPending(w)
  <2>1. Own
    BY <1>1, <1>3 DEF ReadPending, Goto, At, WorkerIn
  <2> QED BY <1>2, <2>1, OwnFrame
<1>4. CASE SetStop(w)
  <2>1. Own
    BY <1>1, <1>4 DEF SetStop, Goto, At, WorkerIn
  <2> QED BY <1>2, <2>1, OwnFrame
<1>5. CASE Leave(w)
  <2>1. Own
    BY <1>1, <1>5 DEF Leave, Goto, At, WorkerIn
  <2> QED BY <1>2, <2>1, OwnFrame
<1>6. CASE CnfLeaf(w)
  <2>1. Own
    BY <1>1, <1>6 DEF CnfLeaf, CnfDone, Goto, At, WorkerIn
  <2> QED BY <1>2, <2>1, OwnFrame
<1>7. CASE LimitStop(w)
  <2>1. Own
    BY <1>1, <1>7 DEF LimitStop, Goto, At, WorkerIn
  <2> QED BY <1>2, <2>1, OwnFrame
<1>8. CASE Flush(w)
  <2>1. Own
    BY <1>1, <1>8 DEF Flush, Goto, At, WorkerIn
  <2> QED BY <1>2, <2>1, OwnFrame
<1> QED BY <1>3, <1>4, <1>5, <1>6, <1>7, <1>8

LEMMA CalmHelpSteal ==
  ASSUME IInv, NEW w \in Workers, HelpSteal(w)
  PROVE  Quietly(w) /\ Calm(w)
<1>1. wk \in [Workers -> WorkerIn] /\ wk[w] \in WorkerIn
  BY Here
<1>2. PICK v \in Workers \ {w} :
        wk' = [wk EXCEPT ![w] = [@ EXCEPT !.pc = "stole", !.aids = v],
                         ![v] = [@ EXCEPT !.tasks = wk[v].tasks - 1]]
  BY DEF HelpSteal
<1>3. /\ bank' = bank /\ lines' = lines /\ fr' = fr /\ UNCHANGED <<printed, stop>>
      /\ wk[w].pc = "try"
  BY DEF HelpSteal, At, queue, shared
<1>4. wk[v] \in WorkerIn
  BY <1>1
<1>5. /\ wk'[w].at = wk[w].at /\ wk'[w].local = wk[w].local /\ wk'[w].pc = "stole"
      /\ wk'[v].at = wk[v].at /\ wk'[v].local = wk[v].local /\ wk'[v].pc = wk[v].pc
      /\ \A u \in Workers \ {w, v} : wk'[u] = wk[u]
  BY <1>1, <1>2, <1>4 DEF WorkerIn
<1>6. \A u \in Workers \ {w} : /\ fr'[u].x = fr[u].x /\ wk'[u].at = wk[u].at
                              /\ wk'[u].pc = wk[u].pc /\ wk'[u].local = wk[u].local
  BY <1>3, <1>5
<1>7. Hand(wk'[w]) = Hand(wk[w])
  BY <1>3, <1>5 DEF Hand
<1> QED BY <1>3, <1>5, <1>6, <1>7 DEF Quietly, Only, Calm

\* The calls of the queue that find nothing, or have not found anything yet.
LEMMA CalmCalls ==
  ASSUME IInv, NEW w \in Workers, Pop(w) \/ PoppedNone(w) \/ Steal(w) \/ Stole(w)
  PROVE  Quietly(w) /\ Calm(w)
<1>1. /\ wk \in [Workers -> WorkerIn] /\ wk[w] \in WorkerIn
      /\ fr \in [Workers -> FrameIn] /\ fr[w] \in FrameIn
      /\ QueueFits(w, wk[w], fr[w], bank[w], mask[w])
  BY Here
<1>2. bank' = bank /\ lines' = lines /\ UNCHANGED <<printed, stop>>
  BY DEF Pop, PoppedNone, Steal, Stole, Q!PopCall, Q!StealCall, Q!Return, shared
<1> DEFINE Own == /\ \A u \in Workers \ {w} : wk'[u] = wk[u]
                  /\ wk'[w].at = wk[w].at /\ wk'[w].local = wk[w].local
                  /\ wk'[w].pc \in {"pop", "seek", "stealing", "top", "help"}
                  /\ wk[w].pc \in {"top", "pop", "steal", "stealing"}
           Same == \A u \in Workers : fr'[u].x = fr[u].x
<1>3. Own
  <2>1. CASE Pop(w)
    BY <1>1, <2>1 DEF Pop, Goto, At, WorkerIn
  <2>2. CASE Stole(w)
    BY <1>1, <2>2 DEF Stole, At, WorkerIn
  <2>3. CASE PoppedNone(w)
    BY <1>1, <2>3 DEF PoppedNone, At, WorkerIn
  <2>4. CASE Steal(w)
    BY <1>1, <2>4 DEF Steal, Goto, At, WorkerIn
  <2> QED BY <2>1, <2>2, <2>3, <2>4
<1>4. Same
  <2>1. CASE Pop(w)
    BY <1>1, <2>1 DEF Pop, Q!PopCall, FrameIn
  <2>2. CASE PoppedNone(w) \/ Stole(w)
    <3>1. fr' = [fr EXCEPT ![w] = Q!Free(w)] /\ fr[w].x = 0
      BY <1>1, <2>2 DEF PoppedNone, Stole, Q!Return, QueueFits
    <3> QED BY <1>1, <3>1 DEF Q!Free
  <2>3. CASE Steal(w)
    BY <1>1, <2>3 DEF Steal, Q!StealCall, FrameIn
  <2> QED BY <2>1, <2>2, <2>3
<1>5. Hand(wk'[w]) = Hand(wk[w])
  BY <1>3 DEF Hand
<1>6. Quietly(w)
  BY <1>2, <1>3, <1>4, <1>5 DEF Quietly, Only
<1> QED BY <1>2, <1>3, <1>6 DEF Calm

\* What passes between the two hands of a worker.
Passes(w) ==
  /\ Due(fr'[w].x) \cup Due(Hand(wk'[w])) = Due(fr[w].x) \cup Due(Hand(wk[w]))
  /\ Due(fr'[w].x) \cap Due(Hand(wk'[w])) = {}

LEMMA PassingKeeps ==
  ASSUME IInv, IInv', NEW w \in Workers, Only(w), Passes(w)
  PROVE  Keeps
<1>1. bank' = bank /\ \A u \in Workers \ {w} : fr'[u].x = fr[u].x /\ Hand(wk'[u]) = Hand(wk[u])
  BY OnlyHands DEF Only
<1> QED BY <1>1, FrameStep DEF Keeps, Passes

LEMMA PoppedPasses ==
  ASSUME IInv, NEW w \in Workers, Popped(w)
  PROVE  Only(w) /\ Calm(w) /\ Passes(w)
<1>1. /\ wk \in [Workers -> WorkerIn] /\ wk[w] \in WorkerIn
      /\ fr \in [Workers -> FrameIn] /\ fr[w] \in FrameIn
      /\ WorkerFits(wk[w], fr[w], bank[w])
  BY Here
<1>2. /\ bank' = bank /\ lines' = lines /\ UNCHANGED <<printed, stop>> /\ wk[w].pc = "pop"
      /\ fr' = [fr EXCEPT ![w] = Q!Free(w)]
  BY DEF Popped, Q!Return, shared, At
<1>3. /\ \A u \in Workers \ {w} : wk'[u] = wk[u]
      /\ wk'[w].at = fr[w].x /\ wk'[w].local = wk[w].local /\ wk'[w].pc = "go"
  BY <1>1 DEF Popped, WorkerIn
<1>4. fr'[w].x = 0 /\ \A u \in Workers \ {w} : fr'[u].x = fr[u].x
  BY <1>1, <1>2 DEF Q!Free
<1>5. wk[w].at = 0
  BY <1>1, <1>2 DEF WorkerFits, InHand
<1>6. Hand(wk[w]) = 0 /\ Hand(wk'[w]) = fr[w].x
  BY <1>2, <1>3, <1>5 DEF Hand
<1> QED BY <1>2, <1>3, <1>4, <1>6 DEF Only, Calm, Passes, Due

LEMMA CnfIncPasses ==
  ASSUME IInv, NEW w \in Workers, CnfInc(w)
  PROVE  Only(w) /\ Calm(w) /\ Passes(w)
<1>1. /\ wk \in [Workers -> WorkerIn] /\ wk[w] \in WorkerIn
      /\ WorkerFits(wk[w], fr[w], bank[w])
  BY Here
<1>2. /\ bank' = bank /\ lines' = lines /\ UNCHANGED <<printed, stop>> /\ wk[w].pc = "cnf"
      /\ fr' = fr /\ Kind[wk[w].at] = "INC"
  BY DEF CnfInc, CnfDone, Is, queue, shared, At
<1>3. /\ \A u \in Workers \ {w} : wk'[u] = wk[u]
      /\ wk'[w].at = Kids[wk[w].at][1] /\ wk'[w].local = wk[w].local /\ wk'[w].pc = "go"
  BY <1>1 DEF CnfInc, WorkerIn
<1>4. wk[w].at \in Locs /\ fr[w].x = 0
  BY <1>1, <1>2 DEF WorkerFits, InHand, Calling, WorkerIn
<1>5. Hand(wk[w]) = wk[w].at /\ Hand(wk'[w]) = Kids[wk[w].at][1]
  BY <1>2, <1>3 DEF Hand
<1>6. Due(Hand(wk[w])) = Due(Hand(wk'[w]))
  BY <1>2, <1>4, <1>5, BelowKinds, CollapseAssumption DEF Due
<1>7. Due(fr[w].x) = {} /\ fr'[w].x = fr[w].x
  BY <1>2, <1>4 DEF Due
<1> QED BY <1>2, <1>3, <1>6, <1>7 DEF Only, Calm, Passes

LEMMA CnfSupPasses ==
  ASSUME IInv, NEW w \in Workers, CnfSup(w)
  PROVE  Only(w) /\ Calm(w) /\ Passes(w)
<1>1. /\ wk \in [Workers -> WorkerIn] /\ wk[w] \in WorkerIn
      /\ fr \in [Workers -> FrameIn] /\ fr[w] \in FrameIn
      /\ WorkerFits(wk[w], fr[w], bank[w])
  BY Here
<1>2. /\ bank' = bank /\ lines' = lines /\ UNCHANGED <<printed, stop>> /\ wk[w].pc = "cnf"
      /\ Kind[wk[w].at] = "SUP"
      /\ wk' = [wk EXCEPT ![w] = [@ EXCEPT !.pc = "second", !.tasks = 0]]
  BY DEF CnfSup, CnfDone, Is, shared, At, Q!PushCall
<1>3. /\ \A u \in Workers \ {w} : wk'[u] = wk[u]
      /\ wk'[w].at = wk[w].at /\ wk'[w].local = wk[w].local /\ wk'[w].pc = "second"
  BY <1>1, <1>2 DEF WorkerIn
<1>4. wk[w].at \in Locs /\ fr[w].x = 0
  BY <1>1, <1>2 DEF WorkerFits, InHand, Calling, WorkerIn
<1>5. fr'[w].x = Kids[wk[w].at][1] /\ \A u \in Workers \ {w} : fr'[u].x = fr[u].x
  BY <1>1 DEF CnfSup, Q!PushCall, FrameIn
<1>6. Hand(wk[w]) = wk[w].at /\ Hand(wk'[w]) = Kids[wk[w].at][2]
  BY <1>2, <1>3 DEF Hand
<1>7. /\ Due(fr'[w].x) = Below[Kids[wk[w].at][1]] /\ Due(Hand(wk'[w])) = Below[Kids[wk[w].at][2]]
      /\ Due(fr[w].x) = {} /\ Due(Hand(wk[w])) = Below[wk[w].at]
  BY <1>2, <1>4, <1>5, <1>6, BelowKinds, CollapseAssumption DEF Due
<1>8. Passes(w)
  BY <1>2, <1>4, <1>7, BelowKinds DEF Passes
<1> QED BY <1>2, <1>3, <1>5, <1>8 DEF Only, Calm

LEMMA CnfSupSecondPasses ==
  ASSUME IInv, NEW w \in Workers, CnfSupSecond(w)
  PROVE  Only(w) /\ Calm(w) /\ Passes(w)
<1>1. /\ wk \in [Workers -> WorkerIn] /\ wk[w] \in WorkerIn
      /\ fr \in [Workers -> FrameIn] /\ fr[w] \in FrameIn
      /\ QueueFits(w, wk[w], fr[w], bank[w], mask[w])
  BY Here
<1>2. /\ bank' = bank /\ lines' = lines /\ UNCHANGED <<printed, stop>> /\ wk[w].pc = "second"
      /\ wk' = [wk EXCEPT ![w].pc = "pushed"] /\ fr[w].op = "none"
  BY DEF CnfSupSecond, Goto, shared, At, Q!PushCall
<1>3. /\ \A u \in Workers \ {w} : wk'[u] = wk[u]
      /\ wk'[w].at = wk[w].at /\ wk'[w].local = wk[w].local /\ wk'[w].pc = "pushed"
  BY <1>1, <1>2 DEF WorkerIn
<1>4. fr[w].x = 0
  BY <1>1, <1>2 DEF QueueFits
<1>5. fr'[w].x = Kids[wk[w].at][2] /\ \A u \in Workers \ {w} : fr'[u].x = fr[u].x
  BY <1>1 DEF CnfSupSecond, Q!PushCall, FrameIn
<1>6. Hand(wk[w]) = fr'[w].x /\ Hand(wk'[w]) = 0
  BY <1>2, <1>3, <1>5 DEF Hand
<1>7. Due(fr[w].x) = {} /\ Due(Hand(wk'[w])) = {} /\ Due(Hand(wk[w])) = Due(fr'[w].x)
  BY <1>4, <1>6 DEF Due
<1>8. Passes(w)
  BY <1>7 DEF Passes
<1> QED BY <1>2, <1>3, <1>5, <1>8 DEF Only, Calm

\* The three ways to be done with a term that is not printed.
LEMMA FinishPasses ==
  ASSUME IInv, NEW w \in Workers, GoStopped(w) \/ CnfSupPushed(w) \/ CnfEra(w)
  PROVE  /\ Only(w) /\ Calm(w) /\ Due(fr'[w].x) = {} /\ Due(Hand(wk'[w])) = {}
         /\ GoStopped(w) \/ Passes(w)
<1>1. /\ wk \in [Workers -> WorkerIn] /\ wk[w] \in WorkerIn
      /\ WorkerFits(wk[w], fr[w], bank[w]) /\ QueueFits(w, wk[w], fr[w], bank[w], mask[w])
  BY Here
<1>2. /\ wk[w].pc \in {"go", "cnf", "pushed"} /\ (wk[w].pc = "pushed" => fr[w].op = "none")
      /\ Finish(w, wk[w]) /\ fr' = fr /\ bank' = bank /\ lines' = lines
      /\ UNCHANGED <<printed, stop>>
  BY DEF GoStopped, CnfSupPushed, CnfEra, CnfDone, At, queue, shared
<1>3. /\ wk[w].pc \in InHand /\ fr[w].op \in {"none", "dead"} /\ fr[w].x = 0 /\ wk[w].at \in Locs
  BY <1>1, <1>2 DEF WorkerFits, QueueFits, InHand, Calling, WorkerIn
<1> DEFINE g == Finished(wk[w])
<1>4. /\ wk' = [wk EXCEPT ![w] = g] /\ g.pc \in {"top", "seek"} /\ g.local = wk[w].local
  BY <1>2, <1>3, FinishedFits
<1>5. g.at = 0
  BY <1>1 DEF Finished, WorkerIn
<1> HIDE DEF g
<1>6. wk'[w] = g /\ \A u \in Workers \ {w} : wk'[u] = wk[u]
  BY <1>1, <1>4
<1>7. Hand(wk'[w]) = 0
  BY <1>4, <1>5, <1>6 DEF Hand
<1>8. Due(fr'[w].x) = {} /\ Due(Hand(wk'[w])) = {} /\ Due(fr[w].x) = {}
  BY <1>2, <1>3, <1>7 DEF Due
<1>9. Only(w) /\ Calm(w)
  BY <1>2, <1>4, <1>6 DEF Only, Calm
<1>10. CASE CnfSupPushed(w)
  <2>1. Hand(wk[w]) = 0
    BY <1>10 DEF CnfSupPushed, At, Hand
  <2> QED BY <1>8, <1>9, <2>1 DEF Passes, Due
<1>11. CASE CnfEra(w)
  <2>1. Kind[wk[w].at] = "ERA" /\ Hand(wk[w]) = wk[w].at
    BY <1>11 DEF CnfEra, CnfDone, Is, At, Hand
  <2>2. Due(Hand(wk[w])) = {}
    BY <1>3, <2>1, BelowKinds DEF Due
  <2> QED BY <1>8, <1>9, <2>2 DEF Passes
<1>12. CASE GoStopped(w)
  BY <1>8, <1>9, <1>12
<1> QED BY <1>10, <1>11, <1>12

\* The line goes out, or is above the limit; its term is a leaf.
LEMMA Prints ==
  ASSUME IInv, OnceInv, NEW w \in Workers, PrintLine(w)
  PROVE  /\ bank' = bank /\ fr' = fr /\ UNCHANGED <<printed, stop>>
         /\ \A u \in Workers \ {w} : wk'[u] = wk[u]
         /\ wk'[w].local = wk[w].local /\ wk'[w].pc \in {"top", "seek"} /\ wk[w].pc = "print"
         /\ fr[w].x = 0 /\ fr'[w].x = 0 /\ Hand(wk[w]) = wk[w].at /\ Hand(wk'[w]) = 0
         /\ wk[w].at \in Locs
         /\ lines' = IF printed + wk[w].local <= limit THEN Append(lines, wk[w].at) ELSE lines
<1>1. /\ wk \in [Workers -> WorkerIn] /\ wk[w] \in WorkerIn
      /\ WorkerFits(wk[w], fr[w], bank[w])
  BY Here
<1>2. /\ wk[w].pc = "print" /\ Finish(w, wk[w]) /\ fr' = fr /\ bank' = bank
      /\ UNCHANGED <<printed, stop>>
      /\ lines' = IF printed + wk[w].local <= limit THEN Append(lines, wk[w].at) ELSE lines
  BY DEF PrintLine, At, queue, shared
<1>3. /\ wk[w].pc \in InHand /\ fr[w].op \in {"none", "dead"} /\ fr[w].x = 0 /\ wk[w].at \in Locs
  BY <1>1, <1>2 DEF WorkerFits, InHand, Calling, WorkerIn
<1> DEFINE g == Finished(wk[w])
<1>4. /\ wk' = [wk EXCEPT ![w] = g] /\ g.pc \in {"top", "seek"} /\ g.local = wk[w].local
  BY <1>2, <1>3, FinishedFits
<1>5. g.at = 0
  BY <1>1 DEF Finished, WorkerIn
<1> HIDE DEF g
<1>6. wk'[w] = g /\ \A u \in Workers \ {w} : wk'[u] = wk[u]
  BY <1>1, <1>4
<1>7. Hand(wk'[w]) = 0 /\ Hand(wk[w]) = wk[w].at
  BY <1>2, <1>4, <1>5, <1>6 DEF Hand
<1> QED BY <1>2, <1>3, <1>4, <1>6, <1>7

\* Every step of a worker in the collapser is one of five kinds.
LEMMA Kinds ==
  ASSUME IInv, NEW w \in Workers, Collapsing(w)
  PROVE  \/ Quietly(w) /\ Calm(w)
         \/ Only(w) /\ Calm(w) /\ Passes(w)
         \/ GoStopped(w)
         \/ /\ Quietly(w)
            /\ \/ ReadPending(w) \/ SetStop(w) \/ Leave(w) \/ CnfLeaf(w) \/ LimitStop(w)
               \/ Flush(w)
         \/ PrintLine(w)
<1>1. CASE \/ Stopped(w) \/ SeekOn(w) \/ SeekNone(w) \/ SeekFound(w) \/ Enter(w) \/ Retire(w)
           \/ ReadCnfPending(w) \/ Go(w) \/ HelpOff(w) \/ HelpDrop(w) \/ HelpNone(w)
           \/ HelpCount(w) \/ HelpDone(w) \/ JoinDrop(w) \/ JoinTake(w)
  BY <1>1, CalmOwn
<1>2. CASE HelpSteal(w) \/ Pop(w) \/ PoppedNone(w) \/ Steal(w) \/ Stole(w)
  BY <1>2, CalmHelpSteal, CalmCalls
<1>3. CASE Popped(w) \/ CnfInc(w) \/ CnfSup(w) \/ CnfSupSecond(w) \/ CnfSupPushed(w) \/ CnfEra(w)
  <2>1. CASE GoStopped(w)
    BY <2>1
  <2>2. CASE ~GoStopped(w)
    BY <1>3, <2>2, PoppedPasses, CnfIncPasses, CnfSupPasses, CnfSupSecondPasses, FinishPasses
  <2> QED BY <2>1, <2>2
<1>4. CASE \/ ReadPending(w) \/ SetStop(w) \/ Leave(w) \/ CnfLeaf(w) \/ LimitStop(w) \/ Flush(w)
  BY <1>4, MarkedOwn
<1>5. CASE GoStopped(w) \/ PrintLine(w)
  BY <1>5
<1> QED BY <1>1, <1>2, <1>3, <1>4, <1>5 DEF Collapsing

LEMMA AppendOnce ==
  ASSUME NEW S, NEW q \in Seq(S), NEW e \in S, e \notin ToSet(q), IsInjective(q)
  PROVE  /\ IsInjective(Append(q, e)) /\ ToSet(Append(q, e)) = ToSet(q) \cup {e}
<1> DEFINE r == Append(q, e)
<1>1. PICK n \in Nat : n = Len(q) /\ DOMAIN q = 1..n
  OBVIOUS
<1>2. DOMAIN r = 1..(n + 1) /\ r[n + 1] = e /\ \A i \in 1..n : r[i] = q[i]
  BY <1>1
<1> HIDE DEF r
<1>3. \A i \in 1..(n + 1) : i = n + 1 \/ i \in 1..n
  BY <1>1
<1>4. 1..n \subseteq 1..(n + 1) /\ n + 1 \in 1..(n + 1)
  BY <1>1
<1>5. \A i \in 1..n : q[i] # e
  BY <1>1 DEF ToSet
<1>6. IsInjective(r)
  BY <1>1, <1>2, <1>3, <1>5 DEF IsInjective
<1>7. ToSet(r) \subseteq ToSet(q) \cup {e}
  BY <1>1, <1>2, <1>3, Zenon DEF ToSet
<1>8. ToSet(q) \cup {e} \subseteq ToSet(r)
  BY <1>1, <1>2, <1>4, Zenon DEF ToSet
<1> QED BY <1>6, <1>7, <1>8 DEF r

\* The line that goes out was in the hand of the worker, and nowhere else.
LEMMA PrintedIs ==
  ASSUME IInv, IInv', OnceInv, NEW w \in Workers, PrintLine(w)
  PROVE  /\ OnceInv'
         /\ AllDue(Places) \subseteq AllDue(Places') \cup {wk[w].at}
         /\ wk[w].at \in Leaves \ ToSet(lines)
         /\ ToSet(lines') = IF printed + wk[w].local <= limit
                            THEN ToSet(lines) \cup {wk[w].at} ELSE ToSet(lines)
<1> DEFINE a == <<w, -1, 1>>
           b == <<w, -2, 1>>
           e == wk[w].at
<1>1. /\ bank' = bank /\ fr' = fr /\ \A u \in Workers \ {w} : wk'[u] = wk[u]
      /\ Hand(wk[w]) = e /\ Hand(wk'[w]) = 0 /\ e \in Locs /\ wk[w].pc = "print"
      /\ lines' = IF printed + wk[w].local <= limit THEN Append(lines, e) ELSE lines
  BY Prints
<1>2. WorkerFits(wk[w], fr[w], bank[w]) /\ lines \in Seq(Locs)
  BY Here DEF IInv, Types
<1>3. Kind[e] = "LEAF"
  BY <1>1, <1>2 DEF WorkerFits
<1>4. Due(e) = {e} /\ e # 0
  BY <1>1, <1>3, BelowKinds, CollapseAssumption DEF Due
<1>5. /\ Places \in Loads /\ Places' \in Loads /\ b \in Slots
      /\ Places[b] = e /\ Places'[b] = 0
  BY <1>1, PlacesBoth, SlotKinds DEF PlacesRight
<1>6. \A u \in Workers \ {w} : fr'[u].x = fr[u].x /\ Hand(wk'[u]) = Hand(wk[u])
  BY <1>1
<1>7. ASSUME NEW s \in Slots, s # b
      PROVE  Places'[s] = Places[s]
  <2>1. PICK u, c, i : s = <<u, c, i>> /\ u \in Workers
                      /\ ((c \in {-1, -2} /\ i = 1) \/ (c \in Q!Buckets /\ i \in 1..Cap))
    BY SlotKinds
  <2>2. CASE c = -1 /\ i = 1
    <3>1. Places[<<u, -1, 1>>] = fr[u].x /\ Places'[<<u, -1, 1>>] = fr'[u].x
      BY <2>1, PlacesBoth DEF PlacesRight
    <3> QED BY <1>1, <2>1, <2>2, <3>1
  <2>3. CASE c = -2 /\ i = 1
    <3>1. Places[<<u, -2, 1>>] = Hand(wk[u]) /\ Places'[<<u, -2, 1>>] = Hand(wk'[u])
      BY <2>1, PlacesBoth DEF PlacesRight
    <3>2. u # w
      BY <1>7, <2>1, <2>3
    <3> QED BY <1>6, <2>1, <2>3, <3>1, <3>2
  <2>4. CASE c \in Q!Buckets /\ i \in 1..Cap
    <3>1. /\ Places[<<u, c, i>>] = IF i <= Len(bank[u][c]) THEN bank[u][c][i] ELSE 0
          /\ Places'[<<u, c, i>>] = IF i <= Len(bank'[u][c]) THEN bank'[u][c][i] ELSE 0
      BY <2>1, <2>4, PlacesBoth DEF PlacesRight
    <3> QED BY <1>1, <2>1, <3>1
  <2> QED BY <2>1, <2>2, <2>3, <2>4
<1> HIDE DEF a, b, e
<1>8. /\ \A s \in Slots : Due(Places[s]) \subseteq Leaves /\ Due(Places[s]) \cap ToSet(lines) = {}
      /\ \A s, t \in Slots : s # t => Due(Places[s]) \cap Due(Places[t]) = {}
  BY <1>5, OnceIs DEF OnceInv
<1>9. e \in Leaves /\ e \notin ToSet(lines) /\ \A s \in Slots \ {b} : e \notin Due(Places[s])
  BY <1>4, <1>5, <1>8
<1>10. /\ IsInjective(Append(lines, e)) /\ ToSet(Append(lines, e)) = ToSet(lines) \cup {e}
  BY <1>1, <1>2, <1>9, AppendOnce DEF OnceInv, PrintedOnce
<1>11. ToSet(lines') = IF printed + wk[w].local <= limit
                       THEN ToSet(lines) \cup {e} ELSE ToSet(lines)
  BY <1>1, <1>10
<1>12. PrintedOnce'
  <2>1. IsInjective(lines') /\ ToSet(lines') \subseteq Leaves
    BY <1>1, <1>9, <1>10 DEF OnceInv, PrintedOnce
  <2> QED BY <2>1 DEF PrintedOnce
<1>13. Due(0) = {}
  BY DEF Due
<1>14. \A s \in Slots : Due(Places'[s]) \subseteq Due(Places[s]) \ {e}
  BY <1>5, <1>7, <1>9, <1>13
<1>15. /\ \A s \in Slots : /\ Due(Places'[s]) \subseteq Leaves
                          /\ Due(Places'[s]) \cap ToSet(lines') = {}
       /\ \A s, t \in Slots : s # t => Due(Places'[s]) \cap Due(Places'[t]) = {}
  <2>1. ToSet(lines') \subseteq ToSet(lines) \cup {e}
    BY <1>11
  <2> QED BY <1>8, <1>14, <2>1
<1>16. Once(Places', ToSet(lines'))
  BY <1>5, <1>15, OnceIs
<1>17. Capped'
  BY <1>1 DEF OnceInv, Capped
<1>18. AllDue(Places) \subseteq AllDue(Places') \cup {e}
  <2> SUFFICES ASSUME NEW s \in Slots, NEW l \in Due(Places[s]), l # e
               PROVE  \E t \in Slots : l \in Due(Places'[t])
    BY DEF AllDue
  <2>1. s # b
    BY <1>4, <1>5
  <2> QED BY <1>7, <2>1
<1>19. OnceInv'
  BY <1>12, <1>16, <1>17 DEF OnceInv
<1> QED BY <1>9, <1>11, <1>18, <1>19 DEF e

\* A step of a worker that prints nothing keeps what is due.
LEMMA StepKeeps ==
  ASSUME IInv, IInv', Capped, NEW w \in Workers, Worker(w), ~PrintLine(w)
  PROVE  /\ lines' = lines /\ Capped'
         /\ Keeps \/ GoStopped(w)
         /\ \A out : Once(Places, out) => Once(Places', out)
<1>1. CASE Queueing(w)
  BY <1>1, QueueKeeps DEF Queueing, Keeps
<1>2. CASE Collapsing(w)
  <2>1. CASE Quietly(w) \/ (Only(w) /\ Calm(w) /\ Passes(w))
    BY <2>1, QuietKeeps, PassingKeeps DEF Quietly, Only, Keeps, Capped
  <2>2. CASE GoStopped(w)
    <3>1. Only(w) /\ Due(fr'[w].x) = {} /\ Due(Hand(wk'[w])) = {}
      BY <2>2, FinishPasses
    <3>2. bank' = bank /\ \A u \in Workers \ {w} : fr'[u].x = fr[u].x /\ Hand(wk'[u]) = Hand(wk[u])
      BY <3>1, OnlyHands DEF Only
    <3>3. \A out : Once(Places, out) => Once(Places', out)
      BY <3>1, <3>2, FrameStep
    <3>4. lines' = lines /\ Capped'
      BY <3>1 DEF Only, Capped
    <3> QED BY <2>2, <3>3, <3>4, Zenon
  <2>3. Quietly(w) \/ (Only(w) /\ Calm(w) /\ Passes(w)) \/ GoStopped(w)
    BY <1>2, Kinds
  <2> QED BY <2>1, <2>2, <2>3
<1> QED BY <1>1, <1>2 DEF Worker

LEMMA OnceNext == IInv /\ IInv' /\ OnceInv /\ [Next]_vars => OnceInv'
<1> SUFFICES ASSUME IInv, IInv', OnceInv, [Next]_vars PROVE OnceInv'
  OBVIOUS
<1>1. CASE UNCHANGED vars
  <2>1. bank' = bank /\ wk' = wk /\ fr' = fr /\ lines' = lines
    BY <1>1 DEF vars, queue
  <2>2. Places' = Places
    BY <2>1 DEF Places, Load
  <2>3. PrintedOnce' /\ Capped'
    BY <2>1 DEF OnceInv, PrintedOnce, Capped
  <2>4. Once(Places', ToSet(lines'))
    BY <2>1, <2>2, Zenon DEF OnceInv
  <2> QED BY <2>3, <2>4 DEF OnceInv
<1>2. ASSUME NEW w \in Workers, Worker(w) PROVE OnceInv'
  <2>1. CASE PrintLine(w)
    BY <2>1, PrintedIs
  <2>2. CASE ~PrintLine(w)
    <3>1. lines' = lines /\ Capped' /\ \A out : Once(Places, out) => Once(Places', out)
      BY <1>2, <2>2, StepKeeps DEF OnceInv
    <3> QED BY <3>1 DEF OnceInv, PrintedOnce
  <2> QED BY <2>1, <2>2
<1> QED BY <1>1, <1>2 DEF Next, Joined

LEMMA OnceInit == Init => OnceInv
<1> SUFFICES ASSUME Init PROVE OnceInv
  OBVIOUS
<1>1. PlacesRight
  BY IInvInit, PlacesAre DEF IInv
<1>2. \A w \in Workers : fr[w].x = 0 /\ Hand(wk[w]) = 0
  <2>1. ASSUME NEW w \in Workers
        PROVE  fr[w] = Q!Free(w) /\ wk[w] = Fresh(w)
    BY DEF Init
  <2>2. \A w : Q!Free(w).x = 0 /\ Fresh(w).at = 0 /\ Fresh(w).pc = "top"
    BY DEF Q!Free, Fresh
  <2> QED BY <2>1, <2>2 DEF Hand
<1>3. ASSUME NEW w \in Workers, NEW c \in Q!Buckets
      PROVE  \/ bank[w][c] = <<>>
             \/ bank[w][c] = <<Root>> /\ w = 0 /\ c = 0
  BY <1>3, Zenon DEF Init
<1>4. /\ Len(<<>>) = 0 /\ Len(<<Root>>) = 1 /\ <<Root>>[1] = Root
      /\ Cap \in Nat \ {0}
  BY SlotKinds
<1>5. ASSUME NEW s \in Slots, Places[s] # 0
      PROVE  s = <<0, 0, 1>> /\ Places[s] = Root
  <2>1. PICK u, c, i : s = <<u, c, i>> /\ u \in Workers
                      /\ ((c \in {-1, -2} /\ i = 1) \/ (c \in Q!Buckets /\ i \in 1..Cap))
    BY SlotKinds
  <2>2. CASE c \in {-1, -2} /\ i = 1
    <3>1. Places[<<u, -1, 1>>] = 0 /\ Places[<<u, -2, 1>>] = 0
      BY <1>1, <1>2, <2>1 DEF PlacesRight
    <3> QED BY <1>5, <2>1, <2>2, <3>1
  <2>3. CASE c \in Q!Buckets /\ i \in 1..Cap
    <3>1. Places[<<u, c, i>>] = IF i <= Len(bank[u][c]) THEN bank[u][c][i] ELSE 0
      BY <1>1, <2>1, <2>3 DEF PlacesRight
    <3>2. i <= Len(bank[u][c]) /\ Places[s] = bank[u][c][i] /\ i >= 1 /\ i \in Nat
      BY <1>4, <1>5, <2>1, <2>3, <3>1
    <3>3. bank[u][c] = <<Root>> /\ u = 0 /\ c = 0
      <4>1. CASE bank[u][c] = <<>>
        BY <1>4, <3>2, <4>1
      <4> QED BY <1>3, <2>1, <2>3, <4>1
    <3>4. i = 1
      BY <1>4, <3>2, <3>3
    <3> QED BY <1>4, <2>1, <3>2, <3>3, <3>4, Zenon
  <2> QED BY <2>1, <2>2, <2>3
<1>6. Due(0) = {} /\ Due(Root) = Leaves
  BY CollapseAssumption DEF Due, Leaves
<1>7. \A s \in Slots : s # <<0, 0, 1>> => Due(Places[s]) = {}
  BY <1>5, <1>6
<1>8. \A s \in Slots : Due(Places[s]) \subseteq Leaves
  BY <1>5, <1>6
<1>9. lines = <<>> /\ ToSet(<<>>) = {} /\ IsInjective(<<>>)
  BY DEF Init, ToSet, IsInjective
<1>10. Once(Places, ToSet(lines))
  <2>1. Places \in Loads
    BY <1>1 DEF PlacesRight
  <2>2. \A s \in Slots : Due(Places[s]) \subseteq Leaves /\ Due(Places[s]) \cap ToSet(lines) = {}
    BY <1>8, <1>9
  <2>3. \A s, t \in Slots : s # t => Due(Places[s]) \cap Due(Places[t]) = {}
    <3> SUFFICES ASSUME NEW s \in Slots, NEW t \in Slots, s # t
                 PROVE  Due(Places[s]) = {} \/ Due(Places[t]) = {}
      OBVIOUS
    <3> QED BY <1>7
  <2> QED BY <2>1, <2>2, <2>3, OnceIs
<1>11. Capped
  <2> SUFFICES ASSUME NEW w \in Workers, NEW c \in Q!Buckets
               PROVE  Len(bank[w][c]) <= Cap
    BY DEF Capped
  <2>1. CASE bank[w][c] = <<>>
    BY <1>4, <2>1
  <2>2. CASE bank[w][c] = <<Root>>
    BY <1>4, <2>2
  <2> QED BY <1>3, <2>1, <2>2
<1>12. PrintedOnce
  BY <1>9 DEF PrintedOnce
<1> QED BY <1>10, <1>11, <1>12 DEF OnceInv

\* However the workers push, pop, steal and print at the same time, no term is
\* printed twice and nothing is printed that is not a leaf of the tree.
THEOREM PrintsOnce == Spec => []PrintedOnce
<1>1. Init => IInv /\ OnceInv
  BY IInvInit, OnceInit
<1>2. IInv /\ OnceInv /\ [Next]_vars => (IInv /\ OnceInv)'
  BY IInvNext, OnceNext
<1>3. IInv /\ OnceInv => PrintedOnce
  BY DEF OnceInv
<1> QED BY <1>1, <1>2, <1>3, PTL DEF Spec

-----------------------------------------------------------------------------
(* The lines that are counted: p in the shared counter, f[w] in the local  *)
(* one of w.                                                               *)

Tally(S, p, f) ==
  \E owner \in [S -> 0..N] :
    /\ p = Cardinality({l \in S : owner[l] = N})
    /\ \A w \in Workers : f[w] = Cardinality({l \in S : owner[l] = w})

LEMMA ApartSum ==
  ASSUME NEW A, NEW B, IsFiniteSet(A), IsFiniteSet(B), A \cap B = {}
  PROVE  Cardinality(A \cup B) = Cardinality(A) + Cardinality(B)
<1>1. Cardinality(A \cup B) = Cardinality(A) + Cardinality(B) - Cardinality(A \cap B)
  BY FS_Union, Zenon
<1>2. Cardinality(A \cap B) = 0
  BY FS_EmptySet
<1>3. PICK m \in Nat, n \in Nat : m = Cardinality(A) /\ n = Cardinality(B)
  BY FS_CardinalityType, Zenon
<1> QED BY <1>1, <1>2, <1>3

LEMMA TallyBound ==
  ASSUME NEW S, IsFiniteSet(S), NEW p, NEW f, Tally(S, p, f), NEW w \in Workers
  PROVE  p \in Nat /\ f[w] \in Nat /\ Cardinality(S) \in Nat /\ p + f[w] <= Cardinality(S)
<1>1. PICK owner \in [S -> 0..N] :
        /\ p = Cardinality({l \in S : owner[l] = N})
        /\ f[w] = Cardinality({l \in S : owner[l] = w})
  BY DEF Tally
<1> DEFINE A == {l \in S : owner[l] = N}
           B == {l \in S : owner[l] = w}
<1>2. w # N /\ N \in Nat
  BY CollapseAssumption DEF Workers, Q!Workers
<1>3. A \subseteq S /\ B \subseteq S /\ A \cap B = {} /\ A \cup B \subseteq S
  BY <1>2
<1>4. p = Cardinality(A) /\ f[w] = Cardinality(B)
  BY <1>1
<1> HIDE DEF A, B
<1>5. IsFiniteSet(A) /\ IsFiniteSet(B) /\ IsFiniteSet(A \cup B)
  BY <1>3, FS_Subset
<1>6. /\ Cardinality(A) \in Nat /\ Cardinality(B) \in Nat /\ Cardinality(S) \in Nat
      /\ Cardinality(A \cup B) <= Cardinality(S)
  BY <1>3, <1>5, FS_CardinalityType, FS_Subset
<1>7. Cardinality(A \cup B) = Cardinality(A) + Cardinality(B)
  BY <1>3, <1>5, ApartSum
<1> QED BY <1>4, <1>6, <1>7

LEMMA TallyMoves ==
  ASSUME NEW S, IsFiniteSet(S), NEW p, NEW f, Tally(S, p, f), NEW w \in Workers,
         NEW g, g[w] = 0, \A u \in Workers \ {w} : g[u] = f[u]
  PROVE  Tally(S, p + f[w], g)
<1>1. PICK owner \in [S -> 0..N] :
        /\ p = Cardinality({l \in S : owner[l] = N})
        /\ \A u \in Workers : f[u] = Cardinality({l \in S : owner[l] = u})
  BY DEF Tally
<1> DEFINE A == {l \in S : owner[l] = N}
           B == {l \in S : owner[l] = w}
           next == [l \in S |-> IF owner[l] = w THEN N ELSE owner[l]]
<1>2. w # N /\ N \in Nat /\ N \in 0..N /\ \A u \in Workers : u # N
  BY CollapseAssumption DEF Workers, Q!Workers
<1>3. next \in [S -> 0..N]
  BY <1>2
<1>4. /\ {l \in S : next[l] = N} = A \cup B
      /\ {l \in S : next[l] = w} = {}
      /\ \A u \in Workers \ {w} : {l \in S : next[l] = u} = {l \in S : owner[l] = u}
  BY <1>2
<1>5. A \subseteq S /\ B \subseteq S /\ A \cap B = {}
  BY <1>2
<1>6. p = Cardinality(A) /\ f[w] = Cardinality(B)
  BY <1>1
<1> HIDE DEF A, B, next
<1>7. IsFiniteSet(A) /\ IsFiniteSet(B) /\ Cardinality(A) \in Nat /\ Cardinality(B) \in Nat
  BY <1>5, FS_Subset, FS_CardinalityType
<1>8. Cardinality(A \cup B) = Cardinality(A) + Cardinality(B)
  BY <1>5, <1>7, ApartSum
<1>9. p + f[w] = Cardinality({l \in S : next[l] = N})
  BY <1>4, <1>6, <1>8
<1>10. \A u \in Workers : g[u] = Cardinality({l \in S : next[l] = u})
  BY <1>1, <1>4, FS_EmptySet
<1> QED BY <1>3, <1>9, <1>10 DEF Tally

LEMMA TallyAdds ==
  ASSUME NEW S, IsFiniteSet(S), NEW p, NEW f, Tally(S, p, f), NEW w \in Workers, NEW e, e \notin S,
         NEW g, g[w] = f[w] + 1, \A u \in Workers \ {w} : g[u] = f[u]
  PROVE  Tally(S \cup {e}, p, g)
<1>1. PICK owner \in [S -> 0..N] :
        /\ p = Cardinality({l \in S : owner[l] = N})
        /\ \A u \in Workers : f[u] = Cardinality({l \in S : owner[l] = u})
  BY DEF Tally
<1> DEFINE T == S \cup {e}
           B == {l \in S : owner[l] = w}
           next == [l \in T |-> IF l = e THEN w ELSE owner[l]]
<1>2. w # N /\ N \in Nat /\ w \in 0..N
  BY CollapseAssumption DEF Workers, Q!Workers
<1>3. next \in [T -> 0..N]
  BY <1>2
<1>4. /\ {l \in T : next[l] = N} = {l \in S : owner[l] = N}
      /\ {l \in T : next[l] = w} = B \cup {e}
      /\ \A u \in Workers \ {w} : {l \in T : next[l] = u} = {l \in S : owner[l] = u}
  BY <1>2
<1>5. B \subseteq S /\ e \notin B /\ f[w] = Cardinality(B)
  BY <1>1
<1> HIDE DEF B, next
<1>6. IsFiniteSet(B)
  BY <1>5, FS_Subset
<1>7. Cardinality(B \cup {e}) = Cardinality(B) + 1
  BY <1>5, <1>6, FS_AddElement
<1>8. p = Cardinality({l \in T : next[l] = N})
  BY <1>1, <1>4
<1>9. \A u \in Workers : g[u] = Cardinality({l \in T : next[l] = u})
  <2> TAKE u \in Workers
  <2>1. CASE u = w
    BY <1>4, <1>5, <1>7, <2>1
  <2>2. CASE u # w
    BY <1>1, <1>4, <2>2
  <2> QED BY <2>1, <2>2
<1> HIDE DEF T
<1>10. Tally(T, p, g)
  BY <1>3, <1>8, <1>9 DEF Tally
<1> QED BY <1>10 DEF T

\* A leaf in the hand of a worker is not printed, and in no other hand.
LEMMA HeldLeaf ==
  ASSUME IInv, OnceInv, NEW w \in Workers, wk[w].pc \in InHand \ {"second", "pushed"},
         Kind[wk[w].at] = "LEAF"
  PROVE  /\ wk[w].at \in Locs /\ wk[w].at \in Leaves \ ToSet(lines)
         /\ \A u \in Workers \ {w} :
              wk[u].pc \in InHand \ {"second", "pushed"} => wk[u].at # wk[w].at
<1> DEFINE a == wk[w].at
           b == <<w, -2, 1>>
<1>1. /\ wk[w] \in WorkerIn /\ WorkerFits(wk[w], fr[w], bank[w])
      /\ \A u \in Workers : wk[u] \in WorkerIn /\ WorkerFits(wk[u], fr[u], bank[u])
  BY Here
<1>2. a \in Locs /\ a # 0
  BY <1>1, CollapseAssumption DEF WorkerFits, WorkerIn
<1>3. /\ PlacesRight /\ Places \in Loads
      /\ \A u \in Workers : <<u, -2, 1>> \in Slots
  BY PlacesAre, SlotKinds DEF IInv, PlacesRight
<1>4. Places[b] = a
  <2>1. Places[<<w, -2, 1>>] = Hand(wk[w])
    BY <1>3 DEF PlacesRight
  <2> QED BY <2>1 DEF Hand
<1>5. Due(a) = {a}
  BY <1>2, BelowKinds DEF Due
<1>6. /\ \A s \in Slots : Due(Places[s]) \subseteq Leaves /\ Due(Places[s]) \cap ToSet(lines) = {}
      /\ \A s, t \in Slots : s # t => Due(Places[s]) \cap Due(Places[t]) = {}
  BY <1>3, OnceIs DEF OnceInv
<1>7. a \in Leaves /\ a \notin ToSet(lines)
  BY <1>3, <1>4, <1>5, <1>6
<1>8. ASSUME NEW u \in Workers, u # w, wk[u].pc \in InHand \ {"second", "pushed"},
             wk[u].at = a
      PROVE  FALSE
  <2> DEFINE c == <<u, -2, 1>>
  <2>1. Places[<<u, -2, 1>>] = Hand(wk[u])
    BY <1>3 DEF PlacesRight
  <2>2. Places[c] = a
    BY <1>8, <2>1 DEF Hand
  <2>3. b # c /\ b \in Slots /\ c \in Slots
    BY <1>3, <1>8
  <2> HIDE DEF a, b, c
  <2>4. Due(Places[b]) \cap Due(Places[c]) = {}
    BY <1>6, <2>3
  <2> QED BY <1>4, <1>5, <2>2, <2>4
<1> QED BY <1>2, <1>7, <1>8

LEMMA CountedAre ==
  ASSUME IInv, OnceInv
  PROVE  /\ CountedLines \subseteq Leaves /\ IsFiniteSet(CountedLines)
         /\ IsFiniteSet(Leaves) /\ Cardinality(Leaves) \in Nat
         /\ Cardinality(CountedLines) <= Cardinality(Leaves)
<1>1. ASSUME NEW w \in Printing
      PROVE  wk[w].at \in Leaves
  <2>1. w \in Workers /\ wk[w].pc \in {"flush", "print"}
    BY DEF Printing
  <2>2. Kind[wk[w].at] = "LEAF"
    BY <2>1, Here DEF WorkerFits
  <2> QED BY <2>1, <2>2, HeldLeaf DEF InHand
<1>2. CountedLines \subseteq Leaves
  BY <1>1 DEF CountedLines, OnceInv, PrintedOnce
<1>3. IsFiniteSet(Leaves)
  BY LeavesFinite
<1> QED BY <1>2, <1>3, FS_Subset, FS_CardinalityType

\* NoneLost, part by part.
Far == limit > Cardinality(Leaves)
Locals == [w \in Workers |-> wk[w].local]
AllThere == Leaves \ ToSet(lines) \subseteq AllDue(Places)
NoHalt == \A w \in Workers : wk[w].pc # "halt"
Ending == stop \/ \E w \in Workers : wk[w].pc \in {"zero2", "set"}
Lossless ==
  /\ Tally(CountedLines, printed, Locals)
  /\ AllThere /\ NoHalt
  /\ Ending => Leaves \subseteq ToSet(lines)

LEMMA NoneLostIs == NoneLost <=> (Far => Lossless)
<1>1. LinesCounted <=> Tally(CountedLines, printed, Locals)
  <2>1. \A w \in Workers : Locals[w] = wk[w].local
    BY DEF Locals
  <2> QED BY <2>1 DEF LinesCounted, Tally
<1>2. AllThere <=> \A l \in Leaves \ ToSet(lines) : \E s \in Loaded(Places) : l \in Below[Places[s]]
  BY DEF AllThere, AllDue, Due, Loaded
<1> QED BY <1>1, <1>2 DEF NoneLost, Far, Lossless, NoHalt, Ending

LEMMA NoneLostThen == NoneLost' <=> (Far => Lossless)'
BY NoneLostIs, PTL

LEMMA Room ==
  ASSUME IInv, OnceInv, Far, Lossless, NEW w \in Workers
  PROVE  /\ printed \in Nat /\ wk[w].local \in Nat /\ limit \in Nat
         /\ printed + wk[w].local <= Cardinality(CountedLines)
         /\ printed + wk[w].local < limit
<1>1. /\ IsFiniteSet(CountedLines) /\ Cardinality(Leaves) \in Nat /\ limit \in Nat
      /\ Cardinality(CountedLines) <= Cardinality(Leaves)
  BY CountedAre, CollapseAssumption DEF IInv, Types
<1>2. Locals[w] = wk[w].local /\ Tally(CountedLines, printed, Locals)
  BY DEF Locals, Lossless
<1>3. /\ printed \in Nat /\ Locals[w] \in Nat /\ Cardinality(CountedLines) \in Nat
      /\ printed + Locals[w] <= Cardinality(CountedLines)
  BY <1>1, <1>2, TallyBound
<1>4. limit > Cardinality(Leaves)
  BY DEF Far
<1>5. PICK c \in Nat, d \in Nat : c = Cardinality(CountedLines) /\ d = Cardinality(Leaves)
  BY <1>1, <1>3
<1> QED BY <1>1, <1>2, <1>3, <1>4, <1>5

\* Nothing is lost by a step that leaves the lines and the counters alone.
LEMMA CalmLossless ==
  ASSUME Lossless, NEW w \in Workers, Only(w), Calm(w), Keeps \/ Leaves \subseteq ToSet(lines)
  PROVE  Lossless'
<1>1. /\ lines' = lines /\ printed' = printed /\ stop' = stop
      /\ \A u \in Workers \ {w} :
           wk'[u].at = wk[u].at /\ wk'[u].pc = wk[u].pc /\ wk'[u].local = wk[u].local
      /\ wk'[w].local = wk[w].local
      /\ wk'[w].pc \notin {"halt", "flush", "print"} /\ wk[w].pc \notin {"flush", "print"}
      /\ (wk'[w].pc \in {"zero2", "set"} => wk[w].pc = "zero2")
  BY DEF Only, Calm
<1>2. CountedLines' = CountedLines
  <2>1. w \notin Printing /\ Printing' = Printing
    BY <1>1 DEF Printing
  <2>2. \A u \in Printing : wk'[u].at = wk[u].at
    BY <1>1, <2>1 DEF Printing
  <2> QED BY <1>1, <2>1, <2>2 DEF CountedLines
<1>3. Locals' = Locals
  BY <1>1 DEF Locals
<1>4. Tally(CountedLines', printed', Locals')
  BY <1>1, <1>2, <1>3 DEF Lossless
<1>5. AllThere'
  BY <1>1 DEF Lossless, AllThere, Keeps
<1>6. NoHalt'
  BY <1>1 DEF Lossless, NoHalt
<1>7. (Ending => Leaves \subseteq ToSet(lines))'
  BY <1>1 DEF Lossless, Ending
<1> QED BY <1>4, <1>5, <1>6, <1>7 DEF Lossless

\* When pending is zero nobody is active, so nothing is due anywhere.
LEMMA ZeroMeansDone ==
  ASSUME IInv, AllThere, pending = 0
  PROVE  Leaves \subseteq ToSet(lines)
<1>1. \A w \in Workers : ~wk[w].active
  <2> DEFINE S == {w \in Workers : wk[w].active}
  <2>1. IsFiniteSet(Workers)
    BY CollapseAssumption, FS_Interval DEF Workers, Q!Workers
  <2>2. IsFiniteSet(S)
    BY <2>1, FS_Subset
  <2>3. Cardinality(S) = 0
    BY DEF IInv, Counted
  <2> HIDE DEF S
  <2>4. S = {}
    BY <2>2, <2>3, FS_EmptySet
  <2> QED BY <2>4 DEF S
<1>2. PlacesRight
  BY PlacesAre DEF IInv
<1>3. \A w \in Workers : fr[w].x = 0 /\ Hand(wk[w]) = 0 /\ Empty(bank[w])
  <2> TAKE w \in Workers
  <2>1. WorkerFits(wk[w], fr[w], bank[w]) /\ ~wk[w].active
    BY <1>1, Here
  <2>2. wk[w].pc \notin InHand /\ wk[w].at = 0 /\ fr[w].x = 0 /\ Empty(bank[w])
    BY <2>1 DEF WorkerFits
  <2> QED BY <2>2 DEF Hand, InHand
<1>4. ASSUME NEW s \in Slots
      PROVE  Places[s] = 0
  <2>1. PICK u, c, i : s = <<u, c, i>> /\ u \in Workers
                      /\ ((c \in {-1, -2} /\ i = 1) \/ (c \in Q!Buckets /\ i \in 1..Cap))
    BY SlotKinds
  <2>2. CASE c \in {-1, -2} /\ i = 1
    <3>1. Places[<<u, -1, 1>>] = 0 /\ Places[<<u, -2, 1>>] = 0
      BY <1>2, <1>3, <2>1 DEF PlacesRight
    <3> QED BY <2>1, <2>2, <3>1
  <2>3. CASE c \in Q!Buckets /\ i \in 1..Cap
    <3>1. Places[<<u, c, i>>] = IF i <= Len(bank[u][c]) THEN bank[u][c][i] ELSE 0
      BY <1>2, <2>1, <2>3 DEF PlacesRight
    <3>2. Len(bank[u][c]) = 0
      BY <1>3, <2>1, <2>3 DEF Empty
    <3>3. ~(i <= 0)
      BY <2>3, SlotKinds
    <3> QED BY <2>1, <3>1, <3>2, <3>3
  <2> QED BY <2>1, <2>2, <2>3
<1>5. AllDue(Places) = {}
  BY <1>4 DEF AllDue, Due
<1> QED BY <1>5 DEF AllThere

\* The steps to the end, and those that count.
LEMMA EndSteps ==
  ASSUME IInv, Lossless, NEW w \in Workers, ReadPending(w) \/ SetStop(w), Quietly(w), Keeps
  PROVE  Lossless'
<1>1. wk \in [Workers -> WorkerIn] /\ wk[w] \in WorkerIn
  BY Here
<1>2. PICK p \in Steps :
        /\ wk' = [wk EXCEPT ![w].pc = p] /\ printed' = printed
        /\ \/ wk[w].pc = "zero" /\ p = "zero2" /\ pending = 0 /\ stop' = stop
           \/ wk[w].pc = "zero" /\ p = "top" /\ stop' = stop
           \/ wk[w].pc = "set" /\ p = "top"
  <2>1. CASE ReadPending(w)
    <3>1. "zero2" \in Steps /\ "top" \in Steps
      BY DEF Steps
    <3>2. CASE pending = 0
      BY <2>1, <3>1, <3>2 DEF ReadPending, Goto, At, shared
    <3>3. CASE pending # 0
      BY <2>1, <3>1, <3>3 DEF ReadPending, Goto, At, shared
    <3> QED BY <3>2, <3>3
  <2>2. CASE SetStop(w)
    <3>1. "top" \in Steps
      BY DEF Steps
    <3> QED BY <2>2, <3>1 DEF SetStop, Goto, At
  <2> QED BY <2>1, <2>2
<1>3. /\ wk'[w].pc = p /\ wk'[w].local = wk[w].local
      /\ \A u \in Workers \ {w} : wk'[u] = wk[u]
  BY <1>1, <1>2 DEF WorkerIn
<1>4. lines' = lines
  BY DEF Quietly, Only
<1>5. CountedLines' = CountedLines
  <2>1. w \notin Printing /\ Printing' = Printing
    BY <1>2, <1>3 DEF Printing
  <2>2. \A u \in Printing : wk'[u].at = wk[u].at
    BY <1>3, <2>1 DEF Printing
  <2> QED BY <1>4, <2>1, <2>2 DEF CountedLines
<1>6. Locals' = Locals
  BY <1>3 DEF Locals
<1>7. Tally(CountedLines', printed', Locals')
  BY <1>2, <1>5, <1>6 DEF Lossless
<1>8. AllThere'
  BY <1>4 DEF Lossless, AllThere, Keeps
<1>9. NoHalt'
  BY <1>2, <1>3 DEF Lossless, NoHalt
<1>10. CASE wk[w].pc = "set" \/ pending = 0
  <2>1. Leaves \subseteq ToSet(lines)
    BY <1>10, ZeroMeansDone DEF Lossless, Ending
  <2> QED BY <1>4, <1>7, <1>8, <1>9, <2>1 DEF Lossless
<1>11. CASE wk[w].pc # "set" /\ pending # 0
  <2>1. Ending' => Ending
    BY <1>2, <1>3, <1>11 DEF Ending
  <2> QED BY <1>4, <1>7, <1>8, <1>9, <2>1 DEF Lossless
<1> QED BY <1>10, <1>11

\* The local count goes to the shared one.
LEMMA FlushLossless ==
  ASSUME IInv, OnceInv, Lossless, NEW w \in Workers, Leave(w) \/ Flush(w), Quietly(w), Keeps
  PROVE  Lossless'
<1>1. wk \in [Workers -> WorkerIn] /\ wk[w] \in WorkerIn /\ wk[w].local \in Nat /\ printed \in Nat
  BY Here DEF IInv, Types, WorkerIn
<1>2. PICK p \in {"print", "done"} :
        /\ wk' = [wk EXCEPT ![w] = [@ EXCEPT !.pc = p, !.local = 0]]
        /\ printed' = printed + wk[w].local /\ stop' = stop
        /\ \/ wk[w].pc = "leave" /\ p = "done"
           \/ wk[w].pc = "flush" /\ p = "print"
  <2>1. CASE Leave(w)
    BY <2>1 DEF Leave, At
  <2>2. CASE Flush(w)
    BY <2>2 DEF Flush, At
  <2> QED BY <2>1, <2>2
<1>3. /\ wk'[w].pc = p /\ wk'[w].local = 0 /\ wk'[w].at = wk[w].at
      /\ \A u \in Workers \ {w} : wk'[u] = wk[u]
  BY <1>1, <1>2 DEF WorkerIn
<1>4. lines' = lines
  BY DEF Quietly, Only
<1>5. CountedLines' = CountedLines
  <2>1. Printing' = Printing
    BY <1>2, <1>3 DEF Printing
  <2>2. \A u \in Printing : wk'[u].at = wk[u].at
    BY <1>3 DEF Printing
  <2> QED BY <1>4, <2>1, <2>2 DEF CountedLines
<1>6. /\ Locals[w] = wk[w].local /\ Locals'[w] = 0
      /\ \A u \in Workers \ {w} : Locals'[u] = Locals[u]
  BY <1>3 DEF Locals
<1>7. Tally(CountedLines', printed', Locals')
  <2>1. IsFiniteSet(CountedLines) /\ Tally(CountedLines, printed, Locals)
    BY CountedAre DEF Lossless
  <2>2. Tally(CountedLines, printed + Locals[w], Locals')
    BY <1>6, <2>1, TallyMoves
  <2> QED BY <1>2, <1>5, <1>6, <2>2
<1>8. AllThere' /\ NoHalt' /\ (Ending' => Ending)
  BY <1>2, <1>3, <1>4 DEF Lossless, AllThere, NoHalt, Keeps, Ending
<1> QED BY <1>4, <1>7, <1>8 DEF Lossless

\* One more line is counted: far from the limit it is not the last one.
LEMMA LeafLossless ==
  ASSUME IInv, OnceInv, Far, Lossless, NEW w \in Workers, CnfLeaf(w), Quietly(w), Keeps
  PROVE  Lossless'
<1>1. wk \in [Workers -> WorkerIn] /\ wk[w] \in WorkerIn
  BY Here
<1> DEFINE n == wk[w].local + 1
           e == wk[w].at
           p == IF printed + n >= limit THEN "halt" ELSE IF n >= PrintBatch THEN "flush" ELSE "print"
<1>2. /\ wk' = [wk EXCEPT ![w] = [@ EXCEPT !.local = n, !.pc = p]]
      /\ printed' = printed /\ stop' = stop /\ wk[w].pc = "cnf" /\ Kind[e] = "LEAF"
  BY DEF CnfLeaf, CnfDone, Is, At, shared
<1>3. /\ e \in Leaves \ ToSet(lines)
      /\ \A u \in Printing : wk[u].at # e
  <2>1. /\ e \in Leaves \ ToSet(lines)
        /\ \A u \in Workers \ {w} : wk[u].pc \in InHand \ {"second", "pushed"} => wk[u].at # e
    BY <1>2, HeldLeaf DEF InHand
  <2>2. \A u \in Printing : u \in Workers \ {w} /\ wk[u].pc \in InHand \ {"second", "pushed"}
    BY <1>2 DEF Printing, InHand
  <2> QED BY <2>1, <2>2
<1>4. e \notin CountedLines
  BY <1>3 DEF CountedLines
<1>5. /\ IsFiniteSet(CountedLines) /\ IsFiniteSet(Leaves) /\ Cardinality(Leaves) \in Nat
      /\ CountedLines \subseteq Leaves
  BY CountedAre
<1>6. /\ printed \in Nat /\ wk[w].local \in Nat /\ limit \in Nat
      /\ printed + wk[w].local <= Cardinality(CountedLines)
  BY Room
<1>7. Cardinality(CountedLines) \in Nat /\ Cardinality(CountedLines) + 1 <= Cardinality(Leaves)
  <2>1. CountedLines \cup {e} \in SUBSET Leaves
    BY <1>3, <1>5
  <2>2. Cardinality(CountedLines \cup {e}) = Cardinality(CountedLines) + 1
    BY <1>4, <1>5, FS_AddElement
  <2>3. Cardinality(CountedLines \cup {e}) <= Cardinality(Leaves)
    BY <1>5, <2>1, FS_Subset
  <2>4. Cardinality(CountedLines) \in Nat
    BY <1>5, FS_CardinalityType
  <2> QED BY <2>2, <2>3, <2>4
<1>8. n \in Nat /\ ~(printed + n >= limit)
  <2>1. limit > Cardinality(Leaves)
    BY DEF Far
  <2>2. PICK c \in Nat, d \in Nat : c = Cardinality(CountedLines) /\ d = Cardinality(Leaves)
    BY <1>5, <1>7
  <2> QED BY <1>6, <1>7, <2>1, <2>2
<1>9. p \in {"flush", "print"}
  BY <1>8
<1> HIDE DEF p
<1>10. /\ wk'[w].pc = p /\ wk'[w].local = n /\ wk'[w].at = e
       /\ \A u \in Workers \ {w} : wk'[u] = wk[u]
  BY <1>1, <1>2 DEF WorkerIn
<1> HIDE DEF n, e
<1>11. lines' = lines
  BY DEF Quietly, Only
<1>12. CountedLines' = CountedLines \cup {e}
  <2>1. Printing' = Printing \cup {w} /\ w \notin Printing
    BY <1>2, <1>9, <1>10 DEF Printing
  <2>2. \A u \in Printing : wk'[u].at = wk[u].at
    BY <1>10, <2>1 DEF Printing
  <2>3. {wk'[u].at : u \in Printing \cup {w}} = {wk[u].at : u \in Printing} \cup {e}
    BY <1>10, <2>2
  <2> QED BY <1>11, <2>1, <2>3 DEF CountedLines
<1>13. /\ Locals'[w] = Locals[w] + 1
       /\ \A u \in Workers \ {w} : Locals'[u] = Locals[u]
  BY <1>10 DEF Locals, n
<1>14. Tally(CountedLines', printed', Locals')
  <2>1. Tally(CountedLines, printed, Locals)
    BY DEF Lossless
  <2>2. Tally(CountedLines \cup {e}, printed, Locals')
    BY <1>4, <1>5, <1>13, <2>1, TallyAdds
  <2> QED BY <1>2, <1>12, <2>2
<1>15. AllThere'
  BY <1>11 DEF Lossless, AllThere, Keeps
<1>16. NoHalt'
  BY <1>9, <1>10 DEF Lossless, NoHalt
<1>17. Ending' => Ending
  BY <1>2, <1>9, <1>10 DEF Ending
<1> QED BY <1>11, <1>14, <1>15, <1>16, <1>17 DEF Lossless

\* A counted line goes out.
LEMMA PrintLossless ==
  ASSUME IInv, IInv', OnceInv, Far, Lossless, NEW w \in Workers, PrintLine(w)
  PROVE  Lossless'
<1> DEFINE e == wk[w].at
<1>1. /\ printed' = printed /\ stop' = stop
      /\ \A u \in Workers \ {w} : wk'[u] = wk[u]
      /\ wk'[w].local = wk[w].local /\ wk'[w].pc \in {"top", "seek"} /\ wk[w].pc = "print"
  BY Prints
<1>2. /\ AllDue(Places) \subseteq AllDue(Places') \cup {e}
      /\ ToSet(lines') = IF printed + wk[w].local <= limit
                         THEN ToSet(lines) \cup {e} ELSE ToSet(lines)
  BY PrintedIs
<1>3. printed + wk[w].local <= limit
  BY Room
<1>4. ToSet(lines') = ToSet(lines) \cup {e}
  BY <1>2, <1>3
<1>5. CountedLines' = CountedLines
  <2>1. w \in Printing /\ Printing' = Printing \ {w}
    BY <1>1 DEF Printing
  <2>2. \A u \in Printing \ {w} : wk'[u].at = wk[u].at
    BY <1>1 DEF Printing
  <2>3. {wk'[u].at : u \in Printing \ {w}} \cup {e} = {wk[u].at : u \in Printing}
    BY <2>1, <2>2
  <2> HIDE DEF e
  <2>4. CountedLines' = ToSet(lines) \cup {e} \cup {wk'[u].at : u \in Printing \ {w}}
    BY <1>4, <2>1 DEF CountedLines
  <2> QED BY <2>3, <2>4 DEF CountedLines
<1>6. Locals' = Locals
  BY <1>1 DEF Locals
<1>7. Tally(CountedLines', printed', Locals')
  BY <1>1, <1>5, <1>6 DEF Lossless
<1>8. AllThere'
  BY <1>2, <1>4 DEF Lossless, AllThere
<1>9. NoHalt'
  BY <1>1 DEF Lossless, NoHalt
<1>10. Ending' => Ending
  BY <1>1 DEF Ending
<1> QED BY <1>4, <1>7, <1>8, <1>9, <1>10 DEF Lossless

LEMMA NoneLostNext == IInv /\ IInv' /\ OnceInv /\ NoneLost /\ [Next]_vars => NoneLost'
<1> SUFFICES ASSUME IInv, IInv', OnceInv, NoneLost, [Next]_vars PROVE (Far => Lossless)'
  BY NoneLostThen
<1> SUFFICES ASSUME Far' PROVE Lossless'
  OBVIOUS
<1>1. limit' = limit
  BY DEF Next, Worker, Joined, vars
<1>2. Far /\ Lossless
  BY <1>1, NoneLostIs DEF Far
<1>3. CASE UNCHANGED vars
  <2>1. /\ bank' = bank /\ wk' = wk /\ fr' = fr /\ lines' = lines /\ printed' = printed
        /\ stop' = stop
    BY <1>3 DEF vars, queue, shared
  <2>2. Places' = Places /\ CountedLines' = CountedLines /\ Locals' = Locals
    BY <2>1 DEF Places, Load, CountedLines, Printing, Locals
  <2> QED BY <1>2, <2>1, <2>2 DEF Lossless, AllThere, NoHalt, Ending
<1>4. ASSUME NEW w \in Workers, Queueing(w) PROVE Lossless'
  <2>1. /\ wk' = wk /\ lines' = lines /\ printed' = printed /\ stop' = stop
    BY <1>4 DEF Queueing, shared
  <2>2. CountedLines' = CountedLines /\ Locals' = Locals
    BY <2>1 DEF CountedLines, Printing, Locals
  <2>3. Keeps
    BY <1>4, QueueKeeps DEF OnceInv
  <2> QED BY <1>2, <2>1, <2>2, <2>3 DEF Lossless, AllThere, NoHalt, Ending, Keeps
<1>5. ASSUME NEW w \in Workers, Collapsing(w) PROVE Lossless'
  <2>1. CASE Quietly(w) /\ Calm(w)
    BY <1>2, <2>1, QuietKeeps, CalmLossless DEF Quietly
  <2>2. CASE Only(w) /\ Calm(w) /\ Passes(w)
    BY <1>2, <2>2, PassingKeeps, CalmLossless
  <2>3. CASE GoStopped(w)
    <3>1. Leaves \subseteq ToSet(lines)
      BY <1>2, <2>3 DEF GoStopped, Lossless, Ending
    <3> QED BY <1>2, <2>3, <3>1, FinishPasses, CalmLossless
  <2>4. CASE Quietly(w) /\ (ReadPending(w) \/ SetStop(w))
    BY <1>2, <2>4, QuietKeeps, EndSteps
  <2>5. CASE Quietly(w) /\ (Leave(w) \/ Flush(w))
    BY <1>2, <2>5, QuietKeeps, FlushLossless
  <2>6. CASE Quietly(w) /\ CnfLeaf(w)
    BY <1>2, <2>6, QuietKeeps, LeafLossless
  <2>7. CASE LimitStop(w)
    BY <1>2, <2>7 DEF LimitStop, At, Lossless, NoHalt
  <2>8. CASE PrintLine(w)
    BY <1>2, <2>8, PrintLossless
  <2> QED BY <1>5, <2>1, <2>2, <2>3, <2>4, <2>5, <2>6, <2>7, <2>8, Kinds
<1> QED BY <1>3, <1>4, <1>5 DEF Next, Worker, Joined

\* At first everything is below the root, in the first bucket.
LEMMA DueAtFirst == Init => AllThere
<1> SUFFICES ASSUME Init PROVE AllThere
  OBVIOUS
<1>1. PICK z \in Workers, d \in Q!Buckets : z = 0 /\ d = 0
  BY CollapseAssumption DEF Workers, Q!Workers, Q!Buckets
<1>2. bank[z][d] = <<Root>>
  BY <1>1, Zenon DEF Init
<1>3. PlacesRight /\ 1 \in 1..Cap /\ <<z, d, 1>> \in Slots
  <2>1. PlacesRight
    BY IInvInit, PlacesAre DEF IInv
  <2>2. 1 \in 1..Cap
    BY CollapseAssumption
  <2> QED BY <1>1, <2>1, <2>2, SlotKinds
<1>4. Places[<<z, d, 1>>] = IF 1 <= Len(bank[z][d]) THEN bank[z][d][1] ELSE 0
  BY <1>1, <1>3 DEF PlacesRight
<1>5. Len(<<Root>>) = 1 /\ <<Root>>[1] = Root
  OBVIOUS
<1>6. Places[<<z, d, 1>>] = Root
  BY <1>2, <1>4, <1>5
<1>7. Due(Root) = Leaves
  BY CollapseAssumption DEF Due, Leaves
<1>8. Leaves \subseteq AllDue(Places)
  BY <1>3, <1>6, <1>7 DEF AllDue
<1> QED BY <1>8 DEF AllThere

LEMMA NoneLostInit == ZeroInit => NoneLost
<1> SUFFICES ASSUME ZeroInit, Far PROVE Lossless
  BY NoneLostIs
<1>1. Init /\ ~stop /\ lines = <<>> /\ printed = 0
  BY DEF ZeroInit, Init
<1>2. \A w \in Workers : wk[w].pc = "top" /\ wk[w].local = 0
  BY <1>1 DEF Init, Fresh
<1>3. ToSet(lines) = {}
  BY <1>1 DEF ToSet
<1>4. CountedLines = {}
  <2>1. Printing = {}
    BY <1>2 DEF Printing
  <2> QED BY <1>3, <2>1 DEF CountedLines
<1>5. Tally({}, 0, Locals)
  <2>1. [l \in {} |-> N] \in [{} -> 0..N]
    OBVIOUS
  <2>2. \A f, k : {l \in {} : f[l] = k} = {}
    OBVIOUS
  <2>3. Cardinality({}) = 0 /\ \A w \in Workers : Locals[w] = 0
    BY <1>2, FS_EmptySet DEF Locals
  <2> QED BY <2>1, <2>2, <2>3 DEF Tally
<1>6. AllThere
  BY <1>1, DueAtFirst
<1>7. NoHalt /\ ~Ending
  BY <1>1, <1>2 DEF NoHalt, Ending
<1> QED BY <1>1, <1>4, <1>5, <1>6, <1>7 DEF Lossless

\* Started with stop at zero, and whatever the batch, the collapser keeps all
\* that is known of it: the frames, the counters, each term at one place, and
\* far from the limit every line counted, printed or still due somewhere.
THEOREM ZeroInvariance == ZeroSpec => []ZeroInv
<1>1. ZeroInit => ZeroInv
  BY IInvInit, OnceInit, NoneLostInit DEF ZeroInit, ZeroInv
<1>2. ZeroInv /\ [Next]_vars => ZeroInv'
  BY IInvNext, OnceNext, NoneLostNext DEF ZeroInv
<1> QED BY <1>1, <1>2, PTL DEF ZeroSpec

\* A worker tells the others to stop only when every term is printed, unless
\* the limit was reached: pending, read at zero once, stays right although
\* others steal, print and count themselves in and out.
THEOREM StopsLate == ZeroSpec => []NoEarlyStop
<1>1. ZeroInv => NoEarlyStop
  <2> SUFFICES ASSUME ZeroInv, stop, Far PROVE ToSet(lines) = Leaves
    BY DEF NoEarlyStop, Far
  <2>1. Leaves \subseteq ToSet(lines)
    BY NoneLostIs DEF ZeroInv, Lossless, Ending
  <2>2. ToSet(lines) \subseteq Leaves
    BY DEF ZeroInv, OnceInv, PrintedOnce
  <2> QED BY <2>1, <2>2
<1> QED BY <1>1, ZeroInvariance, PTL

=============================================================================
