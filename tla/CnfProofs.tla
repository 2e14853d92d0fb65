----------------------------- MODULE CnfProofs ------------------------------
(***************************************************************************)
(* The fork and join of Cnf for any number of workers, capacity of their   *)
(* deques, depth of forking and terms: a task is in one place at a time,   *)
(* the counter of a fork is the number of its tasks that are out, and no   *)
(* task outlives the call whose stack frame it points into.                *)
(***************************************************************************)
EXTENDS Cnf, FiniteSetTheorems, SequenceTheorems, TLAPS

-----------------------------------------------------------------------------
(* Stacks.                                                                 *)

LEMMA PopTop ==
  ASSUME NEW S, NEW s \in Seq(S), s # <<>>
  PROVE  /\ Popped(s) \in Seq(S) /\ Len(Popped(s)) = Len(s) - 1
         /\ Len(s) \in Nat \ {0} /\ s[Len(s)] \in S
         /\ \A d \in 1..(Len(s) - 1) : Popped(s)[d] = s[d]
<1> PICK n \in Nat \ {0} : n = Len(s)
  OBVIOUS
<1>1. \A d \in 1..n : s[d] \in S
  OBVIOUS
<1>2. \A d \in 1..(n - 1) : s[d] \in S
  BY <1>1
<1> DEFINE q == SubSeq(s, 1, n - 1)
<1>3. /\ q \in Seq(S) /\ Len(q) = IF 1 <= n - 1 THEN (n - 1) - 1 + 1 ELSE 0
      /\ \A i \in 1..((n - 1) - 1 + 1) : q[i] = s[1 + i - 1]
  BY <1>2, SubSeqProperties
<1> HIDE DEF q
<1>4. Len(q) = n - 1 /\ \A i \in 1..(n - 1) : q[i] = s[i]
  BY <1>3
<1>5. Popped(s) = q
  BY DEF Popped, q
<1> QED BY <1>1, <1>3, <1>4, <1>5

LEMMA PushTop ==
  ASSUME NEW S, NEW s \in Seq(S), NEW f \in S
  PROVE  /\ Append(s, f) \in Seq(S) /\ Len(Append(s, f)) = Len(s) + 1 /\ Len(s) \in Nat
         /\ Append(s, f)[Len(s) + 1] = f
         /\ \A d \in 1..Len(s) : Append(s, f)[d] = s[d]
OBVIOUS

LEMMA ReplaceTop ==
  ASSUME NEW S, NEW s \in Seq(S), s # <<>>, NEW f \in S
  PROVE  /\ Append(Popped(s), f) \in Seq(S) /\ Len(Append(Popped(s), f)) = Len(s)
         /\ Append(Popped(s), f)[Len(s)] = f
         /\ \A d \in 1..(Len(s) - 1) : Append(Popped(s), f)[d] = s[d]
<1> DEFINE q == Popped(s)
<1>1. q \in Seq(S) /\ Len(q) = Len(s) - 1 /\ Len(s) \in Nat \ {0}
      /\ \A d \in 1..(Len(s) - 1) : q[d] = s[d]
  BY PopTop
<1> HIDE DEF q
<1>2. /\ Append(q, f) \in Seq(S) /\ Len(Append(q, f)) = Len(q) + 1
      /\ Append(q, f)[Len(q) + 1] = f /\ \A d \in 1..Len(q) : Append(q, f)[d] = q[d]
  BY <1>1, PushTop
<1>3. Len(q) + 1 = Len(s)
  BY <1>1
<1> QED BY <1>1, <1>2, <1>3 DEF q

LEMMA ReplacePush ==
  ASSUME NEW S, NEW s \in Seq(S), s # <<>>, NEW f \in S, NEW g \in S
  PROVE  /\ Popped(s) \o <<f, g>> \in Seq(S) /\ Len(Popped(s) \o <<f, g>>) = Len(s) + 1
         /\ (Popped(s) \o <<f, g>>)[Len(s)] = f
         /\ (Popped(s) \o <<f, g>>)[Len(s) + 1] = g
         /\ \A d \in 1..(Len(s) - 1) : (Popped(s) \o <<f, g>>)[d] = s[d]
<1> DEFINE q == Popped(s)
           e == <<f, g>>
<1>1. q \in Seq(S) /\ Len(q) = Len(s) - 1 /\ Len(s) \in Nat \ {0}
      /\ \A d \in 1..(Len(s) - 1) : q[d] = s[d]
  BY PopTop
<1>2. e \in Seq(S) /\ Len(e) = 2 /\ e[1] = f /\ e[2] = g
  OBVIOUS
<1> HIDE DEF q, e
<1>3. /\ q \o e \in Seq(S) /\ Len(q \o e) = Len(q) + Len(e)
      /\ \A d \in 1..(Len(q) + Len(e)) :
           (q \o e)[d] = IF d <= Len(q) THEN q[d] ELSE e[d - Len(q)]
  BY <1>1, <1>2, ConcatProperties
<1>4. /\ Len(s) \in 1..(Len(q) + Len(e)) /\ Len(s) + 1 \in 1..(Len(q) + Len(e))
      /\ Len(s) - Len(q) = 1 /\ Len(s) + 1 - Len(q) = 2
  BY <1>1, <1>2
<1>5. \A d \in 1..(Len(s) - 1) : d \in 1..(Len(q) + Len(e)) /\ d <= Len(q)
  BY <1>1, <1>2
<1>6. (q \o e)[Len(s)] = e[1] /\ (q \o e)[Len(s) + 1] = e[2]
  BY <1>1, <1>3, <1>4
<1>7. \A d \in 1..(Len(s) - 1) : (q \o e)[d] = s[d]
  BY <1>1, <1>3, <1>5
<1>8. Len(q) + Len(e) = Len(s) + 1
  BY <1>1, <1>2
<1> QED BY <1>2, <1>3, <1>6, <1>7, <1>8 DEF q, e

\* One frame of one stack is replaced.
LEMMA SetFrame ==
  ASSUME NEW S, NEW st \in [Workers -> Seq(S)], NEW w \in Workers,
         NEW d \in 1..Len(st[w]), NEW e \in S
  PROVE  LET new == [st EXCEPT ![w][d] = e]
         IN /\ new \in [Workers -> Seq(S)]
            /\ \A v \in Workers : Len(new[v]) = Len(st[v])
            /\ new[w][d] = e
            /\ \A v \in Workers : \A k \in 1..Len(st[v]) :
                 v # w \/ k # d => new[v][k] = st[v][k]
<1> DEFINE q == [st[w] EXCEPT ![d] = e]
<1>1. q \in Seq(S) /\ Len(q) = Len(st[w]) /\ q[d] = e
      /\ \A k \in 1..Len(st[w]) : k # d => q[k] = st[w][k]
  OBVIOUS
<1> HIDE DEF q
<1>2. [st EXCEPT ![w][d] = e] = [st EXCEPT ![w] = q]
  BY DEF q
<1> QED BY <1>1, <1>2

LEMMA OneStack ==
  ASSUME NEW S, stack \in [Workers -> S], NEW w \in Workers
  PROVE  \A s : Stacks(w, s) = [stack EXCEPT ![w] = s]
BY DEF Stacks

LEMMA SeqGrows ==
  ASSUME NEW A, NEW B, A \subseteq B
  PROVE  Seq(A) \subseteq Seq(B)
BY SeqMonotonic

\* The results in the frames: any set that holds them, for any new one.
LEMMA Widen ==
  ASSUME NEW s, s \in [Workers -> Seq(FrameIn(ResultsIn(s)))], NEW v
  PROVE  \E V : None \in V /\ v \in V /\ s \in [Workers -> Seq(FrameIn(V))]
<1> DEFINE V == ResultsIn(s) \cup {None, v}
<1>1. Seq(ResultsIn(s)) \subseteq Seq(V)
  BY SeqGrows
<1>2. FrameIn(ResultsIn(s)) \subseteq FrameIn(V)
  BY <1>1 DEF FrameIn
<1>3. Seq(FrameIn(ResultsIn(s))) \subseteq Seq(FrameIn(V))
  BY <1>2, SeqGrows
<1> HIDE DEF V
<1>4. s \in [Workers -> Seq(FrameIn(V))]
  BY <1>3
<1>5. None \in V /\ v \in V
  BY DEF V
<1> QED BY <1>4, <1>5

LEMMA Tighten ==
  ASSUME NEW V, NEW s \in [Workers -> Seq(FrameIn(V))]
  PROVE  s \in [Workers -> Seq(FrameIn(ResultsIn(s)))]
<1> SUFFICES ASSUME NEW w \in Workers PROVE s[w] \in Seq(FrameIn(ResultsIn(s)))
  OBVIOUS
<1>1. s[w] \in Seq(FrameIn(V)) /\ Len(s[w]) \in Nat /\ DOMAIN s[w] = 1..Len(s[w])
  OBVIOUS
<1>2. ASSUME NEW d \in 1..Len(s[w]) PROVE s[w][d] \in FrameIn(ResultsIn(s))
  <2> PICK f \in FrameIn(V) : f = s[w][d]
    BY <1>1
  <2>1. f.out \in Seq(V) /\ DOMAIN f.out = 1..Len(f.out) /\ Len(f.out) \in Nat
    BY DEF FrameIn
  <2>2. \A i \in 1..Len(f.out) : f.out[i] \in ResultsIn(s)
    BY <1>1, <2>1 DEF ResultsIn
  <2>3. f.out \in Seq(ResultsIn(s))
    BY <2>1, <2>2
  <2> QED BY <2>3 DEF FrameIn
<1> QED BY <1>1, <1>2

-----------------------------------------------------------------------------
(* The parts of the invariant about stacks and tasks.                      *)

Structure == FramesFit /\ TasksApart /\ TasksPoint /\ FieldsCounted

LEMMA InitIInv == Init => IInv
<1> SUFFICES ASSUME Init PROVE IInv
  OBVIOUS
<1>0. 0 \in Workers /\ N \in Nat
  BY CnfAssumption DEF Workers
<1>1. \A w \in Workers : dq[w] = <<>> /\ Len(dq[w]) = 0 /\ stack[w] = <<>> /\ Len(stack[w]) = 0
                       /\ pool[w] = Free
  BY DEF Init
<1>2. Types
  <2>1. stack \in [Workers -> Seq(FrameIn({}))]
    BY <1>1 DEF Init
  <2>2. stack \in [Workers -> Seq(FrameIn(ResultsIn(stack)))]
    BY <2>1, Tighten
  <2>3. Free \in PoolIn /\ Free.op = "free"
    BY <1>0 DEF Free, PoolIn, TaskIn, Task, Place, Places
  <2>4. pending \in Int
    BY <1>0 DEF Init
  <2> QED BY <1>0, <1>1, <2>2, <2>3, <2>4, CnfAssumption DEF Init, Types
<1>3. \A w \in Workers : Depth(w) = 0 /\ pool[w].op # "count"
  BY <1>1 DEF Depth, Free
<1>4. Structure
  BY <1>1, <1>3 DEF Structure, FramesFit, TasksApart, QueuedApart, HeldApart, RunApart,
       QueuedOnly, HeldOnly, TasksPoint, QueuedPoint, HeldPoint, RunPoint, FieldsCounted
<1>5. PoolCount
  <2>1. {w \in Workers : active[w]} = 0..(N - 1)
    BY DEF Init, Workers
  <2>2. Cardinality(0..(N - 1)) = IF 0 > N - 1 THEN 0 ELSE N - 1 - 0 + 1
    BY <1>0, FS_Interval
  <2>3. N > 1 => pending = N
    BY DEF Init
  <2>4. N > 1 => Cardinality({w \in Workers : active[w]}) = N
    <3>1. N > 1 => Cardinality(0..(N - 1)) = N
      BY <1>0, <2>2
    <3> QED BY <2>1, <3>1, Zenon
  <2> QED BY <2>3, <2>4 DEF PoolCount
<1> QED BY <1>2, <1>4, <1>5 DEF IInv, Structure

-----------------------------------------------------------------------------
(* What the invariant says of one frame and of one task.                   *)

LEMMA FrameTyped ==
  ASSUME Types, NEW w \in Workers
  PROVE  /\ Depth(w) \in Nat /\ DOMAIN stack[w] = 1..Depth(w)
         /\ \A d \in 1..Depth(w) :
              /\ stack[w][d].loc \in Locs /\ stack[w][d].par \in Nat
              /\ stack[w][d].step \in Steps /\ stack[w][d].i \in Nat \ {0}
              /\ Len(stack[w][d].out) \in Nat
              /\ DOMAIN stack[w][d].out = 1..Len(stack[w][d].out)
              /\ stack[w][d].pend \in Int /\ stack[w][d].to \in Places
              /\ stack[w][d].task \in BOOLEAN
<1> DEFINE V == ResultsIn(stack)
<1>1. stack[w] \in Seq(FrameIn(V))
  BY DEF Types
<1> HIDE DEF V
<1>2. Len(stack[w]) \in Nat /\ DOMAIN stack[w] = 1..Len(stack[w])
      /\ \A d \in 1..Len(stack[w]) : stack[w][d] \in FrameIn(V)
  BY <1>1
<1>3. ASSUME NEW f \in FrameIn(V)
      PROVE  /\ f.loc \in Locs /\ f.par \in Nat /\ f.step \in Steps /\ f.i \in Nat \ {0}
             /\ Len(f.out) \in Nat /\ DOMAIN f.out = 1..Len(f.out)
             /\ f.pend \in Int /\ f.to \in Places /\ f.task \in BOOLEAN
  BY DEF FrameIn
<1> QED BY <1>2, <1>3 DEF Depth

LEMMA PlaceParts ==
  ASSUME NEW p \in Places
  PROVE  p = Place(p[1], p[2], p[3]) /\ p[1] \in Workers /\ p[2] \in Nat /\ p[3] \in Nat
BY DEF Place, Places

LEMMA TaskTyped ==
  ASSUME Types, NEW w \in Workers
  PROVE  /\ Len(dq[w]) \in Nat
         /\ \A i \in 1..Len(dq[w]) : dq[w][i] \in TaskIn(Locs) /\ dq[w][i].to \in Places
         /\ pool[w] \in PoolIn /\ pool[w].task.to \in Places
         /\ pool[w].op = "count" => pool[w].task \in TaskIn(Locs)
<1>1. dq[w] \in Seq(TaskIn(Locs)) /\ pool[w] \in PoolIn
  BY DEF Types
<1>2. pool[w].op = "count" => pool[w].task \in TaskIn(Locs)
  BY <1>1 DEF Types, PoolIn, TaskIn
<1>3. \A t \in TaskIn(Locs) : t.to \in Places
  BY DEF TaskIn
<1>4. pool[w].task.to \in Places
  BY <1>1 DEF PoolIn, TaskIn
<1>5. Len(dq[w]) \in Nat /\ \A i \in 1..Len(dq[w]) : dq[w][i] \in TaskIn(Locs)
  BY <1>1
<1> QED BY <1>1, <1>2, <1>3, <1>4, <1>5

\* Whose task is out forks or joins.
LEMMA OutAwaits ==
  ASSUME Types, Structure, NEW p, IsOut(p)
  PROVE  p \in Places /\ Awaits(p)
<1>1. CASE InQueue(p)
  BY <1>1, TaskTyped DEF InQueue, Structure, TasksPoint, QueuedPoint, Awaited
<1>2. CASE InHand(p)
  BY <1>2, TaskTyped DEF InHand, Structure, TasksPoint, HeldPoint, Awaited
<1>3. CASE InRun(p)
  BY <1>3, FrameTyped DEF InRun, Structure, TasksPoint, RunPoint
<1> QED BY <1>1, <1>2, <1>3 DEF IsOut

LEMMA NoneOut ==
  ASSUME Types, Structure, NEW w \in Workers, NEW d \in Nat,
         d \in 1..Depth(w) => stack[w][d].step \notin {"spawn", "join"}
  PROVE  \A j : ~IsOut(Place(w, d, j))
<1> SUFFICES ASSUME NEW j, IsOut(Place(w, d, j)) PROVE FALSE
  OBVIOUS
<1>1. Awaits(Place(w, d, j))
  BY OutAwaits
<1> QED BY <1>1 DEF Awaits, Place

LEMMA FieldsFinite ==
  ASSUME Types, NEW w \in Workers, NEW d \in 1..Depth(w)
  PROVE  IsFiniteSet(FieldsOut(w, d)) /\ Cardinality(FieldsOut(w, d)) \in Nat
         /\ FieldsOut(w, d) \subseteq Nat
<1>1. Len(stack[w][d].out) \in Nat
  BY FrameTyped
<1>2. FieldsOut(w, d) \subseteq 1..Len(stack[w][d].out)
  BY DEF FieldsOut
<1>3. IsFiniteSet(1..Len(stack[w][d].out))
  BY <1>1, FS_Interval
<1>4. IsFiniteSet(FieldsOut(w, d))
  BY <1>2, <1>3, FS_Subset
<1> QED BY <1>1, <1>2, <1>4, FS_CardinalityType

-----------------------------------------------------------------------------
(* What a step changes in the stacks.                                      *)

LEMMA StackReplaced ==
  ASSUME NEW S, stack \in [Workers -> Seq(S)], NEW w \in Workers, stack[w] # <<>>,
         NEW g \in S, stack' = Continue(w, g)
  PROVE  /\ stack' \in [Workers -> Seq(S)]
         /\ \A v \in Workers : Depth(v)' = Depth(v)
         /\ Depth(w) \in 1..Depth(w) /\ stack'[w][Depth(w)] = g
         /\ \A v \in Workers : \A d \in 1..Depth(v) :
              v # w \/ d # Depth(w) => stack'[v][d] = stack[v][d]
<1> DEFINE q == Append(Popped(stack[w]), g)
<1>1. /\ q \in Seq(S) /\ Len(q) = Len(stack[w]) /\ q[Len(stack[w])] = g
      /\ \A d \in 1..(Len(stack[w]) - 1) : q[d] = stack[w][d]
      /\ Len(stack[w]) \in Nat \ {0}
  BY ReplaceTop, PopTop
<1>2. stack' = [stack EXCEPT ![w] = q]
  BY DEF Continue
<1> HIDE DEF q
<1>3. stack' \in [Workers -> Seq(S)] /\ stack'[w] = q
      /\ \A v \in Workers : v # w => stack'[v] = stack[v]
  BY <1>1, <1>2
<1>4. \A d \in 1..Len(stack[w]) : d # Len(stack[w]) => stack'[w][d] = stack[w][d]
  BY <1>1, <1>3
<1>5. Len(stack[w]) \in 1..Len(stack[w])
  BY <1>1
<1>6. \A v \in Workers : Len(stack'[v]) = Len(stack[v])
  BY <1>1, <1>3, Zenon
<1>7. \A v \in Workers : \A d \in 1..Len(stack[v]) :
        v # w \/ d # Len(stack[w]) => stack'[v][d] = stack[v][d]
  BY <1>3, <1>4
<1>8. stack'[w][Len(stack[w])] = g
  BY <1>1, <1>3
<1> QED BY <1>3, <1>5, <1>6, <1>7, <1>8 DEF Depth

Entered(w, g, h) == [stack EXCEPT ![w] = Popped(@) \o <<g, h>>]

LEMMA StackEntered ==
  ASSUME NEW S, stack \in [Workers -> Seq(S)], NEW w \in Workers, stack[w] # <<>>,
         NEW g \in S, NEW h \in S, stack' = Entered(w, g, h)
  PROVE  /\ stack' \in [Workers -> Seq(S)]
         /\ \A v \in Workers : v # w => Depth(v)' = Depth(v)
         /\ Depth(w)' = Depth(w) + 1 /\ Depth(w) \in 1..Depth(w)
         /\ stack'[w][Depth(w)] = g /\ stack'[w][Depth(w) + 1] = h
         /\ \A v \in Workers : \A d \in 1..Depth(v) :
              v # w \/ d # Depth(w) => stack'[v][d] = stack[v][d]
<1> DEFINE q == Popped(stack[w]) \o <<g, h>>
<1>1. /\ q \in Seq(S) /\ Len(q) = Len(stack[w]) + 1
      /\ q[Len(stack[w])] = g /\ q[Len(stack[w]) + 1] = h
      /\ \A d \in 1..(Len(stack[w]) - 1) : q[d] = stack[w][d]
      /\ Len(stack[w]) \in Nat \ {0}
  BY ReplacePush, PopTop
<1>2. stack' = [stack EXCEPT ![w] = q]
  BY DEF Entered
<1> HIDE DEF q
<1>3. stack' \in [Workers -> Seq(S)] /\ stack'[w] = q
      /\ \A v \in Workers : v # w => stack'[v] = stack[v]
  BY <1>1, <1>2
<1>4. \A d \in 1..Len(stack[w]) : d # Len(stack[w]) => stack'[w][d] = stack[w][d]
  BY <1>1, <1>3
<1>5. Len(stack[w]) \in 1..Len(stack[w])
  BY <1>1
<1>6. \A v \in Workers : v # w => Len(stack'[v]) = Len(stack[v])
  BY <1>3
<1>7. \A v \in Workers : \A d \in 1..Len(stack[v]) :
        v # w \/ d # Len(stack[w]) => stack'[v][d] = stack[v][d]
  BY <1>3, <1>4
<1>8. /\ stack'[w][Len(stack[w])] = g /\ stack'[w][Len(stack[w]) + 1] = h
      /\ Len(stack'[w]) = Len(stack[w]) + 1
  BY <1>1, <1>3
<1> QED BY <1>3, <1>5, <1>6, <1>7, <1>8 DEF Depth

LEMMA StackPushed ==
  ASSUME NEW S, stack \in [Workers -> Seq(S)], NEW w \in Workers, NEW h \in S,
         stack' = [stack EXCEPT ![w] = Append(@, h)]
  PROVE  /\ stack' \in [Workers -> Seq(S)]
         /\ \A v \in Workers : v # w => Depth(v)' = Depth(v)
         /\ Depth(w)' = Depth(w) + 1 /\ Depth(w) \in Nat
         /\ stack'[w][Depth(w) + 1] = h
         /\ \A v \in Workers : \A d \in 1..Depth(v) : stack'[v][d] = stack[v][d]
<1> DEFINE q == Append(stack[w], h)
<1>1. /\ q \in Seq(S) /\ Len(q) = Len(stack[w]) + 1 /\ Len(stack[w]) \in Nat
      /\ q[Len(stack[w]) + 1] = h
      /\ \A d \in 1..Len(stack[w]) : q[d] = stack[w][d]
  BY PushTop
<1>2. stack' = [stack EXCEPT ![w] = q]
  OBVIOUS
<1> HIDE DEF q
<1>3. stack' \in [Workers -> Seq(S)] /\ stack'[w] = q
      /\ \A v \in Workers : v # w => stack'[v] = stack[v]
  BY <1>1, <1>2
<1> QED BY <1>1, <1>3 DEF Depth

Shorter(st, w) == [st EXCEPT ![w] = Popped(@)]

LEMMA StackPopped ==
  ASSUME NEW S, NEW st \in [Workers -> Seq(S)], NEW w \in Workers, st[w] # <<>>
  PROVE  /\ Shorter(st, w) \in [Workers -> Seq(S)]
         /\ \A v \in Workers : v # w => Len(Shorter(st, w)[v]) = Len(st[v])
         /\ Shorter(st, w)[w] = Popped(st[w]) /\ Len(Shorter(st, w)[w]) = Len(st[w]) - 1
         /\ Len(st[w]) \in Nat \ {0}
         /\ \A v \in Workers : \A d \in 1..Len(st[v]) :
              v # w \/ d # Len(st[w]) => Shorter(st, w)[v][d] = st[v][d]
<1> DEFINE q == Popped(st[w])
<1>1. /\ q \in Seq(S) /\ Len(q) = Len(st[w]) - 1 /\ Len(st[w]) \in Nat \ {0}
      /\ \A d \in 1..(Len(st[w]) - 1) : q[d] = st[w][d]
  BY PopTop
<1>2. PICK new : new = Shorter(st, w)
  OBVIOUS
<1>3. new = [st EXCEPT ![w] = q] /\ q = Popped(st[w])
  BY <1>2 DEF Shorter
<1> HIDE DEF q
<1>4. new \in [Workers -> Seq(S)] /\ new[w] = q
      /\ \A v \in Workers : v # w => new[v] = st[v]
  BY <1>1, <1>3
<1>5. \A d \in 1..Len(st[w]) : d # Len(st[w]) => new[w][d] = st[w][d]
  BY <1>1, <1>4
<1>6. \A v \in Workers : \A d \in 1..Len(st[v]) :
        v # w \/ d # Len(st[w]) => new[v][d] = st[v][d]
  BY <1>4, <1>5
<1> QED BY <1>1, <1>2, <1>3, <1>4, <1>6

-----------------------------------------------------------------------------
(* The steps.  First those of cnf_pool_try_pop that touch neither a stack  *)
(* nor a deque.                                                            *)

LEMMA LookStructure ==
  ASSUME Types, Structure, NEW w \in Workers, root' = root,
         JoinWait(w) \/ Help(w) \/ PopNone(w) \/ StealFails(w) \/ FoundNone(w)
  PROVE  Types' /\ Structure'
<1>1. stack' = stack /\ dq' = dq
  BY DEF JoinWait, Help, PopNone, StealFails, FoundNone
<1>2. /\ pool' \in [Workers -> PoolIn]
      /\ pool'[w].op # "count" /\ pool[w].op # "count"
      /\ \A v \in Workers : v # w => pool'[v] = pool[v]
  <2>1. pool \in [Workers -> PoolIn] /\ pool[w] \in PoolIn
    BY DEF Types
  <2>2. CASE JoinWait(w) \/ Help(w)
    <3>1. [pool[w] EXCEPT !.op = "pop"] \in PoolIn /\ [pool[w] EXCEPT !.op = "pop"].op = "pop"
      BY <2>1 DEF PoolIn
    <3>2. pool' = [pool EXCEPT ![w].op = "pop"] /\ pool[w].op = "free"
      BY <2>2 DEF JoinWait, Help, On, Free
    <3> QED BY <2>1, <3>1, <3>2
  <2>3. CASE PopNone(w)
    <3> DEFINE x == [pool[w] EXCEPT !.op = "scan", !.k = 1]
    <3>1. x \in PoolIn /\ x.op = "scan"
      BY <2>1 DEF PoolIn
    <3>2. pool' = [pool EXCEPT ![w] = x] /\ pool[w].op = "pop"
      BY <2>3, <2>1 DEF PopNone
    <3> HIDE DEF x
    <3> QED BY <2>1, <3>1, <3>2
  <2>4. CASE StealFails(w)
    <3> DEFINE x == [pool[w] EXCEPT !.k = @ + 1]
    <3>1. pool[w].op = "scan"
      BY <2>4 DEF StealFails
    <3>2. x \in PoolIn /\ x.op = "scan"
      BY <2>1, <3>1 DEF PoolIn
    <3>3. pool' = [pool EXCEPT ![w] = x]
      BY <2>4, <2>1 DEF StealFails
    <3> HIDE DEF x
    <3> QED BY <2>1, <3>1, <3>2, <3>3
  <2>5. CASE FoundNone(w)
    <3>1. Free \in PoolIn /\ Free.op = "free"
      BY CnfAssumption DEF Free, PoolIn, TaskIn, Task, Place, Places, Workers
    <3>2. pool' = [pool EXCEPT ![w] = Free] /\ pool[w].op = "scan"
      BY <2>5 DEF FoundNone, Leave
    <3> QED BY <2>1, <3>1, <3>2
  <2> QED BY <2>2, <2>3, <2>4, <2>5
<1>3. Types'
  <2>1. pending' \in Int /\ active' \in [Workers -> BOOLEAN]
    <3>1. pending \in Int /\ active \in [Workers -> BOOLEAN]
      BY DEF Types
    <3>2. CASE PopNone(w)
      BY <3>1, <3>2 DEF PopNone
    <3>3. CASE ~PopNone(w)
      BY <3>1, <3>3 DEF JoinWait, Help, StealFails, FoundNone, counter
    <3> QED BY <3>2, <3>3
  <2>2. stack' \in [Workers -> Seq(FrameIn(ResultsIn(stack')))]
    BY <1>1 DEF Types
  <2>3. \A v \in Workers : pool'[v].op = "count" => pool'[v].task.loc # 0
    BY <1>2 DEF Types
  <2>4. dq' \in [Workers -> Seq(TaskIn(Locs))] /\ \A v \in Workers : Len(dq'[v]) <= Cap
    BY <1>1 DEF Types
  <2>5. root' \in [Workers -> Locs \cup {0}]
    BY DEF Types
  <2> QED BY <1>2, <2>1, <2>2, <2>3, <2>4, <2>5 DEF Types, ResultsIn, TaskIn, FrameIn
<1>4. \A p : /\ InHand(p)' <=> InHand(p)
             /\ InQueue(p)' <=> InQueue(p)
             /\ InRun(p)' <=> InRun(p)
  BY <1>1, <1>2 DEF InHand, InQueue, InRun, Depth
<1>5. FramesFit'
  <2>1. \A v, d : FrameFits(v, d)' <=> FrameFits(v, d)
    BY <1>1 DEF FrameFits, Place
  <2> QED BY <1>1, <2>1 DEF Structure, FramesFit, Depth
<1>6. TasksApart'
  BY <1>1, <1>2, <1>4 DEF Structure, TasksApart, QueuedApart, HeldApart, RunApart,
       QueuedOnly, HeldOnly, Depth
<1>7. TasksPoint'
  <2>1. \A p : (Awaits(p)' <=> Awaits(p)) /\ (Awaited(p)' <=> Awaited(p))
    BY <1>1 DEF Awaits, Awaited, Depth
  <2> QED BY <1>1, <1>2, <2>1 DEF Structure, TasksPoint, QueuedPoint, HeldPoint, RunPoint, Depth
<1>8. FieldsCounted'
  <2>1. \A v \in Workers : \A d \in 1..Depth(v) : FieldsOut(v, d)' = FieldsOut(v, d)
    BY <1>1, <1>4 DEF FieldsOut, IsOut
  <2> QED BY <1>1, <2>1 DEF Structure, FieldsCounted, FrameCounted, Unspawned, FrameAt, Depth
<1> QED BY <1>3, <1>5, <1>6, <1>7, <1>8 DEF Structure

LEMMA OnTop ==
  ASSUME Types, NEW w \in Workers, NEW step, On(w, step)
  PROVE  /\ stack[w] # <<>> /\ Depth(w) \in Nat /\ Depth(w) \in 1..Depth(w)
         /\ Top(w) = stack[w][Depth(w)] /\ Top(w).step = step /\ pool[w].op = "free"
<1>1. Depth(w) \in Nat /\ Depth(w) > 0
  BY FrameTyped DEF On
<1> QED BY <1>1 DEF On, Top, Depth

LEMMA TypesAgain ==
  ASSUME Types, root' = root, NEW V, stack' \in [Workers -> Seq(FrameIn(V))],
         dq' \in [Workers -> Seq(TaskIn(Locs))], \A v \in Workers : Len(dq'[v]) <= Cap,
         pending' \in Int, active' \in [Workers -> BOOLEAN],
         pool' \in [Workers -> PoolIn],
         \A v \in Workers : pool'[v].op = "count" => pool'[v].task.loc # 0
  PROVE  Types'
<1>1. stack' \in [Workers -> Seq(FrameIn(ResultsIn(stack')))]
  BY Tighten
<1>2. root' \in [Workers -> Locs \cup {0}]
  BY DEF Types
<1> QED BY <1>1, <1>2 DEF Types, ResultsIn, TaskIn, FrameIn, PoolIn

\* A call that stays as it is, with the call below it in the same loop.
LEMMA FitsKept ==
  ASSUME NEW v \in Workers, NEW d \in Nat, FrameFits(v, d), stack'[v][d] = stack[v][d],
         d > 1 => /\ Len(stack'[v][d - 1].out) = Len(stack[v][d - 1].out)
                  /\ stack[v][d - 1].step \in {"lam", "seq"} =>
                       stack'[v][d - 1].step \in {"lam", "seq"}
  PROVE  FrameFits(v, d)'
<1> PICK f : f = stack[v][d]
  OBVIOUS
<1>1. /\ Len(f.out) = Len(Kids[f.loc])
      /\ f.step = "enter" => f.i = 1
      /\ f.step \in {"enter", "spawn"} =>
           f.i \in 1..(Len(f.out) + 1) /\ \A j \in f.i..Len(f.out) : f.out[j] = None
      /\ f.step = "sub" => f.task
  BY DEF FrameFits
<1>2. ~f.task => \/ d = 1 /\ f.to = Place(v, 0, 1)
                 \/ /\ d > 1 /\ f.to[1] = v /\ f.to[2] = d - 1
                    /\ f.to[3] \in 1..Len(stack'[v][d - 1].out)
                    /\ stack'[v][d - 1].step \in {"lam", "seq"}
  BY DEF FrameFits
<1> QED BY <1>1, <1>2 DEF FrameFits, Place

LEMMA CountKept ==
  ASSUME NEW v \in Workers, NEW d \in Nat, FrameCounted(v, d),
         stack'[v][d] = stack[v][d],
         \A j : IsOut(Place(v, d, j))' <=> IsOut(Place(v, d, j))
  PROVE  FrameCounted(v, d)'
<1>1. FieldsOut(v, d)' = FieldsOut(v, d)
  BY DEF FieldsOut, Place
<1>2. Unspawned(<<v, d>>)' = Unspawned(<<v, d>>)
  BY DEF Unspawned, FrameAt
<1> QED BY <1>1, <1>2 DEF FrameCounted

\* A frame that is moved on, and one whose counter is set.
Moved(f, step, i) == [f EXCEPT !.step = step, !.i = i]
Counted(f, m) == [f EXCEPT !.pend = m]

LEMMA FrameMoves ==
  ASSUME NEW V, NEW f \in FrameIn(V), NEW step \in Steps, NEW i \in Nat \ {0}
  PROVE  /\ Moved(f, step, i) \in FrameIn(V)
         /\ Moved(f, step, i).step = step /\ Moved(f, step, i).i = i
         /\ Moved(f, step, i).loc = f.loc /\ Moved(f, step, i).par = f.par
         /\ Moved(f, step, i).out = f.out /\ Moved(f, step, i).pend = f.pend
         /\ Moved(f, step, i).to = f.to /\ Moved(f, step, i).task = f.task
BY DEF FrameIn, Moved

LEMMA FramePends ==
  ASSUME NEW V, NEW f \in FrameIn(V), NEW m \in Int
  PROVE  /\ Counted(f, m) \in FrameIn(V)
         /\ Counted(f, m).step = f.step /\ Counted(f, m).i = f.i
         /\ Counted(f, m).loc = f.loc /\ Counted(f, m).par = f.par
         /\ Counted(f, m).out = f.out /\ Counted(f, m).pend = m
         /\ Counted(f, m).to = f.to /\ Counted(f, m).task = f.task
BY DEF FrameIn, Counted

\* What the invariant says of the innermost call.
LEMMA TopFrame ==
  ASSUME Types, Structure, NEW w \in Workers, NEW step, On(w, step),
         NEW V, stack \in [Workers -> Seq(FrameIn(V))]
  PROVE  \E n \in Nat \ {0} : \E f \in FrameIn(V) :
           /\ n = Depth(w) /\ f = Top(w) /\ f = stack[w][n] /\ n \in 1..n
           /\ f.step = step /\ f.loc \in Locs /\ f.to \in Places /\ f.i \in Nat \ {0} /\ f.pend \in Int
           /\ f.par \in Nat /\ f.task \in BOOLEAN
           /\ Len(f.out) \in Nat /\ Len(f.out) = Len(Kids[f.loc])
           /\ FrameFits(w, n) /\ FrameCounted(w, n)
<1>1. /\ stack[w] # <<>> /\ Depth(w) \in Nat /\ Depth(w) \in 1..Depth(w)
      /\ Top(w) = stack[w][Depth(w)] /\ Top(w).step = step
  BY OnTop
<1>2. Top(w) \in FrameIn(V)
  <2>1. stack[w] \in Seq(FrameIn(V)) /\ Len(stack[w]) = Depth(w)
    BY DEF Depth
  <2> QED BY <1>1, <2>1
<1>3. FrameFits(w, Depth(w)) /\ FrameCounted(w, Depth(w))
  BY <1>1 DEF Structure, FramesFit, FieldsCounted
<1>4. Len(Top(w).out) = Len(Kids[Top(w).loc])
  BY <1>1, <1>3 DEF FrameFits
<1> WITNESS Depth(w) \in Nat \ {0}
<1> WITNESS Top(w) \in FrameIn(V)
<1> QED BY <1>1, <1>2, <1>3, <1>4, FrameTyped

LEMMA RunSame ==
  ASSUME \A v \in Workers : Depth(v)' = Depth(v),
         \A v \in Workers : \A d \in 1..Depth(v) :
           stack'[v][d].to = stack[v][d].to /\ stack'[v][d].task = stack[v][d].task
  PROVE  \A q : InRun(q)' <=> InRun(q)
<1> SUFFICES ASSUME NEW q PROVE InRun(q)' <=> InRun(q)
  OBVIOUS
<1>1. ASSUME InRun(q) PROVE InRun(q)'
  BY <1>1 DEF InRun
<1>2. ASSUME InRun(q)' PROVE InRun(q)
  BY <1>2 DEF InRun
<1> QED BY <1>1, <1>2

\* The steps that only move the top call on.
LEMMA AdvanceStructure ==
  ASSUME Types, Structure, NEW w \in Workers, root' = root,
         NodeSeq(w) \/ NodePar(w) \/ SpawnDone(w)
  PROVE  Types' /\ Structure'
<1>1. stack[w] # <<>> /\ \E step \in {"enter", "spawn"} : On(w, step)
  BY OnTop DEF NodeSeq, NodePar, SpawnDone
<1>2. PICK V : stack \in [Workers -> Seq(FrameIn(V))]
  BY DEF Types
<1>3. PICK n \in Nat \ {0}, f \in FrameIn(V) :
      /\ n = Depth(w) /\ f = Top(w) /\ f = stack[w][n] /\ n \in 1..n
      /\ f.step \in {"enter", "spawn"} /\ f.i \in Nat \ {0} /\ f.pend \in Int
      /\ Len(f.out) \in Nat /\ Len(f.out) = Len(Kids[f.loc])
      /\ FrameFits(w, n) /\ FrameCounted(w, n)
  BY <1>1, <1>2, TopFrame
<1>4. /\ f.step = "enter" => f.i = 1
      /\ f.i \in 1..(Len(f.out) + 1) /\ \A j \in f.i..Len(f.out) : f.out[j] = None
  BY <1>3 DEF FrameFits
<1>5. PICK g \in FrameIn(V) :
        /\ stack' = Continue(w, g)
        /\ g.loc = f.loc /\ g.out = f.out /\ g.to = f.to /\ g.task = f.task
        /\ \/ f.step = "enter" /\ g.step = "seq" /\ g.pend = f.pend
           \/ f.step = "enter" /\ g.step = "spawn" /\ g.i = 1 /\ g.pend = Len(f.out)
           \/ f.step = "spawn" /\ g.step = "join" /\ g.pend = f.pend /\ f.i = Len(f.out) + 1
  <2>0. {"seq", "spawn", "join"} \subseteq Steps /\ 1 \in Nat \ {0} /\ f.i \in Nat \ {0} /\ Len(f.out) \in Int
    BY <1>3 DEF Steps
  <2>1. CASE NodeSeq(w)
    <3>1. stack' = Continue(w, Moved(f, "seq", 1)) /\ f.step = "enter"
      BY <1>3, <2>1 DEF NodeSeq, Next_i, On, Moved
    <3> DEFINE g == Moved(f, "seq", 1)
    <3>2. /\ g \in FrameIn(V) /\ g.loc = f.loc /\ g.out = f.out /\ g.to = f.to
          /\ g.task = f.task /\ g.step = "seq" /\ g.pend = f.pend
      BY <2>0, FrameMoves
    <3> HIDE DEF g
    <3>3. stack' = Continue(w, g)
      BY <3>1 DEF g
    <3> QED BY <3>1, <3>2, <3>3
  <2>2. CASE NodePar(w)
    <3>1. f.step = "enter" /\ Arity(w) = Len(f.out)
      BY <1>3, <2>2 DEF NodePar, On, Arity
    <3>2. stack' = Continue(w, Counted(Moved(f, "spawn", 1), Len(f.out)))
      BY <1>3, <2>2, <3>1 DEF NodePar, Next_i, Moved, Counted
    <3> DEFINE h == Moved(f, "spawn", 1)
               g == Counted(h, Len(f.out))
    <3>3. /\ h \in FrameIn(V) /\ h.step = "spawn" /\ h.i = 1
          /\ h.loc = f.loc /\ h.out = f.out /\ h.to = f.to /\ h.task = f.task
      BY <2>0, FrameMoves
    <3>4. stack' = Continue(w, g)
      BY <3>2
    <3> HIDE DEF h
    <3>5. /\ g \in FrameIn(V) /\ g.step = h.step /\ g.i = h.i /\ g.pend = Len(f.out)
          /\ g.loc = h.loc /\ g.out = h.out /\ g.to = h.to /\ g.task = h.task
      <4>1. h \in FrameIn(V) /\ Len(f.out) \in Int
        BY <2>0, <3>3
      <4> QED BY <4>1, FramePends
    <3> HIDE DEF g
    <3> QED BY <3>1, <3>3, <3>4, <3>5
  <2>3. CASE SpawnDone(w)
    <3>1. stack' = Continue(w, Moved(f, "join", f.i)) /\ f.step = "spawn" /\ f.i > Len(f.out)
      BY <1>3, <2>3 DEF SpawnDone, Next_i, On, Arity, Moved
    <3> DEFINE g == Moved(f, "join", f.i)
    <3>2. /\ g \in FrameIn(V) /\ g.loc = f.loc /\ g.out = f.out /\ g.to = f.to
          /\ g.task = f.task /\ g.step = "join" /\ g.pend = f.pend
      BY <2>0, FrameMoves
    <3> HIDE DEF g
    <3>3. stack' = Continue(w, g)
      BY <3>1 DEF g
    <3>4. f.i = Len(f.out) + 1
      BY <1>3, <1>4, <3>1
    <3> QED BY <3>1, <3>2, <3>3, <3>4
  <2> QED BY <2>1, <2>2, <2>3
<1>6. /\ stack' \in [Workers -> Seq(FrameIn(V))]
      /\ \A v \in Workers : Depth(v)' = Depth(v)
      /\ stack'[w][n] = g
      /\ \A v \in Workers : \A d \in 1..Depth(v) :
           v # w \/ d # n => stack'[v][d] = stack[v][d]
  BY <1>1, <1>2, <1>3, <1>5, StackReplaced
<1>7. dq' = dq /\ pool' = pool /\ pending' = pending /\ active' = active
  BY DEF NodeSeq, NodePar, SpawnDone, counter
<1>8. Types'
  BY <1>6, <1>7, TypesAgain DEF Types
<1>9. \A v \in Workers : \A d \in 1..Depth(v) :
        /\ stack'[v][d].out = stack[v][d].out /\ stack'[v][d].to = stack[v][d].to
        /\ stack'[v][d].task = stack[v][d].task /\ stack'[v][d].loc = stack[v][d].loc
        /\ stack[v][d].step \in {"lam", "seq"} => stack'[v][d].step \in {"lam", "seq"}
        /\ stack[v][d].step \in {"spawn", "join"} => stack'[v][d].step \in {"spawn", "join"}
        /\ stack'[v][d].step = "sub" <=> stack[v][d].step = "sub"
  <2>1. ASSUME NEW v \in Workers, NEW d \in 1..Depth(v), v # w \/ d # n
        PROVE  stack'[v][d] = stack[v][d]
    BY <1>6, <2>1
  <2> QED BY <1>3, <1>5, <1>6, <2>1
<1>10. \A p : /\ InHand(p)' <=> InHand(p)
              /\ InQueue(p)' <=> InQueue(p)
              /\ InRun(p)' <=> InRun(p)
              /\ IsOut(p)' <=> IsOut(p)
  <2>1. \A p : (InHand(p)' <=> InHand(p)) /\ (InQueue(p)' <=> InQueue(p))
    BY <1>7 DEF InHand, InQueue
  <2>2. \A p : InRun(p)' <=> InRun(p)
    BY <1>6, <1>9, RunSame
  <2> QED BY <2>1, <2>2 DEF IsOut
<1>11. FramesFit'
  <2> SUFFICES ASSUME NEW v \in Workers, NEW d \in 1..Depth(v) PROVE FrameFits(v, d)'
    BY <1>6 DEF FramesFit
  <2>1. FrameFits(v, d)
    BY DEF Structure, FramesFit
  <2>2. d \in Nat /\ (d > 1 => d - 1 \in 1..Depth(v))
    BY FrameTyped
  <2>3. CASE v # w \/ d # n
    BY <1>6, <1>9, <2>1, <2>2, <2>3, FitsKept
  <2>4. CASE v = w /\ d = n
    <3>1. g.step \in {"enter", "spawn"} => g.i = 1 /\ f.i = 1
      BY <1>3, <1>4, <1>5
    <3>2. /\ Len(g.out) = Len(Kids[g.loc])
          /\ g.step # "enter" /\ g.step # "sub"
          /\ g.step = "spawn" =>
               g.i \in 1..(Len(g.out) + 1) /\ \A j \in g.i..Len(g.out) : g.out[j] = None
      BY <1>3, <1>4, <1>5, <3>1
    <3>3. ~f.task => \/ n = 1 /\ f.to = Place(w, 0, 1)
                     \/ /\ n > 1 /\ f.to[1] = w /\ f.to[2] = n - 1
                        /\ f.to[3] \in 1..Len(stack[w][n - 1].out)
                        /\ stack[w][n - 1].step \in {"lam", "seq"}
      BY <1>3 DEF FrameFits
    <3>4. ~g.task => \/ n = 1 /\ g.to = Place(w, 0, 1)
                     \/ /\ n > 1 /\ g.to[1] = w /\ g.to[2] = n - 1
                        /\ g.to[3] \in 1..Len(stack'[w][n - 1].out)
                        /\ stack'[w][n - 1].step \in {"lam", "seq"}
      BY <1>3, <1>5, <1>9, <2>2, <2>4, <3>3
    <3>5. FrameFits(w, n)'
      BY <1>6, <3>2, <3>4 DEF FrameFits, Place
    <3> QED BY <2>4, <3>5
  <2> QED BY <2>3, <2>4
<1>12. TasksApart'
  <2>1. QueuedApart' /\ HeldApart'
    BY <1>7 DEF Structure, TasksApart, QueuedApart, HeldApart
  <2>2. RunApart'
    <3>1. RunApart
      BY DEF Structure, TasksApart
    <3> QED BY <1>6, <1>9, <3>1 DEF RunApart
  <2>3. QueuedOnly' /\ HeldOnly'
    BY <1>7, <1>10 DEF Structure, TasksApart, QueuedOnly, HeldOnly
  <2> QED BY <2>1, <2>2, <2>3 DEF TasksApart
<1>13. TasksPoint'
  <2>1. \A p \in Places : (Awaits(p) => Awaits(p)') /\ (Awaited(p) => Awaited(p)')
    BY <1>6, <1>9, PlaceParts DEF Awaits, Awaited
  <2>2. \A v \in Workers : \A d \in 1..Depth(v) : stack[v][d].to \in Places
    BY FrameTyped
  <2> QED BY <1>6, <1>7, <1>9, <2>1, <2>2, TaskTyped
          DEF Structure, TasksPoint, QueuedPoint, HeldPoint, RunPoint
<1>14. FieldsCounted'
  <2> SUFFICES ASSUME NEW v \in Workers, NEW d \in 1..Depth(v) PROVE FrameCounted(v, d)'
    BY <1>6 DEF FieldsCounted
  <2>1. FrameCounted(v, d) /\ d \in Nat
    BY FrameTyped DEF Structure, FieldsCounted
  <2>2. CASE v # w \/ d # n
    BY <1>6, <1>10, <2>1, <2>2, CountKept
  <2>3. CASE v = w /\ d = n
    <3>0. PICK F : F = FieldsOut(w, n)
      OBVIOUS
    <3>1. f.step = "enter" => F = {}
      BY <1>3, <3>0, NoneOut DEF FieldsOut
    <3>2. Cardinality(F) \in Nat /\ Cardinality({}) = 0
      BY <1>3, <3>0, FieldsFinite, FS_EmptySet
    <3>3. /\ f.pend = Cardinality(F) + IF f.step = "spawn" THEN Len(f.out) - f.i + 1 ELSE 0
          /\ f.step = "spawn" => \A j \in F : j < f.i
      BY <1>3, <3>0 DEF FrameCounted, Unspawned, FrameAt
    <3>4. /\ g.pend = Cardinality(F) + IF g.step = "spawn" THEN Len(g.out) - g.i + 1 ELSE 0
          /\ g.step = "spawn" => \A j \in F : j < g.i
      <4>1. CASE g.step = "seq"
        BY <1>3, <1>5, <3>1, <3>2, <3>3, <4>1
      <4>2. CASE g.step = "spawn"
        <5>1. F = {} /\ Cardinality(F) = 0
          BY <1>5, <3>1, <3>2, <4>2
        <5>2. Len(g.out) - g.i + 1 = Len(f.out) /\ g.pend = Len(f.out) /\ Len(f.out) \in Nat
          BY <1>3, <1>5, <4>2
        <5> QED BY <4>2, <5>1, <5>2
      <4>3. CASE g.step = "join"
        BY <1>3, <1>5, <3>2, <3>3, <4>3
      <4> QED BY <1>5, <4>1, <4>2, <4>3
    <3>5. FieldsOut(w, n)' = F
      BY <1>3, <1>5, <1>6, <1>10, <3>0 DEF FieldsOut, Place
    <3>6. FrameCounted(w, n)'
      BY <1>6, <3>4, <3>5 DEF FrameCounted, Unspawned, FrameAt
    <3> QED BY <2>3, <3>6
  <2> QED BY <2>2, <2>3
<1> QED BY <1>8, <1>11, <1>12, <1>13, <1>14 DEF Structure

\* The field a call is at has no task yet, and belongs to a task of its own.
LEMMA NextField ==
  ASSUME Types, Structure, NEW w \in Workers, NEW n \in 1..Depth(w),
         stack[w][n].i \in 1..Len(stack[w][n].out)
  PROVE  /\ Kids[stack[w][n].loc][stack[w][n].i] \in Locs
         /\ Less(stack[w][n].par) \in Nat
         /\ Place(w, n, stack[w][n].i) \in Places
         /\ stack[w][n].step = "spawn" =>
              /\ ~IsOut(Place(w, n, stack[w][n].i))
              /\ Awaited(Place(w, n, stack[w][n].i))
<1>1. /\ stack[w][n].loc \in Locs /\ stack[w][n].par \in Nat /\ stack[w][n].i \in Nat
      /\ Len(stack[w][n].out) \in Nat
  BY FrameTyped
<1>2. FrameFits(w, n) /\ FrameCounted(w, n)
  BY DEF Structure, FramesFit, FieldsCounted
<1>3. Kids[stack[w][n].loc][stack[w][n].i] \in Locs
  <2>1. Kids[stack[w][n].loc] \in Seq(Locs) /\ Len(Kids[stack[w][n].loc]) = Len(stack[w][n].out)
    BY <1>1, <1>2, CnfAssumption DEF FrameFits
  <2> QED BY <2>1
<1>4. n \in Nat
  BY FrameTyped
<1>5. CASE stack[w][n].step = "spawn"
  <2>1. ~IsOut(Place(w, n, stack[w][n].i))
    <3>1. stack[w][n].i \notin FieldsOut(w, n)
      BY <1>1, <1>2, <1>5 DEF FrameCounted
    <3> QED BY <3>1 DEF FieldsOut
  <2>2. stack[w][n].out[stack[w][n].i] = None
    BY <1>1, <1>2, <1>5 DEF FrameFits
  <2>3. Awaited(Place(w, n, stack[w][n].i))
    BY <1>5, <2>2 DEF Awaited, Awaits, Place
  <2> QED BY <1>1, <1>3, <1>4, <2>1, <2>3 DEF Less, Place, Places
<1> QED BY <1>1, <1>3, <1>4, <1>5 DEF Less, Place, Places

\* A task enters a deque.
LEMMA SpawnStructure ==
  ASSUME Types, Structure, NEW w \in Workers, root' = root, Spawn(w)
  PROVE  Types' /\ Structure'
<1>1. stack[w] # <<>> /\ On(w, "spawn") /\ Len(dq[w]) < Cap
  BY OnTop DEF Spawn
<1>2. PICK V : stack \in [Workers -> Seq(FrameIn(V))]
  BY DEF Types
<1>3. PICK n \in Nat \ {0}, f \in FrameIn(V) :
        /\ n = Depth(w) /\ f = Top(w) /\ f = stack[w][n] /\ n \in 1..n
        /\ f.step = "spawn" /\ f.i \in Nat \ {0} /\ f.pend \in Int
        /\ Len(f.out) \in Nat /\ Len(f.out) = Len(Kids[f.loc])
        /\ FrameFits(w, n) /\ FrameCounted(w, n)
  BY <1>1, <1>2, TopFrame
<1>4. f.i \in 1..Len(f.out) /\ f.i + 1 \in Nat \ {0}
      /\ \A j \in (f.i + 1)..Len(f.out) : f.out[j] = None
  BY <1>3 DEF Spawn, Arity, FrameFits
<1>5. PICK p \in Places :
        /\ p = Place(w, n, f.i) /\ ~IsOut(p) /\ Awaited(p)
        /\ Kids[f.loc][f.i] \in Locs /\ Less(f.par) \in Nat
  BY <1>3, <1>4, NextField
<1>6. PICK t \in TaskIn(Locs) : t = Spawned(w) /\ t.to = p
  <2>1. Spawned(w) = Task(Kids[f.loc][f.i], Less(f.par), p)
    BY <1>3, <1>5 DEF Spawned, Field, ForField
  <2>2. \A l \in Locs, k \in Nat, q \in Places : Task(l, k, q) \in TaskIn(Locs) /\ Task(l, k, q).to = q
    BY DEF Task, TaskIn
  <2>3. Spawned(w) \in TaskIn(Locs) /\ Spawned(w).to = p
    BY <1>5, <2>1, <2>2
  <2> QED BY <2>3
<1>7. PICK g \in FrameIn(V) :
        /\ stack' = Continue(w, g) /\ g.step = "spawn" /\ g.i = f.i + 1
        /\ g.loc = f.loc /\ g.out = f.out /\ g.to = f.to /\ g.task = f.task /\ g.pend = f.pend
  <2> DEFINE g == Moved(f, "spawn", f.i + 1)
  <2>1. /\ g \in FrameIn(V) /\ g.step = "spawn" /\ g.i = f.i + 1 /\ g.pend = f.pend
        /\ g.loc = f.loc /\ g.out = f.out /\ g.to = f.to /\ g.task = f.task
    <3>1. "spawn" \in Steps /\ f.i + 1 \in Nat \ {0}
      BY <1>4 DEF Steps
    <3> QED BY <3>1, FrameMoves
  <2>2. stack' = Continue(w, g)
    BY <1>3 DEF Spawn, Next_i, Moved
  <2> HIDE DEF g
  <2> QED BY <2>1, <2>2
<1>8. /\ stack' \in [Workers -> Seq(FrameIn(V))]
      /\ \A v \in Workers : Depth(v)' = Depth(v)
      /\ stack'[w][n] = g
      /\ \A v \in Workers : \A d \in 1..Depth(v) :
           v # w \/ d # n => stack'[v][d] = stack[v][d]
  BY <1>1, <1>2, <1>3, <1>7, StackReplaced
<1>9. \A v \in Workers : \A d \in 1..Depth(v) :
        /\ stack'[v][d].out = stack[v][d].out /\ stack'[v][d].to = stack[v][d].to
        /\ stack'[v][d].task = stack[v][d].task /\ stack'[v][d].step = stack[v][d].step
  <2>1. ASSUME NEW v \in Workers, NEW d \in 1..Depth(v), v # w \/ d # n
        PROVE  stack'[v][d] = stack[v][d]
    BY <1>8, <2>1
  <2> QED BY <1>3, <1>7, <1>8, <2>1
<1>0. PICK m \in Nat : m = Len(dq[w])
  <2>1. Len(dq[w]) \in Nat
    BY TaskTyped, Zenon
  <2> QED BY <2>1, Zenon
<1>10. /\ Len(dq'[w]) = m + 1 /\ dq'[w][m + 1] = t
       /\ \A i \in 1..m : dq'[w][i] = dq[w][i]
       /\ \A v \in Workers : v # w => dq'[v] = dq[v]
       /\ dq' \in [Workers -> Seq(TaskIn(Locs))]
       /\ \A v \in Workers : Len(dq'[v]) <= Cap
  <2>1. dq \in [Workers -> Seq(TaskIn(Locs))] /\ \A v \in Workers : Len(dq[v]) <= Cap
    BY DEF Types
  <2>2. PICK q : q = Append(dq[w], t)
    OBVIOUS
  <2>3. /\ q \in Seq(TaskIn(Locs)) /\ Len(q) = Len(dq[w]) + 1 /\ Len(dq[w]) \in Nat
        /\ q[Len(dq[w]) + 1] = t /\ \A i \in 1..Len(dq[w]) : q[i] = dq[w][i]
    BY <2>1, <2>2, PushTop
  <2>4. dq' = [dq EXCEPT ![w] = q]
    BY <1>6, <2>2 DEF Spawn
  <2>5. Cap \in Nat
    BY CnfAssumption
  <2>6. dq'[w] = q /\ \A v \in Workers : v # w => dq'[v] = dq[v]
    BY <2>1, <2>4
  <2>7. dq' \in [Workers -> Seq(TaskIn(Locs))]
    BY <2>1, <2>3, <2>4
  <2>8. ASSUME NEW v \in Workers PROVE Len(dq'[v]) <= Cap
    <3>1. CASE v = w
      BY <1>1, <2>3, <2>5, <2>6, <3>1
    <3>2. CASE v # w
      BY <2>1, <2>6, <3>2
    <3> QED BY <3>1, <3>2
  <2> QED BY <1>0, <2>3, <2>6, <2>7, <2>8
<1>11. pool' = pool /\ pending' = pending /\ active' = active
  BY DEF Spawn, counter
<1>12. Types'
  BY <1>8, <1>10, <1>11, TypesAgain DEF Types
<1>13. /\ \A q : InHand(q)' <=> InHand(q)
       /\ \A q : InRun(q)' <=> InRun(q)
       /\ \A q : InQueue(q)' <=> InQueue(q) \/ q = p
       /\ \A q : IsOut(q)' <=> IsOut(q) \/ q = p
  <2>1. \A q : InHand(q)' <=> InHand(q)
    BY <1>11 DEF InHand
  <2>2. \A q : InRun(q)' <=> InRun(q)
    BY <1>8, <1>9, RunSame
  <2>3. ASSUME NEW q, InQueue(q) PROVE InQueue(q)'
    <3>1. PICK v \in Workers : \E i \in 1..Len(dq[v]) : dq[v][i].to = q
      BY <2>3 DEF InQueue
    <3>2. PICK i \in 1..Len(dq[v]) : dq[v][i].to = q
      BY <3>1
    <3>3. i \in 1..Len(dq'[v]) /\ dq'[v][i] = dq[v][i]
      BY <1>0, <1>10
    <3> QED BY <3>2, <3>3 DEF InQueue
  <2>4. InQueue(p)'
    <3>1. m + 1 \in 1..Len(dq'[w])
      BY <1>0, <1>10
    <3> QED BY <1>6, <1>10, <3>1 DEF InQueue
  <2>5. ASSUME NEW q, InQueue(q)' PROVE InQueue(q) \/ q = p
    <3>1. PICK v \in Workers : \E i \in 1..Len(dq'[v]) : dq'[v][i].to = q
      BY <2>5 DEF InQueue
    <3>2. PICK i \in 1..Len(dq'[v]) : dq'[v][i].to = q
      BY <3>1
    <3>3. CASE v = w /\ i = m + 1
      BY <1>6, <1>10, <3>2, <3>3
    <3>4. CASE v # w \/ i # m + 1
      <4>1. i \in 1..Len(dq[v]) /\ dq'[v][i] = dq[v][i]
        BY <1>0, <1>10, <3>4
      <4> QED BY <3>2, <4>1 DEF InQueue
    <3> QED BY <3>3, <3>4
  <2> QED BY <2>1, <2>2, <2>3, <2>4, <2>5 DEF IsOut
<1>14. FramesFit'
  <2> SUFFICES ASSUME NEW v \in Workers, NEW d \in 1..Depth(v) PROVE FrameFits(v, d)'
    BY <1>8 DEF FramesFit
  <2>1. FrameFits(v, d)
    BY DEF Structure, FramesFit
  <2>2. d \in Nat /\ (d > 1 => d - 1 \in 1..Depth(v))
    BY FrameTyped
  <2>3. CASE v # w \/ d # n
    BY <1>8, <1>9, <2>1, <2>2, <2>3, FitsKept
  <2>4. CASE v = w /\ d = n
    <3>1. /\ Len(g.out) = Len(Kids[g.loc]) /\ g.step = "spawn"
          /\ g.i \in 1..(Len(g.out) + 1) /\ \A j \in g.i..Len(g.out) : g.out[j] = None
      <4>1. Len(g.out) = Len(Kids[g.loc]) /\ g.step = "spawn" /\ g.i = f.i + 1 /\ g.out = f.out
        BY <1>3, <1>7
      <4>2. f.i + 1 \in 1..(Len(f.out) + 1)
        BY <1>3, <1>4
      <4> QED BY <1>4, <4>1, <4>2
    <3>2. ~f.task => \/ n = 1 /\ f.to = Place(w, 0, 1)
                     \/ /\ n > 1 /\ f.to[1] = w /\ f.to[2] = n - 1
                        /\ f.to[3] \in 1..Len(stack[w][n - 1].out)
                        /\ stack[w][n - 1].step \in {"lam", "seq"}
      BY <1>3 DEF FrameFits
    <3>3. ~g.task => \/ n = 1 /\ g.to = Place(w, 0, 1)
                     \/ /\ n > 1 /\ g.to[1] = w /\ g.to[2] = n - 1
                        /\ g.to[3] \in 1..Len(stack'[w][n - 1].out)
                        /\ stack'[w][n - 1].step \in {"lam", "seq"}
      BY <1>7, <1>9, <2>2, <2>4, <3>2
    <3>4. FrameFits(w, n)'
      BY <1>8, <3>1, <3>3 DEF FrameFits, Place
    <3> QED BY <2>4, <3>4
  <2> QED BY <2>3, <2>4
<1>15. TasksApart'
  <2>0. QueuedApart /\ HeldApart /\ RunApart /\ QueuedOnly /\ HeldOnly
    BY DEF Structure, TasksApart
  <2>1. QueuedApart'
    <3> SUFFICES ASSUME NEW u \in Workers, NEW v \in Workers,
                        NEW i \in 1..Len(dq'[u]), NEW j \in 1..Len(dq'[v]),
                        dq'[u][i].to = dq'[v][j].to
                 PROVE  u = v /\ i = j
      BY DEF QueuedApart
    <3>1. ASSUME NEW x \in Workers, NEW k \in 1..Len(dq'[x])
          PROVE  \/ x = w /\ k = m + 1 /\ dq'[x][k].to = p
                 \/ /\ k \in 1..Len(dq[x]) /\ dq'[x][k] = dq[x][k]
                    /\ dq'[x][k].to # p
      <4>1. CASE x = w /\ k = m + 1
        BY <1>6, <1>10, <4>1
      <4>2. CASE x # w \/ k # m + 1
        <5>1. k \in 1..Len(dq[x]) /\ dq'[x][k] = dq[x][k]
          BY <1>0, <1>10, <4>2
        <5> QED BY <1>5, <5>1 DEF IsOut, InQueue
      <4> QED BY <4>1, <4>2
    <3>2. \/ u = w /\ i = m + 1 /\ dq'[u][i].to = p
          \/ i \in 1..Len(dq[u]) /\ dq'[u][i] = dq[u][i] /\ dq'[u][i].to # p
      BY <3>1
    <3>3. \/ v = w /\ j = m + 1 /\ dq'[v][j].to = p
          \/ j \in 1..Len(dq[v]) /\ dq'[v][j] = dq[v][j] /\ dq'[v][j].to # p
      BY <3>1
    <3>4. CASE dq'[u][i].to = p
      BY <3>2, <3>3, <3>4
    <3>5. CASE dq'[u][i].to # p
      <4>1. i \in 1..Len(dq[u]) /\ j \in 1..Len(dq[v]) /\ dq[u][i].to = dq[v][j].to
        BY <3>2, <3>3, <3>5
      <4> QED BY <2>0, <4>1 DEF QueuedApart
    <3> QED BY <3>4, <3>5
  <2>2. HeldApart' /\ HeldOnly'
    BY <1>11, <1>13, <2>0 DEF HeldApart, HeldOnly
  <2>3. RunApart'
    BY <1>8, <1>9, <2>0 DEF RunApart
  <2>4. QueuedOnly'
    <3> SUFFICES ASSUME NEW v \in Workers, NEW i \in 1..Len(dq'[v])
                 PROVE  ~InHand(dq'[v][i].to) /\ ~InRun(dq'[v][i].to)
      BY <1>13 DEF QueuedOnly
    <3>1. CASE v = w /\ i = m + 1
      BY <1>5, <1>6, <1>10, <3>1 DEF IsOut
    <3>2. CASE v # w \/ i # m + 1
      <4>1. i \in 1..Len(dq[v]) /\ dq'[v][i] = dq[v][i]
        BY <1>0, <1>10, <3>2
      <4> QED BY <2>0, <4>1 DEF QueuedOnly
    <3> QED BY <3>1, <3>2
  <2> QED BY <2>1, <2>2, <2>3, <2>4 DEF TasksApart
<1>16. TasksPoint'
  <2>0. QueuedPoint /\ HeldPoint /\ RunPoint
    BY DEF Structure, TasksPoint
  <2>1. \A q \in Places : (Awaits(q) => Awaits(q)') /\ (Awaited(q) => Awaited(q)')
    BY <1>8, <1>9, PlaceParts DEF Awaits, Awaited
  <2>2. \A v \in Workers : \A d \in 1..Depth(v) : stack[v][d].to \in Places
    BY FrameTyped
  <2>3. QueuedPoint'
    <3> SUFFICES ASSUME NEW v \in Workers, NEW i \in 1..Len(dq'[v])
                 PROVE  Awaited(dq[v][i].to)'
      BY DEF QueuedPoint
    <3>1. PICK q : q = dq'[v][i].to
      OBVIOUS
    <3>2. q \in Places /\ Awaited(q)
      <4>1. CASE v = w /\ i = m + 1
        BY <1>5, <1>6, <1>10, <3>1, <4>1
      <4>2. CASE v # w \/ i # m + 1
        <5>1. i \in 1..Len(dq[v]) /\ dq'[v][i] = dq[v][i]
          BY <1>0, <1>10, <4>2
        <5>2. dq[v][i].to \in Places /\ Awaited(dq[v][i].to)
          BY <2>0, <5>1, TaskTyped DEF QueuedPoint
        <5>3. dq[v][i].to = q
          BY <3>1, <5>1
        <5> QED BY <5>2, <5>3
      <4> QED BY <4>1, <4>2
    <3>3. Awaited(q)'
      BY <2>1, <3>2
    <3> QED BY <3>1, <3>3 DEF Awaited, Awaits
  <2>4. HeldPoint' /\ RunPoint'
    BY <1>8, <1>9, <1>11, <2>0, <2>1, <2>2, TaskTyped DEF HeldPoint, RunPoint
  <2> QED BY <2>3, <2>4 DEF TasksPoint
<1>17. FieldsCounted'
  <2> SUFFICES ASSUME NEW v \in Workers, NEW d \in 1..Depth(v) PROVE FrameCounted(v, d)'
    BY <1>8 DEF FieldsCounted
  <2>1. FrameCounted(v, d) /\ d \in Nat
    BY FrameTyped DEF Structure, FieldsCounted
  <2>2. CASE v # w \/ d # n
    <3>1. \A j : Place(v, d, j) # p
      BY <1>5, <2>2 DEF Place
    <3> QED BY <1>8, <1>13, <2>1, <2>2, <3>1, CountKept
  <2>3. CASE v = w /\ d = n
    <3>0. PICK F : F = FieldsOut(w, n)
      OBVIOUS
    <3>1. f.i \notin F
      BY <1>5, <3>0 DEF FieldsOut
    <3>2. IsFiniteSet(F) /\ Cardinality(F) \in Nat /\ F \subseteq Nat
      BY <1>3, <3>0, FieldsFinite
    <3>3. f.pend = Cardinality(F) + (Len(f.out) - f.i + 1) /\ \A j \in F : j < f.i
      <4>1. Unspawned(<<w, n>>) = Len(f.out) - f.i + 1
        BY <1>3 DEF Unspawned, FrameAt
      <4>2. f.pend = Cardinality(F) + Unspawned(<<w, n>>) /\ \A j \in F : j < f.i
        BY <1>3, <3>0 DEF FrameCounted
      <4> QED BY <4>1, <4>2
    <3>4. FieldsOut(w, n)' = F \cup {f.i}
      <4>1. \A j : Place(w, n, j) = p <=> j = f.i
        BY <1>5 DEF Place
      <4>2. FieldsOut(w, n)' = {j \in 1..Len(f.out) : IsOut(Place(w, n, j)) \/ Place(w, n, j) = p}
        BY <1>7, <1>8, <1>13 DEF FieldsOut, Place
      <4> QED BY <1>3, <1>4, <3>0, <4>1, <4>2 DEF FieldsOut
    <3>5. Cardinality(F \cup {f.i}) = Cardinality(F) + 1
      BY <3>1, <3>2, FS_AddElement
    <3>6. Unspawned(<<w, n>>)' = Len(g.out) - g.i + 1
      BY <1>7, <1>8 DEF Unspawned, FrameAt
    <3>7. g.pend = Cardinality(F) + 1 + (Len(g.out) - g.i + 1)
      <4>1. g.i = f.i + 1 /\ Len(g.out) = Len(f.out) /\ g.pend = f.pend
        BY <1>7
      <4>2. PICK c \in Int, L \in Int, i \in Int : c = Cardinality(F) /\ L = Len(f.out) /\ i = f.i
        <5>1. Cardinality(F) \in Int /\ Len(f.out) \in Int /\ f.i \in Int
          BY <1>3, <3>2
        <5> QED BY <5>1, Zenon
      <4>3. g.pend = c + (L - i + 1)
        BY <3>3, <4>1, <4>2
      <4>4. Cardinality(F) + 1 + (Len(g.out) - g.i + 1) = c + 1 + (L - (i + 1) + 1)
        BY <4>1, <4>2
      <4> QED BY <4>3, <4>4
    <3>8. \A j \in F \cup {f.i} : j < g.i
      BY <1>3, <1>7, <3>2, <3>3
    <3>9. FrameCounted(w, n)'
      BY <1>8, <3>4, <3>5, <3>6, <3>7, <3>8 DEF FrameCounted
    <3> QED BY <2>3, <3>9
  <2> QED BY <2>2, <2>3
<1> QED BY <1>12, <1>14, <1>15, <1>16, <1>17 DEF Structure

\* A call that begins.
LEMMA NewFrame ==
  ASSUME NEW V, None \in V, NEW l \in Locs, NEW par \in Nat, NEW to \in Places,
         NEW task \in BOOLEAN
  PROVE  \E h \in FrameIn(V) :
           /\ h = Frame(l, par, to, task)
           /\ h.loc = l /\ h.step = "enter" /\ h.i = 1 /\ h.pend = 0 /\ h.to = to /\ h.task = task
           /\ Len(h.out) = Len(Kids[l]) /\ Len(h.out) \in Nat
           /\ \A j \in 1..Len(h.out) : h.out[j] = None
<1>1. Kids[l] \in Seq(Locs)
  BY CnfAssumption
<1>2. PICK m \in Nat : m = Len(Kids[l]) /\ DOMAIN Kids[l] = 1..m
  BY <1>1
<1>3. PICK o : o = [i \in 1..m |-> None]
  OBVIOUS
<1>4. o \in Seq(V) /\ Len(o) = m /\ \A j \in 1..m : o[j] = None
  BY <1>3
<1>5. PICK h : h = [loc |-> l, par |-> par, step |-> "enter", i |-> 1, out |-> o, pend |-> 0,
                    to |-> to, task |-> task]
  OBVIOUS
<1>6. h = Frame(l, par, to, task)
  BY <1>2, <1>3, <1>5 DEF Frame
<1>7. h \in FrameIn(V)
  BY <1>4, <1>5 DEF FrameIn, Steps
<1>8. h.loc = l /\ h.step = "enter" /\ h.i = 1 /\ h.pend = 0 /\ h.to = to /\ h.task = task
      /\ h.out = o
  BY <1>5
<1> QED BY <1>2, <1>4, <1>6, <1>7, <1>8

\* cnf_at is called for a field, by the loop over the fields or as the task that
\* found the deque full.
LEMMA EnterStructure ==
  ASSUME Types, Structure, NEW w \in Workers, root' = root,
         LamBody(w) \/ SeqField(w) \/ SpawnInline(w)
  PROVE  Types' /\ Structure'
<1>1. stack[w] # <<>> /\ \E step \in {"enter", "seq", "spawn"} : On(w, step)
  BY OnTop DEF LamBody, SeqField, SpawnInline
<1>2. PICK V : None \in V /\ stack \in [Workers -> Seq(FrameIn(V))]
  BY Widen DEF Types
<1>3. PICK n \in Nat \ {0}, f \in FrameIn(V) :
        /\ n = Depth(w) /\ f = Top(w) /\ f = stack[w][n] /\ n \in 1..n
        /\ f.step \in {"enter", "seq", "spawn"} /\ f.i \in Nat \ {0} /\ f.pend \in Int
        /\ f.loc \in Locs /\ f.par \in Nat
        /\ Len(f.out) \in Nat /\ Len(f.out) = Len(Kids[f.loc])
        /\ FrameFits(w, n) /\ FrameCounted(w, n)
  BY <1>1, <1>2, TopFrame
<1>4. PICK step \in {"lam", "seq", "spawn"}, task \in BOOLEAN :
        /\ stack' = Enter(w, Moved(f, step, f.i + 1), f.i, task)
        /\ f.i \in 1..Len(f.out)
        /\ (step = "spawn") <=> (f.step = "spawn")
        /\ task <=> (step = "spawn")
  <2>1. CASE LamBody(w)
    <3>1. f.step = "enter" /\ f.i = 1 /\ f.i + 1 = 2 /\ Len(f.out) = 1
      BY <1>3, <2>1, CnfAssumption DEF LamBody, On, Is, FrameFits
    <3>2. stack' = Enter(w, Moved(f, "lam", f.i + 1), f.i, FALSE)
      BY <1>3, <2>1, <3>1 DEF LamBody, Next_i, Moved
    <3>3. ("lam" = "spawn") <=> (f.step = "spawn")
      BY <3>1
    <3> WITNESS "lam" \in {"lam", "seq", "spawn"}, FALSE \in BOOLEAN
    <3> QED BY <3>1, <3>2, <3>3
  <2>2. CASE SeqField(w)
    <3>1. f.step = "seq" /\ f.i \in Nat \ {0} /\ f.i <= Len(f.out)
      BY <1>3, <2>2 DEF SeqField, On, Arity
    <3>2. stack' = Enter(w, Moved(f, "seq", f.i + 1), f.i, FALSE)
      BY <1>3, <2>2 DEF SeqField, Next_i, Moved
    <3>3. f.i \in 1..Len(f.out)
      BY <1>3, <3>1
    <3> QED BY <3>1, <3>2, <3>3
  <2>3. CASE SpawnInline(w)
    <3>1. f.step = "spawn" /\ f.i <= Len(f.out)
      BY <1>3, <2>3 DEF SpawnInline, On, Arity
    <3>2. stack' = Enter(w, Moved(f, "spawn", f.i + 1), f.i, TRUE)
      BY <1>3, <2>3 DEF SpawnInline, Next_i, Moved
    <3>3. f.i \in 1..Len(f.out)
      BY <1>3, <3>1 DEF FrameFits
    <3> QED BY <3>1, <3>2, <3>3
  <2> QED BY <2>1, <2>2, <2>3
<1>5. PICK p \in Places :
        /\ p = Place(w, n, f.i)
        /\ step = "spawn" => ~IsOut(p) /\ Awaited(p)
        /\ Kids[f.loc][f.i] \in Locs /\ Less(f.par) \in Nat
  BY <1>3, <1>4, NextField
<1>6. PICK g \in FrameIn(V) :
        /\ g = Moved(f, step, f.i + 1) /\ g.step = step /\ g.i = f.i + 1
        /\ g.loc = f.loc /\ g.out = f.out /\ g.to = f.to /\ g.task = f.task /\ g.pend = f.pend
  <2> DEFINE g == Moved(f, step, f.i + 1)
  <2>1. step \in Steps /\ f.i + 1 \in Nat \ {0}
    BY <1>3 DEF Steps
  <2>2. /\ g \in FrameIn(V) /\ g.step = step /\ g.i = f.i + 1 /\ g.pend = f.pend
        /\ g.loc = f.loc /\ g.out = f.out /\ g.to = f.to /\ g.task = f.task
    BY <2>1, FrameMoves
  <2>3. g = Moved(f, step, f.i + 1)
    OBVIOUS
  <2> HIDE DEF g
  <2> QED BY <2>2, <2>3
<1>7. PICK h \in FrameIn(V) :
        /\ h = Frame(Kids[f.loc][f.i], Less(f.par), p, task)
        /\ h.loc = Kids[f.loc][f.i] /\ h.step = "enter" /\ h.i = 1 /\ h.pend = 0 /\ h.to = p
        /\ h.task = task
        /\ Len(h.out) = Len(Kids[h.loc]) /\ Len(h.out) \in Nat
        /\ \A j \in 1..Len(h.out) : h.out[j] = None
  BY <1>2, <1>4, <1>5, NewFrame
<1>8. /\ stack' \in [Workers -> Seq(FrameIn(V))]
      /\ \A v \in Workers : v # w => Depth(v)' = Depth(v)
      /\ Depth(w)' = n + 1 /\ stack'[w][n] = g /\ stack'[w][n + 1] = h
      /\ \A v \in Workers : \A d \in 1..Depth(v) :
           v # w \/ d # n => stack'[v][d] = stack[v][d]
  <2>1. stack' = Entered(w, g, h)
    BY <1>3, <1>4, <1>5, <1>6, <1>7 DEF Enter, Entered, Field, ForField
  <2>2. /\ stack' \in [Workers -> Seq(FrameIn(V))]
        /\ \A v \in Workers : v # w => Depth(v)' = Depth(v)
        /\ Depth(w)' = Depth(w) + 1
        /\ stack'[w][Depth(w)] = g /\ stack'[w][Depth(w) + 1] = h
        /\ \A v \in Workers : \A d \in 1..Depth(v) :
             v # w \/ d # Depth(w) => stack'[v][d] = stack[v][d]
    BY <1>1, <1>2, <2>1, StackEntered
  <2> QED BY <1>3, <2>2
<1>9. \A v \in Workers : \A d \in 1..Depth(v) :
        /\ d \in 1..Depth(v)'
        /\ stack'[v][d].out = stack[v][d].out /\ stack'[v][d].to = stack[v][d].to
        /\ stack'[v][d].task = stack[v][d].task
        /\ stack[v][d].step \in {"lam", "seq"} => stack'[v][d].step \in {"lam", "seq"}
        /\ stack[v][d].step \in {"spawn", "join"} => stack'[v][d].step \in {"spawn", "join"}
        /\ stack'[v][d].step = "sub" <=> stack[v][d].step = "sub"
  <2>1. ASSUME NEW v \in Workers, NEW d \in 1..Depth(v), v # w \/ d # n
        PROVE  stack'[v][d] = stack[v][d]
    BY <1>8, <2>1
  <2>2. ASSUME NEW v \in Workers, NEW d \in 1..Depth(v)
        PROVE  d \in 1..Depth(v)'
    <3>1. CASE v = w
      BY <1>3, <1>8, <3>1
    <3>2. CASE v # w
      BY <1>8, <3>2
    <3> QED BY <3>1, <3>2
  <2>3. /\ stack'[w][n].out = f.out /\ stack'[w][n].to = f.to /\ stack'[w][n].task = f.task
        /\ f.step \in {"lam", "seq"} => stack'[w][n].step \in {"lam", "seq"}
        /\ f.step \in {"spawn", "join"} => stack'[w][n].step \in {"spawn", "join"}
        /\ stack'[w][n].step = "sub" <=> f.step = "sub"
    BY <1>3, <1>4, <1>6, <1>8
  <2> SUFFICES ASSUME NEW v \in Workers, NEW d \in 1..Depth(v)
               PROVE  /\ d \in 1..Depth(v)'
                      /\ stack'[v][d].out = stack[v][d].out /\ stack'[v][d].to = stack[v][d].to
                      /\ stack'[v][d].task = stack[v][d].task
                      /\ stack[v][d].step \in {"lam", "seq"} => stack'[v][d].step \in {"lam", "seq"}
                      /\ stack[v][d].step \in {"spawn", "join"} =>
                           stack'[v][d].step \in {"spawn", "join"}
                      /\ stack'[v][d].step = "sub" <=> stack[v][d].step = "sub"
    OBVIOUS
  <2>4. CASE v = w /\ d = n
    BY <1>3, <2>2, <2>3, <2>4
  <2>5. CASE v # w \/ d # n
    BY <2>1, <2>2, <2>5
  <2> QED BY <2>4, <2>5
<1>0. \A v \in Workers : \A d \in 1..Depth(v)' : d \in 1..Depth(v) \/ (v = w /\ d = n + 1)
  BY <1>3, <1>8, FrameTyped
<1>10. dq' = dq /\ pool' = pool /\ pending' = pending /\ active' = active
  BY DEF LamBody, SeqField, SpawnInline, counter
<1>11. Types'
  BY <1>8, <1>10, TypesAgain DEF Types
<1>12. n + 1 \in 1..Depth(w)'
  BY <1>3, <1>8
<1>13. /\ \A q : InHand(q)' <=> InHand(q)
       /\ \A q : InQueue(q)' <=> InQueue(q)
       /\ \A q : InRun(q)' <=> InRun(q) \/ (step = "spawn" /\ q = p)
       /\ \A q : IsOut(q)' <=> IsOut(q) \/ (step = "spawn" /\ q = p)
  <2>1. \A q : (InHand(q)' <=> InHand(q)) /\ (InQueue(q)' <=> InQueue(q))
    BY <1>10 DEF InHand, InQueue
  <2>2. ASSUME NEW q, InRun(q) PROVE InRun(q)'
    BY <1>9, <2>2 DEF InRun
  <2>3. ASSUME step = "spawn" PROVE InRun(p)'
    <3>1. stack'[w][n + 1].task /\ stack'[w][n + 1].to = p
      BY <1>4, <1>7, <1>8, <2>3
    <3> QED BY <1>12, <3>1 DEF InRun
  <2>4. ASSUME NEW q, InRun(q)' PROVE InRun(q) \/ (step = "spawn" /\ q = p)
    <3>1. PICK v \in Workers : \E d \in 1..Depth(v)' : stack'[v][d].task /\ stack'[v][d].to = q
      BY <2>4 DEF InRun
    <3>2. PICK d \in 1..Depth(v)' : stack'[v][d].task /\ stack'[v][d].to = q
      BY <3>1
    <3>3. CASE d \in 1..Depth(v)
      BY <1>9, <3>2, <3>3 DEF InRun
    <3>4. CASE v = w /\ d = n + 1
      BY <1>4, <1>7, <1>8, <3>2, <3>4
    <3> QED BY <1>0, <3>3, <3>4
  <2>5. \A q : InRun(q)' <=> InRun(q) \/ (step = "spawn" /\ q = p)
    BY <2>2, <2>3, <2>4
  <2> QED BY <2>1, <2>5 DEF IsOut
<1>14. FramesFit'
  <2> SUFFICES ASSUME NEW v \in Workers, NEW d \in 1..Depth(v)' PROVE FrameFits(v, d)'
    BY DEF FramesFit
  <2>1. CASE d \in 1..Depth(v) /\ (v # w \/ d # n)
    <3>1. FrameFits(v, d)
      BY <2>1 DEF Structure, FramesFit
    <3>2. d \in Nat /\ (d > 1 => d - 1 \in 1..Depth(v))
      BY <2>1, FrameTyped
    <3> QED BY <1>8, <1>9, <2>1, <3>1, <3>2, FitsKept
  <2>2. CASE v = w /\ d = n
    <3>1. /\ Len(g.out) = Len(Kids[g.loc]) /\ g.step \in {"lam", "seq", "spawn"}
          /\ g.step = "spawn" =>
               g.i \in 1..(Len(g.out) + 1) /\ \A j \in g.i..Len(g.out) : g.out[j] = None
      <4>1. Len(g.out) = Len(Kids[g.loc]) /\ g.step = step /\ g.i = f.i + 1 /\ g.out = f.out
        BY <1>3, <1>6
      <4>2. f.i + 1 \in 1..(Len(f.out) + 1)
        BY <1>3, <1>4, SMTT(30)
      <4>3. step = "spawn" => \A j \in f.i..Len(f.out) : f.out[j] = None
        BY <1>3, <1>4 DEF FrameFits
      <4>4. \A j \in (f.i + 1)..Len(f.out) : j \in f.i..Len(f.out)
        BY <1>3
      <4> QED BY <4>1, <4>2, <4>3, <4>4
    <3>2. ~f.task => \/ n = 1 /\ f.to = Place(w, 0, 1)
                     \/ /\ n > 1 /\ f.to[1] = w /\ f.to[2] = n - 1
                        /\ f.to[3] \in 1..Len(stack[w][n - 1].out)
                        /\ stack[w][n - 1].step \in {"lam", "seq"}
      BY <1>3 DEF FrameFits
    <3>3. n > 1 => n - 1 \in 1..Depth(w)
      BY <1>3
    <3>4. ~g.task => \/ n = 1 /\ g.to = Place(w, 0, 1)
                     \/ /\ n > 1 /\ g.to[1] = w /\ g.to[2] = n - 1
                        /\ g.to[3] \in 1..Len(stack'[w][n - 1].out)
                        /\ stack'[w][n - 1].step \in {"lam", "seq"}
      BY <1>6, <1>9, <3>2, <3>3
    <3>5. FrameFits(w, n)'
      BY <1>8, <3>1, <3>4 DEF FrameFits, Place
    <3> QED BY <2>2, <3>5
  <2>3. CASE v = w /\ d = n + 1
    <3>1. /\ Len(h.out) = Len(Kids[h.loc]) /\ h.step = "enter" /\ h.i = 1
          /\ 1 \in 1..(Len(h.out) + 1) /\ \A j \in 1..Len(h.out) : h.out[j] = None
      BY <1>7
    <3>2. ~h.task => /\ n + 1 > 1 /\ h.to[1] = w /\ h.to[2] = (n + 1) - 1
                     /\ h.to[3] \in 1..Len(g.out) /\ g.step \in {"lam", "seq"}
      <4>1. ~h.task => g.step \in {"lam", "seq"}
        BY <1>4, <1>6, <1>7
      <4>2. h.to[1] = w /\ h.to[2] = n /\ h.to[3] = f.i
        BY <1>5, <1>7 DEF Place
      <4>3. f.i \in 1..Len(g.out) /\ n + 1 > 1 /\ n = (n + 1) - 1
        BY <1>3, <1>4, <1>6
      <4> QED BY <4>1, <4>2, <4>3
    <3>3. stack'[w][(n + 1) - 1] = g
      BY <1>3, <1>8
    <3>4. FrameFits(w, n + 1)'
      BY <1>8, <3>1, <3>2, <3>3 DEF FrameFits
    <3> QED BY <2>3, <3>4
  <2> QED BY <1>0, <2>1, <2>2, <2>3
<1>15. TasksApart'
  <2>0. QueuedApart /\ HeldApart /\ RunApart /\ QueuedOnly /\ HeldOnly
    BY DEF Structure, TasksApart
  <2>1. QueuedApart' /\ HeldApart'
    BY <1>10, <2>0 DEF QueuedApart, HeldApart
  <2>2. RunApart'
    <3> SUFFICES ASSUME NEW u \in Workers, NEW v \in Workers,
                        NEW d \in 1..Depth(u)', NEW e \in 1..Depth(v)',
                        stack'[u][d].task, stack'[v][e].task,
                        stack'[u][d].to = stack'[v][e].to
                 PROVE  u = v /\ d = e
      BY DEF RunApart
    <3>1. ASSUME NEW x \in Workers, NEW k \in 1..Depth(x)', stack'[x][k].task
          PROVE  \/ x = w /\ k = n + 1 /\ stack'[x][k].to = p
                 \/ /\ k \in 1..Depth(x) /\ stack[x][k].task
                    /\ stack[x][k].to = stack'[x][k].to
                    /\ step = "spawn" => stack'[x][k].to # p
      <4>1. CASE x = w /\ k = n + 1
        BY <1>4, <1>7, <1>8, <4>1
      <4>2. CASE k \in 1..Depth(x)
        <5>1. InRun(stack[x][k].to)
          BY <1>9, <3>1, <4>2 DEF InRun
        <5> QED BY <1>5, <1>9, <3>1, <4>2, <5>1 DEF IsOut
      <4> QED BY <1>0, <4>1, <4>2
    <3>2. stack'[w][n + 1].task => step = "spawn"
      BY <1>4, <1>7, <1>8
    <3>3. \/ u = w /\ d = n + 1 /\ stack'[u][d].to = p
          \/ /\ d \in 1..Depth(u) /\ stack[u][d].task
             /\ stack[u][d].to = stack'[u][d].to
             /\ step = "spawn" => stack'[u][d].to # p
      BY <3>1
    <3>4. \/ v = w /\ e = n + 1 /\ stack'[v][e].to = p
          \/ /\ e \in 1..Depth(v) /\ stack[v][e].task
             /\ stack[v][e].to = stack'[v][e].to
             /\ step = "spawn" => stack'[v][e].to # p
      BY <3>1
    <3>5. CASE (u = w /\ d = n + 1) \/ (v = w /\ e = n + 1)
      <4>1. step = "spawn" /\ stack'[u][d].to = p /\ stack'[v][e].to = p
        BY <1>3, <3>2, <3>3, <3>4, <3>5
      <4> QED BY <3>3, <3>4, <4>1
    <3>6. CASE ~(u = w /\ d = n + 1) /\ ~(v = w /\ e = n + 1)
      <4>1. /\ d \in 1..Depth(u) /\ stack[u][d].task /\ e \in 1..Depth(v) /\ stack[v][e].task
            /\ stack[u][d].to = stack[v][e].to
        BY <3>3, <3>4, <3>6
      <4> QED BY <2>0, <4>1 DEF RunApart
    <3> QED BY <3>5, <3>6
  <2>3. QueuedOnly'
    <3> SUFFICES ASSUME NEW v \in Workers, NEW i \in 1..Len(dq[v])
                 PROVE  ~InHand(dq[v][i].to)' /\ ~InRun(dq[v][i].to)'
      BY <1>10 DEF QueuedOnly
    <3>1. PICK q : q = dq[v][i].to
      OBVIOUS
    <3>2. ~InHand(q) /\ ~InRun(q) /\ InQueue(q)
      BY <2>0, <3>1 DEF QueuedOnly, InQueue
    <3>3. ~InHand(q)' /\ ~InRun(q)'
      BY <1>5, <1>13, <3>2 DEF IsOut
    <3>4. dq'[v][i].to = q
      BY <1>10, <3>1
    <3> QED BY <3>3, <3>4 DEF InHand, InRun
  <2>4. HeldOnly'
    <3> SUFFICES ASSUME NEW v \in Workers, pool[v].op = "count"
                 PROVE  ~InRun(pool[v].task.to)'
      BY <1>10 DEF HeldOnly
    <3>1. PICK q : q = pool[v].task.to
      OBVIOUS
    <3>2. ~InRun(q) /\ InHand(q)
      BY <2>0, <3>1 DEF HeldOnly, InHand
    <3>3. ~InRun(q)'
      BY <1>5, <1>13, <3>2 DEF IsOut
    <3>4. pool'[v].task.to = q
      BY <1>10, <3>1
    <3> QED BY <3>3, <3>4 DEF InRun
  <2> QED BY <2>1, <2>2, <2>3, <2>4 DEF TasksApart
<1>16. TasksPoint'
  <2>0. QueuedPoint /\ HeldPoint /\ RunPoint
    BY DEF Structure, TasksPoint
  <2>1. \A q \in Places : (Awaits(q) => Awaits(q)') /\ (Awaited(q) => Awaited(q)')
    <3> SUFFICES ASSUME NEW q \in Places
                 PROVE  (Awaits(q) => Awaits(q)') /\ (Awaited(q) => Awaited(q)')
      OBVIOUS
    <3>1. q[1] \in Workers
      BY PlaceParts
    <3> QED BY <1>9, <3>1 DEF Awaits, Awaited
  <2>2. QueuedPoint' /\ HeldPoint'
    BY <1>10, <2>0, <2>1, TaskTyped DEF QueuedPoint, HeldPoint
  <2>3. RunPoint'
    <3> SUFFICES ASSUME NEW v \in Workers, NEW d \in 1..Depth(v)', stack'[v][d].task
                 PROVE  /\ Awaits(stack[v][d].to)'
                        /\ (stack[v][d].step # "sub" => Awaited(stack[v][d].to))'
      BY DEF RunPoint
    <3>1. PICK q : q = stack'[v][d].to
      OBVIOUS
    <3>2. q \in Places /\ Awaits(q) /\ (stack'[v][d].step # "sub" => Awaited(q))
      <4>1. CASE v = w /\ d = n + 1
        <5>1. q = p /\ step = "spawn"
          BY <1>4, <1>7, <1>8, <3>1, <4>1
        <5> QED BY <1>5, <5>1 DEF Awaited
      <4>2. CASE d \in 1..Depth(v)
        <5>1. stack[v][d].task /\ stack[v][d].to = q /\ q \in Places
          <6>1. stack'[v][d].to = stack[v][d].to /\ stack'[v][d].task = stack[v][d].task
            BY <1>9, <4>2
          <6>2. stack[v][d].to \in Places
            BY <4>2, FrameTyped
          <6> QED BY <3>1, <6>1, <6>2
        <5>2. Awaits(q) /\ (stack[v][d].step # "sub" => Awaited(q))
          BY <2>0, <4>2, <5>1 DEF RunPoint
        <5>3. stack'[v][d].step = "sub" <=> stack[v][d].step = "sub"
          BY <1>9, <4>2
        <5> QED BY <5>1, <5>2, <5>3
      <4> QED BY <1>0, <4>1, <4>2
    <3>3. Awaits(q)' /\ (stack'[v][d].step # "sub" => Awaited(q)')
      BY <2>1, <3>2
    <3> QED BY <3>1, <3>3 DEF Awaits, Awaited
  <2> QED BY <2>2, <2>3 DEF TasksPoint
<1>17. FieldsCounted'
  <2> SUFFICES ASSUME NEW v \in Workers, NEW d \in 1..Depth(v)' PROVE FrameCounted(v, d)'
    BY DEF FieldsCounted
  <2>1. CASE d \in 1..Depth(v) /\ (v # w \/ d # n)
    <3>1. FrameCounted(v, d) /\ d \in Nat
      BY <2>1, FrameTyped DEF Structure, FieldsCounted
    <3>2. \A j : Place(v, d, j) # p
      BY <1>5, <2>1 DEF Place
    <3> QED BY <1>8, <1>13, <2>1, <3>1, <3>2, CountKept
  <2>2. CASE v = w /\ d = n
    <3>0. PICK F : F = FieldsOut(w, n)
      OBVIOUS
    <3>1. IsFiniteSet(F) /\ Cardinality(F) \in Nat /\ F \subseteq Nat
      BY <1>3, <3>0, FieldsFinite
    <3>2. /\ f.pend = Cardinality(F) + IF step = "spawn" THEN Len(f.out) - f.i + 1 ELSE 0
          /\ step = "spawn" => \A j \in F : j < f.i
      <4>1. Unspawned(<<w, n>>) = IF step = "spawn" THEN Len(f.out) - f.i + 1 ELSE 0
        BY <1>3, <1>4 DEF Unspawned, FrameAt
      <4>2. /\ f.pend = Cardinality(F) + Unspawned(<<w, n>>)
            /\ step = "spawn" => \A j \in F : j < f.i
        BY <1>3, <1>4, <3>0 DEF FrameCounted
      <4> QED BY <4>1, <4>2
    <3>3. Unspawned(<<w, n>>)' = IF step = "spawn" THEN Len(g.out) - g.i + 1 ELSE 0
      BY <1>6, <1>8 DEF Unspawned, FrameAt
    <3>4. FieldsOut(w, n)' = {j \in 1..Len(f.out) : IsOut(Place(w, n, j))
                                                    \/ (step = "spawn" /\ Place(w, n, j) = p)}
      BY <1>6, <1>8, <1>13 DEF FieldsOut, Place
    <3>5. CASE step = "spawn"
      <4>1. f.i \notin F
        BY <1>5, <3>0, <3>5 DEF FieldsOut
      <4>2. FieldsOut(w, n)' = F \cup {f.i}
        <5>1. \A j : Place(w, n, j) = p <=> j = f.i
          BY <1>5 DEF Place
        <5> QED BY <1>3, <1>4, <3>0, <3>4, <3>5, <5>1 DEF FieldsOut
      <4>3. Cardinality(F \cup {f.i}) = Cardinality(F) + 1
        BY <3>1, <4>1, FS_AddElement
      <4>4. g.pend = Cardinality(F) + 1 + (Len(g.out) - g.i + 1)
        <5>1. g.i = f.i + 1 /\ Len(g.out) = Len(f.out) /\ g.pend = f.pend
          BY <1>6
        <5>2. PICK c \in Int, L \in Int, i \in Int : c = Cardinality(F) /\ L = Len(f.out) /\ i = f.i
          <6>1. Cardinality(F) \in Int /\ Len(f.out) \in Int /\ f.i \in Int
            BY <1>3, <3>1
          <6> QED BY <6>1, Zenon
        <5>3. g.pend = c + (L - i + 1)
          BY <3>2, <3>5, <5>1, <5>2
        <5>4. Cardinality(F) + 1 + (Len(g.out) - g.i + 1) = c + 1 + (L - (i + 1) + 1)
          BY <5>1, <5>2
        <5> QED BY <5>3, <5>4
      <4>5. \A j \in F \cup {f.i} : j < g.i
        BY <1>3, <1>6, <3>1, <3>2, <3>5
      <4>6. FrameCounted(w, n)'
        BY <1>8, <3>3, <3>5, <4>2, <4>3, <4>4, <4>5 DEF FrameCounted
      <4> QED BY <2>2, <4>6
    <3>6. CASE step # "spawn"
      <4>1. FieldsOut(w, n)' = F
        BY <1>3, <3>0, <3>4, <3>6 DEF FieldsOut
      <4>2. g.pend = Cardinality(F) + 0 /\ g.step # "spawn"
        BY <1>6, <3>2, <3>6
      <4>3. FrameCounted(w, n)'
        BY <1>8, <3>3, <3>6, <4>1, <4>2 DEF FrameCounted
      <4> QED BY <2>2, <4>3
    <3> QED BY <3>5, <3>6
  <2>3. CASE v = w /\ d = n + 1
    <3>1. \A j : ~IsOut(Place(w, n + 1, j))
      <4>1. n + 1 \in Nat /\ n + 1 \notin 1..Depth(w)
        BY <1>3
      <4> QED BY <4>1, NoneOut
    <3>2. \A j : Place(w, n + 1, j) # p
      BY <1>3, <1>5 DEF Place
    <3>3. \A j : ~IsOut(Place(w, n + 1, j))'
      BY <1>13, <3>1, <3>2 DEF Place
    <3>4. FieldsOut(w, n + 1)' = {}
      BY <3>3 DEF FieldsOut, Place
    <3>5. Cardinality({}) = 0 /\ Unspawned(<<w, n + 1>>)' = 0
      BY <1>7, <1>8, FS_EmptySet DEF Unspawned, FrameAt
    <3>6. FrameCounted(w, n + 1)'
      <4>1. stack'[w][n + 1].pend = 0 /\ stack'[w][n + 1].step # "spawn" /\ 0 = 0 + 0
        BY <1>7, <1>8
      <4> QED BY <3>4, <3>5, <4>1 DEF FrameCounted
    <3> QED BY <2>3, <3>6
  <2> QED BY <1>0, <2>1, <2>2, <2>3
<1> QED BY <1>11, <1>14, <1>15, <1>16, <1>17 DEF Structure

\* What the invariant says of the tasks, by the field they are for.
LEMMA ByTask ==
  ASSUME Structure
  PROVE  /\ \A q : InQueue(q) \/ InHand(q) => Awaited(q) /\ ~InRun(q)
         /\ \A q : InQueue(q) => ~InHand(q)
         /\ RunApart /\ RunPoint /\ QueuedApart /\ HeldApart
<1>1. /\ QueuedApart /\ HeldApart /\ RunApart /\ QueuedOnly /\ HeldOnly
      /\ QueuedPoint /\ HeldPoint /\ RunPoint
  BY DEF Structure, TasksApart, TasksPoint
<1>2. ASSUME NEW q, InQueue(q) PROVE Awaited(q) /\ ~InRun(q) /\ ~InHand(q)
  <2>1. PICK v \in Workers : \E i \in 1..Len(dq[v]) : dq[v][i].to = q
    BY <1>2 DEF InQueue
  <2> QED BY <1>1, <2>1 DEF QueuedOnly, QueuedPoint
<1>3. ASSUME NEW q, InHand(q) PROVE Awaited(q) /\ ~InRun(q)
  <2>1. PICK v \in Workers : pool[v].op = "count" /\ pool[v].task.to = q
    BY <1>3 DEF InHand
  <2> QED BY <1>1, <2>1 DEF HeldOnly, HeldPoint
<1> QED BY <1>1, <1>2, <1>3

LEMMA ByTaskNext ==
  ASSUME \A q : InQueue(q)' \/ InHand(q)' => Awaited(q)' /\ ~InRun(q)',
         \A q : InQueue(q)' => ~InHand(q)',
         QueuedApart', HeldApart', RunApart', RunPoint'
  PROVE  TasksApart' /\ TasksPoint'
<1>1. QueuedOnly' /\ QueuedPoint'
  <2> SUFFICES ASSUME NEW v \in Workers, NEW i \in 1..Len(dq'[v])
               PROVE  /\ ~InHand(dq[v][i].to)' /\ ~InRun(dq[v][i].to)'
                      /\ Awaited(dq[v][i].to)'
    BY DEF QueuedOnly, QueuedPoint
  <2>1. PICK q : q = dq'[v][i].to
    OBVIOUS
  <2>2. InQueue(q)'
    BY <2>1 DEF InQueue
  <2>3. ~InHand(q)' /\ ~InRun(q)' /\ Awaited(q)'
    BY <2>2
  <2> QED BY <2>1, <2>3 DEF InHand, InRun, Awaited, Awaits
<1>2. HeldOnly' /\ HeldPoint'
  <2> SUFFICES ASSUME NEW v \in Workers, pool'[v].op = "count"
               PROVE  ~InRun(pool[v].task.to)' /\ Awaited(pool[v].task.to)'
    BY DEF HeldOnly, HeldPoint
  <2>1. PICK q : q = pool'[v].task.to
    OBVIOUS
  <2>2. InHand(q)'
    BY <2>1 DEF InHand
  <2>3. ~InRun(q)' /\ Awaited(q)'
    BY <2>2
  <2> QED BY <2>1, <2>3 DEF InRun, Awaited, Awaits
<1> QED BY <1>1, <1>2 DEF TasksApart, TasksPoint

LEMMA RunApartNext ==
  ASSUME \A u, v \in Workers : \A d \in 1..Depth(u)', e \in 1..Depth(v)' :
           stack'[u][d].task /\ stack'[v][e].task /\ stack'[u][d].to = stack'[v][e].to
             => u = v /\ d = e
  PROVE  RunApart'
BY DEF RunApart

LEMMA QueuedApartNext ==
  ASSUME \A u, v \in Workers : \A i \in 1..Len(dq'[u]), j \in 1..Len(dq'[v]) :
           dq'[u][i].to = dq'[v][j].to => u = v /\ i = j
  PROVE  QueuedApart'
BY DEF QueuedApart

\* A call begins on top of the stack: the caller's, or that of a task that was
\* in a deque or in a hand.
LEMMA PushStructure ==
  ASSUME Types, Structure, NEW w \in Workers,
         NEW V, stack \in [Workers -> Seq(FrameIn(V))], NEW h \in FrameIn(V),
         h.step = "enter", h.i = 1, h.pend = 0,
         Len(h.out) = Len(Kids[h.loc]), Len(h.out) \in Nat,
         \A j \in 1..Len(h.out) : h.out[j] = None,
         stack' = [stack EXCEPT ![w] = Append(@, h)],
         h.task => InQueue(h.to) \/ InHand(h.to),
         ~h.task => Depth(w) = 0 /\ h.to = Place(w, 0, 1),
         \A q : InQueue(q)' \/ InHand(q)' <=> (InQueue(q) \/ InHand(q)) /\ ~(h.task /\ q = h.to),
         \A q : InQueue(q)' => ~InHand(q)',
         QueuedApart', HeldApart'
  PROVE  stack' \in [Workers -> Seq(FrameIn(V))] /\ Structure'
<1>1. PICK n \in Nat : n = Depth(w)
  BY FrameTyped
<1>2. /\ stack' \in [Workers -> Seq(FrameIn(V))]
      /\ \A v \in Workers : v # w => Depth(v)' = Depth(v)
      /\ Depth(w)' = n + 1 /\ stack'[w][n + 1] = h
      /\ \A v \in Workers : \A d \in 1..Depth(v) : stack'[v][d] = stack[v][d]
  <2>1. /\ stack' \in [Workers -> Seq(FrameIn(V))]
        /\ \A v \in Workers : v # w => Depth(v)' = Depth(v)
        /\ Depth(w)' = Depth(w) + 1 /\ stack'[w][Depth(w) + 1] = h
        /\ \A v \in Workers : \A d \in 1..Depth(v) : stack'[v][d] = stack[v][d]
    BY StackPushed
  <2> QED BY <1>1, <2>1
<1>3. /\ \A v \in Workers : \A d \in 1..Depth(v) : d \in 1..Depth(v)'
      /\ \A v \in Workers : \A d \in 1..Depth(v)' : d \in 1..Depth(v) \/ (v = w /\ d = n + 1)
      /\ n + 1 \in 1..Depth(w)' /\ n + 1 \notin 1..Depth(w)
  BY <1>1, <1>2, FrameTyped, SMTT(30)
<1>4. PICK p \in Places : p = h.to
  BY DEF FrameIn
<1>5. \A q : InRun(q)' <=> InRun(q) \/ (h.task /\ q = p)
  <2>1. ASSUME NEW q, InRun(q) PROVE InRun(q)'
    <3>1. PICK v \in Workers : \E d \in 1..Depth(v) : stack[v][d].task /\ stack[v][d].to = q
      BY <2>1 DEF InRun
    <3>2. PICK d \in 1..Depth(v) : stack[v][d].task /\ stack[v][d].to = q
      BY <3>1
    <3>3. d \in 1..Depth(v)' /\ stack'[v][d] = stack[v][d]
      BY <1>2, <1>3
    <3> QED BY <3>2, <3>3 DEF InRun
  <2>2. ASSUME h.task PROVE InRun(p)'
    BY <1>2, <1>3, <1>4, <2>2 DEF InRun
  <2>3. ASSUME NEW q, InRun(q)' PROVE InRun(q) \/ (h.task /\ q = p)
    <3>1. PICK v \in Workers : \E d \in 1..Depth(v)' : stack'[v][d].task /\ stack'[v][d].to = q
      BY <2>3 DEF InRun
    <3>2. PICK d \in 1..Depth(v)' : stack'[v][d].task /\ stack'[v][d].to = q
      BY <3>1
    <3>3. CASE d \in 1..Depth(v)
      BY <1>2, <3>2, <3>3 DEF InRun
    <3>4. CASE v = w /\ d = n + 1
      BY <1>2, <1>4, <3>2, <3>4
    <3> QED BY <1>3, <3>3, <3>4
  <2> QED BY <2>1, <2>2, <2>3
<1>6. \A q : IsOut(q)' <=> IsOut(q)
  BY <1>4, <1>5 DEF IsOut
<1>7. FramesFit'
  <2> SUFFICES ASSUME NEW v \in Workers, NEW d \in 1..Depth(v)' PROVE FrameFits(v, d)'
    BY DEF FramesFit
  <2>1. CASE d \in 1..Depth(v)
    <3>1. FrameFits(v, d)
      BY <2>1 DEF Structure, FramesFit
    <3>2. d \in Nat /\ (d > 1 => d - 1 \in 1..Depth(v))
      BY <2>1, FrameTyped
    <3>3. stack'[v][d] = stack[v][d] /\ (d > 1 => stack'[v][d - 1] = stack[v][d - 1])
      BY <1>2, <2>1, <3>2
    <3> QED BY <3>1, <3>2, <3>3, FitsKept
  <2>2. CASE v = w /\ d = n + 1
    <3>1. ~h.task => n + 1 = 1 /\ h.to = Place(w, 0, 1)
      BY <1>1
    <3>2. 1 \in 1..(Len(h.out) + 1)
      OBVIOUS
    <3>3. FrameFits(w, n + 1)'
      BY <1>2, <3>1, <3>2 DEF FrameFits, Place
    <3> QED BY <2>2, <3>3
  <2> QED BY <1>3, <2>1, <2>2
<1>8. \A q : (Awaits(q) /\ q[1] \in Workers => Awaits(q)')
             /\ (Awaited(q) /\ q[1] \in Workers => Awaited(q)')
  BY <1>2, <1>3 DEF Awaits, Awaited
<1>9. \A q : InQueue(q) \/ InHand(q) => Awaited(q) /\ ~InRun(q) /\ q[1] \in Workers
  BY ByTask, OutAwaits, PlaceParts DEF IsOut
<1>10. TasksApart' /\ TasksPoint'
  <2>1. \A q : InQueue(q)' \/ InHand(q)' => Awaited(q)' /\ ~InRun(q)'
    BY <1>4, <1>5, <1>8, <1>9
  <2>2. RunApart'
    <3>1. ASSUME NEW u \in Workers, NEW v \in Workers,
                 NEW d \in 1..Depth(u)', NEW e \in 1..Depth(v)',
                 stack'[u][d].task, stack'[v][e].task,
                 stack'[u][d].to = stack'[v][e].to
          PROVE  u = v /\ d = e
      <4>1. ASSUME NEW x \in Workers, NEW k \in 1..Depth(x)', stack'[x][k].task
            PROVE  \/ x = w /\ k = n + 1 /\ h.task /\ stack'[x][k].to = p
                   \/ /\ k \in 1..Depth(x) /\ stack[x][k] = stack'[x][k]
                      /\ h.task => stack'[x][k].to # p
        <5>1. CASE x = w /\ k = n + 1
          BY <1>2, <1>4, <4>1, <5>1
        <5>2. CASE k \in 1..Depth(x)
          <6>1. stack[x][k] = stack'[x][k] /\ InRun(stack[x][k].to)
            BY <1>2, <4>1, <5>2 DEF InRun
          <6> QED BY <1>4, <1>9, <5>2, <6>1
        <5> QED BY <1>3, <5>1, <5>2
      <4>2. \/ u = w /\ d = n + 1 /\ h.task /\ stack'[u][d].to = p
            \/ /\ d \in 1..Depth(u) /\ stack[u][d] = stack'[u][d]
               /\ h.task => stack'[u][d].to # p
        BY <3>1, <4>1
      <4>3. \/ v = w /\ e = n + 1 /\ h.task /\ stack'[v][e].to = p
            \/ /\ e \in 1..Depth(v) /\ stack[v][e] = stack'[v][e]
               /\ h.task => stack'[v][e].to # p
        BY <3>1, <4>1
      <4>4. CASE h.task /\ stack'[u][d].to = p
        BY <3>1, <4>2, <4>3, <4>4
      <4>5. CASE ~(h.task /\ stack'[u][d].to = p)
        <5>1. /\ d \in 1..Depth(u) /\ stack[u][d].task /\ e \in 1..Depth(v) /\ stack[v][e].task
              /\ stack[u][d].to = stack[v][e].to
          BY <3>1, <4>2, <4>3, <4>5
        <5> QED BY <5>1, ByTask DEF RunApart
      <4> QED BY <4>4, <4>5
    <3> QED BY ONLY <3>1, RunApartNext
  <2>3. RunPoint'
    <3> SUFFICES ASSUME NEW v \in Workers, NEW d \in 1..Depth(v)', stack'[v][d].task
                 PROVE  /\ Awaits(stack[v][d].to)'
                        /\ (stack[v][d].step # "sub" => Awaited(stack[v][d].to))'
      BY DEF RunPoint
    <3>1. PICK q : q = stack'[v][d].to
      OBVIOUS
    <3>2. Awaits(q)' /\ (stack'[v][d].step # "sub" => Awaited(q)')
      <4>1. CASE v = w /\ d = n + 1
        <5>1. q = p /\ Awaited(p) /\ p[1] \in Workers
          BY <1>2, <1>4, <1>9, <3>1, <4>1
        <5> QED BY <1>8, <5>1 DEF Awaited
      <4>2. CASE d \in 1..Depth(v)
        <5>1. stack'[v][d] = stack[v][d] /\ q = stack[v][d].to
          BY <1>2, <3>1, <4>2
        <5>2. Awaits(q) /\ (stack[v][d].step # "sub" => Awaited(q))
          BY <4>2, <5>1, ByTask DEF RunPoint
        <5>3. q[1] \in Workers
          BY <4>2, <5>1, FrameTyped, PlaceParts
        <5> QED BY <1>8, <5>1, <5>2, <5>3
      <4> QED BY <1>3, <4>1, <4>2
    <3> QED BY <3>1, <3>2 DEF Awaits, Awaited
  <2> QED BY <2>1, <2>2, <2>3, ByTaskNext
<1>11. FieldsCounted'
  <2> SUFFICES ASSUME NEW v \in Workers, NEW d \in 1..Depth(v)' PROVE FrameCounted(v, d)'
    BY DEF FieldsCounted
  <2>1. CASE d \in 1..Depth(v)
    <3>1. FrameCounted(v, d) /\ d \in Nat /\ stack'[v][d] = stack[v][d]
      BY <1>2, <2>1, FrameTyped DEF Structure, FieldsCounted
    <3> QED BY <1>6, <3>1, CountKept
  <2>2. CASE v = w /\ d = n + 1
    <3>1. \A j : ~IsOut(Place(w, n + 1, j))
      BY <1>3, NoneOut
    <3>2. FieldsOut(w, n + 1)' = {}
      <4>1. \A j : ~IsOut(Place(w, n + 1, j))'
        BY <1>6, <3>1 DEF Place
      <4> QED BY <4>1 DEF FieldsOut, Place
    <3>3. Cardinality({}) = 0 /\ Unspawned(<<w, n + 1>>)' = 0
      BY <1>2, FS_EmptySet DEF Unspawned, FrameAt
    <3>4. FrameCounted(w, n + 1)'
      <4>1. stack'[w][n + 1] = h
        BY <1>2
      <4>2. stack'[w][n + 1].pend = 0 /\ stack'[w][n + 1].step # "spawn"
        BY <4>1
      <4>3. 0 = 0 + 0
        OBVIOUS
      <4> QED BY <3>2, <3>3, <4>2, <4>3 DEF FrameCounted
    <3> QED BY <2>2, <3>4
  <2> QED BY <1>3, <2>1, <2>2
<1> QED BY <1>2, <1>7, <1>10, <1>11 DEF Structure

LEMMA CallStructure ==
  ASSUME Types, Structure, NEW w \in Workers, root' = root, Call(w)
  PROVE  Types' /\ Structure'
<1>1. PICK V : None \in V /\ stack \in [Workers -> Seq(FrameIn(V))]
  BY Widen DEF Types
<1>2. dq' = dq /\ pool' = pool /\ pending' = pending /\ active' = active
  BY DEF Call, counter
<1>3. PICK l \in Locs, p \in Places, b \in BOOLEAN :
        l = root[w] /\ p = Place(w, 0, 1) /\ b = FALSE /\ Par \in Nat
  <2>1. root[w] \in Locs /\ Par \in Nat
    BY CnfAssumption DEF Call, Types
  <2>2. Place(w, 0, 1) \in Places
    BY DEF Place, Places
  <2> QED BY <2>1, <2>2
<1>4. PICK h \in FrameIn(V) :
        /\ h = Frame(l, Par, p, b)
        /\ h.loc = l /\ h.step = "enter" /\ h.i = 1 /\ h.pend = 0 /\ h.to = p /\ h.task = b
        /\ Len(h.out) = Len(Kids[l]) /\ Len(h.out) \in Nat
        /\ \A j \in 1..Len(h.out) : h.out[j] = None
  BY <1>1, <1>3, NewFrame, SMTT(30)
<1>5. stack' = [stack EXCEPT ![w] = Append(@, h)] /\ Depth(w) = 0
  <2>1. stack[w] = <<>> /\ stack' = [stack EXCEPT ![w] = <<h>>]
    BY <1>3, <1>4 DEF Call
  <2>2. Append(stack[w], h) = <<h>> /\ Len(stack[w]) = 0
    BY <2>1
  <2> QED BY <2>1, <2>2 DEF Depth
<1>6. \A q : /\ InQueue(q)' <=> InQueue(q)
             /\ InHand(q)' <=> InHand(q)
  BY <1>2 DEF InQueue, InHand
<1>7. QueuedApart' /\ HeldApart' /\ \A q : InQueue(q) => ~InHand(q)
  BY <1>2, ByTask DEF QueuedApart, HeldApart
<1>8. stack' \in [Workers -> Seq(FrameIn(V))] /\ Structure'
  <2>1. ~h.task /\ Len(h.out) = Len(Kids[h.loc]) /\ h.to = Place(w, 0, 1)
    BY <1>3, <1>4
  <2>2. \A q : InQueue(q)' => ~InHand(q)'
    BY <1>6, <1>7
  <2>3. \A q : InQueue(q)' \/ InHand(q)' <=> (InQueue(q) \/ InHand(q)) /\ ~(h.task /\ q = h.to)
    BY <1>6, <2>1
  <2> QED BY <1>1, <1>4, <1>5, <1>7, <2>1, <2>2, <2>3, PushStructure
<1>9. Types'
  BY <1>2, <1>8, TypesAgain DEF Types
<1> QED BY <1>8, <1>9

\* A task leaves the deque of its owner and runs.
LEMMA DequePopped ==
  ASSUME Types, NEW w \in Workers, dq[w] # <<>>, dq' = [dq EXCEPT ![w] = Popped(@)]
  PROVE  /\ Len(dq[w]) \in Nat \ {0} /\ Len(dq'[w]) = Len(dq[w]) - 1
         /\ \A i \in 1..(Len(dq[w]) - 1) : dq'[w][i] = dq[w][i]
         /\ \A v \in Workers : v # w => dq'[v] = dq[v]
         /\ dq' \in [Workers -> Seq(TaskIn(Locs))]
         /\ \A v \in Workers : Len(dq'[v]) <= Cap
<1>1. dq \in [Workers -> Seq(TaskIn(Locs))] /\ \A v \in Workers : Len(dq[v]) <= Cap
  BY DEF Types
<1>2. PICK q : q = Popped(dq[w])
  OBVIOUS
<1>3. /\ q \in Seq(TaskIn(Locs)) /\ Len(q) = Len(dq[w]) - 1 /\ Len(dq[w]) \in Nat \ {0}
      /\ \A i \in 1..(Len(dq[w]) - 1) : q[i] = dq[w][i]
  BY <1>1, <1>2, PopTop
<1>4. dq' = [dq EXCEPT ![w] = q]
  BY <1>2
<1>5. dq'[w] = q /\ \A v \in Workers : v # w => dq'[v] = dq[v]
  BY <1>1, <1>4
<1>6. Cap \in Nat
  BY CnfAssumption
<1>7. ASSUME NEW v \in Workers PROVE Len(dq'[v]) <= Cap
  <2>1. CASE v = w
    BY <1>1, <1>3, <1>5, <1>6, <2>1
  <2>2. CASE v # w
    BY <1>1, <1>5, <2>2
  <2> QED BY <2>1, <2>2
<1>8. dq' \in [Workers -> Seq(TaskIn(Locs))]
  BY <1>1, <1>3, <1>4
<1> QED BY <1>3, <1>5, <1>7, <1>8

LEMMA DequeStolen ==
  ASSUME Types, NEW x \in Workers, dq[x] # <<>>, dq' = [dq EXCEPT ![x] = Tail(@)]
  PROVE  /\ Len(dq[x]) \in Nat \ {0} /\ Len(dq'[x]) = Len(dq[x]) - 1
         /\ \A i \in 1..(Len(dq[x]) - 1) : dq'[x][i] = dq[x][i + 1]
         /\ Head(dq[x]) = dq[x][1]
         /\ \A v \in Workers : v # x => dq'[v] = dq[v]
         /\ dq' \in [Workers -> Seq(TaskIn(Locs))]
         /\ \A v \in Workers : Len(dq'[v]) <= Cap
<1>1. dq \in [Workers -> Seq(TaskIn(Locs))] /\ \A v \in Workers : Len(dq[v]) <= Cap
  BY DEF Types
<1>2. PICK q : q = Tail(dq[x])
  OBVIOUS
<1>3. /\ q \in Seq(TaskIn(Locs)) /\ Len(q) = Len(dq[x]) - 1 /\ Len(dq[x]) \in Nat \ {0}
      /\ \A i \in 1..(Len(dq[x]) - 1) : q[i] = dq[x][i + 1]
  BY <1>1, <1>2
<1>4. dq' = [dq EXCEPT ![x] = q]
  BY <1>2
<1>5. dq'[x] = q /\ \A v \in Workers : v # x => dq'[v] = dq[v]
  BY <1>1, <1>4
<1>6. Cap \in Nat
  BY CnfAssumption
<1>7. ASSUME NEW v \in Workers PROVE Len(dq'[v]) <= Cap
  <2>1. CASE v = x
    BY <1>1, <1>3, <1>5, <1>6, <2>1
  <2>2. CASE v # x
    BY <1>1, <1>5, <2>2
  <2> QED BY <2>1, <2>2
<1>8. dq' \in [Workers -> Seq(TaskIn(Locs))]
  BY <1>1, <1>3, <1>4
<1>9. Head(dq[x]) = dq[x][1]
  BY <1>1
<1> QED BY <1>3, <1>5, <1>7, <1>8, <1>9

\* A task leaves the deque of its owner, or the hand of a thief, and runs.
LEMMA RunStructure ==
  ASSUME Types, Structure, NEW w \in Workers, root' = root,
         PopOwn(w) \/ StealCounts(w)
  PROVE  Types' /\ Structure'
<1>1. PICK V : None \in V /\ stack \in [Workers -> Seq(FrameIn(V))]
  BY Widen DEF Types
<1>2. PICK t \in TaskIn(Locs) :
        /\ stack' = [stack EXCEPT ![w] = Append(@, Frame(t.loc, t.par, t.to, TRUE))]
        /\ pool' = [pool EXCEPT ![w] = Free]
        /\ \/ /\ PopOwn(w) /\ dq[w] # <<>> /\ t = dq[w][Len(dq[w])]
              /\ dq' = [dq EXCEPT ![w] = Popped(@)]
              /\ pool[w].op = "pop"
           \/ StealCounts(w) /\ dq' = dq /\ t = pool[w].task /\ pool[w].op = "count"
  <2>1. CASE PopOwn(w)
    <3>0. dq[w] \in Seq(TaskIn(Locs)) /\ dq[w] # <<>>
      BY <2>1 DEF PopOwn, Types
    <3>1. Len(dq[w]) \in 1..Len(dq[w])
      BY <3>0
    <3>2. dq[w][Len(dq[w])] \in TaskIn(Locs)
      BY <3>1, TaskTyped
    <3> QED BY <2>1, <3>2 DEF PopOwn, Run, Leave
  <2>2. CASE StealCounts(w)
    <3>1. pool[w].task \in TaskIn(Locs)
      BY <2>2, TaskTyped DEF StealCounts
    <3> QED BY <2>2, <3>1 DEF StealCounts, Run, Leave
  <2> QED BY <2>1, <2>2
<1>3. PICK p \in Places, l \in Locs, k \in Nat, b \in BOOLEAN :
        p = t.to /\ l = t.loc /\ k = t.par /\ b = TRUE
  BY DEF TaskIn
<1>4. PICK h \in FrameIn(V) :
        /\ h = Frame(l, k, p, b)
        /\ h.loc = l /\ h.step = "enter" /\ h.i = 1 /\ h.pend = 0 /\ h.to = p /\ h.task = b
        /\ Len(h.out) = Len(Kids[l]) /\ Len(h.out) \in Nat
        /\ \A j \in 1..Len(h.out) : h.out[j] = None
  <2>1. None \in V
    BY <1>1
  <2> QED BY <2>1, NewFrame
<1>5. pool' \in [Workers -> PoolIn] /\ pool'[w].op = "free"
      /\ \A v \in Workers : v # w => pool'[v] = pool[v]
  <2>1. pool \in [Workers -> PoolIn]
    BY DEF Types
  <2>2. Free \in PoolIn /\ Free.op = "free"
    BY CnfAssumption DEF Free, PoolIn, TaskIn, Task, Place, Places, Workers
  <2> QED BY <1>2, <2>1, <2>2
<1>6. dq' \in [Workers -> Seq(TaskIn(Locs))] /\ \A v \in Workers : Len(dq'[v]) <= Cap
  BY <1>2, DequePopped DEF Types
<1>7. /\ \A q : InQueue(q)' \/ InHand(q)' <=> (InQueue(q) \/ InHand(q)) /\ q # p
      /\ InQueue(p) \/ InHand(p)
      /\ \A q : InQueue(q)' => ~InHand(q)'
      /\ QueuedApart' /\ HeldApart'
  <2>0. /\ QueuedApart /\ HeldApart /\ \A q : InQueue(q) => ~InHand(q)
    BY ByTask
  <2>1. CASE PopOwn(w)
    <3>1. PICK m \in Nat \ {0} :
            /\ m = Len(dq[w]) /\ Len(dq'[w]) = m - 1 /\ dq[w][m].to = p
            /\ \A i \in 1..(m - 1) : dq'[w][i] = dq[w][i]
            /\ \A v \in Workers : v # w => dq'[v] = dq[v]
      <4>1. dq[w] # <<>> /\ dq' = [dq EXCEPT ![w] = Popped(@)] /\ dq[w][Len(dq[w])].to = p
        BY <1>2, <1>3, <2>1 DEF PopOwn, StealCounts
      <4> QED BY <4>1, DequePopped
    <3>2. pool[w].op # "count"
      BY <2>1 DEF PopOwn
    <3>3. \A q : InHand(q)' <=> InHand(q)
      BY <1>5, <3>2 DEF InHand
    <3>4. \A v \in Workers : \A i \in 1..Len(dq'[v]) :
            i \in 1..Len(dq[v]) /\ dq'[v][i] = dq[v][i] /\ (v # w \/ i # m)
      BY <3>1
    <3>5. \A v \in Workers : \A i \in 1..Len(dq[v]) :
            v # w \/ i # m => i \in 1..Len(dq'[v]) /\ dq'[v][i] = dq[v][i]
      BY <3>1
    <3>6. m \in 1..Len(dq[w])
      BY <3>1
    <3>7. ASSUME NEW q, InQueue(q)' PROVE InQueue(q) /\ q # p
      <4>1. PICK v \in Workers : \E i \in 1..Len(dq'[v]) : dq'[v][i].to = q
        BY <3>7 DEF InQueue
      <4>2. PICK i \in 1..Len(dq'[v]) : dq'[v][i].to = q
        BY <4>1
      <4>3. i \in 1..Len(dq[v]) /\ dq[v][i].to = q /\ (v # w \/ i # m)
        BY <3>4, <4>2
      <4>4. q # p
        BY <2>0, <3>1, <3>6, <4>3 DEF QueuedApart
      <4> QED BY <4>3, <4>4 DEF InQueue
    <3>8. ASSUME NEW q, InQueue(q), q # p PROVE InQueue(q)'
      <4>1. PICK v \in Workers : \E i \in 1..Len(dq[v]) : dq[v][i].to = q
        BY <3>8 DEF InQueue
      <4>2. PICK i \in 1..Len(dq[v]) : dq[v][i].to = q
        BY <4>1
      <4>3. i \in 1..Len(dq'[v]) /\ dq'[v][i].to = q
        BY <3>1, <3>5, <3>8, <4>2
      <4> QED BY <4>3 DEF InQueue
    <3>9. InQueue(p)
      BY <3>1, <3>6 DEF InQueue
    <3>10. QueuedApart'
      <4>1. ASSUME NEW u \in Workers, NEW v \in Workers,
                   NEW i \in 1..Len(dq'[u]), NEW j \in 1..Len(dq'[v]),
                   dq'[u][i].to = dq'[v][j].to
            PROVE  u = v /\ i = j
        <5>1. i \in 1..Len(dq[u]) /\ dq'[u][i] = dq[u][i]
          BY <3>4
        <5>2. j \in 1..Len(dq[v]) /\ dq'[v][j] = dq[v][j]
          BY <3>4
        <5> QED BY <2>0, <4>1, <5>1, <5>2 DEF QueuedApart
      <4> QED BY ONLY <4>1, QueuedApartNext
    <3>11. HeldApart'
      BY <1>5, <2>0 DEF HeldApart
    <3>12. \A q : InQueue(q)' <=> InQueue(q) /\ q # p
      BY <3>7, <3>8
    <3> QED BY <2>0, <3>3, <3>9, <3>10, <3>11, <3>12
  <2>2. CASE StealCounts(w)
    <3>1. dq' = dq /\ pool[w].op = "count" /\ pool[w].task.to = p
      BY <1>2, <1>3, <2>2 DEF PopOwn, StealCounts
    <3>2. \A q : InQueue(q)' <=> InQueue(q)
      BY <3>1 DEF InQueue
    <3>3. \A q : InHand(q)' <=> InHand(q) /\ q # p
      BY <1>5, <2>0, <3>1 DEF InHand, HeldApart
    <3>4. InHand(p)
      BY <3>1 DEF InHand
    <3>5. QueuedApart'
      BY <2>0, <3>1 DEF QueuedApart
    <3>6. HeldApart'
      BY <1>5, <2>0 DEF HeldApart
    <3> QED BY <2>0, <3>2, <3>3, <3>4, <3>5, <3>6
  <2> QED BY <1>2, <2>1, <2>2
<1>8. stack' \in [Workers -> Seq(FrameIn(V))] /\ Structure'
  <2>1. h.task /\ h.to = p /\ Len(h.out) = Len(Kids[h.loc])
        /\ stack' = [stack EXCEPT ![w] = Append(@, h)]
    BY <1>2, <1>3, <1>4
  <2>2. \A q : InQueue(q)' \/ InHand(q)' <=> (InQueue(q) \/ InHand(q)) /\ ~(h.task /\ q = h.to)
    BY <1>7, <2>1
  <2>3. h.task => InQueue(h.to) \/ InHand(h.to)
    BY <1>7, <2>1
  <2> QED BY <1>1, <1>4, <1>7, <2>1, <2>2, <2>3, PushStructure
<1>9. Types'
  <2>1. pending' \in Int /\ active' \in [Workers -> BOOLEAN]
    <3>1. pending \in Int /\ active \in [Workers -> BOOLEAN]
      BY DEF Types
    <3>2. CASE PopOwn(w)
      BY <3>1, <3>2 DEF PopOwn, counter
    <3>3. CASE StealCounts(w)
      BY <3>1, <3>3 DEF StealCounts
    <3> QED BY <1>2, <3>2, <3>3
  <2>2. \A v \in Workers : pool'[v].op = "count" => pool'[v].task.loc # 0
    BY <1>5 DEF Types
  <2> QED BY <1>5, <1>6, <1>8, <2>1, <2>2, TypesAgain
<1> QED BY <1>8, <1>9

LEMMA HeldApartNext ==
  ASSUME \A u, v \in Workers :
           pool'[u].op = "count" /\ pool'[v].op = "count" /\ pool'[u].task.to = pool'[v].task.to
             => u = v
  PROVE  HeldApart'
BY DEF HeldApart

LEMMA ModWorker ==
  ASSUME NEW w \in Workers, NEW k \in Nat
  PROVE  (w + k) % N \in Workers
<1>1. N \in Nat \ {0} /\ w \in Nat
  BY CnfAssumption DEF Workers
<1>2. w + k \in Nat
  BY <1>1
<1>3. \A a \in Nat, b \in Nat \ {0} : a % b \in 0..(b - 1)
  OBVIOUS
<1> QED BY <1>1, <1>2, <1>3 DEF Workers

\* A task leaves a deque into the hand of a thief.
LEMMA StealStructure ==
  ASSUME Types, Structure, NEW w \in Workers, root' = root, StealTakes(w)
  PROVE  Types' /\ Structure'
<1>1. PICK x \in Workers : x = Victim(w)
  <2>1. pool[w].k \in Nat
    BY DEF Types, PoolIn
  <2> QED BY <2>1, ModWorker DEF Victim
<1>2. /\ dq[x] # <<>> /\ dq' = [dq EXCEPT ![x] = Tail(@)]
      /\ pool' = [pool EXCEPT ![w] = [@ EXCEPT !.op = "count", !.task = Head(dq[x])]]
      /\ pool[w].op = "scan"
      /\ stack' = stack /\ pending' = pending /\ active' = active
  BY <1>1 DEF StealTakes, counter
<1>3. PICK m \in Nat \ {0} :
        /\ m = Len(dq[x]) /\ Len(dq'[x]) = m - 1 /\ Head(dq[x]) = dq[x][1]
        /\ \A i \in 1..(m - 1) : dq'[x][i] = dq[x][i + 1]
        /\ \A v \in Workers : v # x => dq'[v] = dq[v]
        /\ dq' \in [Workers -> Seq(TaskIn(Locs))]
        /\ \A v \in Workers : Len(dq'[v]) <= Cap
  BY <1>2, DequeStolen
<1>4. PICK t \in TaskIn(Locs) : t = dq[x][1] /\ t = Head(dq[x])
  <2>1. 1 \in 1..Len(dq[x])
    BY <1>3
  <2> QED BY <1>3, <2>1, TaskTyped
<1>5. PICK p \in Places : p = t.to
  BY DEF TaskIn
<1>6. /\ pool' \in [Workers -> PoolIn]
      /\ pool'[w].op = "count" /\ pool'[w].task = t
      /\ \A v \in Workers : v # w => pool'[v] = pool[v]
  <2>1. pool \in [Workers -> PoolIn] /\ pool[w] \in PoolIn
    BY DEF Types
  <2>2. t \in TaskIn(Locs \cup {0})
    BY <1>4 DEF TaskIn
  <2> DEFINE y == [pool[w] EXCEPT !.op = "count", !.task = t]
  <2>3. y \in PoolIn /\ y.op = "count" /\ y.task = t
    BY <2>1, <2>2 DEF PoolIn
  <2>4. pool' = [pool EXCEPT ![w] = y]
    BY <1>2, <1>4, <2>1
  <2> HIDE DEF y
  <2> QED BY <2>1, <2>3, <2>4
<1>7. \A v \in Workers : \A i \in 1..Len(dq'[v]) :
        \E j \in 1..Len(dq[v]) :
          j = (IF v = x THEN i + 1 ELSE i) /\ dq'[v][i] = dq[v][j] /\ (v # x \/ j # 1)
  <2> SUFFICES ASSUME NEW v \in Workers, NEW i \in 1..Len(dq'[v])
               PROVE  \E j \in 1..Len(dq[v]) :
                        /\ j = (IF v = x THEN i + 1 ELSE i)
                        /\ dq'[v][i] = dq[v][j] /\ (v # x \/ j # 1)
    OBVIOUS
  <2>1. CASE v = x
    <3>1. i \in 1..(m - 1) /\ i + 1 \in 1..Len(dq[v]) /\ i + 1 # 1
      BY <1>3, <2>1
    <3> QED BY <1>3, <2>1, <3>1
  <2>2. CASE v # x
    BY <1>3, <2>2
  <2> QED BY <2>1, <2>2
<1>8. /\ 1 \in 1..Len(dq[x]) /\ dq[x][1].to = p /\ pool[w].op # "count"
      /\ \A j \in 1..Len(dq[x]) : j # 1 => j - 1 \in 1..Len(dq'[x]) /\ dq'[x][j - 1] = dq[x][j]
  <2>1. ASSUME NEW j \in 1..Len(dq[x]), j # 1
        PROVE  j - 1 \in 1..Len(dq'[x]) /\ dq'[x][j - 1] = dq[x][j]
    <3>1. j - 1 \in 1..(m - 1) /\ (j - 1) + 1 = j
      BY <1>3, <2>1
    <3>2. dq'[x][j - 1] = dq[x][(j - 1) + 1]
      BY <1>3, <3>1
    <3> QED BY <1>3, <3>1, <3>2
  <2>2. 1 \in 1..Len(dq[x]) /\ dq[x][1].to = p /\ pool[w].op # "count"
    BY <1>2, <1>3, <1>4, <1>5
  <2> QED BY <2>1, <2>2
<1>9. /\ \A q : InQueue(q) \/ InHand(q) => Awaited(q) /\ ~InRun(q)
      /\ \A q : InQueue(q) => ~InHand(q)
      /\ QueuedApart /\ HeldApart /\ RunApart /\ RunPoint
  BY ByTask
<1>10. \A q : InQueue(q)' <=> InQueue(q) /\ q # p
  <2>1. ASSUME NEW q, InQueue(q)' PROVE InQueue(q) /\ q # p
    <3>1. PICK v \in Workers : \E i \in 1..Len(dq'[v]) : dq'[v][i].to = q
      BY <2>1 DEF InQueue
    <3>2. PICK i \in 1..Len(dq'[v]) : dq'[v][i].to = q
      BY <3>1
    <3>3. PICK j \in 1..Len(dq[v]) : dq[v][j].to = q /\ (v # x \/ j # 1)
      BY <1>7, <3>2
    <3>4. q # p
      BY <1>8, <1>9, <3>3 DEF QueuedApart
    <3> QED BY <3>3, <3>4 DEF InQueue
  <2>2. ASSUME NEW q, InQueue(q), q # p PROVE InQueue(q)'
    <3>1. PICK v \in Workers : \E i \in 1..Len(dq[v]) : dq[v][i].to = q
      BY <2>2 DEF InQueue
    <3>2. PICK i \in 1..Len(dq[v]) : dq[v][i].to = q
      BY <3>1
    <3>3. \E j \in 1..Len(dq'[v]) : dq'[v][j].to = q
      <4>1. CASE v = x
        <5>1. i # 1
          BY <1>8, <2>2, <3>2, <4>1
        <5> QED BY <1>8, <3>2, <4>1, <5>1
      <4>2. CASE v # x
        BY <1>3, <3>2, <4>2
      <4> QED BY <4>1, <4>2
    <3> QED BY <3>3 DEF InQueue
  <2> QED BY <2>1, <2>2
<1>11. \A q : InHand(q)' <=> InHand(q) \/ q = p
  <2>1. ASSUME NEW q, InHand(q)' PROVE InHand(q) \/ q = p
    BY <1>5, <1>6, <2>1 DEF InHand
  <2>2. ASSUME NEW q, InHand(q) PROVE InHand(q)'
    BY <1>6, <1>8, <2>2 DEF InHand
  <2>3. InHand(p)'
    BY <1>5, <1>6 DEF InHand
  <2> QED BY <2>1, <2>2, <2>3
<1>12. \A q : (InRun(q)' <=> InRun(q)) /\ (Awaited(q)' <=> Awaited(q))
              /\ (Awaits(q)' <=> Awaits(q))
  BY <1>2 DEF InRun, Awaited, Awaits, Depth
<1>13. InQueue(p)
  BY <1>8 DEF InQueue
<1>14. \A q : IsOut(q)' <=> IsOut(q)
  BY <1>10, <1>11, <1>12, <1>13 DEF IsOut
<1>15. QueuedApart'
  <2>1. ASSUME NEW u \in Workers, NEW v \in Workers,
               NEW i \in 1..Len(dq'[u]), NEW j \in 1..Len(dq'[v]),
               dq'[u][i].to = dq'[v][j].to
        PROVE  u = v /\ i = j
    <3>1. PICK a \in 1..Len(dq[u]) : a = (IF u = x THEN i + 1 ELSE i) /\ dq'[u][i] = dq[u][a]
      BY <1>7
    <3>2. PICK b \in 1..Len(dq[v]) : b = (IF v = x THEN j + 1 ELSE j) /\ dq'[v][j] = dq[v][b]
      BY <1>7
    <3>3. u = v /\ a = b
      BY <1>9, <2>1, <3>1, <3>2 DEF QueuedApart
    <3>4. i \in Int /\ j \in Int
      OBVIOUS
    <3> QED BY <3>1, <3>2, <3>3, <3>4
  <2> QED BY ONLY <2>1, QueuedApartNext
<1>16. HeldApart'
  <2>1. ASSUME NEW u \in Workers, NEW v \in Workers, pool'[u].op = "count",
               pool'[v].op = "count", pool'[u].task.to = pool'[v].task.to
        PROVE  u = v
    <3>1. ASSUME NEW y \in Workers, pool'[y].op = "count"
          PROVE  \/ y = w /\ pool'[y].task.to = p
                 \/ y # w /\ pool'[y] = pool[y] /\ pool[y].op = "count" /\ pool[y].task.to # p
      <4>1. CASE y = w
        BY <1>5, <1>6, <4>1
      <4>2. CASE y # w
        <5>1. pool'[y] = pool[y] /\ InHand(pool[y].task.to)
          BY <1>6, <3>1, <4>2 DEF InHand
        <5> QED BY <1>9, <1>13, <3>1, <4>2, <5>1
      <4> QED BY <4>1, <4>2
    <3> QED BY <1>9, <2>1, <3>1 DEF HeldApart
  <2> QED BY ONLY <2>1, HeldApartNext
<1>17. RunApart' /\ RunPoint'
  <2>1. stack' = stack /\ RunApart /\ RunPoint
    BY <1>2, <1>9
  <2>2. RunApart'
    BY <2>1 DEF RunApart, Depth
  <2>3. RunPoint'
    BY <2>1 DEF RunPoint, Awaited, Awaits, Depth
  <2> QED BY <2>2, <2>3
<1>18. TasksApart' /\ TasksPoint'
  <2>1. \A q : InQueue(q)' \/ InHand(q)' => Awaited(q)' /\ ~InRun(q)'
    BY <1>9, <1>10, <1>11, <1>12, <1>13
  <2>2. \A q : InQueue(q)' => ~InHand(q)'
    BY <1>9, <1>10, <1>11
  <2> QED BY <1>15, <1>16, <1>17, <2>1, <2>2, ByTaskNext
<1>19. FramesFit'
  <2>1. \A v, d : FrameFits(v, d)' <=> FrameFits(v, d)
    BY <1>2 DEF FrameFits, Place
  <2> QED BY <1>2, <2>1 DEF Structure, FramesFit, Depth
<1>20. FieldsCounted'
  <2> SUFFICES ASSUME NEW v \in Workers, NEW d \in 1..Depth(v) PROVE FrameCounted(v, d)'
    BY <1>2 DEF FieldsCounted, Depth
  <2>1. FrameCounted(v, d) /\ d \in Nat /\ stack'[v][d] = stack[v][d]
    BY <1>2, FrameTyped DEF Structure, FieldsCounted
  <2> QED BY <1>14, <2>1, CountKept
<1>21. Types'
  <2>1. PICK V : stack' \in [Workers -> Seq(FrameIn(V))]
    BY <1>2 DEF Types
  <2>2. t.loc # 0
    BY <1>4, CnfAssumption DEF TaskIn
  <2>3. \A v \in Workers : pool'[v].op = "count" => pool'[v].task.loc # 0
    BY <1>6, <2>2 DEF Types
  <2>4. pending' \in Int /\ active' \in [Workers -> BOOLEAN]
    BY <1>2 DEF Types
  <2> QED BY <1>3, <1>6, <2>1, <2>3, <2>4, TypesAgain
<1> QED BY <1>18, <1>19, <1>20, <1>21 DEF Structure

LEMMA RunPointNext ==
  ASSUME \A v \in Workers : \A d \in 1..Depth(v)' : \A q :
           stack'[v][d].task /\ q = stack'[v][d].to =>
             Awaits(q)' /\ (stack'[v][d].step # "sub" => Awaited(q)')
  PROVE  RunPoint'
<1> SUFFICES ASSUME NEW v \in Workers, NEW d \in 1..Depth(v)', stack'[v][d].task
             PROVE  /\ Awaits(stack[v][d].to)'
                    /\ (stack[v][d].step # "sub" => Awaited(stack[v][d].to))'
  BY DEF RunPoint
<1>1. PICK q : q = stack'[v][d].to
  OBVIOUS
<1>2. Awaits(q)' /\ (stack'[v][d].step # "sub" => Awaited(q)')
  BY <1>1
<1> QED BY <1>1, <1>2 DEF Awaits, Awaited

\* A call returns, or stores its result and goes on to count itself out: no task
\* begins or ends.  p: the field that is written.
LEMMA QuietStructure ==
  ASSUME Types, Structure, NEW w \in Workers, NEW n \in Nat \ {0}, n = Depth(w),
         NEW p \in Places,
         dq' = dq, pool' = pool,
         \A v \in Workers : v # w => Depth(v)' = Depth(v),
         Depth(w)' = n \/ (Depth(w)' = n - 1 /\ ~stack[w][n].task),
         \A j : ~IsOut(Place(w, n, j)),
         \A v \in Workers : \A d \in 1..Depth(v)' :
           /\ stack'[v][d].to = stack[v][d].to /\ stack'[v][d].task = stack[v][d].task
           /\ stack'[v][d].loc = stack[v][d].loc /\ stack'[v][d].i = stack[v][d].i
           /\ stack'[v][d].pend = stack[v][d].pend
           /\ Len(stack'[v][d].out) = Len(stack[v][d].out)
           /\ \A j \in 1..Len(stack[v][d].out) :
                stack'[v][d].out[j] = stack[v][d].out[j] \/ Place(v, d, j) = p,
         \A v \in Workers : \A d \in 1..Depth(v)' :
           \/ stack'[v][d].step = stack[v][d].step
           \/ /\ v = w /\ d = n /\ stack'[v][d].step = "sub" /\ stack[v][d].task
              /\ stack[v][d].step # "spawn",
         ~InQueue(p), ~InHand(p),
         \A v \in Workers : \A d \in 1..Depth(v)' :
           stack[v][d].task /\ stack[v][d].to = p => stack'[v][d].step = "sub",
         \A v \in Workers : \A d \in 1..Depth(v)' : \A j :
           stack[v][d].step \in {"enter", "spawn"} /\ Place(v, d, j) = p => j < stack[v][d].i
  PROVE  Structure'
<1>1. \A v \in Workers : \A d \in 1..Depth(v)' :
        d \in Nat /\ d \in 1..Depth(v) /\ \A k \in 1..d : k \in 1..Depth(v)'
  <2> SUFFICES ASSUME NEW v \in Workers, NEW d \in 1..Depth(v)'
               PROVE  d \in Nat /\ d \in 1..Depth(v) /\ \A k \in 1..d : k \in 1..Depth(v)'
    OBVIOUS
  <2>1. CASE v = w
    <3>1. PICK m \in Nat : m = Depth(w)' /\ m <= n
      OBVIOUS
    <3> QED BY <2>1, <3>1
  <2>2. CASE v # w
    BY <2>2, FrameTyped
  <2> QED BY <2>1, <2>2
<1>2. \A v \in Workers : \A d \in 1..Depth(v) : d \notin 1..Depth(v)' => v = w /\ d = n /\ ~stack[w][n].task
  <2> SUFFICES ASSUME NEW v \in Workers, NEW d \in 1..Depth(v), d \notin 1..Depth(v)'
               PROVE  v = w /\ d = n /\ ~stack[w][n].task
    OBVIOUS
  <2>1. v = w
    OBVIOUS
  <2>2. d \in 1..n
    BY <2>1
  <2> QED BY <2>1, <2>2
<1>3. \A q : (InQueue(q)' <=> InQueue(q)) /\ (InHand(q)' <=> InHand(q))
  BY DEF InQueue, InHand
<1>4. \A q : InRun(q)' <=> InRun(q)
  <2>1. ASSUME NEW q, InRun(q)' PROVE InRun(q)
    <3>1. PICK v \in Workers : \E d \in 1..Depth(v)' : stack'[v][d].task /\ stack'[v][d].to = q
      BY <2>1 DEF InRun
    <3>2. PICK d \in 1..Depth(v)' : stack'[v][d].task /\ stack'[v][d].to = q
      BY <3>1
    <3>3. d \in 1..Depth(v) /\ stack[v][d].task /\ stack[v][d].to = q
      <4>1. stack'[v][d].to = stack[v][d].to /\ stack'[v][d].task = stack[v][d].task
        OBVIOUS
      <4> QED BY <1>1, <3>2, <4>1
    <3> QED BY <3>3 DEF InRun
  <2>2. ASSUME NEW q, InRun(q) PROVE InRun(q)'
    <3>1. PICK v \in Workers : \E d \in 1..Depth(v) : stack[v][d].task /\ stack[v][d].to = q
      BY <2>2 DEF InRun
    <3>2. PICK d \in 1..Depth(v) : stack[v][d].task /\ stack[v][d].to = q
      BY <3>1
    <3>3. d \in 1..Depth(v)'
      BY <1>2, <3>2
    <3>4. stack'[v][d].task /\ stack'[v][d].to = q
      BY <3>2, <3>3
    <3> QED BY <3>3, <3>4 DEF InRun
  <2> QED BY <2>1, <2>2
<1>5. \A q : IsOut(q)' <=> IsOut(q)
  BY <1>3, <1>4 DEF IsOut
<1>6. FramesFit'
  <2> SUFFICES ASSUME NEW v \in Workers, NEW d \in 1..Depth(v)' PROVE FrameFits(v, d)'
    BY DEF FramesFit
  <2>1. d \in Nat /\ d \in 1..Depth(v) /\ (d > 1 => d - 1 \in 1..Depth(v)')
    BY <1>1
  <2>2. PICK f : f = stack[v][d]
    OBVIOUS
  <2>3. PICK g : g = stack'[v][d]
    OBVIOUS
  <2>4. FrameFits(v, d)
    BY <2>1 DEF Structure, FramesFit
  <2>5. /\ Len(f.out) = Len(Kids[f.loc])
        /\ f.step = "enter" => f.i = 1
        /\ f.step \in {"enter", "spawn"} =>
             f.i \in 1..(Len(f.out) + 1) /\ \A j \in f.i..Len(f.out) : f.out[j] = None
        /\ f.step = "sub" => f.task
    BY <2>2, <2>4 DEF FrameFits
  <2>6. ~f.task => \/ d = 1 /\ f.to = Place(v, 0, 1)
                   \/ /\ d > 1 /\ f.to[1] = v /\ f.to[2] = d - 1
                      /\ f.to[3] \in 1..Len(stack[v][d - 1].out)
                      /\ stack[v][d - 1].step \in {"lam", "seq"}
    BY <2>2, <2>4 DEF FrameFits
  <2>7. /\ g.to = f.to /\ g.task = f.task /\ g.loc = f.loc /\ g.i = f.i
        /\ Len(g.out) = Len(f.out)
        /\ g.step = f.step \/ (g.step = "sub" /\ f.task)
        /\ \A j \in 1..Len(f.out) : g.out[j] = f.out[j] \/ Place(v, d, j) = p
        /\ \A j : f.step \in {"enter", "spawn"} /\ Place(v, d, j) = p => j < f.i
    BY <2>2, <2>3
  <2>8. Len(f.out) \in Nat /\ f.i \in Nat
    BY <2>1, <2>2, FrameTyped
  <2>9. /\ Len(g.out) = Len(Kids[g.loc])
        /\ g.step = "enter" => g.i = 1
        /\ g.step \in {"enter", "spawn"} => g.i \in 1..(Len(g.out) + 1)
        /\ g.step = "sub" => g.task
    BY <2>5, <2>7
  <2>10. ASSUME g.step \in {"enter", "spawn"}, NEW j \in g.i..Len(g.out)
         PROVE  g.out[j] = None
    <3>1. f.step = g.step /\ j \in f.i..Len(f.out) /\ j \in 1..Len(f.out) /\ ~(j < f.i)
      BY <2>5, <2>7, <2>8, <2>10
    <3>2. f.out[j] = None
      BY <2>5, <2>10, <3>1
    <3> QED BY <2>7, <2>10, <3>1, <3>2
  <2>11. ~g.task => \/ d = 1 /\ g.to = Place(v, 0, 1)
                    \/ /\ d > 1 /\ g.to[1] = v /\ g.to[2] = d - 1
                       /\ g.to[3] \in 1..Len(stack'[v][d - 1].out)
                       /\ stack'[v][d - 1].step \in {"lam", "seq"}
    <3>1. d > 1 => /\ Len(stack'[v][d - 1].out) = Len(stack[v][d - 1].out)
                   /\ stack'[v][d - 1].step = stack[v][d - 1].step
      <4> SUFFICES ASSUME d > 1
                   PROVE  /\ Len(stack'[v][d - 1].out) = Len(stack[v][d - 1].out)
                          /\ stack'[v][d - 1].step = stack[v][d - 1].step
        OBVIOUS
      <4>1. d - 1 \in 1..Depth(v)' /\ ~(v = w /\ d - 1 = n)
        <5>1. v = w => d \in 1..n
          BY <2>1
        <5> QED BY <2>1, <5>1
      <4> QED BY <4>1
    <3> QED BY <2>6, <2>7, <3>1
  <2> QED BY <2>3, <2>9, <2>10, <2>11 DEF FrameFits, Place
<1>7. \A q \in Places : /\ IsOut(q) => Awaits(q)'
                        /\ IsOut(q) /\ q # p /\ Awaited(q) => Awaited(q)'
  <2> SUFFICES ASSUME NEW q \in Places, IsOut(q)
               PROVE  Awaits(q)' /\ (q # p /\ Awaited(q) => Awaited(q)')
    OBVIOUS
  <2>1. Awaits(q) /\ q = Place(q[1], q[2], q[3]) /\ q[1] \in Workers
    BY OutAwaits, PlaceParts
  <2>2. PICK x, y, j : x = q[1] /\ y = q[2] /\ j = q[3]
    OBVIOUS
  <2>3. ~(x = w /\ y = n)
    BY <2>1, <2>2
  <2>4. y \in 1..Depth(x) /\ y \in 1..Depth(x)' /\ x \in Workers
    BY <1>2, <2>1, <2>2, <2>3 DEF Awaits
  <2>5. stack'[x][y].step = stack[x][y].step /\ Len(stack'[x][y].out) = Len(stack[x][y].out)
    BY <2>3, <2>4
  <2>6. Awaits(q)'
    BY <2>1, <2>2, <2>4, <2>5 DEF Awaits
  <2>7. ASSUME q # p, Awaited(q) PROVE Awaited(q)'
    <3>1. j \in 1..Len(stack[x][y].out) /\ stack[x][y].out[j] = None
      BY <2>2, <2>7 DEF Awaited, Awaits
    <3>2. stack'[x][y].out[j] = stack[x][y].out[j] \/ Place(x, y, j) = p
      BY <2>4, <3>1
    <3>3. stack'[x][y].out[j] = stack[x][y].out[j]
      BY <2>1, <2>2, <2>7, <3>2
    <3> QED BY <2>2, <2>6, <3>1, <3>3 DEF Awaited
  <2> QED BY <2>6, <2>7
<1>8. TasksApart' /\ TasksPoint'
  <2>0. /\ \A q : InQueue(q) \/ InHand(q) => Awaited(q) /\ ~InRun(q)
        /\ \A q : InQueue(q) => ~InHand(q)
        /\ QueuedApart /\ HeldApart /\ RunApart /\ RunPoint
    BY ByTask
  <2>1. \A q : InQueue(q)' \/ InHand(q)' => Awaited(q)' /\ ~InRun(q)'
    <3> SUFFICES ASSUME NEW q, InQueue(q)' \/ InHand(q)' PROVE Awaited(q)' /\ ~InRun(q)'
      OBVIOUS
    <3>1. (InQueue(q) \/ InHand(q)) /\ IsOut(q) /\ q # p
      BY <1>3 DEF IsOut
    <3>2. q \in Places
      BY <3>1, OutAwaits
    <3> QED BY <1>4, <1>7, <2>0, <3>1, <3>2
  <2>2. \A q : InQueue(q)' => ~InHand(q)'
    BY <1>3, <2>0
  <2>3. QueuedApart' /\ HeldApart'
    BY <2>0 DEF QueuedApart, HeldApart
  <2>4. RunApart'
    <3>1. ASSUME NEW u \in Workers, NEW v \in Workers,
                 NEW d \in 1..Depth(u)', NEW e \in 1..Depth(v)',
                 stack'[u][d].task, stack'[v][e].task,
                 stack'[u][d].to = stack'[v][e].to
          PROVE  u = v /\ d = e
      <4>a. stack'[u][d].to = stack[u][d].to /\ stack'[u][d].task = stack[u][d].task
        OBVIOUS
      <4>b. stack'[v][e].to = stack[v][e].to /\ stack'[v][e].task = stack[v][e].task
        OBVIOUS
      <4>1. d \in 1..Depth(u) /\ stack[u][d].task /\ stack'[u][d].to = stack[u][d].to
        BY <1>1, <3>1, <4>a
      <4>2. e \in 1..Depth(v) /\ stack[v][e].task /\ stack'[v][e].to = stack[v][e].to
        BY <1>1, <3>1, <4>b
      <4>3. stack[u][d].to = stack[v][e].to
        BY <3>1, <4>1, <4>2
      <4>4. RunApart
        BY <2>0
      <4> QED BY ONLY <4>1, <4>2, <4>3, <4>4 DEF RunApart
    <3> QED BY ONLY <3>1, RunApartNext
  <2>5. RunPoint'
    <3>1. ASSUME NEW v \in Workers, NEW d \in 1..Depth(v)', NEW q,
                 stack'[v][d].task, q = stack'[v][d].to
          PROVE  Awaits(q)' /\ (stack'[v][d].step # "sub" => Awaited(q)')
      <4>0. stack'[v][d].to = stack[v][d].to /\ stack'[v][d].task = stack[v][d].task
        OBVIOUS
      <4>1. d \in 1..Depth(v) /\ stack[v][d].task /\ stack[v][d].to = q
        BY <1>1, <3>1, <4>0
      <4>2. IsOut(q) /\ q \in Places
        BY <4>1, OutAwaits DEF IsOut, InRun
      <4>3. stack'[v][d].step # "sub" => q # p /\ stack[v][d].step # "sub"
        BY <4>1
      <4>4. stack[v][d].step # "sub" => Awaited(q)
        BY <2>0, <4>1 DEF RunPoint
      <4> QED BY <1>7, <4>2, <4>3, <4>4
    <3> QED BY ONLY <3>1, RunPointNext
  <2> QED BY ONLY <2>1, <2>2, <2>3, <2>4, <2>5, ByTaskNext
<1>9. FieldsCounted'
  <2> SUFFICES ASSUME NEW v \in Workers, NEW d \in 1..Depth(v)' PROVE FrameCounted(v, d)'
    BY DEF FieldsCounted
  <2>1. FrameCounted(v, d)
    BY <1>1 DEF Structure, FieldsCounted
  <2>2. FieldsOut(v, d)' = FieldsOut(v, d)
    BY <1>5 DEF FieldsOut, Place
  <2>3. /\ stack'[v][d].i = stack[v][d].i /\ stack'[v][d].pend = stack[v][d].pend
        /\ Len(stack'[v][d].out) = Len(stack[v][d].out)
        /\ stack'[v][d].step = "spawn" <=> stack[v][d].step = "spawn"
    OBVIOUS
  <2>4. Unspawned(<<v, d>>)' = Unspawned(<<v, d>>)
    BY <2>3 DEF Unspawned, FrameAt
  <2> QED BY <2>1, <2>2, <2>3, <2>4 DEF FrameCounted
<1> QED BY <1>6, <1>8, <1>9 DEF Structure

\* A result is stored in a frame.
Stored(f, k, v) == [f EXCEPT !.out[k] = v]

LEMMA FrameStores ==
  ASSUME NEW V, NEW f \in FrameIn(V), NEW v \in V, NEW k \in 1..Len(f.out)
  PROVE  /\ Stored(f, k, v) \in FrameIn(V)
         /\ Stored(f, k, v).loc = f.loc /\ Stored(f, k, v).step = f.step
         /\ Stored(f, k, v).i = f.i /\ Stored(f, k, v).pend = f.pend
         /\ Stored(f, k, v).to = f.to /\ Stored(f, k, v).task = f.task
         /\ Len(Stored(f, k, v).out) = Len(f.out)
         /\ \A j \in 1..Len(f.out) : j # k => Stored(f, k, v).out[j] = f.out[j]
<1>1. f.out \in Seq(V)
  BY DEF FrameIn
<1>2. PICK o : o = [f.out EXCEPT ![k] = v]
  OBVIOUS
<1>3. o \in Seq(V) /\ Len(o) = Len(f.out) /\ \A j \in 1..Len(f.out) : j # k => o[j] = f.out[j]
  BY <1>1, <1>2
<1>4. PICK e : e = [f EXCEPT !.out = o]
  OBVIOUS
<1>5. e = Stored(f, k, v)
  BY <1>2, <1>4 DEF Stored
<1>6. /\ e \in FrameIn(V)
      /\ e.loc = f.loc /\ e.step = f.step /\ e.i = f.i /\ e.pend = f.pend
      /\ e.to = f.to /\ e.task = f.task /\ e.out = o
  BY <1>3, <1>4 DEF FrameIn
<1> QED BY <1>3, <1>5, <1>6

\* The call that returns has no task out.
LEMMA TopQuiet ==
  ASSUME Types, Structure, NEW w \in Workers, NEW step \in {"enter", "lam", "seq", "join", "sub"},
         On(w, step), step = "join" => Top(w).pend = 0
  PROVE  \A j : ~IsOut(Place(w, Depth(w), j))
<1>1. /\ Depth(w) \in Nat /\ Depth(w) \in 1..Depth(w)
      /\ Top(w) = stack[w][Depth(w)] /\ Top(w).step = step
  BY OnTop
<1>2. CASE step # "join"
  BY <1>1, <1>2, NoneOut
<1>3. CASE step = "join"
  <2>1. PICK F : F = FieldsOut(w, Depth(w))
    OBVIOUS
  <2>2. Unspawned(<<w, Depth(w)>>) = 0
    BY <1>1, <1>3 DEF Unspawned, FrameAt
  <2>3. IsFiniteSet(F) /\ Cardinality(F) \in Nat
    BY <1>1, <2>1, FieldsFinite
  <2>4. FrameCounted(w, Depth(w)) /\ Top(w).pend = 0
    BY <1>1, <1>3 DEF Structure, FieldsCounted
  <2>5. Cardinality(F) = 0
    BY <1>1, <2>1, <2>2, <2>3, <2>4 DEF FrameCounted
  <2>6. F = {}
    BY <2>3, <2>5, FS_EmptySet
  <2>7. ASSUME NEW j, IsOut(Place(w, Depth(w), j)) PROVE FALSE
    <3>1. Awaits(Place(w, Depth(w), j))
      BY <2>7, OutAwaits
    <3>2. j \in 1..Len(stack[w][Depth(w)].out)
      BY <3>1 DEF Awaits, Place
    <3> QED BY <2>1, <2>6, <2>7, <3>2 DEF FieldsOut
  <2> QED BY <2>7
<1> QED BY <1>2, <1>3

\* A call of cnf_task_run returns: its result is stored in the frame of the fork.
Delivered(w, n, q, v) ==
  [Stacks(w, [stack[w] EXCEPT ![n].step = "sub"]) EXCEPT ![q[1]][q[2]].out[q[3]] = v]

LEMMA GiveTask ==
  ASSUME Types, Structure, NEW w \in Workers,
         NEW V, stack \in [Workers -> Seq(FrameIn(V))], NEW v \in V,
         NEW n \in Nat \ {0}, NEW f \in FrameIn(V), n = Depth(w), f = stack[w][n],
         f.step \in {"enter", "lam", "seq", "join"}, f.task,
         \A j : ~IsOut(Place(w, n, j)),
         dq' = dq, pool' = pool,
         stack' = Delivered(w, n, f.to, v)
  PROVE  stack' \in [Workers -> Seq(FrameIn(V))] /\ Structure'
<1>0. n \in 1..Depth(w) /\ f.to \in Places
  BY FrameTyped
<1>1. PICK p \in Places : p = f.to
  BY <1>0
<1>2. IsOut(p) /\ InRun(p)
  BY <1>0, <1>1 DEF IsOut, InRun
<1>3. Awaits(p) /\ p = Place(p[1], p[2], p[3]) /\ p[1] \in Workers
  BY <1>2, OutAwaits, PlaceParts
<1>4. PICK x \in Workers : x = p[1]
  BY <1>3
<1>5. PICK y \in 1..Depth(x) : y = p[2]
  BY <1>3, <1>4 DEF Awaits
<1>6. PICK k \in 1..Len(stack[x][y].out) : k = p[3]
  BY <1>3, <1>4, <1>5 DEF Awaits
<1>7. p = Place(x, y, k) /\ ~(x = w /\ y = n) /\ stack[x][y].step \in {"spawn", "join"}
  BY <1>2, <1>3, <1>4, <1>5, <1>6 DEF Awaits
<1>8. PICK g \in FrameIn(V) :
        /\ g = [f EXCEPT !.step = "sub"] /\ g.step = "sub"
        /\ g.to = f.to /\ g.task = f.task /\ g.loc = f.loc /\ g.i = f.i /\ g.pend = f.pend
        /\ g.out = f.out
  <2> DEFINE h == [f EXCEPT !.step = "sub"]
  <2>1. /\ h \in FrameIn(V) /\ h.step = "sub"
        /\ h.to = f.to /\ h.task = f.task /\ h.loc = f.loc /\ h.i = f.i /\ h.pend = f.pend
        /\ h.out = f.out
    BY DEF FrameIn, Steps
  <2>2. h = [f EXCEPT !.step = "sub"]
    OBVIOUS
  <2> HIDE DEF h
  <2> QED BY <2>1, <2>2
<1>80. /\ g.step = "sub" /\ g.out = f.out
       /\ g.to = f.to /\ g.task = f.task /\ g.loc = f.loc /\ g.i = f.i /\ g.pend = f.pend
  BY <1>8
<1>9. PICK st : st = Stacks(w, [stack[w] EXCEPT ![n].step = "sub"])
  OBVIOUS
<1>90. /\ st \in [Workers -> Seq(FrameIn(V))]
       /\ \A u \in Workers : Len(st[u]) = Len(stack[u])
       /\ st[w][n] = g
       /\ \A u \in Workers : \A d \in 1..Len(stack[u]) :
            u # w \/ d # n => st[u][d] = stack[u][d]
  <2>1. n \in 1..Len(stack[w])
    BY <1>0 DEF Depth
  <2>2. [stack[w] EXCEPT ![n].step = "sub"] = [stack[w] EXCEPT ![n] = g]
    BY <1>8, <2>1
  <2> DEFINE q == [stack[w] EXCEPT ![n] = g]
  <2>20. st = Stacks(w, q)
    BY <1>9, <2>2
  <2> HIDE DEF q
  <2>21. st = [stack EXCEPT ![w] = q]
    BY <2>20, OneStack
  <2>3. st = [stack EXCEPT ![w] = [stack[w] EXCEPT ![n] = g]]
    BY <2>21 DEF q
  <2>4. [stack EXCEPT ![w] = [stack[w] EXCEPT ![n] = g]] = [stack EXCEPT ![w][n] = g]
    OBVIOUS
  <2>5. st = [stack EXCEPT ![w][n] = g]
    BY <2>3, <2>4
  <2> QED BY <2>1, <2>5, SetFrame
<1>10. PICK m \in FrameIn(V) : m = stack[x][y]
  <2>1. y \in 1..Len(stack[x])
    BY DEF Depth
  <2>2. stack[x] \in Seq(FrameIn(V))
    OBVIOUS
  <2> QED BY <2>1, <2>2
<1>100. st[x][y] = m /\ y \in 1..Len(st[x]) /\ k \in 1..Len(m.out)
  <2>1. y \in 1..Len(stack[x])
    BY DEF Depth
  <2> QED BY <1>7, <1>90, <1>10, <2>1
<1>11. PICK e : e = Stored(m, k, v)
  OBVIOUS
<1>110. /\ e \in FrameIn(V)
        /\ e.loc = m.loc /\ e.step = m.step /\ e.i = m.i /\ e.pend = m.pend
        /\ e.to = m.to /\ e.task = m.task
        /\ Len(e.out) = Len(m.out)
        /\ \A j \in 1..Len(m.out) : e.out[j] = m.out[j] \/ j = k
  BY <1>100, <1>11, FrameStores
<1>12. stack' = [st EXCEPT ![x][y] = e]
  <2>3. stack' = [st EXCEPT ![x][y].out[k] = v]
    BY <1>1, <1>4, <1>5, <1>6, <1>9 DEF Delivered
  <2>4. [st EXCEPT ![x][y].out[k] = v] = [st EXCEPT ![x][y] = [st[x][y] EXCEPT !.out[k] = v]]
    OBVIOUS
  <2> QED BY <1>100, <1>11, <2>3, <2>4 DEF Stored
<1>13. /\ stack' \in [Workers -> Seq(FrameIn(V))]
       /\ \A u \in Workers : Len(stack'[u]) = Len(st[u])
       /\ stack'[x][y] = e
       /\ \A u \in Workers : \A d \in 1..Len(st[u]) :
            u # x \/ d # y => stack'[u][d] = st[u][d]
  BY <1>100, <1>110, <1>12, <1>90, SetFrame
<1>14. \A u \in Workers : Depth(u)' = Depth(u)
  BY <1>90, <1>13 DEF Depth
<1>15. \A u \in Workers : \A d \in 1..Depth(u) :
         /\ u = w /\ d = n => stack'[u][d] = g
         /\ u = x /\ d = y => stack'[u][d] = e
         /\ ~(u = w /\ d = n) /\ ~(u = x /\ d = y) => stack'[u][d] = stack[u][d]
  BY <1>7, <1>90, <1>13 DEF Depth
<1>16. Structure'
  <2>1. \A u \in Workers : \A d \in 1..Depth(u)' :
          /\ stack'[u][d].to = stack[u][d].to /\ stack'[u][d].task = stack[u][d].task
          /\ stack'[u][d].loc = stack[u][d].loc /\ stack'[u][d].i = stack[u][d].i
          /\ stack'[u][d].pend = stack[u][d].pend
          /\ Len(stack'[u][d].out) = Len(stack[u][d].out)
          /\ \A j \in 1..Len(stack[u][d].out) :
               stack'[u][d].out[j] = stack[u][d].out[j] \/ Place(u, d, j) = p
    <3> SUFFICES ASSUME NEW u \in Workers, NEW d \in 1..Depth(u)'
                 PROVE  /\ stack'[u][d].to = stack[u][d].to /\ stack'[u][d].task = stack[u][d].task
                        /\ stack'[u][d].loc = stack[u][d].loc /\ stack'[u][d].i = stack[u][d].i
                        /\ stack'[u][d].pend = stack[u][d].pend
                        /\ Len(stack'[u][d].out) = Len(stack[u][d].out)
                        /\ \A j \in 1..Len(stack[u][d].out) :
                             stack'[u][d].out[j] = stack[u][d].out[j] \/ Place(u, d, j) = p
      OBVIOUS
    <3>0. d \in 1..Depth(u)
      BY <1>14
    <3>1. CASE u = w /\ d = n
      <4>1. stack'[u][d] = g /\ stack[u][d] = f
        BY <1>15, <3>0, <3>1
      <4> QED BY <1>80, <4>1
    <3>2. CASE u = x /\ d = y
      <4>1. stack'[u][d] = e /\ stack[u][d] = m
        BY <1>10, <1>15, <3>0, <3>2
      <4> QED BY <1>7, <1>110, <3>2, <4>1
    <3>3. CASE ~(u = w /\ d = n) /\ ~(u = x /\ d = y)
      BY <1>15, <3>0, <3>3
    <3> QED BY <3>1, <3>2, <3>3
  <2>2. \A u \in Workers : \A d \in 1..Depth(u)' :
          \/ stack'[u][d].step = stack[u][d].step
          \/ /\ u = w /\ d = n /\ stack'[u][d].step = "sub" /\ stack[u][d].task
             /\ stack[u][d].step # "spawn"
    BY <1>80, <1>10, <1>110, <1>14, <1>15
  <2>3. ~InQueue(p) /\ ~InHand(p)
    BY <1>2, ByTask
  <2>4. \A u \in Workers : \A d \in 1..Depth(u)' :
          stack[u][d].task /\ stack[u][d].to = p => stack'[u][d].step = "sub"
    <3>1. \A u \in Workers : \A d \in 1..Depth(u) :
            stack[u][d].task /\ stack[u][d].to = p => u = w /\ d = n
      BY <1>0, <1>1, ByTask DEF RunApart
    <3> QED BY <1>80, <1>14, <1>15, <3>1
  <2>5. \A u \in Workers : \A d \in 1..Depth(u)' : \A j :
          stack[u][d].step \in {"enter", "spawn"} /\ Place(u, d, j) = p => j < stack[u][d].i
    <3> SUFFICES ASSUME NEW u \in Workers, NEW d \in 1..Depth(u), NEW j,
                        stack[u][d].step \in {"enter", "spawn"}, Place(u, d, j) = p
                 PROVE  j < stack[u][d].i
      BY <1>14
    <3>1. u = x /\ d = y /\ j = k
      BY <1>7 DEF Place
    <3>2. FrameCounted(x, y) /\ stack[x][y].step = "spawn"
      BY <1>7, <3>1 DEF Structure, FieldsCounted
    <3>3. k \in FieldsOut(x, y)
      BY <1>2, <1>7 DEF FieldsOut
    <3> QED BY <3>1, <3>2, <3>3 DEF FrameCounted
  <2>6. Depth(w)' = n /\ \A u \in Workers : u # w => Depth(u)' = Depth(u)
    BY <1>14
  <2> QED BY <2>1, <2>2, <2>3, <2>4, <2>5, <2>6, QuietStructure
<1> QED BY <1>13, <1>16

\* The call made by the caller of cnf returns.
LEMMA GiveRoot ==
  ASSUME Types, Structure, NEW w \in Workers,
         NEW V, stack \in [Workers -> Seq(FrameIn(V))],
         NEW n \in Nat \ {0}, n = Depth(w), n = 1, ~stack[w][n].task,
         \A j : ~IsOut(Place(w, n, j)),
         dq' = dq, pool' = pool,
         stack' = Shorter(stack, w)
  PROVE  stack' \in [Workers -> Seq(FrameIn(V))] /\ Structure'
<1>1. stack[w] # <<>>
  BY DEF Depth
<1>a. PICK st : st = Shorter(stack, w)
  OBVIOUS
<1>b. /\ st \in [Workers -> Seq(FrameIn(V))]
      /\ \A u \in Workers : u # w => Len(st[u]) = Len(stack[u])
      /\ Len(st[w]) = n - 1
      /\ \A u \in Workers : \A d \in 1..Len(stack[u]) :
           u # w \/ d # n => st[u][d] = stack[u][d]
  <2>1. /\ Shorter(stack, w) \in [Workers -> Seq(FrameIn(V))]
        /\ \A u \in Workers : u # w => Len(Shorter(stack, w)[u]) = Len(stack[u])
        /\ Len(Shorter(stack, w)[w]) = Len(stack[w]) - 1
        /\ \A u \in Workers : \A d \in 1..Len(stack[u]) :
             u # w \/ d # Len(stack[w]) => Shorter(stack, w)[u][d] = stack[u][d]
    BY <1>1, StackPopped
  <2>2. Len(stack[w]) = n
    BY DEF Depth
  <2> QED BY <1>a, <2>1, <2>2
<1>2. /\ stack' \in [Workers -> Seq(FrameIn(V))]
      /\ \A u \in Workers : u # w => Depth(u)' = Depth(u)
      /\ Depth(w)' = n - 1
      /\ \A u \in Workers : \A d \in 1..Depth(u) :
           u # w \/ d # n => stack'[u][d] = stack[u][d]
  BY <1>a, <1>b DEF Depth
<1>3. PICK p \in Places : p = Place(w, 0, 1)
  BY DEF Place, Places
<1>4. ~IsOut(p)
  BY <1>3, OutAwaits DEF Awaits, Place
<1>5. \A u \in Workers : \A d \in 1..Depth(u)' :
        d \in 1..Depth(u) /\ stack'[u][d] = stack[u][d]
  <2> SUFFICES ASSUME NEW u \in Workers, NEW d \in 1..Depth(u)'
               PROVE  d \in 1..Depth(u) /\ stack'[u][d] = stack[u][d]
    OBVIOUS
  <2>1. u # w
    BY <1>2
  <2> QED BY <1>2, <2>1
<1>6. Structure'
  <2>1. \A u \in Workers : \A d \in 1..Depth(u)' :
          /\ stack'[u][d].to = stack[u][d].to /\ stack'[u][d].task = stack[u][d].task
          /\ stack'[u][d].loc = stack[u][d].loc /\ stack'[u][d].i = stack[u][d].i
          /\ stack'[u][d].pend = stack[u][d].pend
          /\ Len(stack'[u][d].out) = Len(stack[u][d].out)
          /\ \A j \in 1..Len(stack[u][d].out) :
               stack'[u][d].out[j] = stack[u][d].out[j] \/ Place(u, d, j) = p
    BY <1>5
  <2>2. \A u \in Workers : \A d \in 1..Depth(u)' :
          \/ stack'[u][d].step = stack[u][d].step
          \/ /\ u = w /\ d = n /\ stack'[u][d].step = "sub" /\ stack[u][d].task
             /\ stack[u][d].step # "spawn"
    BY <1>5
  <2>3. ~InQueue(p) /\ ~InHand(p)
    BY <1>4 DEF IsOut
  <2>4. \A u \in Workers : \A d \in 1..Depth(u)' :
          stack[u][d].task /\ stack[u][d].to = p => stack'[u][d].step = "sub"
    BY <1>4, <1>5 DEF IsOut, InRun
  <2>5. \A u \in Workers : \A d \in 1..Depth(u)' : \A j :
          stack[u][d].step \in {"enter", "spawn"} /\ Place(u, d, j) = p => j < stack[u][d].i
    BY <1>3, <1>5 DEF Place
  <2>6. Depth(w)' = n \/ (Depth(w)' = n - 1 /\ ~stack[w][n].task)
    BY <1>2
  <2> QED BY <1>2, <2>1, <2>2, <2>3, <2>4, <2>5, <2>6, QuietStructure
<1> QED BY <1>2, <1>6

\* The call made for a field returns to the call below it.
Unwound(w, q, v) ==
  [stack EXCEPT ![w] = [Popped(stack[w]) EXCEPT ![q[2]].out[q[3]] = v]]

LEMMA GiveBelow ==
  ASSUME Types, Structure, NEW w \in Workers,
         NEW V, stack \in [Workers -> Seq(FrameIn(V))], NEW v \in V,
         NEW n \in Nat \ {0}, n = Depth(w), n > 1, ~stack[w][n].task,
         \A j : ~IsOut(Place(w, n, j)),
         dq' = dq, pool' = pool,
         stack' = Unwound(w, stack[w][n].to, v)
  PROVE  stack' \in [Workers -> Seq(FrameIn(V))] /\ Structure'
<1>0. stack[w] # <<>> /\ n \in 1..Depth(w)
  BY DEF Depth
<1>1. PICK p \in Places : p = stack[w][n].to
  BY <1>0, FrameTyped
<1>2. PICK b \in Nat : b = n - 1 /\ b \in 1..Depth(w)
  OBVIOUS
<1>3. /\ p[1] = w /\ p[2] = b /\ p[3] \in 1..Len(stack[w][b].out)
      /\ stack[w][b].step \in {"lam", "seq"}
  <2>1. FrameFits(w, n)
    BY <1>0 DEF Structure, FramesFit
  <2> QED BY <1>1, <1>2, <2>1 DEF FrameFits
<1>4. PICK k \in 1..Len(stack[w][b].out) : k = p[3] /\ p = Place(w, b, k)
  BY <1>3, PlaceParts
<1>5. ~IsOut(p)
  BY <1>2, <1>3, <1>4, NoneOut
<1>6. PICK st : st = Shorter(stack, w)
  OBVIOUS
<1>7. /\ st \in [Workers -> Seq(FrameIn(V))]
      /\ \A u \in Workers : u # w => Len(st[u]) = Len(stack[u])
      /\ st[w] = Popped(stack[w]) /\ Len(st[w]) = n - 1
      /\ \A u \in Workers : \A d \in 1..Len(stack[u]) :
           u # w \/ d # n => st[u][d] = stack[u][d]
  BY <1>0, <1>6, StackPopped DEF Depth
<1>8. PICK m \in FrameIn(V) : m = stack[w][b]
  <2>1. b \in 1..Len(stack[w]) /\ stack[w] \in Seq(FrameIn(V))
    BY <1>2 DEF Depth
  <2> QED BY <2>1
<1>9. st[w][b] = m /\ b \in 1..Len(st[w]) /\ k \in 1..Len(m.out)
  <2>1. b \in 1..Len(stack[w]) /\ b # n /\ b \in 1..(n - 1)
    BY <1>2 DEF Depth
  <2>2. st[w][b] = stack[w][b]
    BY <1>7, <2>1
  <2> QED BY <1>7, <1>8, <2>1, <2>2
<1>10. PICK e : e = Stored(m, k, v)
  OBVIOUS
<1>11. /\ e \in FrameIn(V)
       /\ e.loc = m.loc /\ e.step = m.step /\ e.i = m.i /\ e.pend = m.pend
       /\ e.to = m.to /\ e.task = m.task
       /\ Len(e.out) = Len(m.out)
       /\ \A j \in 1..Len(m.out) : e.out[j] = m.out[j] \/ j = k
  BY <1>9, <1>10, FrameStores
<1>12. stack' = [st EXCEPT ![w][b] = e]
  <2>1. stack' = [stack EXCEPT ![w] = [Popped(stack[w]) EXCEPT ![b].out[k] = v]]
    BY <1>1, <1>3, <1>4 DEF Unwound
  <2>2. [Popped(stack[w]) EXCEPT ![b].out[k] = v] = [st[w] EXCEPT ![b] = e]
    <3>1. [st[w] EXCEPT ![b].out[k] = v] = [st[w] EXCEPT ![b] = [st[w][b] EXCEPT !.out[k] = v]]
      OBVIOUS
    <3> QED BY <1>7, <1>9, <1>10, <3>1 DEF Stored
  <2>3. stack' = [stack EXCEPT ![w] = [st[w] EXCEPT ![b] = e]]
    BY <2>1, <2>2
  <2>4. [st EXCEPT ![w][b] = e] = [st EXCEPT ![w] = [st[w] EXCEPT ![b] = e]]
    OBVIOUS
  <2>5. ASSUME NEW q PROVE [st EXCEPT ![w] = q] = [stack EXCEPT ![w] = q]
    BY <1>6 DEF Shorter
  <2> QED BY <2>3, <2>4, <2>5
<1>13. /\ stack' \in [Workers -> Seq(FrameIn(V))]
       /\ \A u \in Workers : Len(stack'[u]) = Len(st[u])
       /\ stack'[w][b] = e
       /\ \A u \in Workers : \A d \in 1..Len(st[u]) :
            u # w \/ d # b => stack'[u][d] = st[u][d]
  BY <1>7, <1>9, <1>11, <1>12, SetFrame
<1>14. Depth(w)' = n - 1 /\ \A u \in Workers : u # w => Depth(u)' = Depth(u)
  BY <1>7, <1>13 DEF Depth
<1>15. \A u \in Workers : \A d \in 1..Depth(u)' :
         /\ d \in 1..Depth(u)
         /\ u = w /\ d = b => stack'[u][d] = e
         /\ ~(u = w /\ d = b) => stack'[u][d] = stack[u][d]
  <2> SUFFICES ASSUME NEW u \in Workers, NEW d \in 1..Depth(u)'
               PROVE  /\ d \in 1..Depth(u)
                      /\ u = w /\ d = b => stack'[u][d] = e
                      /\ ~(u = w /\ d = b) => stack'[u][d] = stack[u][d]
    OBVIOUS
  <2>1. d \in 1..Len(stack[u]) /\ d \in 1..Len(st[u]) /\ (u = w => d # n)
    <3>1. CASE u = w
      BY <1>7, <1>14, <3>1 DEF Depth
    <3>2. CASE u # w
      BY <1>7, <1>14, <3>2 DEF Depth
    <3> QED BY <3>1, <3>2
  <2> QED BY <1>7, <1>13, <2>1 DEF Depth
<1>16. Structure'
  <2>1. \A u \in Workers : \A d \in 1..Depth(u)' :
          /\ stack'[u][d].to = stack[u][d].to /\ stack'[u][d].task = stack[u][d].task
          /\ stack'[u][d].loc = stack[u][d].loc /\ stack'[u][d].i = stack[u][d].i
          /\ stack'[u][d].pend = stack[u][d].pend
          /\ Len(stack'[u][d].out) = Len(stack[u][d].out)
          /\ \A j \in 1..Len(stack[u][d].out) :
               stack'[u][d].out[j] = stack[u][d].out[j] \/ Place(u, d, j) = p
    <3> SUFFICES ASSUME NEW u \in Workers, NEW d \in 1..Depth(u)'
                 PROVE  /\ stack'[u][d].to = stack[u][d].to /\ stack'[u][d].task = stack[u][d].task
                        /\ stack'[u][d].loc = stack[u][d].loc /\ stack'[u][d].i = stack[u][d].i
                        /\ stack'[u][d].pend = stack[u][d].pend
                        /\ Len(stack'[u][d].out) = Len(stack[u][d].out)
                        /\ \A j \in 1..Len(stack[u][d].out) :
                             stack'[u][d].out[j] = stack[u][d].out[j] \/ Place(u, d, j) = p
      OBVIOUS
    <3>1. CASE u = w /\ d = b
      <4>1. stack'[u][d] = e /\ stack[u][d] = m
        BY <1>8, <1>15, <3>1
      <4> QED BY <1>4, <1>11, <3>1, <4>1
    <3>2. CASE ~(u = w /\ d = b)
      BY <1>15, <3>2
    <3> QED BY <3>1, <3>2
  <2>2. \A u \in Workers : \A d \in 1..Depth(u)' :
          \/ stack'[u][d].step = stack[u][d].step
          \/ /\ u = w /\ d = n /\ stack'[u][d].step = "sub" /\ stack[u][d].task
             /\ stack[u][d].step # "spawn"
    BY <1>8, <1>11, <1>15
  <2>3. ~InQueue(p) /\ ~InHand(p)
    BY <1>5 DEF IsOut
  <2>4. \A u \in Workers : \A d \in 1..Depth(u)' :
          stack[u][d].task /\ stack[u][d].to = p => stack'[u][d].step = "sub"
    BY <1>5, <1>15 DEF IsOut, InRun
  <2>5. \A u \in Workers : \A d \in 1..Depth(u)' : \A j :
          stack[u][d].step \in {"enter", "spawn"} /\ Place(u, d, j) = p => j < stack[u][d].i
    BY <1>3, <1>4, <1>15 DEF Place
  <2>6. Depth(w)' = n \/ (Depth(w)' = n - 1 /\ ~stack[w][n].task)
    BY <1>14
  <2> QED BY <1>14, <2>1, <2>2, <2>3, <2>4, <2>5, <2>6, QuietStructure
<1> QED BY <1>13, <1>16

LEMMA GiveStructure ==
  ASSUME Types, Structure, NEW w \in Workers, root' = root, NEW v,
         NEW step \in {"enter", "lam", "seq", "join"}, On(w, step),
         step = "join" => Top(w).pend = 0, Give(w, v)
  PROVE  Types' /\ Structure' /\ counter' = counter
<1>1. PICK V : v \in V /\ stack \in [Workers -> Seq(FrameIn(V))]
  BY Widen DEF Types
<1>2. PICK n \in Nat \ {0}, f \in FrameIn(V) :
        /\ n = Depth(w) /\ f = Top(w) /\ f = stack[w][n] /\ n \in 1..n
        /\ f.step = step /\ f.to \in Places /\ f.task \in BOOLEAN /\ FrameFits(w, n)
  BY <1>1, TopFrame
<1>3. \A j : ~IsOut(Place(w, n, j))
  BY <1>2, TopQuiet
<1>4. dq' = dq /\ pool' = pool /\ counter' = counter
  BY DEF Give, counter
<1>5. stack' \in [Workers -> Seq(FrameIn(V))] /\ Structure'
  <2>1. CASE f.task
    <3>1. stack' = Delivered(w, n, f.to, v)
      BY <1>2, <2>1 DEF Give, Delivered
    <3> QED BY <1>1, <1>2, <1>3, <1>4, <2>1, <3>1, GiveTask
  <2>2. CASE ~f.task
    <3>1. ~stack[w][n].task
      BY <1>2, <2>2
    <3>2. \/ n = 1 /\ f.to = Place(w, 0, 1)
          \/ n > 1 /\ f.to[2] = n - 1
      BY <1>2, <3>1 DEF FrameFits
    <3>3. CASE n = 1 /\ f.to = Place(w, 0, 1)
      <4>1. stack' = Shorter(stack, w)
        BY <1>2, <2>2, <3>3 DEF Give, Place, Shorter
      <4> QED BY <1>1, <1>2, <1>3, <1>4, <3>1, <3>3, <4>1, GiveRoot
    <3>4. CASE n > 1 /\ f.to[2] = n - 1
      <4>1. stack' = Unwound(w, stack[w][n].to, v)
        BY <1>2, <2>2, <3>4 DEF Give, Unwound
      <4> QED BY <1>1, <1>2, <1>3, <1>4, <3>1, <3>4, <4>1, GiveBelow
    <3> QED BY <3>2, <3>3, <3>4
  <2> QED BY <2>1, <2>2
<1>6. Types'
  BY <1>4, <1>5, TypesAgain DEF Types, counter
<1> QED BY <1>4, <1>5, <1>6

\* A task that has stored its result is counted out.
LEMMA TaskDoneStructure ==
  ASSUME Types, Structure, NEW w \in Workers, root' = root, TaskDone(w)
  PROVE  Types' /\ Structure' /\ counter' = counter
<1>1. PICK V : stack \in [Workers -> Seq(FrameIn(V))]
  BY DEF Types
<1>2. PICK n \in Nat \ {0}, f \in FrameIn(V) :
        /\ n = Depth(w) /\ f = Top(w) /\ f = stack[w][n] /\ n \in 1..n
        /\ f.step = "sub" /\ f.to \in Places /\ FrameFits(w, n)
  <2>1. On(w, "sub")
    BY DEF TaskDone
  <2> QED BY <1>1, <2>1, TopFrame
<1>3. PICK p \in Places : p = f.to
  BY <1>2
<1>4. f.task /\ IsOut(p) /\ InRun(p)
  <2>1. f.task
    BY <1>2 DEF FrameFits
  <2> QED BY <1>2, <1>3, <2>1 DEF IsOut, InRun
<1>5. \A j : ~IsOut(Place(w, n, j))
  BY <1>2, NoneOut
<1>6. Awaits(p) /\ p = Place(p[1], p[2], p[3]) /\ p[1] \in Workers
  BY <1>4, OutAwaits, PlaceParts
<1>7. PICK x \in Workers : x = p[1]
  BY <1>6
<1>8. PICK y \in 1..Depth(x) : y = p[2]
  BY <1>6, <1>7 DEF Awaits
<1>9. PICK m \in FrameIn(V) : m = stack[x][y]
  <2>1. y \in 1..Len(stack[x]) /\ stack[x] \in Seq(FrameIn(V))
    BY <1>1 DEF Depth
  <2> QED BY <2>1
<1>10. PICK k \in 1..Len(m.out) : k = p[3]
  BY <1>6, <1>7, <1>8, <1>9 DEF Awaits
<1>11. p = Place(x, y, k) /\ ~(x = w /\ y = n) /\ m.step \in {"spawn", "join"}
  BY <1>4, <1>5, <1>6, <1>7, <1>8, <1>9, <1>10 DEF Awaits
<1>12. PICK c \in Int : c = m.pend - 1 /\ m.pend \in Int
  BY DEF FrameIn
<1>13. PICK e : e = Counted(m, c)
  OBVIOUS
<1>14. /\ e \in FrameIn(V) /\ e.step = m.step /\ e.i = m.i /\ e.loc = m.loc
       /\ e.out = m.out /\ e.pend = c /\ e.to = m.to /\ e.task = m.task
  <2>1. m \in FrameIn(V) /\ c \in Int
    OBVIOUS
  <2>2. /\ Counted(m, c) \in FrameIn(V) /\ Counted(m, c).step = m.step
        /\ Counted(m, c).i = m.i /\ Counted(m, c).loc = m.loc
        /\ Counted(m, c).out = m.out /\ Counted(m, c).pend = c
        /\ Counted(m, c).to = m.to /\ Counted(m, c).task = m.task
    BY <2>1, FramePends
  <2> QED BY <1>13, <2>2
<1>15. PICK st : st = Stacks(w, Popped(stack[w]))
  OBVIOUS
<1>16. /\ st \in [Workers -> Seq(FrameIn(V))]
       /\ \A u \in Workers : u # w => Len(st[u]) = Len(stack[u])
       /\ Len(st[w]) = n - 1 /\ Len(stack[w]) = n
       /\ \A u \in Workers : \A d \in 1..Len(stack[u]) :
            u # w \/ d # n => st[u][d] = stack[u][d]
  <2> DEFINE q == Popped(stack[w])
  <2>0. st = Stacks(w, q)
    BY <1>15
  <2> HIDE DEF q
  <2>10. st = [stack EXCEPT ![w] = q]
    BY <1>1, <2>0, OneStack
  <2>1. st = Shorter(stack, w)
    BY <2>10 DEF q, Shorter
  <2>2. stack[w] # <<>> /\ Len(stack[w]) = n
    BY <1>2 DEF Depth
  <2>3. /\ Shorter(stack, w) \in [Workers -> Seq(FrameIn(V))]
        /\ \A u \in Workers : u # w => Len(Shorter(stack, w)[u]) = Len(stack[u])
        /\ Len(Shorter(stack, w)[w]) = Len(stack[w]) - 1
        /\ \A u \in Workers : \A d \in 1..Len(stack[u]) :
             u # w \/ d # Len(stack[w]) => Shorter(stack, w)[u][d] = stack[u][d]
    BY <1>1, <2>2, StackPopped
  <2> QED BY <2>1, <2>2, <2>3
<1>17. y \in 1..Len(st[x]) /\ y \in 1..Len(stack[x]) /\ st[x][y] = m
  <2>1. y \in 1..Len(stack[x])
    BY DEF Depth
  <2>2. CASE x = w
    <3>1. y \in 1..n /\ y # n
      BY <1>11, <1>16, <2>1, <2>2
    <3>2. y \in 1..(n - 1)
      BY <3>1
    <3> QED BY <1>9, <1>16, <2>1, <2>2, <3>1, <3>2
  <2>3. CASE x # w
    BY <1>9, <1>16, <2>1, <2>3
  <2> QED BY <2>2, <2>3
<1>170. stack' = [st EXCEPT ![x][y] = e]
  <2>1. stack' = [st EXCEPT ![x][y].pend = @ - 1]
    BY <1>2, <1>3, <1>7, <1>8, <1>15 DEF TaskDone
  <2>2. [st EXCEPT ![x][y].pend = @ - 1]
          = [st EXCEPT ![x][y] = [st[x][y] EXCEPT !.pend = st[x][y].pend - 1]]
    OBVIOUS
  <2> QED BY <1>12, <1>13, <1>17, <2>1, <2>2 DEF Counted
<1>18. /\ stack' \in [Workers -> Seq(FrameIn(V))]
       /\ Depth(w)' = n - 1 /\ \A u \in Workers : u # w => Depth(u)' = Depth(u)
       /\ stack'[x][y] = e
       /\ \A u \in Workers : \A d \in 1..Len(st[u]) :
            u # x \/ d # y => stack'[u][d] = st[u][d]
  <2>1. /\ stack' \in [Workers -> Seq(FrameIn(V))]
        /\ \A u \in Workers : Len(stack'[u]) = Len(st[u])
        /\ stack'[x][y] = e
        /\ \A u \in Workers : \A d \in 1..Len(st[u]) :
             u # x \/ d # y => stack'[u][d] = st[u][d]
    BY <1>14, <1>16, <1>17, <1>170, SetFrame
  <2> QED BY <1>16, <2>1 DEF Depth
<1>19. \A u \in Workers : \A d \in 1..Depth(u) : ~(u = w /\ d = n) =>
         /\ d \in 1..Depth(u)'
         /\ u = x /\ d = y => stack'[u][d] = e
         /\ ~(u = x /\ d = y) => stack'[u][d] = stack[u][d]
  <2> SUFFICES ASSUME NEW u \in Workers, NEW d \in 1..Depth(u), ~(u = w /\ d = n)
               PROVE  /\ d \in 1..Depth(u)'
                      /\ u = x /\ d = y => stack'[u][d] = e
                      /\ ~(u = x /\ d = y) => stack'[u][d] = stack[u][d]
    OBVIOUS
  <2>1. d \in 1..Len(stack[u])
    BY DEF Depth
  <2>2. d \in 1..Depth(u)'
    BY <1>2, <1>18
  <2>3. d \in 1..Len(st[u])
    BY <1>16, <1>18, <2>1, <2>2
  <2> QED BY <1>16, <1>18, <2>1, <2>2, <2>3
<1>20. \A u \in Workers : \A d \in 1..Depth(u)' :
         /\ d \in 1..Depth(u) /\ ~(u = w /\ d = n) /\ d \in Nat
         /\ d > 1 => d - 1 \in 1..Depth(u)'
  <2> SUFFICES ASSUME NEW u \in Workers, NEW d \in 1..Depth(u)'
               PROVE  /\ d \in 1..Depth(u) /\ ~(u = w /\ d = n) /\ d \in Nat
                      /\ d > 1 => d - 1 \in 1..Depth(u)'
    OBVIOUS
  <2>1. CASE u = w
    <3>1. d \in 1..(n - 1)
      BY <1>18, <2>1
    <3> QED BY <1>2, <1>18, <2>1, <3>1
  <2>2. CASE u # w
    BY <1>18, <2>2, FrameTyped
  <2> QED BY <2>1, <2>2
<1>21. \A u \in Workers : \A d \in 1..Depth(u)' :
         /\ stack'[u][d].to = stack[u][d].to /\ stack'[u][d].task = stack[u][d].task
         /\ stack'[u][d].loc = stack[u][d].loc /\ stack'[u][d].i = stack[u][d].i
         /\ stack'[u][d].step = stack[u][d].step /\ stack'[u][d].out = stack[u][d].out
  <2> SUFFICES ASSUME NEW u \in Workers, NEW d \in 1..Depth(u)'
               PROVE  /\ stack'[u][d].to = stack[u][d].to /\ stack'[u][d].task = stack[u][d].task
                      /\ stack'[u][d].loc = stack[u][d].loc /\ stack'[u][d].i = stack[u][d].i
                      /\ stack'[u][d].step = stack[u][d].step /\ stack'[u][d].out = stack[u][d].out
    OBVIOUS
  <2>1. CASE u = x /\ d = y
    BY <1>9, <1>14, <1>19, <1>20, <2>1
  <2>2. CASE ~(u = x /\ d = y)
    BY <1>19, <1>20, <2>2
  <2> QED BY <2>1, <2>2
<1>22. dq' = dq /\ pool' = pool /\ counter' = counter
  BY DEF TaskDone, counter
<1>23. Types'
  BY <1>18, <1>22, TypesAgain DEF Types, counter
<1>24. /\ \A q : InQueue(q) \/ InHand(q) => Awaited(q) /\ ~InRun(q)
       /\ \A q : InQueue(q) => ~InHand(q)
       /\ QueuedApart /\ HeldApart /\ RunApart /\ RunPoint
  BY ByTask
<1>25. \A q : (InQueue(q)' <=> InQueue(q)) /\ (InHand(q)' <=> InHand(q))
  BY <1>22 DEF InQueue, InHand
<1>26. \A q : InRun(q)' <=> InRun(q) /\ q # p
  <2>1. ASSUME NEW q, InRun(q)' PROVE InRun(q) /\ q # p
    <3>1. PICK v \in Workers : \E d \in 1..Depth(v)' : stack'[v][d].task /\ stack'[v][d].to = q
      BY <2>1 DEF InRun
    <3>2. PICK d \in 1..Depth(v)' : stack'[v][d].task /\ stack'[v][d].to = q
      BY <3>1
    <3>3. d \in 1..Depth(v) /\ ~(v = w /\ d = n) /\ stack[v][d].task /\ stack[v][d].to = q
      BY <1>20, <1>21, <3>2
    <3>4. q # p
      BY <1>2, <1>3, <1>4, <1>24, <3>3 DEF RunApart
    <3> QED BY <3>3, <3>4 DEF InRun
  <2>2. ASSUME NEW q, InRun(q), q # p PROVE InRun(q)'
    <3>1. PICK v \in Workers : \E d \in 1..Depth(v) : stack[v][d].task /\ stack[v][d].to = q
      BY <2>2 DEF InRun
    <3>2. PICK d \in 1..Depth(v) : stack[v][d].task /\ stack[v][d].to = q
      BY <3>1
    <3>3. ~(v = w /\ d = n)
      BY <1>2, <1>3, <2>2, <3>2
    <3>4. d \in 1..Depth(v)'
      BY <1>19, <3>3
    <3>5. stack'[v][d].task /\ stack'[v][d].to = q
      BY <1>21, <3>2, <3>4
    <3> QED BY <3>4, <3>5 DEF InRun
  <2> QED BY <2>1, <2>2
<1>27. \A q : IsOut(q)' <=> IsOut(q) /\ q # p
  BY <1>4, <1>24, <1>25, <1>26 DEF IsOut
<1>28. FramesFit'
  <2> SUFFICES ASSUME NEW u \in Workers, NEW d \in 1..Depth(u)' PROVE FrameFits(u, d)'
    BY DEF FramesFit
  <2>1. FrameFits(u, d)
    BY <1>20 DEF Structure, FramesFit
  <2>2. /\ stack'[u][d].to = stack[u][d].to /\ stack'[u][d].task = stack[u][d].task
        /\ stack'[u][d].loc = stack[u][d].loc /\ stack'[u][d].i = stack[u][d].i
        /\ stack'[u][d].step = stack[u][d].step /\ stack'[u][d].out = stack[u][d].out
    BY <1>21
  <2>3. d > 1 => /\ stack'[u][d - 1].out = stack[u][d - 1].out
                 /\ stack'[u][d - 1].step = stack[u][d - 1].step
    BY <1>20, <1>21
  <2> QED BY <2>1, <2>2, <2>3 DEF FrameFits, Place
<1>29. \A q \in Places : IsOut(q) => (Awaits(q) => Awaits(q)') /\ (Awaited(q) => Awaited(q)')
  <2> SUFFICES ASSUME NEW q \in Places, IsOut(q)
               PROVE  (Awaits(q) => Awaits(q)') /\ (Awaited(q) => Awaited(q)')
    OBVIOUS
  <2>1. Awaits(q) /\ q = Place(q[1], q[2], q[3]) /\ q[1] \in Workers
    BY OutAwaits, PlaceParts
  <2>2. ~(q[1] = w /\ q[2] = n) /\ q[2] \in 1..Depth(q[1])
    BY <1>5, <2>1 DEF Awaits
  <2>3. q[2] \in 1..Depth(q[1])'
    BY <1>19, <2>1, <2>2
  <2>4. /\ stack'[q[1]][q[2]].step = stack[q[1]][q[2]].step
        /\ stack'[q[1]][q[2]].out = stack[q[1]][q[2]].out
    BY <1>21, <2>1, <2>3
  <2> QED BY <2>3, <2>4 DEF Awaits, Awaited
<1>30. TasksApart' /\ TasksPoint'
  <2>1. \A q : InQueue(q)' \/ InHand(q)' => Awaited(q)' /\ ~InRun(q)'
    <3> SUFFICES ASSUME NEW q, InQueue(q)' \/ InHand(q)' PROVE Awaited(q)' /\ ~InRun(q)'
      OBVIOUS
    <3>1. (InQueue(q) \/ InHand(q)) /\ IsOut(q)
      BY <1>25 DEF IsOut
    <3>2. q \in Places
      BY <3>1, OutAwaits
    <3> QED BY <1>24, <1>26, <1>29, <3>1, <3>2
  <2>2. \A q : InQueue(q)' => ~InHand(q)'
    BY <1>24, <1>25
  <2>3. QueuedApart' /\ HeldApart'
    BY <1>22, <1>24 DEF QueuedApart, HeldApart
  <2>4. RunApart'
    <3>1. ASSUME NEW u \in Workers, NEW v \in Workers,
                 NEW d \in 1..Depth(u)', NEW j \in 1..Depth(v)',
                 stack'[u][d].task, stack'[v][j].task,
                 stack'[u][d].to = stack'[v][j].to
          PROVE  u = v /\ d = j
      <4>1. d \in 1..Depth(u) /\ stack[u][d].task /\ stack'[u][d].to = stack[u][d].to
        BY <1>20, <1>21, <3>1
      <4>2. j \in 1..Depth(v) /\ stack[v][j].task /\ stack'[v][j].to = stack[v][j].to
        BY <1>20, <1>21, <3>1
      <4>3. stack[u][d].to = stack[v][j].to
        BY <3>1, <4>1, <4>2
      <4>4. RunApart
        BY <1>24
      <4> QED BY ONLY <4>1, <4>2, <4>3, <4>4 DEF RunApart
    <3> QED BY ONLY <3>1, RunApartNext
  <2>5. RunPoint'
    <3>1. ASSUME NEW v \in Workers, NEW d \in 1..Depth(v)', NEW q,
                 stack'[v][d].task, q = stack'[v][d].to
          PROVE  Awaits(q)' /\ (stack'[v][d].step # "sub" => Awaited(q)')
      <4>1. /\ d \in 1..Depth(v) /\ stack[v][d].task /\ stack[v][d].to = q
            /\ stack'[v][d].step = stack[v][d].step
        BY <1>20, <1>21, <3>1
      <4>2. IsOut(q) /\ q \in Places /\ Awaits(q)
        BY <4>1, OutAwaits DEF IsOut, InRun
      <4>3. stack[v][d].step # "sub" => Awaited(q)
        BY <1>24, <4>1 DEF RunPoint
      <4> QED BY <1>29, <4>1, <4>2, <4>3
    <3> QED BY ONLY <3>1, RunPointNext
  <2> QED BY ONLY <2>1, <2>2, <2>3, <2>4, <2>5, ByTaskNext
<1>31. FieldsCounted'
  <2> SUFFICES ASSUME NEW u \in Workers, NEW d \in 1..Depth(u)' PROVE FrameCounted(u, d)'
    BY DEF FieldsCounted
  <2>0. FrameCounted(u, d)
    BY <1>20 DEF Structure, FieldsCounted
  <2>1. CASE ~(u = x /\ d = y)
    <3>1. stack'[u][d] = stack[u][d] /\ d \in Nat
      BY <1>19, <1>20, <2>1
    <3>2. \A j : IsOut(Place(u, d, j))' <=> IsOut(Place(u, d, j))
      <4>1. \A j : Place(u, d, j) # p
        BY <1>11, <2>1 DEF Place
      <4>2. ASSUME NEW j, NEW q, q = Place(u, d, j) PROVE IsOut(q)' <=> IsOut(q)
        BY <1>27, <4>1, <4>2
      <4> QED BY <4>2 DEF Place
    <3> QED BY <2>0, <3>1, <3>2, CountKept
  <2>2. CASE u = x /\ d = y
    <3>1. stack'[x][y] = e
      BY <1>19, <1>20, <2>2
    <3>2. PICK F : F = FieldsOut(x, y)
      OBVIOUS
    <3>3. IsFiniteSet(F) /\ Cardinality(F) \in Nat
      BY <3>2, FieldsFinite
    <3>4. k \in F
      BY <1>4, <1>9, <1>11, <3>2 DEF FieldsOut
    <3>5. Cardinality(F \ {k}) = Cardinality(F) - 1
      BY <3>3, <3>4, FS_RemoveElement
    <3>6. FieldsOut(x, y)' = F \ {k}
      <4>1. \A j : Place(x, y, j) = p <=> j = k
        BY <1>11 DEF Place
      <4>2. \A j : IsOut(Place(x, y, j))' <=> IsOut(Place(x, y, j)) /\ j # k
        <5>1. ASSUME NEW j, NEW q, q = Place(x, y, j) PROVE IsOut(q)' <=> IsOut(q) /\ j # k
          BY <1>27, <4>1, <5>1
        <5> QED BY <5>1 DEF Place
      <4> QED BY <1>9, <1>14, <3>1, <3>2, <4>2 DEF FieldsOut, Place
    <3>7. PICK s \in Int : s = Unspawned(<<x, y>>) /\ s = Unspawned(<<x, y>>)'
      <4>1. m.i \in Int /\ Len(m.out) \in Int
        BY DEF FrameIn
      <4>2. PICK r \in Int : r = IF m.step = "spawn" THEN Len(m.out) - m.i + 1 ELSE 0
        BY <4>1
      <4>3. r = Unspawned(<<x, y>>)
        BY <1>9, <4>2 DEF Unspawned, FrameAt
      <4>4. r = IF e.step = "spawn" THEN Len(e.out) - e.i + 1 ELSE 0
        BY <1>14, <4>2
      <4>5. r = Unspawned(<<x, y>>)'
        BY <3>1, <4>4 DEF Unspawned, FrameAt
      <4> QED BY <4>3, <4>5
    <3>8. m.pend = Cardinality(F) + s /\ (m.step = "spawn" => \A j \in F : j < m.i)
      BY <1>9, <2>0, <2>2, <3>2, <3>7 DEF FrameCounted
    <3>9. e.pend = Cardinality(F \ {k}) + s /\ (e.step = "spawn" => \A j \in F \ {k} : j < e.i)
      BY <1>12, <1>14, <3>3, <3>5, <3>8
    <3>10. FrameCounted(x, y)'
      BY <3>1, <3>6, <3>7, <3>9 DEF FrameCounted
    <3> QED BY <2>2, <3>10
  <2> QED BY <2>1, <2>2
<1> QED BY <1>22, <1>23, <1>28, <1>30, <1>31 DEF Structure

\* The counter of the pool: a worker that finds no work, and one that found some.
LEMMA CountSteps ==
  ASSUME Types, PoolCount, NEW w \in Workers, Compute(w) \/ Find(w),
         PopNone(w) \/ StealCounts(w) \/ counter' = counter
  PROVE  PoolCount'
<1>1. PICK A : A = {v \in Workers : active[v]}
  OBVIOUS
<1>2. IsFiniteSet(A) /\ Cardinality(A) \in Nat
  <2>1. IsFiniteSet(Workers)
    BY CnfAssumption, FS_Interval DEF Workers
  <2>2. A \subseteq Workers
    BY <1>1
  <2>3. IsFiniteSet(A)
    BY <2>1, <2>2, FS_Subset
  <2> QED BY <2>3, FS_CardinalityType
<1>3. N > 1 => pending = Cardinality(A)
  BY <1>1 DEF PoolCount
<1>4. active \in [Workers -> BOOLEAN] /\ (w \in A <=> active[w])
  BY <1>1 DEF Types
<1>5. CASE counter' = counter
  BY <1>5 DEF PoolCount, counter
<1>6. CASE PopNone(w)
  <2>1. {v \in Workers : active'[v]} = A \ {w}
    BY <1>1, <1>4, <1>6 DEF PopNone
  <2>2. Cardinality(A \ {w}) = IF w \in A THEN Cardinality(A) - 1 ELSE Cardinality(A)
    BY <1>2, FS_RemoveElement
  <2>3. pending' = IF active[w] THEN pending - 1 ELSE pending
    BY <1>6 DEF PopNone
  <2>4. N > 1 => pending' = Cardinality(A \ {w})
    <3>1. CASE w \in A
      BY <1>2, <1>3, <1>4, <2>2, <2>3, <3>1
    <3>2. CASE w \notin A
      BY <1>2, <1>3, <1>4, <2>2, <2>3, <3>2
    <3> QED BY <3>1, <3>2
  <2> QED BY <2>1, <2>4 DEF PoolCount
<1>7. CASE StealCounts(w)
  <2>1. {v \in Workers : active'[v]} = A \cup {w}
    BY <1>1, <1>4, <1>7 DEF StealCounts
  <2>2. Cardinality(A \cup {w}) = IF w \in A THEN Cardinality(A) ELSE Cardinality(A) + 1
    BY <1>2, FS_AddElement
  <2>3. pending' = IF active[w] THEN pending ELSE pending + 1
    BY <1>7 DEF StealCounts
  <2>4. N > 1 => pending' = Cardinality(A \cup {w})
    <3>1. CASE w \in A
      BY <1>2, <1>3, <1>4, <2>2, <2>3, <3>1
    <3>2. CASE w \notin A
      BY <1>2, <1>3, <1>4, <2>2, <2>3, <3>2
    <3> QED BY <3>1, <3>2
  <2> QED BY <2>1, <2>4 DEF PoolCount
<1> QED BY <1>5, <1>6, <1>7

LEMMA StutterIInv == IInv /\ UNCHANGED vars => IInv'
<1> SUFFICES ASSUME IInv, UNCHANGED vars PROVE IInv'
  OBVIOUS
<1>1. /\ root' = root /\ dq' = dq /\ pending' = pending /\ active' = active
      /\ stack' = stack /\ pool' = pool
  BY DEF vars
<1>2. Types'
  <2>0. Types
    BY DEF IInv
  <2>1. \E V : stack' \in [Workers -> Seq(FrameIn(V))]
    BY <1>1, <2>0 DEF Types
  <2>2. /\ dq' \in [Workers -> Seq(TaskIn(Locs))] /\ \A v \in Workers : Len(dq'[v]) <= Cap
        /\ pending' \in Int /\ active' \in [Workers -> BOOLEAN]
    BY <1>1, <2>0 DEF Types
  <2>3. /\ pool' \in [Workers -> PoolIn]
        /\ \A v \in Workers : pool'[v].op = "count" => pool'[v].task.loc # 0
    BY <1>1, <2>0 DEF Types
  <2> QED BY <1>1, <2>0, <2>1, <2>2, <2>3, TypesAgain
<1>3. FramesFit'
  <2>1. \A v, d : FrameFits(v, d)' <=> FrameFits(v, d)
    BY <1>1 DEF FrameFits, Place
  <2> QED BY <1>1, <2>1 DEF IInv, FramesFit, Depth
<1>4. \A p : /\ InHand(p)' <=> InHand(p)
             /\ InQueue(p)' <=> InQueue(p)
             /\ InRun(p)' <=> InRun(p)
  BY <1>1 DEF InHand, InQueue, InRun, Depth
<1>5. TasksApart'
  BY <1>1, <1>4 DEF IInv, TasksApart, QueuedApart, HeldApart, RunApart, QueuedOnly, HeldOnly, Depth
<1>6. TasksPoint'
  <2>1. \A p : (Awaits(p)' <=> Awaits(p)) /\ (Awaited(p)' <=> Awaited(p))
    BY <1>1 DEF Awaits, Awaited, Depth
  <2> QED BY <1>1, <2>1 DEF IInv, TasksPoint, QueuedPoint, HeldPoint, RunPoint, Depth
<1>7. FieldsCounted'
  <2>1. \A v \in Workers : \A d \in 1..Depth(v) : FieldsOut(v, d)' = FieldsOut(v, d)
    BY <1>1, <1>4 DEF FieldsOut, IsOut
  <2> QED BY <1>1, <2>1 DEF IInv, FieldsCounted, FrameCounted, Unspawned, FrameAt, Depth
<1>8. PoolCount'
  BY <1>1 DEF IInv, PoolCount
<1> QED BY <1>2, <1>3, <1>5, <1>6, <1>7, <1>8 DEF IInv

\* The invariant is kept by every step of a worker.
LEMMA WorkerIInv ==
  ASSUME IInv, NEW w \in Workers, Worker(w)
  PROVE  IInv'
<1>1. Types /\ Structure /\ PoolCount /\ root' = root /\ (Compute(w) \/ Find(w))
  BY DEF IInv, Structure, Worker
<1>2. Types' /\ Structure' /\ (PopNone(w) \/ StealCounts(w) \/ counter' = counter)
  <2>1. CASE Call(w)
    <3>1. counter' = counter
      BY <2>1 DEF Call
    <3> QED BY <1>1, <2>1, <3>1, CallStructure
  <2>2. CASE NodeSeq(w) \/ NodePar(w) \/ SpawnDone(w)
    <3>1. counter' = counter
      BY <2>2 DEF NodeSeq, NodePar, SpawnDone
    <3> QED BY <1>1, <2>2, <3>1, AdvanceStructure
  <2>3. CASE LamBody(w) \/ SeqField(w) \/ SpawnInline(w)
    <3>1. counter' = counter
      BY <2>3 DEF LamBody, SeqField, SpawnInline
    <3> QED BY <1>1, <2>3, <3>1, EnterStructure
  <2>4. CASE Spawn(w)
    <3>1. counter' = counter
      BY <2>4 DEF Spawn
    <3> QED BY <1>1, <2>4, <3>1, SpawnStructure
  <2>5. CASE Value(w)
    <3>1. On(w, "enter") /\ Give(w, Here(Top(w).loc))
      BY <2>5 DEF Value
    <3> QED BY <1>1, <3>1, GiveStructure
  <2>6. CASE LamDone(w)
    <3>1. On(w, "lam") /\ Give(w, LiftLam(Top(w).loc, Top(w).out[1]))
      BY <2>6 DEF LamDone
    <3> QED BY <1>1, <3>1, GiveStructure
  <2>7. CASE SeqErased(w)
    <3>1. On(w, "seq") /\ Give(w, Era)
      BY <2>7 DEF SeqErased
    <3> QED BY <1>1, <3>1, GiveStructure
  <2>8. CASE SeqDone(w)
    <3>1. On(w, "seq") /\ Give(w, Lift(Top(w).loc, Top(w).out))
      BY <2>8 DEF SeqDone
    <3> QED BY <1>1, <3>1, GiveStructure
  <2>9. CASE JoinDone(w)
    <3>1. On(w, "join") /\ Top(w).pend = 0 /\ Give(w, Lift(Top(w).loc, Top(w).out))
      BY <2>9 DEF JoinDone
    <3> QED BY <1>1, <3>1, GiveStructure
  <2>10. CASE TaskDone(w)
    BY <1>1, <2>10, TaskDoneStructure
  <2>11. CASE JoinWait(w) \/ Help(w) \/ PopNone(w) \/ StealFails(w) \/ FoundNone(w)
    <3>1. PopNone(w) \/ counter' = counter
      BY <2>11 DEF JoinWait, Help, StealFails, FoundNone
    <3> QED BY <1>1, <2>11, <3>1, LookStructure
  <2>12. CASE PopOwn(w) \/ StealCounts(w)
    <3>1. StealCounts(w) \/ counter' = counter
      BY <2>12 DEF PopOwn
    <3> QED BY <1>1, <2>12, <3>1, RunStructure
  <2>13. CASE StealTakes(w)
    <3>1. counter' = counter
      BY <2>13 DEF StealTakes
    <3> QED BY <1>1, <2>13, <3>1, StealStructure
  <2> QED BY <1>1, <2>1, <2>2, <2>3, <2>4, <2>5, <2>6, <2>7, <2>8, <2>9, <2>10, <2>11,
             <2>12, <2>13 DEF Compute, Find
<1>3. PoolCount'
  BY <1>1, <1>2, CountSteps
<1> QED BY <1>2, <1>3 DEF IInv, Structure

\* The inductive invariant: the calls and the tasks of the pool are what the code
\* of cnf_at, cnf_pool_spawn, cnf_pool_try_pop and cnf_task_run takes them for.
THEOREM Invariance == Spec => []IInv
<1>1. IInv /\ [Next]_vars => IInv'
  <2> SUFFICES ASSUME IInv, [Next]_vars PROVE IInv'
    OBVIOUS
  <2>1. CASE \E w \in Workers : Worker(w)
    BY <2>1, WorkerIInv
  <2>2. CASE UNCHANGED vars
    BY <2>2, StutterIInv
  <2> QED BY <2>1, <2>2 DEF Next, Done
<1> QED BY InitIInv, <1>1, PTL DEF Spec

\* cnf_pool_try_run reads a counter that is the number of the active workers.
THEOREM CountsTheActive == Spec => []PoolCount
<1>1. IInv => PoolCount
  BY DEF IInv
<1> QED BY Invariance, <1>1, PTL

-----------------------------------------------------------------------------
(* What the invariant is for: the counter of a fork, and the pointers into *)
(* its frame.                                                              *)

LEMMA FramesAre ==
  /\ \A w \in Workers : \A d \in 1..Depth(w) : <<w, d>> \in Frames
  /\ \A f \in Frames : \E w \in Workers : \E d \in 1..Depth(w) : f = <<w, d>>
BY DEF Frames

\* A set with at most one element.
LEMMA OneOrNone ==
  ASSUME NEW S, NEW B, B <=> S # {}, \A x, y \in S : x = y
  PROVE  Cardinality(S) = IF B THEN 1 ELSE 0
<1>1. CASE S = {}
  <2>1. ~B /\ Cardinality(S) = 0
    BY <1>1, FS_EmptySet
  <2> QED BY <2>1
<1>2. CASE S # {}
  <2>1. PICK x : S = {x}
    BY <1>2
  <2>2. B /\ Cardinality(S) = 1
    BY <1>2, <2>1, FS_Singleton
  <2> QED BY <2>2
<1> QED BY <1>1, <1>2

\* A task that is out is in one place.
LEMMA OneCopy ==
  ASSUME Types, Structure, NEW p
  PROVE  Copies(p) = IF IsOut(p) THEN 1 ELSE 0
<1>0. /\ InQueue(p) \/ InHand(p) => ~InRun(p)
      /\ InQueue(p) => ~InHand(p)
      /\ RunApart /\ QueuedApart /\ HeldApart
  BY ByTask
<1>1. Cardinality(Queued(p)) = IF InQueue(p) THEN 1 ELSE 0
  <2>1. ASSUME NEW s \in Queued(p)
        PROVE  \E v \in Workers : \E i \in 1..Len(dq[v]) : s = <<v, i>> /\ dq[v][i].to = p
    <3>1. PICK v \in Workers, i \in 1..Cap : s = <<v, i>>
      BY DEF Queued
    <3>2. i <= Len(dq[v]) /\ dq[v][i].to = p
      BY <3>1 DEF Queued
    <3>3. i \in 1..Len(dq[v])
      BY <3>1, <3>2, TaskTyped, CnfAssumption
    <3> QED BY <3>1, <3>2, <3>3
  <2>2. ASSUME NEW v \in Workers, NEW i \in 1..Len(dq[v]), dq[v][i].to = p
        PROVE  <<v, i>> \in Queued(p)
    <3>1. Len(dq[v]) \in Nat /\ Len(dq[v]) <= Cap /\ Cap \in Nat
      BY TaskTyped, CnfAssumption DEF Types
    <3>2. i \in 1..Cap /\ i <= Len(dq[v])
      BY <3>1
    <3> QED BY <2>2, <3>2 DEF Queued
  <2>3. InQueue(p) <=> Queued(p) # {}
    BY <2>1, <2>2 DEF InQueue
  <2>4. \A s, t \in Queued(p) : s = t
    BY <1>0, <2>1 DEF QueuedApart
  <2> QED BY <2>3, <2>4, OneOrNone
<1>2. Cardinality(Held(p)) = IF InHand(p) THEN 1 ELSE 0
  <2>1. InHand(p) <=> Held(p) # {}
    BY DEF InHand, Held
  <2>2. \A v, u \in Held(p) : v = u
    BY <1>0 DEF Held, HeldApart
  <2> QED BY <2>1, <2>2, OneOrNone
<1>3. Cardinality(Running(p)) = IF InRun(p) THEN 1 ELSE 0
  <2>1. ASSUME NEW f \in Running(p)
        PROVE  \E v \in Workers : \E d \in 1..Depth(v) :
                 f = <<v, d>> /\ stack[v][d].task /\ stack[v][d].to = p
    BY FramesAre DEF Running, FrameAt
  <2>2. ASSUME NEW v \in Workers, NEW d \in 1..Depth(v),
               stack[v][d].task, stack[v][d].to = p
        PROVE  <<v, d>> \in Running(p)
    BY <2>2, FramesAre DEF Running, FrameAt
  <2>3. InRun(p) <=> Running(p) # {}
    BY <2>1, <2>2 DEF InRun
  <2>4. \A f, g \in Running(p) : f = g
    BY <1>0, <2>1 DEF RunApart
  <2> QED BY <2>3, <2>4, OneOrNone
<1>4. CASE InQueue(p)
  BY <1>0, <1>1, <1>2, <1>3, <1>4 DEF Copies, IsOut
<1>5. CASE InHand(p)
  BY <1>0, <1>1, <1>2, <1>3, <1>5 DEF Copies, IsOut
<1>6. CASE InRun(p)
  BY <1>0, <1>1, <1>2, <1>3, <1>6 DEF Copies, IsOut
<1>7. CASE ~IsOut(p)
  BY <1>1, <1>2, <1>3, <1>7 DEF Copies, IsOut
<1> QED BY <1>4, <1>5, <1>6, <1>7 DEF IsOut

\* cnf_pool_join returns when the counter is zero, and then no task of the fork is
\* in a deque, in a hand or running.
THEOREM CountsTheTasks == Spec => []TasksCounted
<1>1. IInv => TasksCounted
  <2> SUFFICES ASSUME IInv, NEW f \in Frames
               PROVE  /\ FrameAt(f).pend = Cardinality(Out(f)) + Unspawned(f)
                      /\ \A i \in Out(f) : Copies(<<f[1], f[2], i>>) = 1
    BY DEF TasksCounted
  <2>1. Types /\ Structure
    BY DEF IInv, Structure
  <2>2. PICK w \in Workers : \E d \in 1..Depth(w) : f = <<w, d>>
    BY FramesAre
  <2>3. PICK d \in 1..Depth(w) : f = <<w, d>>
    BY <2>2
  <2>4. \A i : Copies(<<w, d, i>>) = IF IsOut(<<w, d, i>>) THEN 1 ELSE 0
    BY <2>1, OneCopy
  <2>5. Out(f) = FieldsOut(w, d)
    <3>1. DOMAIN stack[w][d].out = 1..Len(stack[w][d].out)
      BY <2>1, FrameTyped
    <3>2. \A i : Copies(<<w, d, i>>) > 0 <=> IsOut(<<w, d, i>>)
      BY <2>4
    <3> QED BY <2>3, <3>1, <3>2 DEF Out, FieldsOut, FrameAt, Place
  <2>6. FrameCounted(w, d)
    BY <2>1 DEF Structure, FieldsCounted
  <2>7. \A i \in Out(f) : Copies(<<f[1], f[2], i>>) = 1
    BY <2>3, <2>4, <2>5 DEF FieldsOut, Place
  <2> QED BY <2>3, <2>5, <2>6, <2>7 DEF FrameCounted, FrameAt
<1> QED BY Invariance, <1>1, PTL

\* The pointers of a task, into the frame of the call that forked it, are good
\* until the task has been counted out.
THEOREM NoTaskDangles == Spec => []NoDangling
<1>1. IInv => NoDangling
  <2> SUFFICES ASSUME IInv, NEW p \in Targets
               PROVE  /\ <<p[1], p[2]>> \in Frames
                      /\ FrameAt(p).step \in {"spawn", "join"}
                      /\ p[3] \in DOMAIN FrameAt(p).out
                      /\ FrameAt(p).out[p[3]] # None =>
                           \E f \in Running(p) : FrameAt(f).step = "sub"
    BY DEF NoDangling
  <2>1. Types /\ Structure /\ RunPoint
    BY DEF IInv, Structure, TasksPoint
  <2>2. IsOut(p)
    <3>1. CASE p \in {dq[f[1]][f[2]].to : f \in {g \in Workers \X (1..Cap) : g[2] <= Len(dq[g[1]])}}
      <4>1. PICK g \in Workers \X (1..Cap) : g[2] <= Len(dq[g[1]]) /\ dq[g[1]][g[2]].to = p
        BY <3>1
      <4>2. g[1] \in Workers /\ g[2] \in 1..Len(dq[g[1]])
        BY <2>1, <4>1, TaskTyped, CnfAssumption
      <4> QED BY <4>1, <4>2 DEF IsOut, InQueue
    <3>2. CASE p \in {pool[w].task.to : w \in {v \in Workers : pool[v].op = "count"}}
      BY <3>2 DEF IsOut, InHand
    <3>3. CASE p \in {FrameAt(f).to : f \in {g \in Frames : FrameAt(g).task}}
      <4>1. PICK f \in Frames : FrameAt(f).task /\ FrameAt(f).to = p
        BY <3>3
      <4>2. PICK w \in Workers : \E d \in 1..Depth(w) : f = <<w, d>>
        BY FramesAre
      <4> QED BY <4>1, <4>2 DEF IsOut, InRun, FrameAt
    <3> QED BY <3>1, <3>2, <3>3 DEF Targets
  <2>3. p \in Places /\ Awaits(p)
    BY <2>1, <2>2, OutAwaits
  <2>4. p[1] \in Workers /\ p[2] \in 1..Depth(p[1])
    BY <2>3, PlaceParts DEF Awaits
  <2>5. /\ <<p[1], p[2]>> \in Frames /\ FrameAt(p).step \in {"spawn", "join"}
        /\ p[3] \in DOMAIN FrameAt(p).out
    <3>1. DOMAIN stack[p[1]][p[2]].out = 1..Len(stack[p[1]][p[2]].out)
      BY <2>1, <2>4, FrameTyped
    <3> QED BY <2>3, <2>4, <3>1, FramesAre DEF Awaits, FrameAt
  <2>6. ASSUME FrameAt(p).out[p[3]] # None
        PROVE  \E f \in Running(p) : FrameAt(f).step = "sub"
    <3>1. ~Awaited(p)
      BY <2>6 DEF Awaited, FrameAt
    <3>2. InRun(p)
      BY <2>1, <2>2, <3>1, ByTask DEF IsOut
    <3>3. PICK v \in Workers : \E d \in 1..Depth(v) : stack[v][d].task /\ stack[v][d].to = p
      BY <3>2 DEF InRun
    <3>4. PICK d \in 1..Depth(v) : stack[v][d].task /\ stack[v][d].to = p
      BY <3>3
    <3>5. stack[v][d].step = "sub"
      BY <2>1, <3>1, <3>4 DEF RunPoint
    <3>6. <<v, d>> \in Running(p)
      BY <3>4, FramesAre DEF Running, FrameAt
    <3> QED BY <3>5, <3>6 DEF FrameAt
  <2> QED BY <2>5, <2>6
<1> QED BY Invariance, <1>1, PTL
=============================================================================
