-------------------------- MODULE NormalizeProofs --------------------------
(***************************************************************************)
(* Normalize for any number of workers, any capacity of their deques and   *)
(* any heap: its inductive invariant, and that no worker leaves before     *)
(* everything is evaluated.                                                *)
(***************************************************************************)
EXTENDS Normalize, FiniteSetTheorems, TLAPS

-----------------------------------------------------------------------------
(* The tasks in a deque, and those of a stack of enqueue loops.            *)

LEMMA RangeAppend ==
  ASSUME NEW S, NEW s \in Seq(S), NEW e
  PROVE  Range(Append(s, e)) = Range(s) \cup {e}
<1>1. DOMAIN s = 1..Len(s) /\ DOMAIN Append(s, e) = 1..(Len(s) + 1) /\ Len(s) \in Nat
  OBVIOUS
<1>2. \A i \in 1..Len(s) : Append(s, e)[i] = s[i]
  OBVIOUS
<1>3. Append(s, e)[Len(s) + 1] = e
  OBVIOUS
<1> QED BY <1>1, <1>2, <1>3 DEF Range

LEMMA RangeTail ==
  ASSUME NEW S, NEW s \in Seq(S), s # <<>>
  PROVE  /\ Head(s) \in S /\ Tail(s) \in Seq(S)
         /\ Range(s) = Range(Tail(s)) \cup {Head(s)}
<1>1. DOMAIN s = 1..Len(s) /\ DOMAIN Tail(s) = 1..(Len(s) - 1) /\ Len(s) \in Nat \ {0}
  OBVIOUS
<1>2. \A i \in 1..(Len(s) - 1) : Tail(s)[i] = s[i + 1]
  OBVIOUS
<1>3. Head(s) = s[1] /\ Head(s) \in S /\ Tail(s) \in Seq(S)
  OBVIOUS
<1>4. \A i \in 1..Len(s) : i = 1 \/ i - 1 \in 1..(Len(s) - 1)
  BY <1>1
<1>5. \A i \in 1..(Len(s) - 1) : i + 1 \in 1..Len(s)
  BY <1>1
<1>6. 1 \in 1..Len(s)
  BY <1>1
<1>7. ASSUME NEW i \in 1..Len(s) PROVE s[i] \in Range(Tail(s)) \cup {Head(s)}
  <2>1. CASE i = 1
    BY <2>1, <1>3
  <2>2. CASE i - 1 \in 1..(Len(s) - 1)
    <3>1. (i - 1) + 1 = i
      OBVIOUS
    <3>2. Tail(s)[i - 1] = s[i]
      BY <2>2, <3>1, <1>2
    <3> QED BY <2>2, <3>2, <1>1 DEF Range
  <2> QED BY <2>1, <2>2, <1>4
<1>8. Range(Tail(s)) \subseteq Range(s) /\ Head(s) \in Range(s)
  BY <1>1, <1>2, <1>3, <1>5, <1>6 DEF Range
<1>9. Range(s) \subseteq Range(Tail(s)) \cup {Head(s)}
  BY <1>1, <1>7 DEF Range
<1> QED BY <1>3, <1>8, <1>9

LEMMA RangeFront ==
  ASSUME NEW S, NEW s \in Seq(S), s # <<>>
  PROVE  /\ s[Len(s)] \in S /\ SubSeq(s, 1, Len(s) - 1) \in Seq(S)
         /\ Len(SubSeq(s, 1, Len(s) - 1)) = Len(s) - 1
         /\ Range(s) = Range(SubSeq(s, 1, Len(s) - 1)) \cup {s[Len(s)]}
<1> DEFINE r == SubSeq(s, 1, Len(s) - 1)
<1>1. DOMAIN s = 1..Len(s) /\ Len(s) \in Nat \ {0}
  OBVIOUS
<1>2. r \in Seq(S) /\ Len(r) = Len(s) - 1 /\ DOMAIN r = 1..(Len(s) - 1)
  BY <1>1
<1>3. \A i \in 1..(Len(s) - 1) : r[i] = s[i]
  BY <1>1
<1>4. s[Len(s)] \in S
  BY <1>1
<1> HIDE DEF r
<1>5. Range(s) = Range(r) \cup {s[Len(s)]}
  BY <1>1, <1>2, <1>3 DEF Range
<1> QED BY <1>2, <1>4, <1>5 DEF r

LEMMA LoopsAppend ==
  ASSUME NEW S, NEW s \in Seq(S), NEW f
  PROVE  Loops(Append(s, f)) = Loops(s) \cup Ahead(f)
<1>1. Len(s) \in Nat /\ Len(Append(s, f)) = Len(s) + 1
  OBVIOUS
<1>2. \A i \in 1..Len(s) : Append(s, f)[i] = s[i]
  OBVIOUS
<1>3. Append(s, f)[Len(s) + 1] = f
  OBVIOUS
<1>4. 1..(Len(s) + 1) = (1..Len(s)) \cup {Len(s) + 1}
  BY <1>1
<1> QED BY <1>1, <1>2, <1>3, <1>4 DEF Loops

LEMMA LoopsFront ==
  ASSUME NEW S, NEW s \in Seq(S), s # <<>>
  PROVE  Loops(s) = Loops(SubSeq(s, 1, Len(s) - 1)) \cup Ahead(s[Len(s)])
<1> DEFINE r == SubSeq(s, 1, Len(s) - 1)
<1>0. Len(s) \in Nat \ {0}
  OBVIOUS
<1>1. Len(r) = Len(s) - 1
  BY RangeFront
<1>2. \A i \in 1..Len(r) : r[i] = s[i]
  BY <1>0, <1>1
<1>3. 1..Len(s) = (1..Len(r)) \cup {Len(s)}
  BY <1>0, <1>1
<1> HIDE DEF r
<1>4. Loops(s) = Loops(r) \cup Ahead(s[Len(s)])
  BY <1>1, <1>2, <1>3 DEF Loops
<1> QED BY <1>4 DEF r

\* One step of an enqueue loop.
LEMMA AheadStep ==
  ASSUME NEW l, NEW i \in Nat \ {0}
  PROVE  Ahead(<<l, i>>) = Ahead(<<l, i - 1>>) \cup {Kids[l][i]}
<1>1. 1..i = (1..(i - 1)) \cup {i}
  OBVIOUS
<1> QED BY <1>1 DEF Ahead

-----------------------------------------------------------------------------
(* Workers and the counter of the active ones.                             *)

Busy == {"visit", "eval", "enqueue"}

LEMMA WorkersFinite == IsFiniteSet(Workers) /\ Cardinality(Workers) = N
BY NormalizeAssumption, FS_Interval DEF Workers

LEMMA VictimIsWorker ==
  ASSUME TypeOK, NEW w \in Workers
  PROVE  Victim(w) \in Workers
<1>1. start[w] \in Workers /\ k[w] \in Nat
  BY DEF TypeOK
<1>2. start[w] + k[w] \in Nat /\ N \in Nat \ {0}
  BY <1>1, NormalizeAssumption DEF Workers
<1>3. \A i \in Nat : i % N \in 0..(N - 1)
  BY NormalizeAssumption
<1> QED BY <1>2, <1>3 DEF Victim, Workers

LEMMA ActiveFinite == IsFiniteSet({w \in Workers : active[w]})
BY WorkersFinite, FS_Subset

LEMMA NoneActive ==
  ASSUME PendingExact, pending = 0
  PROVE  \A w \in Workers : ~active[w]
BY ActiveFinite, FS_EmptySet DEF PendingExact

\* A step of a worker outside eval_normalize_go that moves no task.
LEMMA Quiet ==
  ASSUME IInv, NEW w \in Workers, NEW s \in Steps,
         pc' = [pc EXCEPT ![w] = s], pc[w] \notin Busy, s \notin Busy,
         UNCHANGED <<dq, seen, done, loc, frames>>
  PROVE  /\ Claims' /\ EvaluatedOnce' /\ Coverage'
         /\ s # "exited" => ExitComplete'
<1>0. pc \in [Workers -> Steps]
  BY DEF IInv, TypeOK
<1>1. \A u \in Workers : /\ pc'[u] = "visit" <=> pc[u] = "visit"
                         /\ pc'[u] = "eval" <=> pc[u] = "eval"
                         /\ s # "exited" /\ pc'[u] = "exited" => pc[u] = "exited"
  BY <1>0 DEF Busy
<1>2. \A u \in Workers : Tasks(u)' = Tasks(u)
  BY <1>1 DEF Tasks, InHand
<1>3. Due' = Due
  BY DEF Due
<1>4. Claims'
  BY <1>1, <1>3 DEF IInv, Claims
<1>5. EvaluatedOnce'
  BY <1>1 DEF IInv, EvaluatedOnce
<1>6. Coverage'
  BY <1>2, <1>3 DEF IInv, Coverage
<1>7. s # "exited" => ExitComplete'
  BY <1>1, <1>3 DEF IInv, ExitComplete
<1> QED BY <1>4, <1>5, <1>6, <1>7

\* When no worker is active nothing is left to do.
LEMMA Quiescent ==
  ASSUME IInv, \A w \in Workers : ~active[w]
  PROVE  Due \subseteq done
<1>1. \A w \in Workers : dq[w] = <<>> /\ frames[w] = <<>> /\ pc[w] \in Idle
  BY DEF IInv, PendingExact
<1>2. \A w \in Workers : Tasks(w) = {}
  BY <1>1 DEF Tasks, InHand, Loops, Range, Idle
<1>3. \A w \in Workers : pc[w] # "eval"
  BY <1>1 DEF Idle
<1>4. Due \subseteq seen
  BY <1>2 DEF IInv, Coverage
<1>5. seen \subseteq done
  BY <1>3 DEF IInv, Claims
<1> QED BY <1>4, <1>5

-----------------------------------------------------------------------------
(* The initial state: all workers active, the root in the deque of 0.      *)

LEMMA InitIInv == Init => IInv
<1> SUFFICES ASSUME Init PROVE IInv
  OBVIOUS
<1>0. N \in Nat /\ Root \in Locs
  BY NormalizeAssumption
<1>z. 0 \in Workers
  BY NormalizeAssumption DEF Workers
<1>1. \A w \in Workers : /\ pc[w] = "poll" /\ active[w] = TRUE /\ start[w] = 0 /\ k[w] = 0
                         /\ fresh[w] = FALSE /\ loc[w] = 0 /\ frames[w] = <<>>
  BY DEF Init
<1>2. dq[0] = <<Root>> /\ \A w \in Workers : w # 0 => dq[w] = <<>>
  <2>1. dq = [w \in Workers |-> IF w = 0 THEN <<Root>> ELSE <<>>]
    BY DEF Init
  <2> QED BY <1>z, <2>1, Zenon
<1>3. TypeOK
  <2>1. dq \in [Workers -> Seq(Locs \cup {0})]
    <3>1. <<Root>> \in Seq(Locs \cup {0}) /\ <<>> \in Seq(Locs \cup {0})
      BY <1>0
    <3>2. dq = [w \in Workers |-> IF w = 0 THEN <<Root>> ELSE <<>>]
      BY DEF Init
    <3> QED BY <3>1, <3>2, Zenon
  <2>2. frames \in [Workers -> Seq(Locs \X Nat)]
    BY DEF Init
  <2>3. /\ pc \in [Workers -> Steps] /\ active \in [Workers -> BOOLEAN]
        /\ k \in [Workers -> Nat]
        /\ fresh \in [Workers -> BOOLEAN] /\ loc \in [Workers -> Locs \cup {0}]
    BY DEF Init, Steps
  <2>4. start \in [Workers -> Workers]
    <3>1. start = [w \in Workers |-> 0]
      BY DEF Init
    <3> QED BY <1>z, <3>1
  <2>5. pending = N /\ seen = {} /\ done = {}
    BY DEF Init
  <2> QED BY <1>0, <2>1, <2>2, <2>3, <2>4, <2>5 DEF TypeOK
<1>4. PendingExact
  <2>1. {w \in Workers : active[w]} = Workers
    BY <1>1
  <2> QED BY <1>1, <2>1, WorkersFinite DEF PendingExact, Init
<1>5. Control /\ Snapshots
  BY <1>1 DEF Control, Snapshots
<1>6. Claims /\ EvaluatedOnce /\ ExitComplete
  BY <1>1 DEF Claims, EvaluatedOnce, ExitComplete, Init
<1>7. Coverage
  <2>1. Due = {Root}
    BY DEF Due, Init
  <2>2. \A w \in Workers : Tasks(w) = Range(dq[w])
    BY <1>1 DEF Tasks, InHand, Loops
  <2>3. Range(<<Root>>) = {Root}
    BY DEF Range
  <2>4. \A w \in Workers : w # 0 => Range(dq[w]) = {}
    <3>1. Range(<<>>) = {}
      BY DEF Range
    <3> QED BY <1>2, <3>1
  <2>5. Tasks(0) = {Root}
    BY <1>z, <1>2, <2>2, <2>3, Zenon
  <2>6. \A w \in Workers : Tasks(w) \subseteq {Root}
    BY <2>2, <2>4, <2>5
  <2>7. \E w \in Workers : Root \in Tasks(w)
    BY <1>z, <2>5
  <2> QED BY <2>1, <2>6, <2>7 DEF Coverage
<1> QED BY <1>3, <1>4, <1>5, <1>6, <1>7 DEF IInv

-----------------------------------------------------------------------------
(* The worker's loop and its own deque.                                    *)

LEMMA OwnIInv ==
  ASSUME IInv, NEW w \in Workers, Own(w)
  PROVE  IInv'
<1> USE DEF Goto, scanning, going
<1>0. TypeOK /\ PendingExact /\ Control /\ Snapshots /\ Claims /\ EvaluatedOnce
      /\ Coverage /\ ExitComplete
  BY DEF IInv
<1>1. CASE Stop(w) \/ Poll(w)
  <2> USE <1>0, <1>1 DEF Stop, Poll
  <2>1. PICK s \in {"exited", "popping"} : s \in Steps /\ pc' = [pc EXCEPT ![w] = s]
                                           /\ (s = "exited" => pending = 0)
    BY DEF Steps
  <2>2. TypeOK'
    BY <2>1 DEF TypeOK, Steps
  <2>3. PendingExact'
    <3>1. pending = Cardinality({u \in Workers : active[u]})
      BY DEF PendingExact
    <3>2. \A u \in Workers : pc[u] \in Idle => pc'[u] \in Idle
      BY <2>1 DEF Idle, TypeOK
    <3> QED BY <3>1, <3>2 DEF PendingExact
  <2>4. Control'
    BY <2>1 DEF Control, TypeOK
  <2>5. Snapshots'
    BY <2>1 DEF Snapshots, Victim, TypeOK
  <2>6. Claims' /\ EvaluatedOnce' /\ Coverage' /\ (s # "exited" => ExitComplete')
    BY <2>1, Quiet DEF Busy
  <2>7. s = "exited" => ExitComplete'
    <3>1. s = "exited" => Due \subseteq done
      BY <2>1, NoneActive, Quiescent
    <3> QED BY <3>1 DEF ExitComplete, Due
  <2> QED BY <2>2, <2>3, <2>4, <2>5, <2>6, <2>7 DEF IInv
<1>2. CASE PopTask(w)
  <2> DEFINE e == dq[w][Len(dq[w])]
             r == SubSeq(dq[w], 1, Len(dq[w]) - 1)
  <2>0. dq[w] \in Seq(Locs \cup {0}) /\ pc \in [Workers -> Steps] /\ dq[w] # <<>>
        /\ dq \in [Workers -> Seq(Locs \cup {0})] /\ Len(dq[w]) \in Nat \ {0}
        /\ loc \in [Workers -> Locs \cup {0}]
    BY <1>0, <1>2 DEF TypeOK, PopTask
  <2>1. /\ e \in Locs \cup {0} /\ r \in Seq(Locs \cup {0}) /\ Len(r) = Len(dq[w]) - 1
        /\ Range(dq[w]) = Range(r) \cup {e}
    BY <2>0, RangeFront
  <2>2. /\ pc[w] = "popping" /\ pc' = [pc EXCEPT ![w] = "visit"]
        /\ dq' = [dq EXCEPT ![w] = r] /\ loc' = [loc EXCEPT ![w] = e]
        /\ IF Len(dq[w]) = 1 THEN TopMoves(w) ELSE UNCHANGED fresh
        /\ UNCHANGED <<pending, seen, done, active, start, k, frames>>
    BY <1>2 DEF PopTask
  <2> HIDE DEF e, r
  <2>3. fresh' \in [Workers -> BOOLEAN] /\ \A u \in Workers : fresh'[u] => fresh[u]
    BY <1>0, <2>2 DEF TopMoves, TypeOK
  <2>4. TypeOK'
    <3>1. dq' \in [Workers -> Seq(Locs \cup {0})] /\ loc' \in [Workers -> Locs \cup {0}]
      BY <2>0, <2>1, <2>2
    <3>2. pc' \in [Workers -> Steps]
      BY <2>0, <2>2 DEF Steps
    <3> QED BY <1>0, <2>2, <2>3, <3>1, <3>2 DEF TypeOK
  <2>5. PendingExact'
    BY <1>0, <2>0, <2>2 DEF PendingExact, Idle
  <2>6. Control'
    <3>1. frames[w] = <<>> /\ Len(frames[w]) = 0
      BY <1>0, <2>2 DEF Control
    <3>2. dq[w] # <<>> /\ pc[w] = "popping"
      BY <2>0, <2>2
    <3>3. /\ \A u \in Workers : frames'[u] = frames[u]
          /\ \A u \in Workers : u # w => /\ pc'[u] = pc[u] /\ dq'[u] = dq[u]
          /\ pc'[w] = "visit" /\ active' = active /\ done' = done
      BY <1>0, <2>2 DEF TypeOK
    <3> HIDE DEF TypeOK
    <3>4. Control
      BY <1>0
    <3> SUFFICES ASSUME NEW u \in Workers
                 PROVE  /\ pc'[u] \notin {"visit", "eval", "enqueue"} => frames'[u] = <<>>
                        /\ pc'[u] = "enqueue" => frames'[u] # <<>>
                        /\ pc'[u] \in {"scan", "enter", "steal", "cas"} => dq'[u] = <<>>
                        /\ pc'[u] = "enter" => ~active'[u]
                        /\ \A j \in 1..Len(frames'[u]) :
                             /\ frames'[u][j][1] \in done'
                             /\ frames'[u][j][2] \in 1..Len(Kids[frames'[u][j][1]])
      BY DEF Control
    <3>5. CASE u = w
      BY <3>1, <3>3, <3>4, <3>5 DEF Control
    <3>6. CASE u # w
      BY <3>3, <3>4, <3>6 DEF Control
    <3> QED BY <3>5, <3>6
  <2>7. Snapshots'
    <3> SUFFICES ASSUME NEW u \in Workers, fresh'[u]
                 PROVE  pc'[u] = "cas" /\ dq'[Victim(u)] # <<>> /\ Victim(u)' = Victim(u)
      BY DEF Snapshots
    <3>1. Victim(u)' = Victim(u)
      BY <2>2 DEF Victim
    <3>2. fresh[u] /\ u # w /\ pc[u] = "cas" /\ dq[Victim(u)] # <<>> /\ Victim(u) \in Workers
      BY <1>0, <2>2, <2>3, VictimIsWorker DEF Snapshots
    <3>3. CASE Victim(u) = w
      <4>1. Len(dq[w]) # 1
        BY <2>2, <3>3 DEF TopMoves
      <4>2. r # <<>>
        BY <2>0, <2>1, <4>1
      <4> QED BY <2>0, <2>2, <3>1, <3>2, <3>3, <4>2
    <3>4. CASE Victim(u) # w
      BY <2>0, <2>2, <3>1, <3>2, <3>4
    <3> QED BY <3>3, <3>4
  <2>8. Claims' /\ EvaluatedOnce' /\ ExitComplete'
    BY <1>0, <2>0, <2>2 DEF Claims, EvaluatedOnce, ExitComplete, Due
  <2>9. Coverage'
    <3>1. \A u \in Workers : Tasks(u)' = Tasks(u)
      BY <2>0, <2>1, <2>2 DEF Tasks, InHand
    <3> QED BY <1>0, <2>2, <3>1 DEF Coverage, Due
  <2> QED BY <2>4, <2>5, <2>6, <2>7, <2>8, <2>9 DEF IInv
<1>3. CASE PopNothing(w)
  <2> USE <1>0, <1>3 DEF PopNothing
  <2>1. TypeOK'
    BY DEF TypeOK, Steps
  <2>2. PendingExact'
    BY DEF PendingExact, Idle, TypeOK
  <2>3. Control'
    BY DEF Control, TypeOK
  <2>4. Snapshots'
    <3>1. ~fresh[w]
      BY DEF Snapshots
    <3>2. \A u \in Workers : u # w => Victim(u)' = Victim(u)
      BY DEF Victim, TypeOK
    <3> QED BY <3>1, <3>2 DEF Snapshots, TypeOK
  <2>5. pc' = [pc EXCEPT ![w] = "scan"] /\ pc[w] \notin Busy /\ "scan" \notin Busy
        /\ "scan" # "exited" /\ "scan" \in Steps
        /\ UNCHANGED <<dq, seen, done, loc, frames>>
    BY DEF Busy, Steps
  <2>6. Claims' /\ EvaluatedOnce' /\ Coverage' /\ ExitComplete'
    BY <2>5, Quiet
  <2> QED BY <2>1, <2>2, <2>3, <2>4, <2>6 DEF IInv
<1> QED BY <1>1, <1>2, <1>3 DEF Own

-----------------------------------------------------------------------------
(* The scan for a victim.                                                  *)

\* What the steps of the scan that take no task have in common.
LEMMA ScanQuiet ==
  ASSUME IInv, NEW w \in Workers, NEW s \in {"scan", "enter", "steal", "cas", "poll"},
         pc[w] \in {"scan", "enter", "steal", "cas"}, pc' = [pc EXCEPT ![w] = s],
         UNCHANGED <<dq, seen, done, loc, frames>>,
         s = "enter" => ~active'[w],
         \A u \in Workers : u # w => (active'[u] <=> active[u]) /\ (fresh'[u] <=> fresh[u])
                                     /\ start'[u] = start[u] /\ k'[u] = k[u],
         fresh'[w] => s = "cas" /\ dq[Victim(w)] # <<>> /\ start'[w] = start[w] /\ k'[w] = k[w]
  PROVE  /\ Control' /\ Snapshots' /\ Claims' /\ EvaluatedOnce' /\ Coverage' /\ ExitComplete'
         /\ frames'[w] = <<>> /\ dq'[w] = <<>>
<1>0. Control /\ Snapshots /\ pc \in [Workers -> Steps]
  BY DEF IInv, TypeOK
<1>1. frames[w] = <<>> /\ dq[w] = <<>> /\ Len(frames[w]) = 0
  BY <1>0 DEF Control
<1>2. Control'
  BY <1>0, <1>1 DEF Control
<1>3. Snapshots'
  <2> SUFFICES ASSUME NEW u \in Workers, fresh'[u]
               PROVE  pc'[u] = "cas" /\ dq[Victim(u)'] # <<>>
    BY DEF Snapshots
  <2>1. CASE u = w
    BY <1>0, <2>1 DEF Victim
  <2>2. CASE u # w
    BY <1>0, <2>2 DEF Snapshots, Victim
  <2> QED BY <2>1, <2>2
<1>4. s \in Steps /\ s \notin Busy /\ s # "exited" /\ pc[w] \notin Busy
  BY DEF Steps, Busy
<1>5. Claims' /\ EvaluatedOnce' /\ Coverage' /\ ExitComplete'
  BY <1>4, Quiet
<1> QED BY <1>1, <1>2, <1>3, <1>5

LEMMA ScanIInv ==
  ASSUME IInv, NEW w \in Workers, Scan(w), ~StealWin(w)
  PROVE  IInv'
<1> USE DEF Goto, scanning, going, NextVictim, EndScan
<1>0. TypeOK /\ PendingExact /\ Control /\ Snapshots
  BY DEF IInv
<1>t. /\ pc \in [Workers -> Steps] /\ active \in [Workers -> BOOLEAN]
      /\ start \in [Workers -> Workers] /\ k \in [Workers -> Nat]
      /\ fresh \in [Workers -> BOOLEAN] /\ pending \in Nat
  BY <1>0 DEF TypeOK
<1>n. N \in Nat /\ 0 \in Workers
  BY NormalizeAssumption DEF Workers
<1>1. CASE Skip(w)
  <2> USE <1>t, <1>1 DEF Skip
  <2>1. pc' = [pc EXCEPT ![w] = "scan"] /\ ~fresh[w]
    BY <1>0 DEF Snapshots
  <2>2. Control' /\ Snapshots' /\ Claims' /\ EvaluatedOnce' /\ Coverage' /\ ExitComplete'
    BY <2>1, ScanQuiet
  <2>3. TypeOK'
    BY <1>0 DEF TypeOK
  <2>4. PendingExact'
    BY <1>0 DEF PendingExact
  <2> QED BY <2>2, <2>3, <2>4 DEF IInv
<1>2. CASE Spot(w)
  <2> USE <1>t, <1>2 DEF Spot
  <2>1. PICK s \in {"steal", "enter"} : /\ pc' = [pc EXCEPT ![w] = s] /\ ~fresh[w]
                                        /\ s = "enter" <=> ~active[w]
    BY <1>0 DEF Snapshots
  <2>2. Control' /\ Snapshots' /\ Claims' /\ EvaluatedOnce' /\ Coverage' /\ ExitComplete'
    BY <2>1, ScanQuiet
  <2>3. TypeOK'
    BY <1>0, <2>1 DEF TypeOK, Steps
  <2>4. PendingExact'
    BY <1>0, <2>1 DEF PendingExact, Idle
  <2> QED BY <2>2, <2>3, <2>4 DEF IInv
<1>3. CASE Enter(w)
  <2> USE <1>t, <1>3 DEF Enter
  <2>1. ~active[w] /\ ~fresh[w]
    BY <1>0 DEF Control, Snapshots
  <2>2. Control' /\ Snapshots' /\ Claims' /\ EvaluatedOnce' /\ Coverage' /\ ExitComplete'
    BY <2>1, ScanQuiet
  <2>3. TypeOK'
    BY <1>0 DEF TypeOK, Steps
  <2>4. PendingExact'
    <3>1. {u \in Workers : active'[u]} = {u \in Workers : active[u]} \cup {w}
      OBVIOUS
    <3>2. pending' = Cardinality({u \in Workers : active'[u]})
      BY <1>0, <2>1, <3>1, ActiveFinite, FS_AddElement DEF PendingExact
    <3>3. \A u \in Workers : ~active'[u] => u # w /\ ~active[u]
      OBVIOUS
    <3> QED BY <1>0, <3>2, <3>3 DEF PendingExact
  <2> QED BY <2>2, <2>3, <2>4 DEF IInv
<1>4. CASE StealLook(w)
  <2> USE <1>t, <1>4 DEF StealLook
  <2>1. dq[Victim(w)] # <<>> /\ active[w]
    <3>1. Victim(w) \in Workers
      BY <1>0, VictimIsWorker
    <3>2. dq[Victim(w)] \in Seq(Locs \cup {0}) /\ Len(<<>>) = 0
      BY <1>0, <3>1 DEF TypeOK
    <3>3. dq[Victim(w)] # <<>>
      BY <3>2 DEF Visible
    <3> QED BY <1>0, <3>3 DEF PendingExact, Idle
  <2>2. Control' /\ Snapshots' /\ Claims' /\ EvaluatedOnce' /\ Coverage' /\ ExitComplete'
    BY <2>1, ScanQuiet
  <2>3. TypeOK'
    BY <1>0 DEF TypeOK, Steps
  <2>4. PendingExact'
    BY <1>0, <2>1 DEF PendingExact
  <2> QED BY <2>2, <2>3, <2>4 DEF IInv
<1>5. CASE StealEmpty(w) \/ StealLose(w)
  <2>1. /\ pc[w] \in {"steal", "cas"} /\ pc' = [pc EXCEPT ![w] = "scan"] /\ ~fresh[w]
        /\ k' = [k EXCEPT ![w] = @ + 1]
        /\ UNCHANGED <<pending, dq, seen, done, active, start, fresh, loc, frames>>
    BY <1>0, <1>5 DEF StealEmpty, StealLose, Snapshots
  <2>2. active[w]
    BY <1>0, <2>1 DEF PendingExact, Idle
  <2>3. Control' /\ Snapshots' /\ Claims' /\ EvaluatedOnce' /\ Coverage' /\ ExitComplete'
    BY <1>t, <2>1, <2>2, ScanQuiet
  <2>4. TypeOK'
    <3>1. k' \in [Workers -> Nat] /\ pc' \in [Workers -> Steps]
      BY <1>t, <2>1 DEF Steps
    <3> QED BY <1>0, <2>1, <3>1 DEF TypeOK
  <2>5. PendingExact'
    <3>1. \A u \in Workers : ~active[u] => pc'[u] = pc[u]
      BY <1>t, <2>1, <2>2
    <3> QED BY <1>0, <2>1, <3>1 DEF PendingExact
  <2> QED BY <2>3, <2>4, <2>5 DEF IInv
<1>6. CASE Retire(w)
  <2> USE <1>t, <1>6 DEF Retire
  <2>1. ~fresh[w]
    BY <1>0 DEF Snapshots
  <2>2. /\ Control' /\ Snapshots' /\ Claims' /\ EvaluatedOnce' /\ Coverage' /\ ExitComplete'
        /\ frames'[w] = <<>> /\ dq'[w] = <<>>
    BY <2>1, ScanQuiet
  <2>3. {u \in Workers : active'[u]} = {u \in Workers : active[u]} \ {w}
    OBVIOUS
  <2>4. pending' = Cardinality({u \in Workers : active'[u]}) /\ pending' \in Nat
    <3> DEFINE A == {u \in Workers : active[u]}
               B == {u \in Workers : active'[u]}
    <3>1. B = A \ {w} /\ (active[w] <=> w \in A)
      BY <2>3
    <3>2. IsFiniteSet(A) /\ pending = Cardinality(A) /\ IsFiniteSet(A \ {w})
      BY <1>0, ActiveFinite, FS_RemoveElement DEF PendingExact
    <3>3. pending' = IF active[w] THEN pending - 1 ELSE pending
      OBVIOUS
    <3> HIDE DEF A, B
    <3>4. Cardinality(A \ {w}) = IF w \in A THEN Cardinality(A) - 1 ELSE Cardinality(A)
      BY <3>2, FS_RemoveElement
    <3>5. Cardinality(A \ {w}) \in Nat
      BY <3>2, FS_CardinalityType
    <3>6. pending' = Cardinality(B) /\ pending' \in Nat
      BY ONLY <3>1, <3>2, <3>3, <3>4, <3>5
    <3> QED BY <3>6 DEF B
  <2>5. TypeOK'
    BY <1>0, <1>n, <2>4 DEF TypeOK, Steps
  <2>6. PendingExact'
    <3>1. \A u \in Workers : u # w => (active'[u] <=> active[u]) /\ pc'[u] = pc[u]
                                      /\ frames'[u] = frames[u] /\ dq'[u] = dq[u]
      OBVIOUS
    <3>2. pc'[w] \in Idle
      BY DEF Idle
    <3> QED BY <1>0, <2>2, <2>4, <3>1, <3>2 DEF PendingExact
  <2> QED BY <2>2, <2>5, <2>6 DEF IInv
<1> QED BY <1>1, <1>2, <1>3, <1>4, <1>5, <1>6 DEF Scan

\* A steal moves the victim's oldest task into the hands of the thief.
LEMMA StealWinIInv ==
  ASSUME IInv, NEW w \in Workers, StealWin(w)
  PROVE  IInv'
<1>v. PICK v \in Workers : v = Victim(w)
  BY VictimIsWorker DEF IInv
<1> DEFINE e == Head(dq[v])
           r == Tail(dq[v])
<1>0. TypeOK /\ PendingExact /\ Control /\ Snapshots /\ Claims /\ EvaluatedOnce
      /\ Coverage /\ ExitComplete
  BY DEF IInv
<1>t. /\ pc \in [Workers -> Steps] /\ dq \in [Workers -> Seq(Locs \cup {0})]
      /\ loc \in [Workers -> Locs \cup {0}]
      /\ start \in [Workers -> Workers] /\ k \in [Workers -> Nat]
      /\ fresh \in [Workers -> BOOLEAN]
  BY <1>0 DEF TypeOK
<1>1. v \in Workers /\ dq[v] \in Seq(Locs \cup {0}) /\ dq[v] # <<>>
  BY <1>0, <1>t, <1>v DEF StealWin, Snapshots
<1>2. /\ pc[w] = "cas" /\ fresh[w]
      /\ loc' = [loc EXCEPT ![w] = e] /\ dq' = [dq EXCEPT ![v] = r]
      /\ pc' = [pc EXCEPT ![w] = "visit"] /\ TopMoves(v)
      /\ start' = [start EXCEPT ![w] = 0] /\ k' = [k EXCEPT ![w] = 0]
      /\ UNCHANGED <<pending, seen, done, active, frames>>
  BY <1>v DEF StealWin, EndScan, Goto
<1>3. frames[w] = <<>> /\ dq[w] = <<>> /\ w # v /\ active[w] /\ Len(frames[w]) = 0
  BY <1>0, <1>1, <1>2 DEF Control, PendingExact, Idle
<1>4. e \in Locs \cup {0} /\ r \in Seq(Locs \cup {0}) /\ Range(dq[v]) = Range(r) \cup {e}
  BY <1>1, RangeTail
<1> HIDE DEF e, r
<1>5. /\ fresh' \in [Workers -> BOOLEAN]
      /\ \A u \in Workers : fresh'[u] => fresh[u] /\ Victim(u) # v
  BY <1>t, <1>2 DEF TopMoves
<1>6. TypeOK'
  <2>1. dq' \in [Workers -> Seq(Locs \cup {0})] /\ loc' \in [Workers -> Locs \cup {0}]
    BY <1>t, <1>1, <1>2, <1>4
  <2>2. pc' \in [Workers -> Steps]
    BY <1>t, <1>2 DEF Steps
  <2>3. start' \in [Workers -> Workers] /\ k' \in [Workers -> Nat]
    <3>1. 0 \in Workers
      BY NormalizeAssumption DEF Workers
    <3> QED BY <1>t, <1>2, <3>1
  <2> QED BY <1>0, <1>2, <1>5, <2>1, <2>2, <2>3 DEF TypeOK
<1>7. PendingExact'
  <2>1. \A u \in Workers : ~active[u] =>
          u # w /\ u # v /\ pc'[u] = pc[u] /\ dq'[u] = dq[u]
    BY <1>0, <1>t, <1>1, <1>2, <1>3 DEF PendingExact
  <2> QED BY <1>0, <1>2, <2>1 DEF PendingExact
<1>8. Control'
  <2>1. \A u \in Workers : dq[u] = <<>> => dq'[u] = <<>>
    BY <1>t, <1>1, <1>2
  <2>2. \A u \in Workers : u # w => pc'[u] = pc[u]
    BY <1>t, <1>2
  <2>3. pc'[w] = "visit"
    BY <1>t, <1>2
  <2> QED BY <1>0, <1>2, <1>3, <2>1, <2>2, <2>3 DEF Control
<1>9. Snapshots'
  <2> SUFFICES ASSUME NEW u \in Workers, fresh'[u]
               PROVE  pc'[u] = "cas" /\ dq'[Victim(u)'] # <<>>
    BY DEF Snapshots
  <2>1. fresh[u] /\ Victim(u) # v /\ u # w /\ Victim(u) \in Workers
    BY <1>0, <1>v, <1>5, VictimIsWorker
  <2>2. Victim(u)' = Victim(u)
    BY <1>t, <1>2, <2>1 DEF Victim
  <2> QED BY <1>0, <1>t, <1>1, <1>2, <2>1, <2>2 DEF Snapshots
<1>10. Claims' /\ EvaluatedOnce' /\ ExitComplete'
  BY <1>0, <1>t, <1>2 DEF Claims, EvaluatedOnce, ExitComplete, Due
<1>11. Coverage'
  <2>1. \A u \in Workers : u # w /\ u # v => Tasks(u)' = Tasks(u)
    BY <1>t, <1>1, <1>2 DEF Tasks, InHand
  <2>2. Tasks(w) = {} /\ Tasks(w)' = {e}
    <3>1. Range(<<>>) = {} /\ Loops(<<>>) = {}
      BY DEF Range, Loops
    <3>2. dq'[w] = <<>> /\ frames'[w] = <<>> /\ pc'[w] = "visit" /\ loc'[w] = e
      BY <1>t, <1>1, <1>2, <1>3
    <3> QED BY <1>2, <1>3, <3>1, <3>2 DEF Tasks, InHand
  <2>3. Tasks(v) = Tasks(v)' \cup {e}
    <3>1. dq'[v] = r /\ frames'[v] = frames[v] /\ InHand(v)' = InHand(v)
      BY <1>t, <1>1, <1>2, <1>3 DEF InHand
    <3> QED BY <1>4, <3>1 DEF Tasks
  <2>4. Due' = Due /\ seen' = seen
    BY <1>2 DEF Due
  <2>5. ASSUME NEW l \in Due
        PROVE  l \in seen \/ \E u \in Workers : l \in Tasks(u)'
    <3>1. CASE l \in seen
      BY <3>1
    <3>2. CASE l = e
      BY <2>2, <3>2
    <3>3. CASE l # e /\ l \notin seen
      <4>1. PICK u \in Workers : l \in Tasks(u)
        BY <1>0, <3>3 DEF Coverage
      <4>2. l \in Tasks(u)'
        BY <2>1, <2>2, <2>3, <3>3, <4>1
      <4> QED BY <4>2
    <3> QED BY <3>1, <3>2, <3>3
  <2>6. ASSUME NEW u \in Workers PROVE Tasks(u)' \subseteq Due \cup {0}
    <3>1. \A y \in Workers : Tasks(y) \subseteq Due \cup {0}
      BY <1>0 DEF Coverage
    <3> QED BY <1>1, <2>1, <2>2, <2>3, <3>1
  <2> QED BY <2>4, <2>5, <2>6 DEF Coverage
<1> QED BY <1>6, <1>7, <1>8, <1>9, <1>10, <1>11 DEF IInv

-----------------------------------------------------------------------------
(* eval_normalize_go.                                                      *)

LEMMA DueNotZero ==
  ASSUME TypeOK PROVE 0 \notin Due /\ Due \subseteq Locs
<1>1. \A l \in Locs : Kids[l] \in Seq(Locs \cup {0})
  BY NormalizeAssumption
<1>2. \A l \in Locs : Under(l) \subseteq Locs
  BY <1>1 DEF Under, Range
<1>3. \A l \in Locs : 0 \notin Under(l)
  BY DEF Under
<1> QED BY <1>2, <1>3, NormalizeAssumption DEF TypeOK, Due

\* What the steps inside eval_normalize_go have in common: they are those of an
\* active worker, and they disturb neither the counter nor a snapshot.
LEMMA GoCommon ==
  ASSUME IInv, NEW w \in Workers, pc[w] \in Busy,
         NEW s \in {"poll", "visit", "eval", "enqueue"}, pc' = [pc EXCEPT ![w] = s],
         UNCHANGED <<pending, active, start, k, fresh>>,
         \A u \in Workers : u # w => dq'[u] = dq[u] /\ frames'[u] = frames[u],
         dq'[w] = <<>> => dq[w] = <<>>
  PROVE  Snapshots' /\ PendingExact'
<1>0. TypeOK /\ PendingExact /\ Snapshots /\ pc \in [Workers -> Steps]
  BY DEF IInv, TypeOK
<1>1. active[w] /\ ~fresh[w]
  BY <1>0 DEF PendingExact, Snapshots, Busy, Idle
<1>2. Snapshots'
  <2> SUFFICES ASSUME NEW u \in Workers, fresh[u]
               PROVE  pc'[u] = "cas" /\ dq'[Victim(u)] # <<>> /\ Victim(u)' = Victim(u)
    BY DEF Snapshots
  <2>1. Victim(u)' = Victim(u)
    BY DEF Victim
  <2>2. dq[Victim(u)] # <<>> /\ Victim(u) \in Workers /\ pc[u] = "cas" /\ u # w
    BY <1>0, <1>1, VictimIsWorker DEF Snapshots
  <2>3. dq'[Victim(u)] # <<>>
    BY <2>2
  <2> QED BY <1>0, <2>1, <2>2, <2>3
<1>3. PendingExact'
  <2>1. \A u \in Workers : ~active[u] => u # w /\ pc'[u] = pc[u]
    BY <1>0, <1>1
  <2> QED BY <1>0, <2>1 DEF PendingExact
<1> QED BY <1>2, <1>3

LEMMA VisitIInv ==
  ASSUME IInv, NEW w \in Workers, VisitSeen(w) \/ VisitNew(w)
  PROVE  IInv'
<1>0. TypeOK /\ PendingExact /\ Control /\ Snapshots /\ Claims /\ EvaluatedOnce
      /\ Coverage /\ ExitComplete
  BY DEF IInv
<1>t. /\ pc \in [Workers -> Steps] /\ loc \in [Workers -> Locs \cup {0}]
      /\ pc[w] = "visit" /\ pc[w] \in Busy
  BY <1>0 DEF TypeOK, VisitSeen, VisitNew, Busy
<1>1. loc[w] \in Tasks(w) /\ loc[w] \in Due \cup {0}
  BY <1>0, <1>t DEF Tasks, InHand, Coverage
<1>2. CASE VisitSeen(w)
  <2>1. PICK s \in {"poll", "enqueue"} :
          /\ pc' = [pc EXCEPT ![w] = s] /\ (s = "poll" <=> frames[w] = <<>>)
          /\ loc' = [loc EXCEPT ![w] = 0] /\ (loc[w] = 0 \/ loc[w] \in seen)
          /\ UNCHANGED <<pending, dq, seen, done, active, start, k, fresh, frames>>
    BY <1>2 DEF VisitSeen, Return, Goto, Forget, scanning
  <2>2. Snapshots' /\ PendingExact'
    BY <1>t, <2>1, GoCommon
  <2>3. TypeOK'
    BY <1>0, <1>t, <2>1 DEF TypeOK, Steps
  <2>4. Control'
    BY <1>0, <1>t, <2>1 DEF Control
  <2>5. Claims' /\ EvaluatedOnce' /\ ExitComplete'
    BY <1>0, <1>t, <2>1 DEF Claims, EvaluatedOnce, ExitComplete, Due
  <2>6. Coverage'
    <3>1. \A u \in Workers : u # w => Tasks(u)' = Tasks(u)
      BY <1>t, <2>1 DEF Tasks, InHand
    <3>2. Tasks(w) = Tasks(w)' \cup {loc[w]}
      BY <1>t, <2>1 DEF Tasks, InHand
    <3>3. Due' = Due /\ loc[w] \notin Due \ seen /\ seen' = seen
      BY <1>0, <2>1, DueNotZero DEF Due
    <3> QED BY <1>0, <3>1, <3>2, <3>3 DEF Coverage
  <2> QED BY <2>2, <2>3, <2>4, <2>5, <2>6 DEF IInv
<1>3. CASE VisitNew(w)
  <2>1. /\ pc' = [pc EXCEPT ![w] = "eval"] /\ loc[w] # 0 /\ loc[w] \notin seen
        /\ seen' = seen \cup {loc[w]}
        /\ UNCHANGED <<pending, dq, done, active, start, k, fresh, loc, frames>>
    BY <1>3 DEF VisitNew, Goto, scanning, going
  <2>2. Snapshots' /\ PendingExact'
    BY <1>t, <2>1, GoCommon
  <2>3. TypeOK'
    BY <1>0, <1>t, <2>1 DEF TypeOK, Steps
  <2>4. Control'
    BY <1>0, <1>t, <2>1 DEF Control
  <2>5. Due' = Due /\ loc[w] \in Due /\ done \subseteq seen
    BY <1>0, <1>1, <2>1 DEF Due, Claims
  <2>6. Claims'
    <3>1. \A l \in seen \ done : \E u \in Workers : pc'[u] = "eval" /\ loc[u] = l
      BY <1>0, <1>t, <2>1 DEF Claims
    <3>2. pc'[w] = "eval"
      BY <1>t, <2>1
    <3>3. \A u \in Workers : pc'[u] = "eval" => loc[u] \in seen' \ done
      BY <1>0, <1>t, <2>1, <2>5 DEF Claims
    <3> QED BY <1>0, <2>1, <2>5, <3>1, <3>2, <3>3 DEF Claims
  <2>7. EvaluatedOnce'
    <3>1. \A u \in Workers : u # w /\ pc'[u] = "eval" =>
            pc[u] = "eval" /\ loc[u] # loc[w]
      BY <1>0, <1>t, <2>1 DEF Claims
    <3> QED BY <1>0, <2>1, <2>5, <3>1 DEF EvaluatedOnce
  <2>8. ExitComplete'
    BY <1>0, <1>t, <2>1, <2>5 DEF ExitComplete
  <2>9. Coverage'
    <3>1. \A u \in Workers : u # w => Tasks(u)' = Tasks(u)
      BY <1>t, <2>1 DEF Tasks, InHand
    <3>2. Tasks(w) = Tasks(w)' \cup {loc[w]}
      BY <1>t, <2>1 DEF Tasks, InHand
    <3> QED BY <1>0, <2>1, <2>5, <3>1, <3>2 DEF Coverage
  <2> QED BY <2>2, <2>3, <2>4, <2>6, <2>7, <2>8, <2>9 DEF IInv
<1> QED BY <1>2, <1>3

LEMMA AheadAll ==
  ASSUME NEW l \in Locs
  PROVE  Ahead(<<l, Len(Kids[l])>>) = Range(Kids[l])
<1>1. Kids[l] \in Seq(Locs \cup {0})
  BY NormalizeAssumption
<1> QED BY <1>1 DEF Ahead, Range

LEMMA EvaluateIInv ==
  ASSUME IInv, NEW w \in Workers, Evaluate(w)
  PROVE  IInv'
<1>0. TypeOK /\ PendingExact /\ Control /\ Snapshots /\ Claims /\ EvaluatedOnce
      /\ Coverage /\ ExitComplete
  BY DEF IInv
<1>t. /\ pc \in [Workers -> Steps] /\ loc \in [Workers -> Locs \cup {0}]
      /\ frames \in [Workers -> Seq(Locs \X Nat)]
      /\ pc[w] = "eval" /\ pc[w] \in Busy
  BY <1>0 DEF TypeOK, Evaluate, Busy
<1>l. PICK l : l = loc[w]
  OBVIOUS
<1>1. l \in seen /\ l \notin done /\ l \in Due /\ l \in Locs
  BY <1>0, <1>t, <1>l DEF Claims, TypeOK
<1>2. PICK s \in {"poll", "enqueue"} :
        /\ pc' = [pc EXCEPT ![w] = s] /\ loc' = [loc EXCEPT ![w] = 0]
        /\ done' = done \cup {l}
        /\ \/ Kids[l] = <<>> /\ frames' = frames /\ (s = "poll" <=> frames[w] = <<>>)
           \/ /\ Kids[l] # <<>> /\ s = "enqueue"
              /\ frames' = [frames EXCEPT ![w] = Append(@, <<l, Len(Kids[l])>>)]
        /\ UNCHANGED <<pending, dq, seen, active, start, k, fresh>>
  BY <1>l DEF Evaluate, Return, Goto, Forget, scanning
<1>3. Kids[l] \in Seq(Locs \cup {0}) /\ Len(Kids[l]) \in Nat
      /\ (Kids[l] # <<>> => Len(Kids[l]) \in 1..Len(Kids[l]))
  BY <1>1, NormalizeAssumption
<1>4. frames[w] \in Seq(Locs \X Nat) /\ <<l, Len(Kids[l])>> \in Locs \X Nat
  BY <1>t, <1>1, <1>3
<1>5. Snapshots' /\ PendingExact'
  <2>1. \A u \in Workers : u # w => frames'[u] = frames[u]
    BY <1>t, <1>2
  <2> QED BY <1>t, <1>2, <2>1, GoCommon
<1>6. TypeOK'
  <2>1. frames' \in [Workers -> Seq(Locs \X Nat)]
    <3> DEFINE g == Append(frames[w], <<l, Len(Kids[l])>>)
    <3>1. g \in Seq(Locs \X Nat)
      BY <1>4
    <3>2. frames' = frames \/ frames' = [frames EXCEPT ![w] = g]
      BY <1>2
    <3> HIDE DEF g
    <3> QED BY <1>t, <3>1, <3>2
  <2>2. pc' \in [Workers -> Steps] /\ loc' \in [Workers -> Locs \cup {0}]
    BY <1>t, <1>2 DEF Steps
  <2>3. done' \subseteq Locs
    BY <1>0, <1>1, <1>2 DEF TypeOK
  <2> QED BY <1>0, <1>2, <2>1, <2>2, <2>3 DEF TypeOK
<1>7. Control'
  <2>1. \A u \in Workers : u # w => pc'[u] = pc[u] /\ frames'[u] = frames[u]
    BY <1>t, <1>2
  <2>2. CASE Kids[l] = <<>>
    BY <1>0, <1>t, <1>2, <2>1, <2>2 DEF Control
  <2>3. CASE Kids[l] # <<>>
    <3> DEFINE f == <<l, Len(Kids[l])>>
    <3>1. frames'[w] = Append(frames[w], f) /\ pc'[w] = "enqueue" /\ f[1] = l
          /\ f[2] = Len(Kids[l])
      BY <1>t, <1>2, <2>3
    <3> HIDE DEF f
    <3>2. frames'[w] # <<>> /\ Len(frames'[w]) = Len(frames[w]) + 1 /\ Len(frames[w]) \in Nat
      BY <1>4, <3>1
    <3>3. ASSUME NEW j \in 1..Len(frames'[w])
          PROVE  frames'[w][j][1] \in done' /\ frames'[w][j][2] \in 1..Len(Kids[frames'[w][j][1]])
      <4>1. CASE j = Len(frames[w]) + 1
        <5>1. frames'[w][j] = f
          BY <1>4, <3>1, <4>1
        <5> QED BY <1>2, <1>3, <2>3, <3>1, <5>1
      <4>2. CASE j \in 1..Len(frames[w])
        <5>1. frames'[w][j] = frames[w][j]
          BY <1>4, <3>1, <4>2
        <5>2. /\ frames[w][j][1] \in done
              /\ frames[w][j][2] \in 1..Len(Kids[frames[w][j][1]])
          BY <1>0, <4>2, Zenon DEF Control
        <5> QED BY <1>2, <5>1, <5>2, Zenon
      <4> QED BY <3>2, <4>1, <4>2
    <3>4. ASSUME NEW u \in Workers, u # w
          PROVE  \A j \in 1..Len(frames'[u]) :
                   /\ frames'[u][j][1] \in done'
                   /\ frames'[u][j][2] \in 1..Len(Kids[frames'[u][j][1]])
      <4>1. frames'[u] = frames[u] /\ done \subseteq done'
        BY <1>2, <2>1, <3>4, Zenon
      <4>2. \A j \in 1..Len(frames[u]) : /\ frames[u][j][1] \in done
                                         /\ frames[u][j][2] \in 1..Len(Kids[frames[u][j][1]])
        BY <1>0, Zenon DEF Control
      <4> QED BY <4>1, <4>2, Zenon
    <3>5. ASSUME NEW u \in Workers
          PROVE  /\ pc'[u] \notin {"visit", "eval", "enqueue"} => frames'[u] = <<>>
                 /\ pc'[u] = "enqueue" => frames'[u] # <<>>
                 /\ pc'[u] \in {"scan", "enter", "steal", "cas"} => dq'[u] = <<>>
                 /\ pc'[u] = "enter" => ~active'[u]
      <4>1. CASE u = w
        BY <3>1, <3>2, <4>1
      <4>2. CASE u # w
        BY <1>0, <1>2, <2>1, <4>2 DEF Control
      <4> QED BY <4>1, <4>2
    <3>6. \A u \in Workers : \A j \in 1..Len(frames'[u]) :
            /\ frames'[u][j][1] \in done'
            /\ frames'[u][j][2] \in 1..Len(Kids[frames'[u][j][1]])
      BY <3>3, <3>4, Zenon
    <3> QED BY <3>5, <3>6, Zenon DEF Control
  <2> QED BY <2>2, <2>3
<1>8. Due' = Due \cup Under(l) /\ seen' = seen
  BY <1>2 DEF Due
<1>9. Claims' /\ EvaluatedOnce'
  <2>1. \A u \in Workers : pc'[u] = "eval" =>
          u # w /\ pc[u] = "eval" /\ loc'[u] = loc[u] /\ loc[u] # l
    BY <1>0, <1>t, <1>l, <1>2 DEF EvaluatedOnce
  <2>2. \A y \in seen \ done' : \E u \in Workers : pc'[u] = "eval" /\ loc'[u] = y
    <3> SUFFICES ASSUME NEW y \in seen \ done'
                 PROVE  \E u \in Workers : pc'[u] = "eval" /\ loc'[u] = y
      OBVIOUS
    <3>1. PICK u \in Workers : pc[u] = "eval" /\ loc[u] = y
      BY <1>0, <1>2 DEF Claims
    <3>2. u # w
      BY <1>2, <1>l, <3>1
    <3> QED BY <1>t, <1>2, <3>1, <3>2
  <2>3. Claims'
    BY <1>0, <1>1, <1>2, <1>8, <2>1, <2>2 DEF Claims
  <2>4. EvaluatedOnce'
    BY <1>0, <1>2, <2>1 DEF EvaluatedOnce
  <2> QED BY <2>3, <2>4
<1>10. ExitComplete'
  <2>1. \A u \in Workers : pc'[u] = "exited" => pc[u] = "exited"
    BY <1>t, <1>2
  <2>2. ~ \E u \in Workers : pc[u] = "exited"
    BY <1>0, <1>1 DEF ExitComplete
  <2> QED BY <2>1, <2>2 DEF ExitComplete
<1>11. Coverage'
  <2>1. \A u \in Workers : u # w => Tasks(u)' = Tasks(u)
    BY <1>t, <1>2 DEF Tasks, InHand
  <2>2. Tasks(w)' = Tasks(w) \cup Range(Kids[l])
    <3>1. pc'[w] # "visit" /\ dq'[w] = dq[w]
      BY <1>t, <1>2
    <3>2. CASE Kids[l] = <<>>
      <4>1. Range(Kids[l]) = {}
        BY <3>2 DEF Range
      <4> QED BY <1>t, <1>2, <3>1, <3>2, <4>1 DEF Tasks, InHand
    <3>3. CASE Kids[l] # <<>>
      <4>1. frames'[w] = Append(frames[w], <<l, Len(Kids[l])>>)
        BY <1>t, <1>2, <3>3
      <4>2. Loops(frames'[w]) = Loops(frames[w]) \cup Ahead(<<l, Len(Kids[l])>>)
        BY <1>4, <4>1, LoopsAppend
      <4>3. Ahead(<<l, Len(Kids[l])>>) = Range(Kids[l])
        BY <1>1, AheadAll
      <4> QED BY <1>t, <3>1, <4>2, <4>3 DEF Tasks, InHand
    <3> QED BY <3>2, <3>3
  <2>3. Under(l) \subseteq Range(Kids[l]) /\ Range(Kids[l]) \subseteq Under(l) \cup {0}
    BY DEF Under
  <2>4. \A y \in Due' : y \in seen \/ \E u \in Workers : y \in Tasks(u)'
    <3>1. \A y \in Under(l) : y \in Tasks(w)'
      BY <2>2, <2>3
    <3>2. \A y \in Due : y \in seen \/ \E u \in Workers : y \in Tasks(u)'
      BY <1>0, <2>1, <2>2 DEF Coverage
    <3> QED BY <1>8, <3>1, <3>2
  <2>5. \A u \in Workers : Tasks(u)' \subseteq Due' \cup {0}
    BY <1>0, <1>8, <2>1, <2>2, <2>3 DEF Coverage
  <2> QED BY <1>8, <2>4, <2>5 DEF Coverage
<1> QED BY <1>5, <1>6, <1>7, <1>9, <1>10, <1>11 DEF IInv

-----------------------------------------------------------------------------
(* The enqueue loop: its next task goes to the deque or into the hands of  *)
(* the worker.                                                             *)

LEMMA EnqueueIInv ==
  ASSUME IInv, NEW w \in Workers, EnqueuePush(w) \/ EnqueueInline(w) \/ EnqueueLast(w)
  PROVE  IInv'
<1>0. TypeOK /\ PendingExact /\ Control /\ Snapshots /\ Claims /\ EvaluatedOnce
      /\ Coverage /\ ExitComplete
  BY DEF IInv
<1>t. /\ pc \in [Workers -> Steps] /\ loc \in [Workers -> Locs \cup {0}]
      /\ frames \in [Workers -> Seq(Locs \X Nat)]
      /\ dq \in [Workers -> Seq(Locs \cup {0})]
      /\ pc[w] = "enqueue" /\ pc[w] \in Busy
  BY <1>0 DEF TypeOK, EnqueuePush, EnqueueInline, EnqueueLast, Busy
<1>1. frames[w] \in Seq(Locs \X Nat) /\ frames[w] # <<>> /\ Len(frames[w]) \in Nat \ {0}
  BY <1>0, <1>t DEF Control
<1>p. \A j \in 1..Len(frames[w]) : /\ frames[w][j][1] \in done
                                   /\ frames[w][j][2] \in 1..Len(Kids[frames[w][j][1]])
  BY <1>0 DEF Control
<1>f. PICK l, i, o, q : /\ l = Frame(w)[1] /\ i = Frame(w)[2] /\ o = Outer(w) /\ q = Kids[l][i]
  OBVIOUS
<1>2. /\ frames[w][Len(frames[w])] = <<l, i>> /\ l \in Locs /\ i \in Nat \ {0}
      /\ i \in 1..Len(Kids[l]) /\ l \in done
      /\ o \in Seq(Locs \X Nat) /\ Len(o) = Len(frames[w]) - 1
      /\ Loops(frames[w]) = Loops(o) \cup Ahead(<<l, i>>)
      /\ \A j \in 1..Len(o) : o[j] = frames[w][j]
  <2>1. frames[w][Len(frames[w])] \in Locs \X Nat
    BY <1>1
  <2>2. frames[w][Len(frames[w])] = <<l, i>> /\ l \in Locs /\ i \in Nat
    BY <1>f, <2>1 DEF Frame
  <2>3. l \in done /\ i \in 1..Len(Kids[l])
    <3>1. Len(frames[w]) \in 1..Len(frames[w])
      BY <1>1
    <3> QED BY <1>p, <1>f, <3>1 DEF Frame
  <2>4. o \in Seq(Locs \X Nat) /\ Len(o) = Len(frames[w]) - 1
        /\ Loops(frames[w]) = Loops(o) \cup Ahead(<<l, i>>)
    <3>1. o = SubSeq(frames[w], 1, Len(frames[w]) - 1)
      BY <1>f DEF Outer
    <3>2. o \in Seq(Locs \X Nat) /\ Len(o) = Len(frames[w]) - 1
      BY <1>1, <3>1, RangeFront
    <3>3. Loops(frames[w]) = Loops(o) \cup Ahead(<<l, i>>)
      <4>1. Loops(frames[w]) = Loops(SubSeq(frames[w], 1, Len(frames[w]) - 1))
                               \cup Ahead(frames[w][Len(frames[w])])
        BY <1>1, LoopsFront, Zenon
      <4> QED BY <2>2, <3>1, <4>1, Zenon
    <3> QED BY <3>2, <3>3
  <2>5. \A j \in 1..Len(o) : o[j] = frames[w][j]
    BY <1>1, <1>f, <2>4 DEF Outer
  <2>6. i \in Nat \ {0}
    BY <2>2, <2>3
  <2> QED BY <2>2, <2>3, <2>4, <2>5, <2>6
<1>3. q \in Locs \cup {0}
  <2>1. Kids[l] \in Seq(Locs \cup {0})
    BY <1>2, NormalizeAssumption
  <2> QED BY <1>f, <1>2, <2>1
<1>4. PICK g : g = Append(o, <<l, i - 1>>)
  OBVIOUS
\* The three steps: push and go on, call in line and go on, or end the loop.
<1>5. /\ pending' = pending /\ seen' = seen /\ done' = done /\ active' = active
      /\ start' = start /\ k' = k /\ fresh' = fresh
      /\ \/ /\ i > 1 /\ frames' = [frames EXCEPT ![w] = g]
            /\ dq' = [dq EXCEPT ![w] = Append(@, q)]
            /\ pc' = [pc EXCEPT ![w] = "enqueue"] /\ loc' = loc
         \/ /\ i > 1 /\ frames' = [frames EXCEPT ![w] = g]
            /\ dq' = dq
            /\ pc' = [pc EXCEPT ![w] = "visit"] /\ loc' = [loc EXCEPT ![w] = q]
         \/ /\ i = 1 /\ frames' = [frames EXCEPT ![w] = o]
            /\ dq' = dq
            /\ pc' = [pc EXCEPT ![w] = "visit"] /\ loc' = [loc EXCEPT ![w] = q]
  <2>1. g = Advanced(w) /\ q = NextKid(w)
    BY <1>f, <1>4 DEF Advanced, NextKid
  <2>2. pc = [pc EXCEPT ![w] = "enqueue"]
    BY <1>t
  <2>3. CASE EnqueuePush(w)
    BY <1>f, <2>1, <2>2, <2>3 DEF EnqueuePush, scanning
  <2>4. CASE EnqueueInline(w)
    BY <1>f, <2>1, <2>4 DEF EnqueueInline, scanning, Goto
  <2>5. CASE EnqueueLast(w)
    BY <1>f, <2>1, <2>5 DEF EnqueueLast, scanning, Goto
  <2> QED BY <2>3, <2>4, <2>5
<1>6. /\ i > 1 => g \in Seq(Locs \X Nat) /\ Len(g) = Len(frames[w])
      /\ g[Len(g)] = <<l, i - 1>> /\ (\A j \in 1..Len(o) : g[j] = frames[w][j])
      /\ Len(g) = Len(o) + 1 /\ Loops(g) \cup {q} = Loops(frames[w])
      /\ i = 1 => Loops(o) \cup {q} = Loops(frames[w])
  <2>1. i > 1 => <<l, i - 1>> \in Locs \X Nat
    BY <1>2
  <2>2. Len(g) = Len(o) + 1 /\ Len(o) \in Nat /\ g[Len(g)] = <<l, i - 1>>
        /\ \A j \in 1..Len(o) : g[j] = o[j]
    BY <1>2, <1>4
  <2>3. i > 1 => g \in Seq(Locs \X Nat)
    BY <1>2, <1>4, <2>1
  <2>4. Loops(g) = Loops(o) \cup Ahead(<<l, i - 1>>)
    BY <1>2, <1>4, LoopsAppend
  <2>5. Ahead(<<l, i>>) = Ahead(<<l, i - 1>>) \cup {q}
    BY <1>f, <1>2, AheadStep
  <2>6. i = 1 => Ahead(<<l, i - 1>>) = {}
    BY DEF Ahead
  <2>7. Loops(g) \cup {q} = Loops(frames[w])
    BY <1>2, <2>4, <2>5
  <2>8. i = 1 => Loops(o) \cup {q} = Loops(frames[w])
    BY <1>2, <2>5, <2>6
  <2>9. Len(g) = Len(frames[w]) /\ \A j \in 1..Len(o) : g[j] = frames[w][j]
    BY <1>1, <1>2, <2>2
  <2> QED BY <2>2, <2>3, <2>7, <2>8, <2>9
<1>7. Snapshots' /\ PendingExact'
  <2>1. PICK s \in {"enqueue", "visit"} : pc' = [pc EXCEPT ![w] = s]
    BY <1>5
  <2>2. \A u \in Workers : u # w => dq'[u] = dq[u] /\ frames'[u] = frames[u]
    BY <1>t, <1>5
  <2>3. dq'[w] = <<>> => dq[w] = <<>>
    BY <1>t, <1>5
  <2> QED BY <1>t, <1>5, <2>1, <2>2, <2>3, GoCommon
<1>8. TypeOK'
  <2>1. frames' \in [Workers -> Seq(Locs \X Nat)]
    BY <1>t, <1>2, <1>5, <1>6
  <2>2. Append(dq[w], q) \in Seq(Locs \cup {0})
    BY <1>t, <1>3
  <2>3. dq' \in [Workers -> Seq(Locs \cup {0})]
    BY <1>t, <1>5, <2>2
  <2>4. pc' \in [Workers -> Steps] /\ loc' \in [Workers -> Locs \cup {0}]
    BY <1>t, <1>3, <1>5 DEF Steps
  <2> QED BY <1>0, <1>5, <2>1, <2>3, <2>4 DEF TypeOK
<1>9. Control'
  <2>1. \A u \in Workers : u # w => /\ pc'[u] = pc[u] /\ frames'[u] = frames[u]
                                    /\ dq'[u] = dq[u]
    BY <1>t, <1>5
  <2>2. pc'[w] \in {"visit", "enqueue"} /\ (pc'[w] = "enqueue" => i > 1 /\ frames'[w] = g)
        /\ (i > 1 => frames'[w] = g) /\ (i = 1 => frames'[w] = o)
    BY <1>t, <1>5
  <2>3. i > 1 => g # <<>>
    BY <1>1, <1>6
  <2>4. \A j \in 1..Len(o) : /\ frames[w][j][1] \in done
                             /\ frames[w][j][2] \in 1..Len(Kids[frames[w][j][1]])
    <3>1. \A j \in 1..Len(o) : j \in 1..Len(frames[w])
      BY <1>1, <1>2
    <3> QED BY <1>p, <3>1
  <2>5. i > 1 => \A j \in 1..Len(g) : /\ g[j][1] \in done
                                      /\ g[j][2] \in 1..Len(Kids[g[j][1]])
    <3> SUFFICES ASSUME i > 1, NEW j \in 1..Len(g)
                 PROVE  g[j][1] \in done /\ g[j][2] \in 1..Len(Kids[g[j][1]])
      OBVIOUS
    <3>1. CASE j = Len(g)
      <4>1. g[j][1] = l /\ g[j][2] = i - 1
        BY <1>6, <3>1
      <4>2. Len(Kids[l]) \in Nat
        BY <1>2, NormalizeAssumption
      <4>3. i - 1 \in 1..Len(Kids[l])
        BY <1>2, <4>2
      <4> QED BY <1>2, <4>1, <4>3
    <3>2. CASE j \in 1..Len(o)
      BY <1>6, <2>4, <3>2
    <3> QED BY <1>2, <1>6, <3>1, <3>2
  <2>6. i = 1 => \A j \in 1..Len(o) : /\ o[j][1] \in done
                                      /\ o[j][2] \in 1..Len(Kids[o[j][1]])
    BY <1>2, <2>4
  <2>7. i > 1 \/ i = 1
    BY <1>2
  <2> QED BY <1>0, <1>5, <2>1, <2>2, <2>3, <2>5, <2>6, <2>7 DEF Control
<1>10. Claims' /\ EvaluatedOnce' /\ ExitComplete'
  <2>1. \A u \in Workers : /\ pc'[u] = "eval" <=> pc[u] = "eval"
                           /\ pc'[u] = "eval" => loc'[u] = loc[u]
                           /\ pc'[u] = "exited" => pc[u] = "exited"
    BY <1>t, <1>5
  <2>2. Due' = Due
    BY <1>5 DEF Due
  <2>3. Claims'
    BY <1>0, <1>5, <2>1, <2>2 DEF Claims
  <2>4. EvaluatedOnce'
    BY <1>0, <1>5, <2>1 DEF EvaluatedOnce
  <2>5. ExitComplete'
    BY <1>0, <1>5, <2>1, <2>2 DEF ExitComplete
  <2> QED BY <2>3, <2>4, <2>5
<1>11. Coverage'
  <2>1. \A u \in Workers : u # w => Tasks(u)' = Tasks(u)
    BY <1>t, <1>5 DEF Tasks, InHand
  <2>2. Tasks(w) = Range(dq[w]) \cup Loops(frames[w])
    BY <1>t DEF Tasks, InHand
  <2>3. Tasks(w)' = Tasks(w)
    <3>1. Range(Append(dq[w], q)) = Range(dq[w]) \cup {q}
      BY <1>t, RangeAppend
    <3>2. \/ /\ i > 1 /\ frames'[w] = g /\ dq'[w] = Append(dq[w], q) /\ pc'[w] = "enqueue"
          \/ /\ i > 1 /\ frames'[w] = g /\ dq'[w] = dq[w] /\ pc'[w] = "visit" /\ loc'[w] = q
          \/ /\ i = 1 /\ frames'[w] = o /\ dq'[w] = dq[w] /\ pc'[w] = "visit" /\ loc'[w] = q
      BY <1>t, <1>5
    <3>3. Range(dq'[w]) \cup InHand(w)' \cup Loops(frames'[w])
            = Range(dq[w]) \cup Loops(frames[w])
      BY <1>6, <3>1, <3>2 DEF InHand
    <3> QED BY <2>2, <3>3 DEF Tasks
  <2>4. Due' = Due /\ seen' = seen
    BY <1>5 DEF Due
  <2> QED BY <1>0, <2>1, <2>3, <2>4 DEF Coverage
<1> QED BY <1>7, <1>8, <1>9, <1>10, <1>11 DEF IInv

-----------------------------------------------------------------------------
(* The theorems.                                                           *)

\* Every reachable state satisfies the inductive invariant.
THEOREM Invariance == Spec => []IInv
<1>1. IInv /\ UNCHANGED vars => IInv'
  <2> SUFFICES ASSUME IInv, UNCHANGED vars PROVE IInv'
    OBVIOUS
  <2> USE DEF vars
  <2>1. TypeOK'
    BY DEF IInv, TypeOK
  <2>2. PendingExact' /\ Control' /\ EvaluatedOnce'
    BY DEF IInv, PendingExact, Control, EvaluatedOnce
  <2>3. Snapshots'
    BY DEF IInv, Snapshots, Victim
  <2>4. Due' = Due
    BY DEF Due
  <2>5. Claims' /\ ExitComplete'
    BY <2>4 DEF IInv, Claims, ExitComplete
  <2>6. \A w \in Workers : Tasks(w)' = Tasks(w)
    BY DEF Tasks, InHand
  <2>7. Coverage'
    BY <2>4, <2>6 DEF IInv, Coverage
  <2> QED BY <2>1, <2>2, <2>3, <2>5, <2>7 DEF IInv
<1>2. IInv /\ Next => IInv'
  <2> SUFFICES ASSUME IInv, Next PROVE IInv'
    OBVIOUS
  <2>1. ASSUME NEW w \in Workers, Worker(w) PROVE IInv'
    <3>1. CASE Own(w)
      BY <3>1, OwnIInv
    <3>2. CASE Scan(w)
      BY <3>2, ScanIInv, StealWinIInv
    <3>3. CASE Go(w)
      BY <3>3, VisitIInv, EvaluateIInv, EnqueueIInv DEF Go
    <3> QED BY <2>1, <3>1, <3>2, <3>3 DEF Worker
  <2> QED BY <1>1, <2>1 DEF Next, Joined
<1> QED BY <1>1, <1>2, InitIInv, PTL DEF Spec

\* Type correctness: pending in particular never goes below zero.
THEOREM TypeCorrect == Spec => []TypeOK
<1>1. IInv => TypeOK
  BY DEF IInv
<1> QED BY <1>1, Invariance, PTL

\* The counter pending is the number of active workers, and no task is with
\* an inactive one.
THEOREM CountsTheActive == Spec => []PendingExact
<1>1. IInv => PendingExact
  BY DEF IInv
<1> QED BY <1>1, Invariance, PTL

\* No location of the heap is evaluated twice.
THEOREM EvaluatesOnce == Spec => []EvaluatedOnce
<1>1. IInv => EvaluatedOnce
  BY DEF IInv
<1> QED BY <1>1, Invariance, PTL

\* No worker of eval_normalize leaves, and the counter does not read zero,
\* before all that the result reaches is evaluated.
THEOREM NoWorkIsLeft == Spec => []NoEarlyExit
<1>1. IInv => NoEarlyExit
  BY NoneActive, Quiescent DEF IInv, NoEarlyExit, ExitComplete
<1> QED BY <1>1, Invariance, PTL

\* Normalization implements Traversal: it evaluates a location only when it is
\* the root or under an evaluated one, never after a worker left, and a worker
\* leaves only when all is done.
THEOREM ImplementsTraversal == Spec => TraversalSpec
<1> DEFINE Left == \E w \in Workers : pc[w] = "exited"
<1>1. T!Due = Due
  BY DEF T!Due, T!Under, T!Range, Due, Under, Range
<1>2. Init => T!Init
  BY DEF Init, T!Init
<1>3. IInv /\ [Next]_vars => [T!Next]_(T!vars)
  <2> SUFFICES ASSUME IInv, [Next]_vars PROVE [T!Next]_(T!vars)
    OBVIOUS
  <2>0. pc \in [Workers -> Steps] /\ Claims /\ ExitComplete /\ PendingExact
    BY DEF IInv, TypeOK
  <2>1. ASSUME NEW w \in Workers, Evaluate(w) PROVE T!Evaluate
    <3>1. loc[w] \in Due \ done /\ done' = done \cup {loc[w]} /\ pc[w] = "eval"
      BY <2>0, <2>1 DEF Evaluate, Claims
    <3>2. ~Left
      BY <2>0, <3>1 DEF ExitComplete
    <3>3. Left' <=> Left
      BY <2>0, <2>1, <3>1 DEF Evaluate, Return, Goto
    <3> QED BY <1>1, <3>1, <3>2, <3>3 DEF T!Evaluate
  <2>2. ASSUME NEW w \in Workers, Stop(w) PROVE T!Halt
    <3>1. Due \subseteq done
      BY <2>0, <2>2, NoneActive, Quiescent DEF Stop
    <3>2. Left' = TRUE /\ done' = done
      BY <2>0, <2>2 DEF Stop, Goto
    <3> QED BY <1>1, <3>1, <3>2 DEF T!Halt
  <2>3. ASSUME NEW w \in Workers, Worker(w), ~Evaluate(w), ~Stop(w)
        PROVE  UNCHANGED T!vars
    <3>1. PICK s \in Steps \ {"exited"} : pc' = [pc EXCEPT ![w] = s]
      BY <2>0, <2>3 DEF Steps, Worker, Own, Scan, Go, Poll, PopTask, PopNothing, Skip,
         Spot, Enter, StealLook, StealEmpty, StealWin, StealLose, Retire, VisitSeen,
         VisitNew, Return, EnqueuePush, EnqueueInline, EnqueueLast, Goto
    <3>2. pc[w] # "exited"
      BY <2>3 DEF Worker, Own, Scan, Go, Poll, PopTask, PopNothing, Skip,
         Spot, Enter, StealLook, StealEmpty, StealWin, StealLose, Retire, VisitSeen,
         VisitNew, EnqueuePush, EnqueueInline, EnqueueLast
    <3>3. done' = done
      BY <2>3 DEF Worker, Own, Scan, Go, Poll, PopTask, PopNothing, Skip,
         Spot, Enter, StealLook, StealEmpty, StealWin, StealLose, Retire, VisitSeen,
         VisitNew, EnqueuePush, EnqueueInline, EnqueueLast
    <3>4. Left' <=> Left
      BY <2>0, <3>1, <3>2
    <3> QED BY <3>3, <3>4 DEF T!vars
  <2>4. CASE UNCHANGED vars \/ Joined
    BY <2>4 DEF Joined, vars, T!vars
  <2> QED BY <2>1, <2>2, <2>3, <2>4 DEF Next, T!Next
<1> QED BY <1>2, <1>3, Invariance, PTL DEF Spec, TraversalSpec, T!Spec
=============================================================================
