---------------------------- MODULE CollapseProofs ----------------------------
(***************************************************************************)
(* The counters and the limit of Collapse for any number of workers, size  *)
(* of the key queue and tree: pending is exactly the number of active      *)
(* workers and only they have work, whatever the workers steal from each   *)
(* other, and no more lines are printed than were asked for.               *)
(***************************************************************************)
EXTENDS Collapse, FiniteSetTheorems, SequenceTheorems, TLAPS

-----------------------------------------------------------------------------
(* Sets of workers.                                                        *)

LEMMA WorkersFinite ==
  /\ IsFiniteSet(Workers) /\ Cardinality(Workers) = N
  /\ \A S \in SUBSET Workers : IsFiniteSet(S) /\ Cardinality(S) \in Nat
<1>1. Workers = 0..(N - 1) /\ N \in Nat \ {0}
  BY CollapseAssumption DEF Workers, Q!Workers
<1>2. IsFiniteSet(0..(N - 1)) /\ Cardinality(0..(N - 1)) = N
  <2>1. 0 \in Int /\ N - 1 \in Int
    BY <1>1
  <2>2. /\ IsFiniteSet(0..(N - 1))
        /\ Cardinality(0..(N - 1)) = IF 0 > N - 1 THEN 0 ELSE N - 1 - 0 + 1
    BY <2>1, FS_Interval
  <2> QED BY <1>1, <2>2
<1>3. \A S \in SUBSET Workers : IsFiniteSet(S)
  BY <1>1, <1>2, FS_Subset
<1> QED BY <1>1, <1>2, <1>3, FS_CardinalityType

\* One worker joins a set of workers, leaves it, or neither.
LEMMA OneMoves ==
  ASSUME NEW S \in SUBSET Workers, NEW T \in SUBSET Workers, NEW w \in Workers,
         \A u \in Workers \ {w} : u \in S <=> u \in T
  PROVE  /\ Cardinality(S) \in Nat /\ Cardinality(T) \in Nat
         /\ w \in S => Cardinality(S) >= 1
         /\ Cardinality(T) = Cardinality(S) + (IF w \in T THEN 1 ELSE 0)
                                            - (IF w \in S THEN 1 ELSE 0)
<1>1. /\ IsFiniteSet(S) /\ IsFiniteSet(T) /\ Cardinality(S) \in Nat /\ Cardinality(T) \in Nat
  BY WorkersFinite
<1> DEFINE R == S \ {w}
<1>2. R = T \ {w}
  OBVIOUS
<1>3. /\ IsFiniteSet(R) /\ Cardinality(R) \in Nat
      /\ Cardinality(R) = IF w \in S THEN Cardinality(S) - 1 ELSE Cardinality(S)
  BY <1>1, FS_RemoveElement, FS_CardinalityType
<1>4. Cardinality(R) = IF w \in T THEN Cardinality(T) - 1 ELSE Cardinality(T)
  BY <1>1, <1>2, FS_RemoveElement
<1> HIDE DEF R
<1>5. CASE w \in S
  BY <1>1, <1>3, <1>4, <1>5
<1>6. CASE w \notin S
  BY <1>1, <1>3, <1>4, <1>6
<1> QED BY <1>5, <1>6

-----------------------------------------------------------------------------
(* A worker w steps from wk[w] to g; the frame of its queue operation is   *)
(* then f.                                                                 *)

LEMMA StepFits ==
  ASSUME Types, WorkersFit, NEW w \in Workers, NEW g \in WorkerIn, NEW f \in FrameIn,
         wk' = [wk EXCEPT ![w] = g], fr' = [fr EXCEPT ![w] = f],
         UNCHANGED <<bank, mask, cursor, limit>>,
         stop' \in BOOLEAN, pending' \in Nat, cpend' \in Nat, printed' \in Nat,
         lines' \in Seq(Locs),
         WorkerFits(g, f, bank[w]), QueueFits(w, g, f, bank[w], mask[w])
  PROVE  Types' /\ WorkersFit'
<1>1. Types'
  BY DEF Types
<1>2. /\ wk'[w] = g /\ fr'[w] = f
      /\ \A u \in Workers \ {w} : wk'[u] = wk[u] /\ fr'[u] = fr[u]
  BY DEF Types
<1>3. WorkersFit'
  <2> SUFFICES ASSUME NEW u \in Workers
               PROVE  /\ WorkerFits(wk'[u], fr'[u], bank[u])
                      /\ QueueFits(u, wk'[u], fr'[u], bank[u], mask[u])
    BY DEF WorkersFit
  <2>1. CASE u = w
    BY <1>2, <2>1
  <2>2. CASE u # w
    BY <1>2, <2>2 DEF WorkersFit
  <2> QED BY <2>1, <2>2
<1> QED BY <1>1, <1>3

LEMMA StepCounts ==
  ASSUME Types, Counted, NEW w \in Workers, NEW g \in WorkerIn,
         wk' = [wk EXCEPT ![w] = g],
         pending' = pending + (IF g.active THEN 1 ELSE 0) - (IF wk[w].active THEN 1 ELSE 0),
         cpend' = cpend + (IF g.pool THEN 1 ELSE 0) - (IF wk[w].pool THEN 1 ELSE 0)
  PROVE  Counted' /\ pending' \in Nat /\ cpend' \in Nat
<1>1. wk'[w] = g /\ \A u \in Workers \ {w} : wk'[u] = wk[u]
  BY DEF Types
<1>2. pending' = Cardinality({u \in Workers : wk'[u].active}) /\ pending' \in Nat
  <2> DEFINE S == {u \in Workers : wk[u].active}
             T == {u \in Workers : wk'[u].active}
  <2>1. S \in SUBSET Workers /\ T \in SUBSET Workers /\ \A u \in Workers \ {w} : u \in S <=> u \in T
    BY <1>1
  <2>2. (w \in S <=> wk[w].active) /\ (w \in T <=> g.active) /\ pending = Cardinality(S)
    BY <1>1 DEF Counted
  <2> HIDE DEF S, T
  <2>3. /\ Cardinality(S) \in Nat /\ Cardinality(T) \in Nat
        /\ Cardinality(T) = Cardinality(S) + (IF w \in T THEN 1 ELSE 0)
                                           - (IF w \in S THEN 1 ELSE 0)
    BY <2>1, OneMoves
  <2>4. pending' = Cardinality(T)
    BY <2>2, <2>3
  <2> QED BY <2>3, <2>4 DEF T
<1>3. cpend' = Cardinality({u \in Workers : wk'[u].pool}) /\ cpend' \in Nat
  <2> DEFINE S == {u \in Workers : wk[u].pool}
             T == {u \in Workers : wk'[u].pool}
  <2>1. S \in SUBSET Workers /\ T \in SUBSET Workers /\ \A u \in Workers \ {w} : u \in S <=> u \in T
    BY <1>1
  <2>2. (w \in S <=> wk[w].pool) /\ (w \in T <=> g.pool) /\ cpend = Cardinality(S)
    BY <1>1 DEF Counted
  <2> HIDE DEF S, T
  <2>3. /\ Cardinality(S) \in Nat /\ Cardinality(T) \in Nat
        /\ Cardinality(T) = Cardinality(S) + (IF w \in T THEN 1 ELSE 0)
                                           - (IF w \in S THEN 1 ELSE 0)
    BY <2>1, OneMoves
  <2>4. cpend' = Cardinality(T)
    BY <2>2, <2>3
  <2> QED BY <2>3, <2>4 DEF T
<1> QED BY <1>2, <1>3 DEF Counted

\* What a step prints it has counted, or takes from what the worker counted.
LEMMA StepLimit ==
  ASSUME Types, LimitKept, NEW w \in Workers, NEW g \in WorkerIn,
         wk' = [wk EXCEPT ![w] = g], limit' = limit,
         printed' \in Nat, lines' \in Seq(Locs),
         PrintBatch = 1 =>
           /\ g.local = IF g.pc \in {"halt", "flush"} THEN 1 ELSE 0
           /\ Len(lines') + (IF g.pc = "print" THEN 1 ELSE 0) + printed
                <= Len(lines) + (IF wk[w].pc = "print" THEN 1 ELSE 0) + printed'
           /\ Len(lines') <= limit
  PROVE  LimitKept'
<1>1. wk'[w] = g /\ \A u \in Workers \ {w} : wk'[u] = wk[u]
  BY DEF Types
<1>2. PrintBatch' = PrintBatch
  BY DEF PrintBatch
<1> SUFFICES ASSUME PrintBatch = 1
             PROVE  /\ \A u \in Workers :
                         wk'[u].local = IF wk'[u].pc \in {"halt", "flush"} THEN 1 ELSE 0
                    /\ Len(lines') + Cardinality({u \in Workers : wk'[u].pc = "print"}) <= printed'
                    /\ Len(lines') <= limit
  BY <1>2 DEF LimitKept
<1>3. \A u \in Workers : wk'[u].local = IF wk'[u].pc \in {"halt", "flush"} THEN 1 ELSE 0
  BY <1>1 DEF LimitKept
<1>4. Len(lines') + Cardinality({u \in Workers : wk'[u].pc = "print"}) <= printed'
  <2> DEFINE S == {u \in Workers : wk[u].pc = "print"}
             T == {u \in Workers : wk'[u].pc = "print"}
  <2>1. S \in SUBSET Workers /\ T \in SUBSET Workers /\ \A u \in Workers \ {w} : u \in S <=> u \in T
    BY <1>1
  <2>2. /\ (w \in S <=> wk[w].pc = "print") /\ (w \in T <=> g.pc = "print")
        /\ Len(lines) + Cardinality(S) <= printed
    BY <1>1 DEF LimitKept
  <2> HIDE DEF S, T
  <2>3. /\ Cardinality(S) \in Nat /\ Cardinality(T) \in Nat
        /\ Cardinality(T) = Cardinality(S) + (IF w \in T THEN 1 ELSE 0)
                                           - (IF w \in S THEN 1 ELSE 0)
    BY <2>1, OneMoves
  <2>4. /\ Len(lines) \in Nat /\ Len(lines') \in Nat /\ printed \in Nat
        /\ Len(lines') + (IF w \in T THEN 1 ELSE 0) + printed
             <= Len(lines) + (IF w \in S THEN 1 ELSE 0) + printed'
    BY <2>2 DEF Types
  <2>5. Len(lines') + Cardinality(T) <= printed'
    BY <2>2, <2>3, <2>4
  <2> QED BY <2>5 DEF T
<1> QED BY <1>3, <1>4

\* Most steps change no counter, and neither count nor print a line.
LEMMA QuietStep ==
  ASSUME IInv, NEW w \in Workers, NEW g \in WorkerIn, NEW f \in FrameIn,
         wk' = [wk EXCEPT ![w] = g], fr' = [fr EXCEPT ![w] = f],
         UNCHANGED <<bank, mask, cursor, limit, pending, cpend, printed, lines>>,
         stop' \in BOOLEAN,
         g.active = wk[w].active, g.pool = wk[w].pool, g.local = wk[w].local,
         g.pc \notin {"halt", "flush", "print"}, wk[w].pc \notin {"halt", "flush", "print"},
         WorkerFits(g, f, bank[w]), QueueFits(w, g, f, bank[w], mask[w])
  PROVE  IInv'
<1>1. Types /\ WorkersFit /\ Counted /\ LimitKept
  BY DEF IInv
<1>2. /\ pending \in Nat /\ cpend \in Nat /\ printed \in Nat /\ lines \in Seq(Locs)
      /\ Len(lines) \in Nat
  BY <1>1 DEF Types
<1>3. Types' /\ WorkersFit'
  BY <1>1, <1>2, StepFits
<1>4. Counted'
  <2>1. /\ pending' = pending + (IF g.active THEN 1 ELSE 0) - (IF wk[w].active THEN 1 ELSE 0)
        /\ cpend' = cpend + (IF g.pool THEN 1 ELSE 0) - (IF wk[w].pool THEN 1 ELSE 0)
    BY <1>2
  <2> QED BY <1>1, <2>1, StepCounts
<1>5. LimitKept'
  <2>1. PrintBatch = 1 =>
           /\ g.local = IF g.pc \in {"halt", "flush"} THEN 1 ELSE 0
           /\ Len(lines') + (IF g.pc = "print" THEN 1 ELSE 0) + printed
                <= Len(lines) + (IF wk[w].pc = "print" THEN 1 ELSE 0) + printed'
           /\ Len(lines') <= limit
    BY <1>1, <1>2 DEF LimitKept
  <2> QED BY <1>1, <1>2, <2>1, StepLimit
<1> QED BY <1>3, <1>4, <1>5 DEF IInv
-----------------------------------------------------------------------------
(* The actions of a worker, one lemma per group.                           *)

LEMMA Here ==
  ASSUME IInv, NEW w \in Workers
  PROVE  /\ wk[w] \in WorkerIn /\ fr[w] \in FrameIn /\ w \in Q!Workers
         /\ wk \in [Workers -> WorkerIn] /\ fr \in [Workers -> FrameIn]
         /\ stop \in BOOLEAN /\ mask[w] \in SUBSET Q!Buckets
         /\ WorkerFits(wk[w], fr[w], bank[w]) /\ QueueFits(w, wk[w], fr[w], bank[w], mask[w])
BY DEF IInv, Types, WorkersFit, Workers

\* A step that only goes to another step.
LEMMA OnlyGoes ==
  ASSUME IInv, NEW w \in Workers, NEW p \in Steps,
         wk' = [wk EXCEPT ![w].pc = p],
         UNCHANGED <<queue, limit, pending, cpend, printed, lines>>, stop' \in BOOLEAN,
         p \notin {"halt", "flush", "print"}, wk[w].pc \notin {"halt", "flush", "print"},
         WorkerFits([wk[w] EXCEPT !.pc = p], fr[w], bank[w]),
         p = "stealing" => wk[w].pc = "stealing"
  PROVE  IInv'
<1> DEFINE g == [wk[w] EXCEPT !.pc = p]
<1>1. /\ wk[w] \in WorkerIn /\ QueueFits(w, wk[w], fr[w], bank[w], mask[w])
      /\ fr \in [Workers -> FrameIn] /\ wk \in [Workers -> WorkerIn]
  BY Here
<1>2. /\ g \in WorkerIn /\ g.active = wk[w].active /\ g.pool = wk[w].pool
      /\ g.local = wk[w].local /\ g.pc = p
  BY <1>1 DEF WorkerIn
<1>3. wk' = [wk EXCEPT ![w] = g] /\ fr' = [fr EXCEPT ![w] = fr[w]] /\ fr[w] \in FrameIn
  BY <1>1 DEF queue
<1>4. UNCHANGED <<bank, mask, cursor, limit, pending, cpend, printed, lines>>
  BY DEF queue
<1>5. QueueFits(w, g, fr[w], bank[w], mask[w])
  BY <1>1, <1>2 DEF QueueFits
<1>6. WorkerFits(g, fr[w], bank[w])
  OBVIOUS
<1> HIDE DEF g
<1> QED BY <1>2, <1>3, <1>4, <1>5, <1>6, QuietStep

LEMMA GoingSteps ==
  ASSUME IInv, NEW w \in Workers, limit' = limit,
         \/ Stopped(w) \/ SeekNone(w) \/ ReadPending(w) \/ ReadCnfPending(w) \/ SetStop(w)
         \/ HelpOff(w) \/ HelpNone(w) \/ SeekFound(w)
  PROVE  IInv'
<1>1. /\ wk[w] \in WorkerIn /\ stop \in BOOLEAN
      /\ WorkerFits(wk[w], fr[w], bank[w])
  BY Here
<1> USE DEF WorkerIn, WorkerFits, Steps, InHand, Calling, Searching, Goto, At, shared
<1>2. CASE Stopped(w)
  BY <1>1, <1>2, OnlyGoes DEF Stopped
<1>3. CASE SeekNone(w)
  BY <1>1, <1>3, OnlyGoes DEF SeekNone
<1>4. CASE ReadPending(w)
  <2>0. UNCHANGED <<queue, limit, pending, cpend, printed, lines>> /\ stop' \in BOOLEAN
    BY <1>1, <1>4 DEF ReadPending
  <2>1. CASE pending = 0
    <3>1. wk' = [wk EXCEPT ![w].pc = "zero2"]
      BY <1>4, <2>1 DEF ReadPending
    <3>2. WorkerFits([wk[w] EXCEPT !.pc = "zero2"], fr[w], bank[w]) /\ wk[w].pc \notin {"halt", "flush", "print"}
      BY <1>1, <1>4, <2>1 DEF ReadPending
    <3> QED BY <2>0, <3>1, <3>2, OnlyGoes
  <2>2. CASE ~(pending = 0)
    <3>1. wk' = [wk EXCEPT ![w].pc = "top"]
      BY <1>4, <2>2 DEF ReadPending
    <3>2. WorkerFits([wk[w] EXCEPT !.pc = "top"], fr[w], bank[w]) /\ wk[w].pc \notin {"halt", "flush", "print"}
      BY <1>1, <1>4, <2>2 DEF ReadPending
    <3> QED BY <2>0, <3>1, <3>2, OnlyGoes
  <2> QED BY <2>1, <2>2
<1>5. CASE ReadCnfPending(w)
  <2>0. UNCHANGED <<queue, limit, pending, cpend, printed, lines>> /\ stop' \in BOOLEAN
    BY <1>1, <1>5 DEF ReadCnfPending
  <2>1. CASE cpend = 0
    <3>1. wk' = [wk EXCEPT ![w].pc = "set"]
      BY <1>5, <2>1 DEF ReadCnfPending
    <3>2. WorkerFits([wk[w] EXCEPT !.pc = "set"], fr[w], bank[w]) /\ wk[w].pc \notin {"halt", "flush", "print"}
      BY <1>1, <1>5, <2>1 DEF ReadCnfPending
    <3> QED BY <2>0, <3>1, <3>2, OnlyGoes
  <2>2. CASE ~(cpend = 0)
    <3>1. wk' = [wk EXCEPT ![w].pc = "top"]
      BY <1>5, <2>2 DEF ReadCnfPending
    <3>2. WorkerFits([wk[w] EXCEPT !.pc = "top"], fr[w], bank[w]) /\ wk[w].pc \notin {"halt", "flush", "print"}
      BY <1>1, <1>5, <2>2 DEF ReadCnfPending
    <3> QED BY <2>0, <3>1, <3>2, OnlyGoes
  <2> QED BY <2>1, <2>2
<1>6. CASE SetStop(w)
  BY <1>1, <1>6, OnlyGoes DEF SetStop
<1>7. CASE HelpOff(w)
  BY <1>1, <1>7, OnlyGoes DEF HelpOff
<1>8. CASE HelpNone(w)
  BY <1>1, <1>8, OnlyGoes DEF HelpNone
<1>9. CASE SeekFound(w)
  <2>0. UNCHANGED <<queue, limit, pending, cpend, printed, lines>> /\ stop' \in BOOLEAN
    BY <1>1, <1>9 DEF SeekFound
  <2>1. CASE wk[w].active
    <3>1. wk' = [wk EXCEPT ![w].pc = "steal"]
      BY <1>9, <2>1 DEF SeekFound
    <3>2. WorkerFits([wk[w] EXCEPT !.pc = "steal"], fr[w], bank[w]) /\ wk[w].pc \notin {"halt", "flush", "print"}
      BY <1>1, <1>9, <2>1 DEF SeekFound
    <3> QED BY <2>0, <3>1, <3>2, OnlyGoes
  <2>2. CASE ~(wk[w].active)
    <3>1. wk' = [wk EXCEPT ![w].pc = "enter"]
      BY <1>9, <2>2 DEF SeekFound
    <3>2. WorkerFits([wk[w] EXCEPT !.pc = "enter"], fr[w], bank[w]) /\ wk[w].pc \notin {"halt", "flush", "print"}
      BY <1>1, <1>9, <2>2 DEF SeekFound
    <3> QED BY <2>0, <3>1, <3>2, OnlyGoes
  <2> QED BY <2>1, <2>2
<1> QED BY <1>2, <1>3, <1>4, <1>5, <1>6, <1>7, <1>8, <1>9

LEMMA PopStep ==
  ASSUME IInv, NEW w \in Workers, limit' = limit, Pop(w)
  PROVE  IInv'
<1>1. /\ wk[w] \in WorkerIn /\ fr[w] \in FrameIn /\ w \in Q!Workers
      /\ wk \in [Workers -> WorkerIn] /\ fr \in [Workers -> FrameIn]
      /\ stop \in BOOLEAN /\ mask[w] \in SUBSET Q!Buckets
      /\ WorkerFits(wk[w], fr[w], bank[w]) /\ QueueFits(w, wk[w], fr[w], bank[w], mask[w])
  BY Here
<1> DEFINE g == [wk[w] EXCEPT !.pc = "pop"]
           f == [fr[w] EXCEPT !.op = "pop", !.m = mask[w]]
<1>2. g \in WorkerIn
  BY <1>1 DEF Pop, WorkerIn, FrameIn, Steps, At, InHand, WorkerFits, QueueFits
<1>3. f \in FrameIn
  BY <1>1 DEF Pop, FrameIn, Q!Ops, Q!Free, At
<1>4. wk' = [wk EXCEPT ![w] = g] /\ fr' = [fr EXCEPT ![w] = f]
  BY <1>1 DEF Pop, queue, Goto, Finish, Q!PopCall, Q!PushCall, Q!StealCall, Q!Return
<1>5. /\ UNCHANGED <<bank, mask, cursor, limit, pending, cpend, printed, lines>>
      /\ stop' \in BOOLEAN
  BY <1>1 DEF Pop, queue, shared, Q!PopCall, Q!PushCall, Q!StealCall, Q!Return
<1>6. /\ g.active = wk[w].active /\ g.pool = wk[w].pool /\ g.local = wk[w].local
      /\ g.pc \notin {"halt", "flush", "print"} /\ wk[w].pc \notin {"halt", "flush", "print"}
  BY <1>1 DEF Pop, WorkerIn, At, CnfDone
<1>7. WorkerFits(g, f, bank[w])
  BY <1>1 DEF Pop, WorkerIn, FrameIn, At, CnfDone, WorkerFits, QueueFits, InHand, Calling,
     Searching, Q!Free, Q!PopCall, Q!PushCall, Q!StealCall
<1>8. QueueFits(w, g, f, bank[w], mask[w])
  BY <1>1 DEF Pop, WorkerIn, FrameIn, At, CnfDone, WorkerFits, QueueFits, Within, Empty, InHand,
     Calling, Q!Free, Q!PopCall, Q!PushCall, Q!StealCall
<1> HIDE DEF g, f
<1> QED BY <1>2, <1>3, <1>4, <1>5, <1>6, <1>7, <1>8, QuietStep

LEMMA PoppedStep ==
  ASSUME IInv, NEW w \in Workers, limit' = limit, Popped(w)
  PROVE  IInv'
<1>1. /\ wk[w] \in WorkerIn /\ fr[w] \in FrameIn /\ w \in Q!Workers
      /\ wk \in [Workers -> WorkerIn] /\ fr \in [Workers -> FrameIn]
      /\ stop \in BOOLEAN /\ mask[w] \in SUBSET Q!Buckets
      /\ WorkerFits(wk[w], fr[w], bank[w]) /\ QueueFits(w, wk[w], fr[w], bank[w], mask[w])
  BY Here
<1> DEFINE g == [wk[w] EXCEPT !.pc = "go", !.at = fr[w].x, !.key = fr[w].b,
                           !.popped = TRUE]
           f == Q!Free(w)
<1>2. g \in WorkerIn
  <2>1. fr[w].x \in Locs \cup {0} /\ fr[w].b \in 0..Brackets
    BY <1>1, CollapseAssumption DEF FrameIn, Q!Buckets
  <2>2. "go" \in Steps /\ TRUE \in BOOLEAN
    BY DEF Steps
  <2> QED BY <1>1, <2>1, <2>2 DEF WorkerIn
<1>3. f \in FrameIn
  BY <1>1, CollapseAssumption DEF Popped, FrameIn, Q!Ops, Q!Free, At, Q!Buckets, Workers
<1>4. wk' = [wk EXCEPT ![w] = g] /\ fr' = [fr EXCEPT ![w] = f]
  BY <1>1 DEF Popped, queue, Goto, Finish, Q!PopCall, Q!PushCall, Q!StealCall, Q!Return
<1>5. /\ UNCHANGED <<bank, mask, cursor, limit, pending, cpend, printed, lines>>
      /\ stop' \in BOOLEAN
  BY <1>1 DEF Popped, queue, shared, Q!PopCall, Q!PushCall, Q!StealCall, Q!Return
<1>6. /\ g.active = wk[w].active /\ g.pool = wk[w].pool /\ g.local = wk[w].local
      /\ g.pc \notin {"halt", "flush", "print"} /\ wk[w].pc \notin {"halt", "flush", "print"}
  BY <1>1 DEF Popped, WorkerIn, At, CnfDone
<1>7. WorkerFits(g, f, bank[w])
  BY <1>1, CollapseAssumption DEF Popped, WorkerIn, FrameIn, At, CnfDone, WorkerFits, QueueFits, InHand, Calling,
     Searching, Q!Free, Q!PopCall, Q!PushCall, Q!StealCall, Q!Buckets, Workers
<1>8. QueueFits(w, g, f, bank[w], mask[w])
  BY <1>1, CollapseAssumption DEF Popped, WorkerIn, FrameIn, At, CnfDone, WorkerFits, QueueFits, Within, Empty, InHand,
     Calling, Q!Free, Q!PopCall, Q!PushCall, Q!StealCall, Q!Buckets, Workers
<1> HIDE DEF g, f
<1> QED BY <1>2, <1>3, <1>4, <1>5, <1>6, <1>7, <1>8, QuietStep

LEMMA PoppedNoneStep ==
  ASSUME IInv, NEW w \in Workers, limit' = limit, PoppedNone(w)
  PROVE  IInv'
<1>1. /\ wk[w] \in WorkerIn /\ fr[w] \in FrameIn /\ w \in Q!Workers
      /\ wk \in [Workers -> WorkerIn] /\ fr \in [Workers -> FrameIn]
      /\ stop \in BOOLEAN /\ mask[w] \in SUBSET Q!Buckets
      /\ WorkerFits(wk[w], fr[w], bank[w]) /\ QueueFits(w, wk[w], fr[w], bank[w], mask[w])
  BY Here
<1> DEFINE g == [wk[w] EXCEPT !.pc = "seek", !.k = 1, !.popped = FALSE, !.iter = Period]
           f == Q!Free(w)
<1>2. g \in WorkerIn
  <2>1. Period \in 0..Period /\ 1 \in 1..N
    BY CollapseAssumption
  <2>2. "seek" \in Steps /\ FALSE \in BOOLEAN
    BY DEF Steps
  <2> QED BY <1>1, <2>1, <2>2 DEF WorkerIn
<1>3. f \in FrameIn
  BY <1>1, CollapseAssumption DEF PoppedNone, FrameIn, Q!Ops, Q!Free, At, Q!Buckets, Workers
<1>4. wk' = [wk EXCEPT ![w] = g] /\ fr' = [fr EXCEPT ![w] = f]
  BY <1>1 DEF PoppedNone, queue, Goto, Finish, Q!PopCall, Q!PushCall, Q!StealCall, Q!Return
<1>5. /\ UNCHANGED <<bank, mask, cursor, limit, pending, cpend, printed, lines>>
      /\ stop' \in BOOLEAN
  BY <1>1 DEF PoppedNone, queue, shared, Q!PopCall, Q!PushCall, Q!StealCall, Q!Return
<1>6. /\ g.active = wk[w].active /\ g.pool = wk[w].pool /\ g.local = wk[w].local
      /\ g.pc \notin {"halt", "flush", "print"} /\ wk[w].pc \notin {"halt", "flush", "print"}
  BY <1>1 DEF PoppedNone, WorkerIn, At, CnfDone
<1>7. WorkerFits(g, f, bank[w])
  BY <1>1, CollapseAssumption DEF PoppedNone, WorkerIn, FrameIn, At, CnfDone, WorkerFits, QueueFits, InHand, Calling,
     Searching, Q!Free, Q!PopCall, Q!PushCall, Q!StealCall, Q!Buckets, Workers
<1>8. QueueFits(w, g, f, bank[w], mask[w])
  BY <1>1, CollapseAssumption DEF PoppedNone, WorkerIn, FrameIn, At, CnfDone, WorkerFits, QueueFits, Within, Empty, InHand,
     Calling, Q!Free, Q!PopCall, Q!PushCall, Q!StealCall, Q!Buckets, Workers
<1> HIDE DEF g, f
<1> QED BY <1>2, <1>3, <1>4, <1>5, <1>6, <1>7, <1>8, QuietStep

LEMMA SeekOnStep ==
  ASSUME IInv, NEW w \in Workers, limit' = limit, SeekOn(w)
  PROVE  IInv'
<1>1. /\ wk[w] \in WorkerIn /\ fr[w] \in FrameIn /\ w \in Q!Workers
      /\ wk \in [Workers -> WorkerIn] /\ fr \in [Workers -> FrameIn]
      /\ stop \in BOOLEAN /\ mask[w] \in SUBSET Q!Buckets
      /\ WorkerFits(wk[w], fr[w], bank[w]) /\ QueueFits(w, wk[w], fr[w], bank[w], mask[w])
  BY Here
<1> DEFINE g == [wk[w] EXCEPT !.k = @ + 1]
           f == fr[w]
<1>2. g \in WorkerIn
  <2>1. wk[w].k + 1 \in 1..N
    BY <1>1, CollapseAssumption DEF SeekOn, WorkerIn
  <2> QED BY <1>1, <2>1 DEF WorkerIn
<1>3. f \in FrameIn
  BY <1>1, CollapseAssumption DEF SeekOn, FrameIn, Q!Ops, Q!Free, At
<1>4. wk' = [wk EXCEPT ![w] = g] /\ fr' = [fr EXCEPT ![w] = f]
  BY <1>1 DEF SeekOn, queue, Goto, Finish, Q!PopCall, Q!PushCall, Q!StealCall, Q!Return
<1>5. /\ UNCHANGED <<bank, mask, cursor, limit, pending, cpend, printed, lines>>
      /\ stop' \in BOOLEAN
  BY <1>1 DEF SeekOn, queue, shared, Q!PopCall, Q!PushCall, Q!StealCall, Q!Return
<1>6. /\ g.active = wk[w].active /\ g.pool = wk[w].pool /\ g.local = wk[w].local
      /\ g.pc \notin {"halt", "flush", "print"} /\ wk[w].pc \notin {"halt", "flush", "print"}
  BY <1>1 DEF SeekOn, WorkerIn, At, CnfDone
<1>7. WorkerFits(g, f, bank[w])
  BY <1>1, CollapseAssumption DEF SeekOn, WorkerIn, FrameIn, At, CnfDone, WorkerFits, QueueFits, InHand, Calling,
     Searching, Q!Free, Q!PopCall, Q!PushCall, Q!StealCall
<1>8. QueueFits(w, g, f, bank[w], mask[w])
  BY <1>1, CollapseAssumption DEF SeekOn, WorkerIn, FrameIn, At, CnfDone, WorkerFits, QueueFits, Within, Empty, InHand,
     Calling, Q!Free, Q!PopCall, Q!PushCall, Q!StealCall
<1> HIDE DEF g, f
<1> QED BY <1>2, <1>3, <1>4, <1>5, <1>6, <1>7, <1>8, QuietStep

LEMMA StealStep ==
  ASSUME IInv, NEW w \in Workers, limit' = limit, Steal(w)
  PROVE  IInv'
<1>1. /\ wk[w] \in WorkerIn /\ fr[w] \in FrameIn /\ w \in Q!Workers
      /\ wk \in [Workers -> WorkerIn] /\ fr \in [Workers -> FrameIn]
      /\ stop \in BOOLEAN /\ mask[w] \in SUBSET Q!Buckets
      /\ WorkerFits(wk[w], fr[w], bank[w]) /\ QueueFits(w, wk[w], fr[w], bank[w], mask[w])
  BY Here
<1> DEFINE g == [wk[w] EXCEPT !.pc = "stealing"]
           f == [fr[w] EXCEPT !.op = IF N > 1 THEN "look" ELSE "stolen",
                           !.m = Q!Allowed(w, wk[w].popped), !.deeper = wk[w].popped]
<1>2. g \in WorkerIn
  BY <1>1, CollapseAssumption DEF Steal, WorkerIn, FrameIn, Steps, At, InHand, WorkerFits, QueueFits, Q!Allowed
<1>3. f \in FrameIn
  <2>1. /\ (IF N > 1 THEN "look" ELSE "stolen") \in Q!Ops /\ wk[w].popped \in BOOLEAN
        /\ Q!Allowed(w, wk[w].popped) \in SUBSET Q!Buckets
    BY <1>1 DEF WorkerIn, Q!Ops, Q!Allowed
  <2> QED BY <1>1, <2>1 DEF FrameIn
<1>4. wk' = [wk EXCEPT ![w] = g] /\ fr' = [fr EXCEPT ![w] = f]
  BY <1>1 DEF Steal, queue, Goto, Finish, Q!PopCall, Q!PushCall, Q!StealCall, Q!Return
<1>5. /\ UNCHANGED <<bank, mask, cursor, limit, pending, cpend, printed, lines>>
      /\ stop' \in BOOLEAN
  BY <1>1 DEF Steal, queue, shared, Q!PopCall, Q!PushCall, Q!StealCall, Q!Return
<1>6. /\ g.active = wk[w].active /\ g.pool = wk[w].pool /\ g.local = wk[w].local
      /\ g.pc \notin {"halt", "flush", "print"} /\ wk[w].pc \notin {"halt", "flush", "print"}
  BY <1>1 DEF Steal, WorkerIn, At, CnfDone
<1>7. WorkerFits(g, f, bank[w])
  BY <1>1, CollapseAssumption DEF Steal, WorkerIn, FrameIn, At, CnfDone, WorkerFits, QueueFits, InHand, Calling,
     Searching, Q!Free, Q!PopCall, Q!PushCall, Q!StealCall, Q!Allowed
<1>8. QueueFits(w, g, f, bank[w], mask[w])
  BY <1>1, CollapseAssumption DEF Steal, WorkerIn, FrameIn, At, CnfDone, WorkerFits, QueueFits, Within, Empty, InHand,
     Calling, Q!Free, Q!PopCall, Q!PushCall, Q!StealCall, Q!Allowed
<1> HIDE DEF g, f
<1> QED BY <1>2, <1>3, <1>4, <1>5, <1>6, <1>7, <1>8, QuietStep

LEMMA StoleStep ==
  ASSUME IInv, NEW w \in Workers, limit' = limit, Stole(w)
  PROVE  IInv'
<1>1. /\ wk[w] \in WorkerIn /\ fr[w] \in FrameIn /\ w \in Q!Workers
      /\ wk \in [Workers -> WorkerIn] /\ fr \in [Workers -> FrameIn]
      /\ stop \in BOOLEAN /\ mask[w] \in SUBSET Q!Buckets
      /\ WorkerFits(wk[w], fr[w], bank[w]) /\ QueueFits(w, wk[w], fr[w], bank[w], mask[w])
  BY Here
<1> DEFINE g == [wk[w] EXCEPT !.pc = IF fr[w].got > 0 THEN "top" ELSE "help", !.iter = 0]
           f == Q!Free(w)
<1>2. g \in WorkerIn
  <2>1. 0 \in 0..Period /\ (IF fr[w].got > 0 THEN "top" ELSE "help") \in Steps
    BY CollapseAssumption DEF Steps
  <2> QED BY <1>1, <2>1 DEF WorkerIn
<1>3. f \in FrameIn
  BY <1>1, CollapseAssumption DEF Stole, FrameIn, Q!Ops, Q!Free, At, Q!Buckets, Workers
<1>4. wk' = [wk EXCEPT ![w] = g] /\ fr' = [fr EXCEPT ![w] = f]
  BY <1>1 DEF Stole, queue, Goto, Finish, Q!PopCall, Q!PushCall, Q!StealCall, Q!Return
<1>5. /\ UNCHANGED <<bank, mask, cursor, limit, pending, cpend, printed, lines>>
      /\ stop' \in BOOLEAN
  BY <1>1 DEF Stole, queue, shared, Q!PopCall, Q!PushCall, Q!StealCall, Q!Return
<1>6. /\ g.active = wk[w].active /\ g.pool = wk[w].pool /\ g.local = wk[w].local
      /\ g.pc \notin {"halt", "flush", "print"} /\ wk[w].pc \notin {"halt", "flush", "print"}
  BY <1>1 DEF Stole, WorkerIn, At, CnfDone
<1>7. WorkerFits(g, f, bank[w])
  BY <1>1, CollapseAssumption DEF Stole, WorkerIn, FrameIn, At, CnfDone, WorkerFits, QueueFits, InHand, Calling,
     Searching, Q!Free, Q!PopCall, Q!PushCall, Q!StealCall, Q!Buckets, Workers
<1>8. QueueFits(w, g, f, bank[w], mask[w])
  BY <1>1, CollapseAssumption DEF Stole, WorkerIn, FrameIn, At, CnfDone, WorkerFits, QueueFits, Within, Empty, InHand,
     Calling, Q!Free, Q!PopCall, Q!PushCall, Q!StealCall, Q!Buckets, Workers
<1> HIDE DEF g, f
<1> QED BY <1>2, <1>3, <1>4, <1>5, <1>6, <1>7, <1>8, QuietStep

\* The term in hand has the fields that its kind needs.
LEMMA KidsUnder ==
  ASSUME IInv, NEW w \in Workers, wk[w].at # 0
  PROVE  /\ wk[w].at \in Locs
         /\ Is(w, "INC") => Kids[wk[w].at][1] \in Locs /\ Kids[wk[w].at][1] # 0
         /\ Is(w, "SUP") => /\ Kids[wk[w].at][1] \in Locs /\ Kids[wk[w].at][1] # 0
                            /\ Kids[wk[w].at][2] \in Locs /\ Kids[wk[w].at][2] # 0
<1>1. wk[w].at \in Locs /\ 0 \notin Locs
  BY Here, CollapseAssumption DEF WorkerIn
<1>2. PICK s \in Seq(Locs) : s = Kids[wk[w].at]
  BY <1>1, CollapseAssumption
<1>3. (Is(w, "INC") => Len(s) = 1) /\ (Is(w, "SUP") => Len(s) = 2)
  BY <1>1, <1>2, CollapseAssumption DEF Is
<1> QED BY <1>1, <1>2, <1>3

LEMMA BucketInRange ==
  ASSUME NEW key \in Nat
  PROVE  Q!Bucket(key) \in Q!Buckets
BY CollapseAssumption DEF Q!Bucket, Q!Buckets

LEMMA GoStep ==
  ASSUME IInv, NEW w \in Workers, limit' = limit, ~stop, wk[w].pc = "go", NEW n \in 0..Fields,
         wk' = [wk EXCEPT ![w] = [@ EXCEPT !.pc = "cnf", !.tasks = n]], UNCHANGED <<queue, shared, lines>>
  PROVE  IInv'
<1>1. /\ wk[w] \in WorkerIn /\ fr[w] \in FrameIn /\ w \in Q!Workers
      /\ wk \in [Workers -> WorkerIn] /\ fr \in [Workers -> FrameIn]
      /\ stop \in BOOLEAN /\ mask[w] \in SUBSET Q!Buckets
      /\ WorkerFits(wk[w], fr[w], bank[w]) /\ QueueFits(w, wk[w], fr[w], bank[w], mask[w])
  BY Here
<1> DEFINE g == [wk[w] EXCEPT !.pc = "cnf", !.tasks = n]
           f == fr[w]
<1>2. g \in WorkerIn
  <2>1. n \in Nat
    BY CollapseAssumption
  <2> QED BY <1>1, <2>1 DEF WorkerIn, Steps
<1>3. f \in FrameIn
  BY <1>1
<1>4. wk' = [wk EXCEPT ![w] = g] /\ fr' = [fr EXCEPT ![w] = f]
  BY <1>1 DEF queue, Goto, Finish, Q!PushCall, Steps
<1>5. /\ UNCHANGED <<bank, mask, cursor, limit, pending, cpend, printed, lines>>
      /\ stop' \in BOOLEAN
  BY <1>1 DEF queue, shared, Q!PushCall
<1>6. /\ g.active = wk[w].active /\ g.pool = wk[w].pool /\ g.local = wk[w].local
      /\ g.pc \notin {"halt", "flush", "print"} /\ wk[w].pc \notin {"halt", "flush", "print"}
  BY <1>1 DEF WorkerIn, At, CnfDone
<1>7. WorkerFits(g, f, bank[w])
  BY <1>1 DEF WorkerIn, FrameIn, At, CnfDone, WorkerFits, QueueFits, InHand, Calling,
     Searching, Q!Free, Q!PushCall
<1>8. QueueFits(w, g, f, bank[w], mask[w])
  BY <1>1 DEF WorkerIn, FrameIn, At, CnfDone, WorkerFits, QueueFits, Within, Empty, InHand,
     Calling, Q!Free, Q!PushCall
<1> HIDE DEF g, f
<1> QED BY <1>2, <1>3, <1>4, <1>5, <1>6, <1>7, <1>8, QuietStep

LEMMA CnfIncStep ==
  ASSUME IInv, NEW w \in Workers, limit' = limit, CnfInc(w)
  PROVE  IInv'
<1>1. /\ wk[w] \in WorkerIn /\ fr[w] \in FrameIn /\ w \in Q!Workers
      /\ wk \in [Workers -> WorkerIn] /\ fr \in [Workers -> FrameIn]
      /\ stop \in BOOLEAN /\ mask[w] \in SUBSET Q!Buckets
      /\ WorkerFits(wk[w], fr[w], bank[w]) /\ QueueFits(w, wk[w], fr[w], bank[w], mask[w])
  BY Here
<1> DEFINE g == [wk[w] EXCEPT !.pc = "go", !.at = Kids[wk[w].at][1], !.tasks = 0,
                           !.key = IF @ > 0 THEN @ - 1 ELSE @]
           f == fr[w]
<1>2. g \in WorkerIn /\ Kids[wk[w].at][1] # 0
  <2>1. wk[w].at # 0 /\ Is(w, "INC")
    BY <1>1 DEF CnfInc, CnfDone, At, WorkerFits, InHand
  <2>2. Kids[wk[w].at][1] \in Locs /\ Kids[wk[w].at][1] # 0
    BY <2>1, KidsUnder
  <2>3. (IF wk[w].key > 0 THEN wk[w].key - 1 ELSE wk[w].key) \in 0..Brackets
    BY <1>1, CollapseAssumption DEF WorkerIn
  <2> QED BY <1>1, <2>2, <2>3 DEF WorkerIn, Steps
<1>3. f \in FrameIn
  BY <1>1
<1>4. wk' = [wk EXCEPT ![w] = g] /\ fr' = [fr EXCEPT ![w] = f]
  BY <1>1 DEF CnfInc, queue, Goto, Finish, Q!PushCall, Steps
<1>5. /\ UNCHANGED <<bank, mask, cursor, limit, pending, cpend, printed, lines>>
      /\ stop' \in BOOLEAN
  BY <1>1 DEF CnfInc, queue, shared, Q!PushCall
<1>6. /\ g.active = wk[w].active /\ g.pool = wk[w].pool /\ g.local = wk[w].local
      /\ g.pc \notin {"halt", "flush", "print"} /\ wk[w].pc \notin {"halt", "flush", "print"}
  BY <1>1 DEF CnfInc, WorkerIn, At, CnfDone
<1>7. WorkerFits(g, f, bank[w])
  BY <1>1, <1>2 DEF CnfInc, WorkerIn, FrameIn, At, CnfDone, WorkerFits, QueueFits, InHand, Calling,
     Searching, Q!Free, Q!PushCall
<1>8. QueueFits(w, g, f, bank[w], mask[w])
  BY <1>1, <1>2 DEF CnfInc, WorkerIn, FrameIn, At, CnfDone, WorkerFits, QueueFits, Within, Empty, InHand,
     Calling, Q!Free, Q!PushCall
<1> HIDE DEF g, f
<1> QED BY <1>2, <1>3, <1>4, <1>5, <1>6, <1>7, <1>8, QuietStep

LEMMA CnfSupStep ==
  ASSUME IInv, NEW w \in Workers, limit' = limit, CnfSup(w)
  PROVE  IInv'
<1>1. /\ wk[w] \in WorkerIn /\ fr[w] \in FrameIn /\ w \in Q!Workers
      /\ wk \in [Workers -> WorkerIn] /\ fr \in [Workers -> FrameIn]
      /\ stop \in BOOLEAN /\ mask[w] \in SUBSET Q!Buckets
      /\ WorkerFits(wk[w], fr[w], bank[w]) /\ QueueFits(w, wk[w], fr[w], bank[w], mask[w])
  BY Here
<1> DEFINE g == [wk[w] EXCEPT !.pc = "second", !.tasks = 0]
           f == [fr[w] EXCEPT !.op = "push", !.b = Q!Bucket(wk[w].key + 1),
                           !.x = Kids[wk[w].at][1]]
<1>2. /\ g \in WorkerIn /\ wk[w].at # 0 /\ Kids[wk[w].at][1] \in Locs
      /\ Kids[wk[w].at][1] # 0
  <2>1. wk[w].at # 0 /\ Is(w, "SUP")
    BY <1>1 DEF CnfSup, CnfDone, At, WorkerFits, InHand
  <2> QED BY <1>1, <2>1, KidsUnder DEF WorkerIn, Steps
<1>3. f \in FrameIn
  <2>1. wk[w].key + 1 \in Nat
    BY <1>1, CollapseAssumption DEF WorkerIn
  <2>2. Q!Bucket(wk[w].key + 1) \in Q!Buckets
    BY <2>1, BucketInRange
  <2> QED BY <1>1, <1>2, <2>2 DEF FrameIn, Q!Ops
<1>4. wk' = [wk EXCEPT ![w] = g] /\ fr' = [fr EXCEPT ![w] = f]
  BY <1>1 DEF CnfSup, queue, Goto, Finish, Q!PushCall, Steps
<1>5. /\ UNCHANGED <<bank, mask, cursor, limit, pending, cpend, printed, lines>>
      /\ stop' \in BOOLEAN
  BY <1>1 DEF CnfSup, queue, shared, Q!PushCall
<1>6. /\ g.active = wk[w].active /\ g.pool = wk[w].pool /\ g.local = wk[w].local
      /\ g.pc \notin {"halt", "flush", "print"} /\ wk[w].pc \notin {"halt", "flush", "print"}
  BY <1>1 DEF CnfSup, WorkerIn, At, CnfDone
<1>7. WorkerFits(g, f, bank[w])
  <2>1. wk[w].pc = "cnf" /\ Kind[wk[w].at] = "SUP"
    BY DEF CnfSup, CnfDone, At, Is
  <2>2. wk[w].popped /\ wk[w].active
    BY <1>1, <2>1 DEF WorkerFits, InHand
  <2>3. g.pc = "second" /\ g.at = wk[w].at /\ g.popped /\ g.active
    BY <1>1, <2>2 DEF WorkerIn
  <2> HIDE DEF g, f
  <2> QED BY <1>2, <2>1, <2>3 DEF WorkerFits, InHand, Calling, Searching
<1>8. QueueFits(w, g, f, bank[w], mask[w])
  BY <1>1, <1>2 DEF CnfSup, WorkerIn, FrameIn, At, CnfDone, WorkerFits, QueueFits, Within, Empty, InHand,
     Calling, Q!Free, Q!PushCall
<1> HIDE DEF g, f
<1> QED BY <1>2, <1>3, <1>4, <1>5, <1>6, <1>7, <1>8, QuietStep

LEMMA HelpDoneStep ==
  ASSUME IInv, NEW w \in Workers, limit' = limit, HelpDone(w)
  PROVE  IInv'
<1>1. /\ wk[w] \in WorkerIn /\ fr[w] \in FrameIn /\ w \in Q!Workers
      /\ wk \in [Workers -> WorkerIn] /\ fr \in [Workers -> FrameIn]
      /\ stop \in BOOLEAN /\ mask[w] \in SUBSET Q!Buckets
      /\ WorkerFits(wk[w], fr[w], bank[w]) /\ QueueFits(w, wk[w], fr[w], bank[w], mask[w])
  BY Here
<1> DEFINE g == [wk[w] EXCEPT !.pc = "top", !.aids = w, !.tasks = 0]
           f == fr[w]
<1>2. g \in WorkerIn
  BY <1>1 DEF WorkerIn, Steps
<1>3. f \in FrameIn
  BY <1>1
<1>4. wk' = [wk EXCEPT ![w] = g] /\ fr' = [fr EXCEPT ![w] = f]
  BY <1>1 DEF HelpDone, queue, Goto, Finish, Q!PushCall, Steps
<1>5. /\ UNCHANGED <<bank, mask, cursor, limit, pending, cpend, printed, lines>>
      /\ stop' \in BOOLEAN
  BY <1>1 DEF HelpDone, queue, shared, Q!PushCall
<1>6. /\ g.active = wk[w].active /\ g.pool = wk[w].pool /\ g.local = wk[w].local
      /\ g.pc \notin {"halt", "flush", "print"} /\ wk[w].pc \notin {"halt", "flush", "print"}
  BY <1>1 DEF HelpDone, WorkerIn, At, CnfDone
<1>7. WorkerFits(g, f, bank[w])
  BY <1>1 DEF HelpDone, WorkerIn, FrameIn, At, CnfDone, WorkerFits, QueueFits, InHand, Calling,
     Searching, Q!Free, Q!PushCall
<1>8. QueueFits(w, g, f, bank[w], mask[w])
  BY <1>1 DEF HelpDone, WorkerIn, FrameIn, At, CnfDone, WorkerFits, QueueFits, Within, Empty, InHand,
     Calling, Q!Free, Q!PushCall
<1> HIDE DEF g, f
<1> QED BY <1>2, <1>3, <1>4, <1>5, <1>6, <1>7, <1>8, QuietStep

LEMMA CnfSupSecondStep ==
  ASSUME IInv, NEW w \in Workers, limit' = limit, CnfSupSecond(w)
  PROVE  IInv'
<1>1. /\ wk[w] \in WorkerIn /\ fr[w] \in FrameIn /\ w \in Q!Workers
      /\ wk \in [Workers -> WorkerIn] /\ fr \in [Workers -> FrameIn]
      /\ stop \in BOOLEAN /\ mask[w] \in SUBSET Q!Buckets
      /\ WorkerFits(wk[w], fr[w], bank[w]) /\ QueueFits(w, wk[w], fr[w], bank[w], mask[w])
  BY Here
<1> DEFINE g == [wk[w] EXCEPT !.pc = "pushed"]
           f == [fr[w] EXCEPT !.op = "push", !.b = Q!Bucket(wk[w].key + 1),
                           !.x = Kids[wk[w].at][2]]
<1>2. /\ g \in WorkerIn /\ wk[w].at # 0 /\ Kids[wk[w].at][2] \in Locs
      /\ Kids[wk[w].at][2] # 0
  <2>1. wk[w].at # 0 /\ Is(w, "SUP")
    BY <1>1 DEF CnfSupSecond, At, Is, WorkerFits, InHand
  <2> QED BY <1>1, <2>1, KidsUnder DEF WorkerIn, Steps
<1>3. f \in FrameIn
  <2>1. wk[w].key + 1 \in Nat
    BY <1>1, CollapseAssumption DEF WorkerIn
  <2>2. Q!Bucket(wk[w].key + 1) \in Q!Buckets
    BY <2>1, BucketInRange
  <2> QED BY <1>1, <1>2, <2>2 DEF FrameIn, Q!Ops
<1>4. wk' = [wk EXCEPT ![w] = g] /\ fr' = [fr EXCEPT ![w] = f]
  BY <1>1 DEF CnfSupSecond, queue, Goto, Finish, Q!PushCall, Steps
<1>5. /\ UNCHANGED <<bank, mask, cursor, limit, pending, cpend, printed, lines>>
      /\ stop' \in BOOLEAN
  BY <1>1 DEF CnfSupSecond, queue, shared, Q!PushCall
<1>6. /\ g.active = wk[w].active /\ g.pool = wk[w].pool /\ g.local = wk[w].local
      /\ g.pc \notin {"halt", "flush", "print"} /\ wk[w].pc \notin {"halt", "flush", "print"}
  BY <1>1 DEF CnfSupSecond, WorkerIn, At, CnfDone
<1>7. WorkerFits(g, f, bank[w])
  BY <1>1, <1>2 DEF CnfSupSecond, WorkerIn, FrameIn, At, CnfDone, WorkerFits, QueueFits, InHand, Calling,
     Searching, Q!Free, Q!PushCall
<1>8. QueueFits(w, g, f, bank[w], mask[w])
  BY <1>1, <1>2 DEF CnfSupSecond, WorkerIn, FrameIn, At, CnfDone, WorkerFits, QueueFits, Within, Empty, InHand,
     Calling, Q!Free, Q!PushCall
<1> HIDE DEF g, f
<1> QED BY <1>2, <1>3, <1>4, <1>5, <1>6, <1>7, <1>8, QuietStep

\* The return of eval_collapse_process_loc.
Finished(g) == [g EXCEPT !.pc = IF g.iter + 1 < Period THEN "top" ELSE "seek",
                         !.iter = IF g.iter < Period THEN g.iter + 1 ELSE g.iter,
                         !.k = 1, !.at = 0, !.key = 0, !.tasks = 0]

LEMMA FinishedFits ==
  ASSUME IInv, NEW w \in Workers, wk[w].pc \in InHand, fr[w].op \in {"none", "dead"}, fr[w].x = 0
  PROVE  /\ Finished(wk[w]) \in WorkerIn
         /\ Finish(w, wk[w]) => wk' = [wk EXCEPT ![w] = Finished(wk[w])]
         /\ Finished(wk[w]).pc \in {"top", "seek"}
         /\ Finished(wk[w]).active = wk[w].active /\ Finished(wk[w]).pool = wk[w].pool
         /\ Finished(wk[w]).local = wk[w].local
         /\ WorkerFits(Finished(wk[w]), fr[w], bank[w])
         /\ QueueFits(w, Finished(wk[w]), fr[w], bank[w], mask[w])
<1>1. /\ wk[w] \in WorkerIn /\ WorkerFits(wk[w], fr[w], bank[w])
      /\ QueueFits(w, wk[w], fr[w], bank[w], mask[w])
  BY Here
<1> DEFINE g == Finished(wk[w])
<1>2. g \in WorkerIn
  <2>1. /\ (IF wk[w].iter < Period THEN wk[w].iter + 1 ELSE wk[w].iter) \in 0..Period
        /\ 0 \in 0..Brackets /\ 1 \in 1..N
    BY <1>1, CollapseAssumption DEF WorkerIn
  <2>2. (IF wk[w].iter + 1 < Period THEN "top" ELSE "seek") \in Steps
    BY DEF Steps
  <2> QED BY <1>1, <2>1, <2>2 DEF WorkerIn, Finished
<1>3. /\ g.pc \in {"top", "seek"} /\ g.at = 0 /\ g.active = wk[w].active /\ g.pool = wk[w].pool
      /\ g.local = wk[w].local /\ g.popped = wk[w].popped
  BY <1>1 DEF WorkerIn, Finished
<1>4. Finish(w, wk[w]) => wk' = [wk EXCEPT ![w] = g]
  BY DEF Finish, Finished
<1> HIDE DEF g
<1>5. WorkerFits(g, fr[w], bank[w])
  BY <1>1, <1>3 DEF WorkerFits, InHand, Calling, Searching
<1>6. QueueFits(w, g, fr[w], bank[w], mask[w])
  BY <1>1, <1>3 DEF QueueFits
<1> QED BY <1>2, <1>3, <1>4, <1>5, <1>6 DEF g

LEMMA FinishSteps ==
  ASSUME IInv, NEW w \in Workers, limit' = limit,
         GoStopped(w) \/ CnfSupPushed(w) \/ CnfEra(w)
  PROVE  IInv'
<1>1. /\ wk[w] \in WorkerIn /\ fr[w] \in FrameIn /\ stop \in BOOLEAN
      /\ fr \in [Workers -> FrameIn]
      /\ WorkerFits(wk[w], fr[w], bank[w]) /\ QueueFits(w, wk[w], fr[w], bank[w], mask[w])
  BY Here
<1>2. /\ wk[w].pc \in {"go", "cnf", "pushed"} /\ (wk[w].pc = "pushed" => fr[w].op = "none")
      /\ Finish(w, wk[w]) /\ UNCHANGED <<queue, shared, lines>>
  BY DEF GoStopped, CnfSupPushed, CnfEra, CnfDone, At
<1>3. wk[w].pc \in InHand /\ fr[w].op \in {"none", "dead"} /\ fr[w].x = 0
  BY <1>1, <1>2 DEF WorkerFits, QueueFits, InHand, Calling
<1> DEFINE g == Finished(wk[w])
<1>4. /\ g \in WorkerIn /\ wk' = [wk EXCEPT ![w] = g]
      /\ g.pc \in {"top", "seek"} /\ g.active = wk[w].active /\ g.pool = wk[w].pool
      /\ g.local = wk[w].local
      /\ WorkerFits(g, fr[w], bank[w]) /\ QueueFits(w, g, fr[w], bank[w], mask[w])
  BY <1>2, <1>3, FinishedFits
<1>5. /\ UNCHANGED <<bank, mask, cursor, limit, pending, cpend, printed, lines>>
      /\ stop' \in BOOLEAN
  BY <1>1, <1>2 DEF queue, shared
<1>6. fr' = [fr EXCEPT ![w] = fr[w]] /\ wk[w].pc \notin {"halt", "flush", "print"}
      /\ g.pc \notin {"halt", "flush", "print"}
  BY <1>1, <1>2, <1>4 DEF queue
<1> HIDE DEF g
<1> QED BY <1>1, <1>4, <1>5, <1>6, QuietStep

\* The steps above, by the action they are of.
LEMMA QuietActions ==
  ASSUME IInv, NEW w \in Workers, limit' = limit,
         \/ Stopped(w) \/ Pop(w) \/ Popped(w) \/ PoppedNone(w)
         \/ SeekOn(w) \/ SeekNone(w) \/ SeekFound(w) \/ Steal(w) \/ Stole(w)
         \/ ReadPending(w) \/ ReadCnfPending(w) \/ SetStop(w)
         \/ GoStopped(w) \/ Go(w) \/ CnfInc(w) \/ CnfSup(w) \/ CnfSupSecond(w)
         \/ CnfSupPushed(w) \/ CnfEra(w) \/ HelpOff(w) \/ HelpNone(w) \/ HelpDone(w)
  PROVE  IInv'
<1>1. CASE Go(w)
  BY <1>1, GoStep DEF Go, At
<1> QED BY <1>1, GoingSteps, PopStep, PoppedStep, PoppedNoneStep, SeekOnStep, StealStep, StoleStep,
           CnfIncStep, CnfSupStep, CnfSupSecondStep, HelpDoneStep, FinishSteps

-----------------------------------------------------------------------------
(* The steps that count, and those that count or print a line.             *)

LEMMA BusyStep ==
  ASSUME IInv, NEW w \in Workers, NEW g \in WorkerIn,
         wk' = [wk EXCEPT ![w] = g], UNCHANGED <<queue, limit>>,
         stop' \in BOOLEAN, printed' \in Nat, lines' \in Seq(Locs),
         pending' = pending + (IF g.active THEN 1 ELSE 0) - (IF wk[w].active THEN 1 ELSE 0),
         cpend' = cpend + (IF g.pool THEN 1 ELSE 0) - (IF wk[w].pool THEN 1 ELSE 0),
         WorkerFits(g, fr[w], bank[w]), g.pc # "stealing",
         PrintBatch = 1 =>
           /\ g.local = IF g.pc \in {"halt", "flush"} THEN 1 ELSE 0
           /\ Len(lines') + (IF g.pc = "print" THEN 1 ELSE 0) + printed
                <= Len(lines) + (IF wk[w].pc = "print" THEN 1 ELSE 0) + printed'
           /\ Len(lines') <= limit
  PROVE  IInv'
<1>1. Types /\ WorkersFit /\ Counted /\ LimitKept
  BY DEF IInv
<1>2. Counted' /\ pending' \in Nat /\ cpend' \in Nat
  BY <1>1, StepCounts
<1>3. fr[w] \in FrameIn /\ fr' = [fr EXCEPT ![w] = fr[w]]
      /\ QueueFits(w, wk[w], fr[w], bank[w], mask[w])
  BY Here DEF queue
<1>4. QueueFits(w, g, fr[w], bank[w], mask[w])
  BY <1>3 DEF QueueFits
<1>5. UNCHANGED <<bank, mask, cursor, limit>> /\ limit' = limit
  BY DEF queue
<1>6. Types' /\ WorkersFit'
  BY <1>1, <1>2, <1>3, <1>4, <1>5, StepFits
<1>7. LimitKept'
  BY <1>1, <1>5, StepLimit
<1> QED BY <1>2, <1>6, <1>7 DEF IInv

LEMMA CountingStep ==
  ASSUME IInv, NEW w \in Workers, NEW g \in WorkerIn,
         wk' = [wk EXCEPT ![w] = g], UNCHANGED <<queue, limit, stop, printed, lines>>,
         pending' = pending + (IF g.active THEN 1 ELSE 0) - (IF wk[w].active THEN 1 ELSE 0),
         cpend' = cpend + (IF g.pool THEN 1 ELSE 0) - (IF wk[w].pool THEN 1 ELSE 0),
         WorkerFits(g, fr[w], bank[w]), g.local = wk[w].local,
         g.pc \notin {"stealing", "halt", "flush", "print"},
         wk[w].pc \notin {"halt", "flush", "print"}
  PROVE  IInv'
<1>1. /\ stop' \in BOOLEAN /\ printed' \in Nat /\ lines' \in Seq(Locs)
      /\ Len(lines) \in Nat /\ printed \in Nat /\ printed' = printed /\ lines' = lines
  BY DEF IInv, Types
<1>2. PrintBatch = 1 =>
        /\ g.local = IF g.pc \in {"halt", "flush"} THEN 1 ELSE 0
        /\ Len(lines') + (IF g.pc = "print" THEN 1 ELSE 0) + printed
             <= Len(lines) + (IF wk[w].pc = "print" THEN 1 ELSE 0) + printed'
        /\ Len(lines') <= limit
  BY <1>1 DEF IInv, LimitKept
<1>3. UNCHANGED <<queue, limit>> /\ g.pc # "stealing"
  OBVIOUS
<1> QED BY <1>1, <1>2, <1>3, BusyStep

LEMMA EnterStep ==
  ASSUME IInv, NEW w \in Workers, limit' = limit, Enter(w)
  PROVE  IInv'
<1>1. /\ wk[w] \in WorkerIn /\ wk \in [Workers -> WorkerIn]
      /\ WorkerFits(wk[w], fr[w], bank[w]) /\ pending \in Nat /\ cpend \in Nat
  BY Here DEF IInv, Types
<1> DEFINE g == [wk[w] EXCEPT !.pc = "steal", !.active = TRUE]
<1>2. g \in WorkerIn
  BY <1>1 DEF Enter, At, WorkerIn, Steps
<1>3. wk' = [wk EXCEPT ![w] = g] /\ UNCHANGED <<queue, limit, stop, printed, lines>>
  BY <1>1 DEF Enter, shared
<1>4. /\ pending' = pending + (IF g.active THEN 1 ELSE 0) - (IF wk[w].active THEN 1 ELSE 0)
      /\ cpend' = cpend + (IF g.pool THEN 1 ELSE 0) - (IF wk[w].pool THEN 1 ELSE 0)
  BY <1>1 DEF Enter, At, WorkerIn, WorkerFits, shared
<1>5. WorkerFits(g, fr[w], bank[w])
  BY <1>1 DEF Enter, At, CnfDone, WorkerIn, WorkerFits, InHand, Calling, Searching
<1>6. /\ g.local = wk[w].local /\ g.pc \notin {"stealing", "halt", "flush", "print"}
      /\ wk[w].pc \notin {"halt", "flush", "print"}
  BY <1>1 DEF Enter, At, WorkerIn
<1> HIDE DEF g
<1> QED BY <1>2, <1>3, <1>4, <1>5, <1>6, CountingStep

\* The worker has nothing, or it would have popped it.
LEMMA RetireLeaves ==
  ASSUME IInv, NEW w \in Workers, limit' = limit, Retire(w),
         wk[w].active /\ ~wk[w].popped
  PROVE  IInv'
<1>1. /\ wk[w] \in WorkerIn /\ wk \in [Workers -> WorkerIn]
      /\ WorkerFits(wk[w], fr[w], bank[w]) /\ pending \in Nat /\ cpend \in Nat
  BY Here DEF IInv, Types
<1> DEFINE g == [wk[w] EXCEPT !.pc = "zero", !.active = FALSE]
<1>2. g \in WorkerIn
  BY <1>1 DEF Retire, At, WorkerIn, Steps
<1>3. wk' = [wk EXCEPT ![w] = g] /\ UNCHANGED <<queue, limit, stop, printed, lines>>
  BY <1>1 DEF Retire, shared
<1>4. /\ pending' = pending + (IF g.active THEN 1 ELSE 0) - (IF wk[w].active THEN 1 ELSE 0)
      /\ cpend' = cpend + (IF g.pool THEN 1 ELSE 0) - (IF wk[w].pool THEN 1 ELSE 0)
  BY <1>1 DEF Retire, At, WorkerIn, WorkerFits, shared
<1>5. WorkerFits(g, fr[w], bank[w])
  BY <1>1 DEF Retire, At, CnfDone, WorkerIn, WorkerFits, InHand, Calling, Searching
<1>6. /\ g.local = wk[w].local /\ g.pc \notin {"stealing", "halt", "flush", "print"}
      /\ wk[w].pc \notin {"halt", "flush", "print"}
  BY <1>1 DEF Retire, At, WorkerIn
<1> HIDE DEF g
<1> QED BY <1>2, <1>3, <1>4, <1>5, <1>6, CountingStep

LEMMA RetireStays ==
  ASSUME IInv, NEW w \in Workers, limit' = limit, Retire(w),
         ~(wk[w].active /\ ~wk[w].popped)
  PROVE  IInv'
<1>1. /\ wk[w] \in WorkerIn /\ wk \in [Workers -> WorkerIn]
      /\ WorkerFits(wk[w], fr[w], bank[w]) /\ pending \in Nat /\ cpend \in Nat
  BY Here DEF IInv, Types
<1> DEFINE g == [wk[w] EXCEPT !.pc = "zero"]
<1>2. g \in WorkerIn
  BY <1>1 DEF Retire, At, WorkerIn, Steps
<1>3. wk' = [wk EXCEPT ![w] = g] /\ UNCHANGED <<queue, limit, stop, printed, lines>>
  BY <1>1 DEF Retire, Goto, shared
<1>4. /\ pending' = pending + (IF g.active THEN 1 ELSE 0) - (IF wk[w].active THEN 1 ELSE 0)
      /\ cpend' = cpend + (IF g.pool THEN 1 ELSE 0) - (IF wk[w].pool THEN 1 ELSE 0)
  BY <1>1 DEF Retire, At, WorkerIn, WorkerFits, shared
<1>5. WorkerFits(g, fr[w], bank[w])
  BY <1>1 DEF Retire, At, CnfDone, WorkerIn, WorkerFits, InHand, Calling, Searching
<1>6. /\ g.local = wk[w].local /\ g.pc \notin {"stealing", "halt", "flush", "print"}
      /\ wk[w].pc \notin {"halt", "flush", "print"}
  BY <1>1 DEF Retire, At, WorkerIn
<1> HIDE DEF g
<1> QED BY <1>2, <1>3, <1>4, <1>5, <1>6, CountingStep

LEMMA HelpDropStep ==
  ASSUME IInv, NEW w \in Workers, limit' = limit, HelpDrop(w)
  PROVE  IInv'
<1>1. /\ wk[w] \in WorkerIn /\ wk \in [Workers -> WorkerIn]
      /\ WorkerFits(wk[w], fr[w], bank[w]) /\ pending \in Nat /\ cpend \in Nat
  BY Here DEF IInv, Types
<1> DEFINE g == [wk[w] EXCEPT !.pc = "try", !.pool = FALSE]
<1>2. g \in WorkerIn
  BY <1>1 DEF HelpDrop, At, WorkerIn, Steps
<1>3. wk' = [wk EXCEPT ![w] = g] /\ UNCHANGED <<queue, limit, stop, printed, lines>>
  BY <1>1 DEF HelpDrop, shared
<1>4. /\ pending' = pending + (IF g.active THEN 1 ELSE 0) - (IF wk[w].active THEN 1 ELSE 0)
      /\ cpend' = cpend + (IF g.pool THEN 1 ELSE 0) - (IF wk[w].pool THEN 1 ELSE 0)
  BY <1>1 DEF HelpDrop, At, WorkerIn, WorkerFits, shared
<1>5. WorkerFits(g, fr[w], bank[w])
  BY <1>1 DEF HelpDrop, At, CnfDone, WorkerIn, WorkerFits, InHand, Calling, Searching
<1>6. /\ g.local = wk[w].local /\ g.pc \notin {"stealing", "halt", "flush", "print"}
      /\ wk[w].pc \notin {"halt", "flush", "print"}
  BY <1>1 DEF HelpDrop, At, WorkerIn
<1> HIDE DEF g
<1> QED BY <1>2, <1>3, <1>4, <1>5, <1>6, CountingStep

LEMMA HelpCountStep ==
  ASSUME IInv, NEW w \in Workers, limit' = limit, HelpCount(w)
  PROVE  IInv'
<1>1. /\ wk[w] \in WorkerIn /\ wk \in [Workers -> WorkerIn]
      /\ WorkerFits(wk[w], fr[w], bank[w]) /\ pending \in Nat /\ cpend \in Nat
  BY Here DEF IInv, Types
<1>0. PICK n \in 0..Fields :
        wk' = [wk EXCEPT ![w] = [@ EXCEPT !.pc = "aid", !.pool = TRUE, !.tasks = n]]
  BY DEF HelpCount
<1> DEFINE g == [wk[w] EXCEPT !.pc = "aid", !.pool = TRUE, !.tasks = n]
<1>2. g \in WorkerIn
  <2>1. n \in Nat /\ "aid" \in Steps
    BY CollapseAssumption DEF Steps
  <2> QED BY <1>1, <2>1 DEF WorkerIn
<1>3. wk' = [wk EXCEPT ![w] = g] /\ UNCHANGED <<queue, limit, stop, printed, lines>>
  <2>1. UNCHANGED <<queue, limit, stop, printed, lines>>
    BY DEF HelpCount
  <2> QED BY <1>0, <2>1
<1>4. /\ pending' = pending + (IF g.active THEN 1 ELSE 0) - (IF wk[w].active THEN 1 ELSE 0)
      /\ cpend' = cpend + (IF g.pool THEN 1 ELSE 0) - (IF wk[w].pool THEN 1 ELSE 0)
  BY <1>1 DEF HelpCount, At, WorkerIn, WorkerFits, shared
<1>5. WorkerFits(g, fr[w], bank[w])
  BY <1>1 DEF HelpCount, At, CnfDone, WorkerIn, WorkerFits, InHand, Calling, Searching
<1>6. /\ g.local = wk[w].local /\ g.pc \notin {"stealing", "halt", "flush", "print"}
      /\ wk[w].pc \notin {"halt", "flush", "print"}
  BY <1>1 DEF HelpCount, At, WorkerIn
<1> HIDE DEF g
<1> QED BY <1>2, <1>3, <1>4, <1>5, <1>6, CountingStep

LEMMA JoinDropStep ==
  ASSUME IInv, NEW w \in Workers, limit' = limit, JoinDrop(w)
  PROVE  IInv'
<1>1. /\ wk[w] \in WorkerIn /\ wk \in [Workers -> WorkerIn]
      /\ WorkerFits(wk[w], fr[w], bank[w]) /\ pending \in Nat /\ cpend \in Nat
  BY Here DEF IInv, Types
<1> DEFINE g == [wk[w] EXCEPT !.pool = FALSE]
<1>2. g \in WorkerIn
  BY <1>1 DEF JoinDrop, At, WorkerIn, Steps
<1>3. wk' = [wk EXCEPT ![w] = g] /\ UNCHANGED <<queue, limit, stop, printed, lines>>
  BY <1>1 DEF JoinDrop, shared
<1>4. /\ pending' = pending + (IF g.active THEN 1 ELSE 0) - (IF wk[w].active THEN 1 ELSE 0)
      /\ cpend' = cpend + (IF g.pool THEN 1 ELSE 0) - (IF wk[w].pool THEN 1 ELSE 0)
  BY <1>1 DEF JoinDrop, At, WorkerIn, WorkerFits, shared
<1>5. WorkerFits(g, fr[w], bank[w])
  BY <1>1 DEF JoinDrop, Waits, At, WorkerIn, WorkerFits, InHand, Calling, Searching
<1>6. /\ g.local = wk[w].local /\ g.pc \notin {"stealing", "halt", "flush", "print"}
      /\ wk[w].pc \notin {"halt", "flush", "print"}
  BY <1>1 DEF JoinDrop, Waits, At, WorkerIn
<1> HIDE DEF g
<1> QED BY <1>2, <1>3, <1>4, <1>5, <1>6, CountingStep

LEMMA JoinTakeStep ==
  ASSUME IInv, NEW w \in Workers, limit' = limit, JoinTake(w)
  PROVE  IInv'
<1>1. /\ wk[w] \in WorkerIn /\ wk \in [Workers -> WorkerIn]
      /\ WorkerFits(wk[w], fr[w], bank[w]) /\ pending \in Nat /\ cpend \in Nat
  BY Here DEF IInv, Types
<1>0. PICK n \in Nat : wk' = [wk EXCEPT ![w] = [@ EXCEPT !.pool = TRUE, !.tasks = n]]
  <2> DEFINE left == IF Unaided(w) THEN wk[w].tasks - 1 ELSE wk[w].tasks
  <2>1. left \in Nat
    BY <1>1 DEF JoinTake, Waits, WorkerIn
  <2>2. wk' = [wk EXCEPT ![w] = [@ EXCEPT !.pool = TRUE, !.tasks = left]]
    BY DEF JoinTake
  <2> QED BY <2>1, <2>2
<1> DEFINE g == [wk[w] EXCEPT !.pool = TRUE, !.tasks = n]
<1>2. g \in WorkerIn
  BY <1>1 DEF WorkerIn
<1>3. wk' = [wk EXCEPT ![w] = g] /\ UNCHANGED <<queue, limit, stop, printed, lines>>
  <2>1. UNCHANGED <<queue, limit, stop, printed, lines>>
    BY DEF JoinTake
  <2> QED BY <1>0, <2>1
<1>4. /\ pending' = pending + (IF g.active THEN 1 ELSE 0) - (IF wk[w].active THEN 1 ELSE 0)
      /\ cpend' = cpend + (IF g.pool THEN 1 ELSE 0) - (IF wk[w].pool THEN 1 ELSE 0)
  BY <1>1 DEF JoinTake, At, WorkerIn, WorkerFits, shared
<1>5. WorkerFits(g, fr[w], bank[w])
  BY <1>1 DEF JoinTake, Waits, At, WorkerIn, WorkerFits, InHand, Calling, Searching
<1>6. /\ g.local = wk[w].local /\ g.pc \notin {"stealing", "halt", "flush", "print"}
      /\ wk[w].pc \notin {"halt", "flush", "print"}
  BY <1>1 DEF JoinTake, Waits, At, WorkerIn
<1> HIDE DEF g
<1> QED BY <1>2, <1>3, <1>4, <1>5, <1>6, CountingStep

LEMMA LeaveStep ==
  ASSUME IInv, NEW w \in Workers, limit' = limit, Leave(w)
  PROVE  IInv'
<1>1. /\ wk[w] \in WorkerIn /\ wk \in [Workers -> WorkerIn] /\ stop \in BOOLEAN
      /\ WorkerFits(wk[w], fr[w], bank[w])
      /\ pending \in Nat /\ cpend \in Nat /\ printed \in Nat /\ limit \in Nat
      /\ lines \in Seq(Locs) /\ Len(lines) \in Nat
  BY Here, CollapseAssumption DEF IInv, Types
<1>2. PrintBatch = 1 =>
        /\ wk[w].local = IF wk[w].pc \in {"halt", "flush"} THEN 1 ELSE 0
        /\ Len(lines) <= limit
  BY DEF IInv, LimitKept
<1> DEFINE g == [wk[w] EXCEPT !.pc = "done", !.local = 0]
<1>3. g \in WorkerIn
  BY <1>1 DEF WorkerIn, Steps
<1>4. /\ wk' = [wk EXCEPT ![w] = g] /\ UNCHANGED <<queue, limit, pending, cpend>>
      /\ stop' \in BOOLEAN /\ g.active = wk[w].active /\ g.pool = wk[w].pool
  BY <1>1 DEF Leave, Goto, shared, WorkerIn
<1>5. /\ pending' = pending + (IF g.active THEN 1 ELSE 0) - (IF wk[w].active THEN 1 ELSE 0)
      /\ cpend' = cpend + (IF g.pool THEN 1 ELSE 0) - (IF wk[w].pool THEN 1 ELSE 0)
  BY <1>1, <1>4
<1>6. printed' \in Nat /\ lines' \in Seq(Locs)
  BY <1>1 DEF Leave, shared, WorkerIn
<1>7. WorkerFits(g, fr[w], bank[w]) /\ g.pc # "stealing"
  BY <1>1 DEF Leave, At, CnfDone, WorkerIn, WorkerFits, InHand, Calling, Searching
<1>8. PrintBatch = 1 =>
        /\ g.local = IF g.pc \in {"halt", "flush"} THEN 1 ELSE 0
        /\ Len(lines') + (IF g.pc = "print" THEN 1 ELSE 0) + printed
             <= Len(lines) + (IF wk[w].pc = "print" THEN 1 ELSE 0) + printed'
        /\ Len(lines') <= limit
  BY <1>1, <1>2 DEF Leave, At, WorkerIn
<1> HIDE DEF g
<1> QED BY <1>3, <1>4, <1>5, <1>6, <1>7, <1>8, BusyStep

LEMMA CnfLeafStep ==
  ASSUME IInv, NEW w \in Workers, limit' = limit, CnfLeaf(w)
  PROVE  IInv'
<1>1. /\ wk[w] \in WorkerIn /\ wk \in [Workers -> WorkerIn] /\ stop \in BOOLEAN
      /\ WorkerFits(wk[w], fr[w], bank[w])
      /\ pending \in Nat /\ cpend \in Nat /\ printed \in Nat /\ limit \in Nat
      /\ lines \in Seq(Locs) /\ Len(lines) \in Nat
  BY Here, CollapseAssumption DEF IInv, Types
<1>2. PrintBatch = 1 =>
        /\ wk[w].local = IF wk[w].pc \in {"halt", "flush"} THEN 1 ELSE 0
        /\ Len(lines) <= limit
  BY DEF IInv, LimitKept
<1> DEFINE g == [wk[w] EXCEPT !.local = wk[w].local + 1,
                           !.pc = IF printed + (wk[w].local + 1) >= limit THEN "halt"
                                  ELSE IF wk[w].local + 1 >= PrintBatch THEN "flush" ELSE "print"]
<1>3. g \in WorkerIn
  <2>1. wk[w].local + 1 \in Nat
    BY <1>1 DEF WorkerIn
  <2>2. (IF printed + (wk[w].local + 1) >= limit THEN "halt"
         ELSE IF wk[w].local + 1 >= PrintBatch THEN "flush" ELSE "print") \in Steps
    BY DEF Steps
  <2> QED BY <1>1, <2>1, <2>2 DEF WorkerIn
<1>4. /\ wk' = [wk EXCEPT ![w] = g] /\ UNCHANGED <<queue, limit, pending, cpend>>
      /\ stop' \in BOOLEAN /\ g.active = wk[w].active /\ g.pool = wk[w].pool
  BY <1>1 DEF CnfLeaf, Goto, shared, WorkerIn
<1>5. /\ pending' = pending + (IF g.active THEN 1 ELSE 0) - (IF wk[w].active THEN 1 ELSE 0)
      /\ cpend' = cpend + (IF g.pool THEN 1 ELSE 0) - (IF wk[w].pool THEN 1 ELSE 0)
  BY <1>1, <1>4
<1>6. printed' \in Nat /\ lines' \in Seq(Locs)
  BY <1>1 DEF CnfLeaf, shared, WorkerIn
<1>7. WorkerFits(g, fr[w], bank[w]) /\ g.pc # "stealing"
  <2>1. wk[w].pc = "cnf" /\ Kind[wk[w].at] = "LEAF"
    BY DEF CnfLeaf, CnfDone, At, Is
  <2>2. /\ wk[w].popped /\ wk[w].active /\ wk[w].at # 0
        /\ fr[w].op \in {"none", "dead"} /\ fr[w].x = 0
    BY <1>1, <2>1 DEF WorkerFits, InHand, Calling
  <2>3. g.pc \in {"halt", "flush", "print"} /\ g.at = wk[w].at /\ g.popped /\ g.active
    BY <1>1, <2>2 DEF WorkerIn
  <2> HIDE DEF g
  <2> QED BY <2>1, <2>2, <2>3 DEF WorkerFits, InHand, Calling, Searching
<1>8. PrintBatch = 1 =>
        /\ g.local = IF g.pc \in {"halt", "flush"} THEN 1 ELSE 0
        /\ Len(lines') + (IF g.pc = "print" THEN 1 ELSE 0) + printed
             <= Len(lines) + (IF wk[w].pc = "print" THEN 1 ELSE 0) + printed'
        /\ Len(lines') <= limit
  <2>1. wk[w].pc = "cnf" /\ printed' = printed /\ lines' = lines
    BY DEF CnfLeaf, CnfDone, At, shared
  <2> QED BY <1>1, <1>2, <2>1 DEF WorkerIn
<1> HIDE DEF g
<1> QED BY <1>3, <1>4, <1>5, <1>6, <1>7, <1>8, BusyStep

LEMMA LimitStopStep ==
  ASSUME IInv, NEW w \in Workers, limit' = limit, LimitStop(w)
  PROVE  IInv'
<1>1. /\ wk[w] \in WorkerIn /\ wk \in [Workers -> WorkerIn] /\ stop \in BOOLEAN
      /\ WorkerFits(wk[w], fr[w], bank[w])
      /\ pending \in Nat /\ cpend \in Nat /\ printed \in Nat /\ limit \in Nat
      /\ lines \in Seq(Locs) /\ Len(lines) \in Nat
  BY Here, CollapseAssumption DEF IInv, Types
<1>2. PrintBatch = 1 =>
        /\ wk[w].local = IF wk[w].pc \in {"halt", "flush"} THEN 1 ELSE 0
        /\ Len(lines) <= limit
  BY DEF IInv, LimitKept
<1> DEFINE g == [wk[w] EXCEPT !.pc = "flush"]
<1>3. g \in WorkerIn
  BY <1>1 DEF WorkerIn, Steps
<1>4. /\ wk' = [wk EXCEPT ![w] = g] /\ UNCHANGED <<queue, limit, pending, cpend>>
      /\ stop' \in BOOLEAN /\ g.active = wk[w].active /\ g.pool = wk[w].pool
  BY <1>1 DEF LimitStop, Goto, shared, WorkerIn
<1>5. /\ pending' = pending + (IF g.active THEN 1 ELSE 0) - (IF wk[w].active THEN 1 ELSE 0)
      /\ cpend' = cpend + (IF g.pool THEN 1 ELSE 0) - (IF wk[w].pool THEN 1 ELSE 0)
  BY <1>1, <1>4
<1>6. printed' \in Nat /\ lines' \in Seq(Locs)
  BY <1>1 DEF LimitStop, shared, WorkerIn
<1>7. WorkerFits(g, fr[w], bank[w]) /\ g.pc # "stealing"
  BY <1>1 DEF LimitStop, At, CnfDone, WorkerIn, WorkerFits, InHand, Calling, Searching
<1>8. PrintBatch = 1 =>
        /\ g.local = IF g.pc \in {"halt", "flush"} THEN 1 ELSE 0
        /\ Len(lines') + (IF g.pc = "print" THEN 1 ELSE 0) + printed
             <= Len(lines) + (IF wk[w].pc = "print" THEN 1 ELSE 0) + printed'
        /\ Len(lines') <= limit
  BY <1>1, <1>2 DEF LimitStop, At, WorkerIn
<1> HIDE DEF g
<1> QED BY <1>3, <1>4, <1>5, <1>6, <1>7, <1>8, BusyStep

LEMMA FlushStep ==
  ASSUME IInv, NEW w \in Workers, limit' = limit, Flush(w)
  PROVE  IInv'
<1>1. /\ wk[w] \in WorkerIn /\ wk \in [Workers -> WorkerIn] /\ stop \in BOOLEAN
      /\ WorkerFits(wk[w], fr[w], bank[w])
      /\ pending \in Nat /\ cpend \in Nat /\ printed \in Nat /\ limit \in Nat
      /\ lines \in Seq(Locs) /\ Len(lines) \in Nat
  BY Here, CollapseAssumption DEF IInv, Types
<1>2. PrintBatch = 1 =>
        /\ wk[w].local = IF wk[w].pc \in {"halt", "flush"} THEN 1 ELSE 0
        /\ Len(lines) <= limit
  BY DEF IInv, LimitKept
<1> DEFINE g == [wk[w] EXCEPT !.pc = "print", !.local = 0]
<1>3. g \in WorkerIn
  BY <1>1 DEF WorkerIn, Steps
<1>4. /\ wk' = [wk EXCEPT ![w] = g] /\ UNCHANGED <<queue, limit, pending, cpend>>
      /\ stop' \in BOOLEAN /\ g.active = wk[w].active /\ g.pool = wk[w].pool
  BY <1>1 DEF Flush, Goto, shared, WorkerIn
<1>5. /\ pending' = pending + (IF g.active THEN 1 ELSE 0) - (IF wk[w].active THEN 1 ELSE 0)
      /\ cpend' = cpend + (IF g.pool THEN 1 ELSE 0) - (IF wk[w].pool THEN 1 ELSE 0)
  BY <1>1, <1>4
<1>6. printed' \in Nat /\ lines' \in Seq(Locs)
  BY <1>1 DEF Flush, shared, WorkerIn
<1>7. WorkerFits(g, fr[w], bank[w]) /\ g.pc # "stealing"
  BY <1>1 DEF Flush, At, CnfDone, WorkerIn, WorkerFits, InHand, Calling, Searching
<1>8. PrintBatch = 1 =>
        /\ g.local = IF g.pc \in {"halt", "flush"} THEN 1 ELSE 0
        /\ Len(lines') + (IF g.pc = "print" THEN 1 ELSE 0) + printed
             <= Len(lines) + (IF wk[w].pc = "print" THEN 1 ELSE 0) + printed'
        /\ Len(lines') <= limit
  BY <1>1, <1>2 DEF Flush, At, WorkerIn
<1> HIDE DEF g
<1> QED BY <1>3, <1>4, <1>5, <1>6, <1>7, <1>8, BusyStep

LEMMA PrintLineStep ==
  ASSUME IInv, NEW w \in Workers, limit' = limit, PrintLine(w)
  PROVE  IInv'
<1>1. /\ wk[w] \in WorkerIn /\ wk \in [Workers -> WorkerIn] /\ stop \in BOOLEAN
      /\ WorkerFits(wk[w], fr[w], bank[w])
      /\ pending \in Nat /\ cpend \in Nat /\ printed \in Nat /\ limit \in Nat
      /\ lines \in Seq(Locs) /\ Len(lines) \in Nat
  BY Here, CollapseAssumption DEF IInv, Types
<1>0. /\ wk[w].pc \in InHand /\ fr[w].op \in {"none", "dead"} /\ fr[w].x = 0
      /\ wk[w].at \in Locs
  BY <1>1 DEF PrintLine, At, InHand, Calling, WorkerFits, WorkerIn
<1>2. PrintBatch = 1 =>
        /\ wk[w].local = IF wk[w].pc \in {"halt", "flush"} THEN 1 ELSE 0
        /\ Len(lines) <= limit
  BY DEF IInv, LimitKept
<1> DEFINE g == Finished(wk[w])
<1>3. g \in WorkerIn
  BY <1>0, FinishedFits
<1>4. /\ wk' = [wk EXCEPT ![w] = g] /\ UNCHANGED <<queue, limit, pending, cpend>>
      /\ stop' \in BOOLEAN /\ g.active = wk[w].active /\ g.pool = wk[w].pool
  BY <1>0, <1>1, FinishedFits DEF PrintLine, shared
<1>5. /\ pending' = pending + (IF g.active THEN 1 ELSE 0) - (IF wk[w].active THEN 1 ELSE 0)
      /\ cpend' = cpend + (IF g.pool THEN 1 ELSE 0) - (IF wk[w].pool THEN 1 ELSE 0)
  BY <1>1, <1>4
<1>6. printed' \in Nat /\ lines' \in Seq(Locs)
  BY <1>0, <1>1 DEF PrintLine, shared, WorkerIn
<1>7. WorkerFits(g, fr[w], bank[w]) /\ g.pc # "stealing"
  BY <1>0, FinishedFits
<1>8. PrintBatch = 1 =>
        /\ g.local = IF g.pc \in {"halt", "flush"} THEN 1 ELSE 0
        /\ Len(lines') + (IF g.pc = "print" THEN 1 ELSE 0) + printed
             <= Len(lines) + (IF wk[w].pc = "print" THEN 1 ELSE 0) + printed'
        /\ Len(lines') <= limit
  <2>1. wk[w].pc = "print" /\ printed' = printed /\ g.local = wk[w].local
        /\ g.pc \in {"top", "seek"}
    BY <1>0, FinishedFits DEF PrintLine, At, shared
  <2>2. PrintBatch = 1 => Len(lines) + 1 <= printed
    <3> DEFINE S == {u \in Workers : wk[u].pc = "print"}
    <3>1. S \in SUBSET Workers /\ w \in S
      BY <2>1
    <3>2. PrintBatch = 1 => Len(lines) + Cardinality(S) <= printed
      BY DEF IInv, LimitKept
    <3> HIDE DEF S
    <3>3. Cardinality(S) \in Nat /\ Cardinality(S) >= 1
      BY <3>1, OneMoves
    <3> QED BY <1>1, <3>2, <3>3
  <2>3. CASE printed + wk[w].local <= limit
    <3>1. Len(lines') = Len(lines) + 1
      BY <1>0, <1>1, <2>3 DEF PrintLine
    <3> QED BY <1>1, <1>2, <2>1, <2>2, <2>3, <3>1
  <2>4. CASE ~(printed + wk[w].local <= limit)
    <3>1. lines' = lines
      BY <2>4 DEF PrintLine
    <3> QED BY <1>1, <1>2, <2>1, <2>2, <3>1
  <2> QED BY <2>3, <2>4
<1> HIDE DEF g
<1> QED BY <1>3, <1>4, <1>5, <1>6, <1>7, <1>8, BusyStep

\* A task of another worker is stolen: one count of its tasks less, for it.
LEMMA HelpStealStep ==
  ASSUME IInv, NEW w \in Workers, limit' = limit, HelpSteal(w)
  PROVE  IInv'
<1>1. Types /\ WorkersFit /\ Counted /\ LimitKept
  BY DEF IInv
<1>2. PICK v \in Workers \ {w} :
        /\ wk[v].pc \in {"cnf", "aid"} /\ wk[v].tasks > 0
        /\ wk' = [wk EXCEPT ![w].pc = "stole", ![w].aids = v, ![v].tasks = @ - 1]
  BY DEF HelpSteal, At
<1>3. wk[w].pc = "try" /\ UNCHANGED <<queue, shared, lines>>
  BY DEF HelpSteal, At
<1>4. /\ \A u \in Workers : wk[u] \in WorkerIn /\ WorkerFits(wk[u], fr[u], bank[u])
                         /\ QueueFits(u, wk[u], fr[u], bank[u], mask[u])
      /\ wk \in [Workers -> WorkerIn]
  BY <1>1 DEF Types, WorkersFit
<1> DEFINE g == [wk[w] EXCEPT !.pc = "stole", !.aids = v]
           h == [wk[v] EXCEPT !.tasks = @ - 1]
<1>5. g \in WorkerIn /\ h \in WorkerIn
  <2>1. g \in WorkerIn
    <3>1. wk[w] \in WorkerIn /\ v \in Workers /\ "stole" \in Steps
      BY <1>4 DEF Steps
    <3> QED BY <3>1 DEF WorkerIn
  <2>2. wk[v].tasks - 1 \in Nat
    BY <1>2, <1>4 DEF WorkerIn
  <2>3. h \in WorkerIn
    BY <1>2, <1>4, <2>2 DEF WorkerIn
  <2> QED BY <2>1, <2>3
<1>6. wk' = [[wk EXCEPT ![w] = g] EXCEPT ![v] = h]
  BY <1>2, <1>4
<1>7. /\ wk'[w] = g /\ wk'[v] = h /\ \A u \in Workers \ {w, v} : wk'[u] = wk[u]
      /\ wk' \in [Workers -> WorkerIn]
  <2> HIDE DEF g, h
  <2> QED BY <1>2, <1>4, <1>5, <1>6
<1>8. \A u \in Workers :
        /\ wk'[u].active = wk[u].active /\ wk'[u].pool = wk[u].pool
        /\ wk'[u].local = wk[u].local /\ wk'[u].at = wk[u].at /\ wk'[u].popped = wk[u].popped
        /\ IF u = w THEN wk'[u].pc = "stole" ELSE wk'[u].pc = wk[u].pc
  <2>1. \A u \in {w, v} :
          /\ wk'[u].active = wk[u].active /\ wk'[u].pool = wk[u].pool
          /\ wk'[u].local = wk[u].local /\ wk'[u].at = wk[u].at /\ wk'[u].popped = wk[u].popped
          /\ IF u = w THEN wk'[u].pc = "stole" ELSE wk'[u].pc = wk[u].pc
    BY <1>2, <1>4, <1>7 DEF WorkerIn
  <2> HIDE DEF g, h
  <2> QED BY <1>7, <2>1
<1> HIDE DEF g, h
<1>9. Types'
  BY <1>1, <1>3, <1>7 DEF Types, queue, shared
<1>10. WorkersFit'
  <2> SUFFICES ASSUME NEW u \in Workers
               PROVE  /\ WorkerFits(wk'[u], fr[u], bank[u])
                      /\ QueueFits(u, wk'[u], fr[u], bank[u], mask[u])
    BY <1>3 DEF WorkersFit, queue
  <2>1. PICK a \in WorkerIn, d \in WorkerIn : a = wk[u] /\ d = wk'[u]
    BY <1>4, <1>7
  <2>2. /\ d.active = a.active /\ d.pool = a.pool /\ d.at = a.at /\ d.popped = a.popped
        /\ IF u = w THEN a.pc = "try" /\ d.pc = "stole" ELSE d.pc = a.pc
    BY <1>3, <1>8, <2>1
  <2>3. WorkerFits(a, fr[u], bank[u]) /\ QueueFits(u, a, fr[u], bank[u], mask[u])
    BY <1>4, <2>1
  <2>4. WorkerFits(d, fr[u], bank[u])
    BY <2>2, <2>3 DEF WorkerFits, InHand, Calling, Searching
  <2>5. QueueFits(u, d, fr[u], bank[u], mask[u])
    BY <2>2, <2>3 DEF QueueFits
  <2> QED BY <2>1, <2>4, <2>5
<1>11. Counted'
  <2>1. /\ {u \in Workers : wk'[u].active} = {u \in Workers : wk[u].active}
        /\ {u \in Workers : wk'[u].pool} = {u \in Workers : wk[u].pool}
    BY <1>8
  <2> QED BY <1>1, <1>3, <2>1 DEF Counted, shared
<1>12. LimitKept'
  <2>1. {u \in Workers : wk'[u].pc = "print"} = {u \in Workers : wk[u].pc = "print"}
    BY <1>3, <1>8
  <2>2. \A u \in Workers : wk'[u].pc \in {"halt", "flush"} <=> wk[u].pc \in {"halt", "flush"}
    BY <1>3, <1>8
  <2>3. PrintBatch' = PrintBatch
    BY DEF PrintBatch
  <2> QED BY <1>1, <1>3, <1>8, <2>1, <2>2, <2>3 DEF LimitKept, shared
<1> QED BY <1>9, <1>10, <1>11, <1>12 DEF IInv

-----------------------------------------------------------------------------
(* The steps of the queue.  A worker fills only its own bank; all that may *)
(* happen to the bank of another is that tasks leave it, and what the      *)
(* invariant says of a bank stays true of a smaller one.                   *)

LEMMA FitsLess ==
  ASSUME NEW w, NEW g, NEW f \in FrameIn, NEW b, NEW d, NEW m,
         \A c \in Q!Buckets : b[c] = <<>> => d[c] = <<>>,
         WorkerFits(g, f, b), QueueFits(w, g, f, b, m)
  PROVE  WorkerFits(g, f, d) /\ QueueFits(w, g, f, d, m)
<1>1. (Empty(b) => Empty(d)) /\ \A S : Within(b, S) => Within(d, S)
  BY DEF Empty, Within
<1>2. f.b \in Q!Buckets
  BY DEF FrameIn
<1>3. WorkerFits(g, f, d)
  BY <1>1 DEF WorkerFits
<1>4. QueueFits(w, g, f, d, m)
  BY <1>1, <1>2 DEF QueueFits
<1> QED BY <1>3, <1>4

LEMMA QueueStep ==
  ASSUME IInv, NEW w \in Workers, NEW f \in FrameIn, fr' = [fr EXCEPT ![w] = f],
         UNCHANGED <<limit, shared, wk, lines>>,
         bank' \in [Workers -> [Q!Buckets -> Seq(Locs)]],
         mask' \in [Workers -> SUBSET Q!Buckets], cursor' \in [Workers -> Workers],
         \A u \in Workers \ {w} :
           mask'[u] = mask[u] /\ \A c \in Q!Buckets : bank[u][c] = <<>> => bank'[u][c] = <<>>,
         WorkerFits(wk[w], f, bank'[w]), QueueFits(w, wk[w], f, bank'[w], mask'[w])
  PROVE  IInv'
<1>1. Types /\ WorkersFit /\ Counted /\ LimitKept
  BY DEF IInv
<1>2. Types'
  BY <1>1 DEF Types, shared
<1>3. fr'[w] = f /\ \A u \in Workers \ {w} : fr'[u] = fr[u]
  BY <1>1 DEF Types
<1>4. WorkersFit'
  <2> SUFFICES ASSUME NEW u \in Workers
               PROVE  /\ WorkerFits(wk[u], fr'[u], bank'[u])
                      /\ QueueFits(u, wk[u], fr'[u], bank'[u], mask'[u])
    BY DEF WorkersFit
  <2>1. CASE u = w
    BY <1>3, <2>1
  <2>2. CASE u # w
    <3>1. /\ WorkerFits(wk[u], fr[u], bank[u]) /\ fr[u] \in FrameIn
          /\ QueueFits(u, wk[u], fr[u], bank[u], mask[u])
      BY <1>1 DEF WorkersFit, Types
    <3>2. /\ \A c \in Q!Buckets : bank[u][c] = <<>> => bank'[u][c] = <<>>
          /\ mask'[u] = mask[u] /\ fr'[u] = fr[u]
      BY <1>3, <2>2
    <3>3. WorkerFits(wk[u], fr[u], bank'[u]) /\ QueueFits(u, wk[u], fr[u], bank'[u], mask[u])
      BY <3>1, <3>2, FitsLess
    <3> QED BY <3>2, <3>3
  <2> QED BY <2>1, <2>2
<1>5. Counted' /\ LimitKept'
  BY <1>1 DEF Counted, LimitKept, PrintBatch, shared
<1> QED BY <1>2, <1>4, <1>5 DEF IInv

\* A step that leaves the buckets alone; it may change the worker's own mask.
LEMMA BankStays ==
  ASSUME IInv, NEW w \in Workers, NEW f \in FrameIn, fr' = [fr EXCEPT ![w] = f],
         UNCHANGED <<limit, shared, wk, lines, bank>>,
         NEW m \in SUBSET Q!Buckets, mask' = [mask EXCEPT ![w] = m],
         NEW v \in Workers, cursor' = [cursor EXCEPT ![w] = v],
         WorkerFits(wk[w], f, bank[w]), QueueFits(w, wk[w], f, bank[w], m)
  PROVE  IInv'
<1>1. /\ bank \in [Workers -> [Q!Buckets -> Seq(Locs)]]
      /\ mask \in [Workers -> SUBSET Q!Buckets] /\ cursor \in [Workers -> Workers]
  BY DEF IInv, Types
<1>2. /\ mask' \in [Workers -> SUBSET Q!Buckets] /\ cursor' \in [Workers -> Workers]
      /\ mask'[w] = m /\ \A u \in Workers \ {w} : mask'[u] = mask[u]
  BY <1>1
<1>3. /\ UNCHANGED <<limit, shared, wk, lines>>
      /\ bank' \in [Workers -> [Q!Buckets -> Seq(Locs)]]
      /\ WorkerFits(wk[w], f, bank'[w]) /\ QueueFits(w, wk[w], f, bank'[w], mask'[w])
  BY <1>1, <1>2
<1>4. \A u \in Workers \ {w} :
        mask'[u] = mask[u] /\ \A c \in Q!Buckets : bank[u][c] = <<>> => bank'[u][c] = <<>>
  BY <1>2
<1> QED BY <1>2, <1>3, <1>4, QueueStep

LEMMA ModWorker ==
  ASSUME NEW i \in Nat
  PROVE  i % N \in Workers
BY CollapseAssumption DEF Workers, Q!Workers

LEMMA FullCheckStep ==
  ASSUME IInv, NEW w \in Workers, UNCHANGED <<limit, shared, wk, lines>>, Q!FullCheck(w)
  PROVE  IInv'
<1>1. /\ wk[w] \in WorkerIn /\ fr[w] \in FrameIn /\ fr \in [Workers -> FrameIn]
      /\ WorkerFits(wk[w], fr[w], bank[w]) /\ QueueFits(w, wk[w], fr[w], bank[w], mask[w])
      /\ mask \in [Workers -> SUBSET Q!Buckets] /\ cursor \in [Workers -> Workers]
      /\ w \in Q!Workers
  BY Here DEF IInv, Types
<1> DEFINE f == [fr[w] EXCEPT !.op = "full", !.t = 0]
           m == mask[w]
           v == cursor[w]
<1>2. f \in FrameIn
  <2>1. 0 \in 0..N
    BY CollapseAssumption
  <2> QED BY <1>1, <2>1 DEF FrameIn, Q!Ops
<1>3. fr' = [fr EXCEPT ![w] = f] /\ UNCHANGED <<limit, shared, wk, lines, bank>>
  BY <1>1 DEF Q!FullCheck, Q!Stolen
<1>4. /\ m \in SUBSET Q!Buckets /\ mask' = [mask EXCEPT ![w] = m]
      /\ v \in Workers /\ cursor' = [cursor EXCEPT ![w] = v]
  BY <1>1, <1>2, CollapseAssumption DEF Q!FullCheck, FrameIn
<1>5. WorkerFits(wk[w], f, bank[w])
  BY <1>1, CollapseAssumption DEF Q!FullCheck, WorkerIn, FrameIn, WorkerFits, QueueFits, InHand, Calling, Searching, Q!Free
<1>6. QueueFits(w, wk[w], f, bank[w], m)
  BY <1>1, CollapseAssumption DEF Q!FullCheck, WorkerIn, FrameIn, WorkerFits, QueueFits, Within, Empty, Calling, Q!Free
<1> HIDE DEF f, m, v
<1> QED BY <1>2, <1>3, <1>4, <1>5, <1>6, BankStays

LEMMA FullYesStep ==
  ASSUME IInv, NEW w \in Workers, UNCHANGED <<limit, shared, wk, lines>>, Q!FullYes(w)
  PROVE  IInv'
<1>1. /\ wk[w] \in WorkerIn /\ fr[w] \in FrameIn /\ fr \in [Workers -> FrameIn]
      /\ WorkerFits(wk[w], fr[w], bank[w]) /\ QueueFits(w, wk[w], fr[w], bank[w], mask[w])
      /\ mask \in [Workers -> SUBSET Q!Buckets] /\ cursor \in [Workers -> Workers]
      /\ w \in Q!Workers
  BY Here DEF IInv, Types
<1> DEFINE f == [fr[w] EXCEPT !.t = @ + 1]
           m == mask[w]
           v == cursor[w]
<1>2. f \in FrameIn
  <2>1. fr[w].t + 1 \in 0..N
    BY <1>1, CollapseAssumption DEF Q!FullYes, FrameIn
  <2> QED BY <1>1, <2>1 DEF FrameIn
<1>3. fr' = [fr EXCEPT ![w] = f] /\ UNCHANGED <<limit, shared, wk, lines, bank>>
  BY <1>1 DEF Q!FullYes, Q!Stolen
<1>4. /\ m \in SUBSET Q!Buckets /\ mask' = [mask EXCEPT ![w] = m]
      /\ v \in Workers /\ cursor' = [cursor EXCEPT ![w] = v]
  BY <1>1, <1>2, CollapseAssumption DEF Q!FullYes, FrameIn
<1>5. WorkerFits(wk[w], f, bank[w])
  BY <1>1, CollapseAssumption DEF Q!FullYes, WorkerIn, FrameIn, WorkerFits, QueueFits, InHand, Calling, Searching, Q!Free
<1>6. QueueFits(w, wk[w], f, bank[w], m)
  BY <1>1, CollapseAssumption DEF Q!FullYes, WorkerIn, FrameIn, WorkerFits, QueueFits, Within, Empty, Calling, Q!Free
<1> HIDE DEF f, m, v
<1> QED BY <1>2, <1>3, <1>4, <1>5, <1>6, BankStays

LEMMA FullNoStep ==
  ASSUME IInv, NEW w \in Workers, UNCHANGED <<limit, shared, wk, lines>>, Q!FullNo(w)
  PROVE  IInv'
<1>1. /\ wk[w] \in WorkerIn /\ fr[w] \in FrameIn /\ fr \in [Workers -> FrameIn]
      /\ WorkerFits(wk[w], fr[w], bank[w]) /\ QueueFits(w, wk[w], fr[w], bank[w], mask[w])
      /\ mask \in [Workers -> SUBSET Q!Buckets] /\ cursor \in [Workers -> Workers]
      /\ w \in Q!Workers
  BY Here DEF IInv, Types
<1> DEFINE f == [fr[w] EXCEPT !.op = "push", !.t = 0]
           m == mask[w]
           v == cursor[w]
<1>2. f \in FrameIn
  <2>1. 0 \in 0..N
    BY CollapseAssumption
  <2> QED BY <1>1, <2>1 DEF FrameIn, Q!Ops
<1>3. fr' = [fr EXCEPT ![w] = f] /\ UNCHANGED <<limit, shared, wk, lines, bank>>
  BY <1>1 DEF Q!FullNo, Q!Stolen
<1>4. /\ m \in SUBSET Q!Buckets /\ mask' = [mask EXCEPT ![w] = m]
      /\ v \in Workers /\ cursor' = [cursor EXCEPT ![w] = v]
  BY <1>1, <1>2, CollapseAssumption DEF Q!FullNo, FrameIn
<1>5. WorkerFits(wk[w], f, bank[w])
  BY <1>1, CollapseAssumption DEF Q!FullNo, WorkerIn, FrameIn, WorkerFits, QueueFits, InHand, Calling, Searching, Q!Free
<1>6. QueueFits(w, wk[w], f, bank[w], m)
  BY <1>1, CollapseAssumption DEF Q!FullNo, WorkerIn, FrameIn, WorkerFits, QueueFits, Within, Empty, Calling, Q!Free
<1> HIDE DEF f, m, v
<1> QED BY <1>2, <1>3, <1>4, <1>5, <1>6, BankStays

LEMMA MaskSetStep ==
  ASSUME IInv, NEW w \in Workers, UNCHANGED <<limit, shared, wk, lines>>, Q!MaskSet(w)
  PROVE  IInv'
<1>1. /\ wk[w] \in WorkerIn /\ fr[w] \in FrameIn /\ fr \in [Workers -> FrameIn]
      /\ WorkerFits(wk[w], fr[w], bank[w]) /\ QueueFits(w, wk[w], fr[w], bank[w], mask[w])
      /\ mask \in [Workers -> SUBSET Q!Buckets] /\ cursor \in [Workers -> Workers]
      /\ w \in Q!Workers
  BY Here DEF IInv, Types
<1> DEFINE f == IF fr[w].from = w THEN Q!Free(w)
                ELSE [fr[w] EXCEPT !.op = "take", !.got = @ + 1]
           m == mask[w] \cup {fr[w].b}
           v == cursor[w]
<1>2. f \in FrameIn
  <2>1. Q!Free(w) \in FrameIn
    BY <1>1, CollapseAssumption DEF FrameIn, Q!Ops, Q!Free, Q!Buckets
  <2>2. [fr[w] EXCEPT !.op = "take", !.got = @ + 1] \in FrameIn
    <3>1. fr[w].got + 1 \in Nat /\ "take" \in Q!Ops
      BY <1>1 DEF FrameIn, Q!Ops
    <3> QED BY <1>1, <3>1 DEF FrameIn
  <2> QED BY <2>1, <2>2
<1>3. fr' = [fr EXCEPT ![w] = f] /\ UNCHANGED <<limit, shared, wk, lines, bank>>
  BY <1>1 DEF Q!MaskSet, Q!Stolen
<1>4. /\ m \in SUBSET Q!Buckets /\ mask' = [mask EXCEPT ![w] = m]
      /\ v \in Workers /\ cursor' = [cursor EXCEPT ![w] = v]
  BY <1>1, <1>2, CollapseAssumption DEF Q!MaskSet, FrameIn
<1>5. WorkerFits(wk[w], f, bank[w])
  <2>1. CASE fr[w].from = w
    BY <1>1, <2>1 DEF Q!MaskSet, WorkerIn, FrameIn, WorkerFits, QueueFits, InHand, Calling,
       Searching, Q!Free
  <2>2. CASE fr[w].from # w
    <3>1. /\ f.op = "take" /\ f.x = fr[w].x /\ f.got = fr[w].got + 1 /\ fr[w].got \in Nat
          /\ fr[w].op = "mask"
      BY <1>1, <2>2 DEF Q!MaskSet, FrameIn
    <3>2. f.got # 0
      BY <3>1
    <3> HIDE DEF f
    <3> QED BY <1>1, <2>2, <3>1, <3>2 DEF WorkerIn, WorkerFits, InHand, Calling, Searching
  <2> QED BY <2>1, <2>2
<1>6. QueueFits(w, wk[w], f, bank[w], m)
  BY <1>1, CollapseAssumption DEF Q!MaskSet, WorkerIn, FrameIn, WorkerFits, QueueFits, Within, Empty, Calling, Q!Free
<1> HIDE DEF f, m, v
<1> QED BY <1>2, <1>3, <1>4, <1>5, <1>6, BankStays

LEMMA MaskClearStep ==
  ASSUME IInv, NEW w \in Workers, UNCHANGED <<limit, shared, wk, lines>>, Q!MaskClear(w)
  PROVE  IInv'
<1>1. /\ wk[w] \in WorkerIn /\ fr[w] \in FrameIn /\ fr \in [Workers -> FrameIn]
      /\ WorkerFits(wk[w], fr[w], bank[w]) /\ QueueFits(w, wk[w], fr[w], bank[w], mask[w])
      /\ mask \in [Workers -> SUBSET Q!Buckets] /\ cursor \in [Workers -> Workers]
      /\ w \in Q!Workers
  BY Here DEF IInv, Types
<1> DEFINE f == [fr[w] EXCEPT !.op = "pop", !.m = @ \ {fr[w].b}]
           m == mask[w] \ {fr[w].b}
           v == cursor[w]
<1>2. f \in FrameIn
  BY <1>1 DEF Q!MaskClear, FrameIn, Q!Ops
<1>3. fr' = [fr EXCEPT ![w] = f] /\ UNCHANGED <<limit, shared, wk, lines, bank>>
  BY <1>1 DEF Q!MaskClear, Q!Stolen
<1>4. /\ m \in SUBSET Q!Buckets /\ mask' = [mask EXCEPT ![w] = m]
      /\ v \in Workers /\ cursor' = [cursor EXCEPT ![w] = v]
  BY <1>1, <1>2 DEF Q!MaskClear, FrameIn
<1>5. WorkerFits(wk[w], f, bank[w])
  BY <1>1 DEF Q!MaskClear, WorkerIn, FrameIn, WorkerFits, QueueFits, InHand, Calling, Searching, Q!Free
<1>6. QueueFits(w, wk[w], f, bank[w], m)
  BY <1>1 DEF Q!MaskClear, WorkerIn, FrameIn, WorkerFits, QueueFits, Within, Empty, Calling, Q!Free
<1> HIDE DEF f, m, v
<1> QED BY <1>2, <1>3, <1>4, <1>5, <1>6, BankStays

LEMMA PopNoneStep ==
  ASSUME IInv, NEW w \in Workers, UNCHANGED <<limit, shared, wk, lines>>, Q!PopNone(w)
  PROVE  IInv'
<1>1. /\ wk[w] \in WorkerIn /\ fr[w] \in FrameIn /\ fr \in [Workers -> FrameIn]
      /\ WorkerFits(wk[w], fr[w], bank[w]) /\ QueueFits(w, wk[w], fr[w], bank[w], mask[w])
      /\ mask \in [Workers -> SUBSET Q!Buckets] /\ cursor \in [Workers -> Workers]
      /\ w \in Q!Workers
  BY Here DEF IInv, Types
<1> DEFINE f == [fr[w] EXCEPT !.op = "nothing", !.b = 0]
           m == mask[w]
           v == cursor[w]
<1>2. f \in FrameIn
  <2>1. 0 \in Q!Buckets /\ "nothing" \in Q!Ops
    BY CollapseAssumption DEF Q!Buckets, Q!Ops
  <2> QED BY <1>1, <2>1 DEF FrameIn
<1>3. fr' = [fr EXCEPT ![w] = f] /\ UNCHANGED <<limit, shared, wk, lines, bank>>
  BY <1>1 DEF Q!PopNone, Q!Stolen
<1>4. /\ m \in SUBSET Q!Buckets /\ mask' = [mask EXCEPT ![w] = m]
      /\ v \in Workers /\ cursor' = [cursor EXCEPT ![w] = v]
  BY <1>1, <1>2, CollapseAssumption DEF Q!PopNone, FrameIn
<1>5. WorkerFits(wk[w], f, bank[w])
  BY <1>1, CollapseAssumption DEF Q!PopNone, WorkerIn, FrameIn, WorkerFits, QueueFits, InHand, Calling, Searching, Q!Free, Q!Buckets, Within, Empty
<1>6. QueueFits(w, wk[w], f, bank[w], m)
  BY <1>1, CollapseAssumption DEF Q!PopNone, WorkerIn, FrameIn, WorkerFits, QueueFits, Within, Empty, Calling, Q!Free, Q!Buckets, Within, Empty
<1> HIDE DEF f, m, v
<1> QED BY <1>2, <1>3, <1>4, <1>5, <1>6, BankStays

LEMMA StealSkipStep ==
  ASSUME IInv, NEW w \in Workers, UNCHANGED <<limit, shared, wk, lines>>, Q!StealSkip(w)
  PROVE  IInv'
<1>1. /\ wk[w] \in WorkerIn /\ fr[w] \in FrameIn /\ fr \in [Workers -> FrameIn]
      /\ WorkerFits(wk[w], fr[w], bank[w]) /\ QueueFits(w, wk[w], fr[w], bank[w], mask[w])
      /\ mask \in [Workers -> SUBSET Q!Buckets] /\ cursor \in [Workers -> Workers]
      /\ w \in Q!Workers
  BY Here DEF IInv, Types
<1> DEFINE f == [fr[w] EXCEPT !.k = @ + 1]
           m == mask[w]
           v == cursor[w]
<1>2. f \in FrameIn
  BY <1>1 DEF Q!StealSkip, FrameIn, Q!Ops
<1>3. fr' = [fr EXCEPT ![w] = f] /\ UNCHANGED <<limit, shared, wk, lines, bank>>
  BY <1>1 DEF Q!StealSkip, Q!Stolen
<1>4. /\ m \in SUBSET Q!Buckets /\ mask' = [mask EXCEPT ![w] = m]
      /\ v \in Workers /\ cursor' = [cursor EXCEPT ![w] = v]
  BY <1>1, <1>2 DEF Q!StealSkip, FrameIn
<1>5. WorkerFits(wk[w], f, bank[w])
  BY <1>1 DEF Q!StealSkip, WorkerIn, FrameIn, WorkerFits, QueueFits, InHand, Calling, Searching, Q!Free
<1>6. QueueFits(w, wk[w], f, bank[w], m)
  BY <1>1 DEF Q!StealSkip, WorkerIn, FrameIn, WorkerFits, QueueFits, Within, Empty, Calling, Q!Free
<1> HIDE DEF f, m, v
<1> QED BY <1>2, <1>3, <1>4, <1>5, <1>6, BankStays

LEMMA StealMissStep ==
  ASSUME IInv, NEW w \in Workers, UNCHANGED <<limit, shared, wk, lines>>, Q!StealMiss(w)
  PROVE  IInv'
<1>1. /\ wk[w] \in WorkerIn /\ fr[w] \in FrameIn /\ fr \in [Workers -> FrameIn]
      /\ WorkerFits(wk[w], fr[w], bank[w]) /\ QueueFits(w, wk[w], fr[w], bank[w], mask[w])
      /\ mask \in [Workers -> SUBSET Q!Buckets] /\ cursor \in [Workers -> Workers]
      /\ w \in Q!Workers
  BY Here DEF IInv, Types
<1> DEFINE f == [fr[w] EXCEPT !.op = "look", !.from = w, !.k = @ + 1]
           m == mask[w]
           v == cursor[w]
<1>2. f \in FrameIn
  <2>1. fr[w].k + 1 \in Nat /\ "look" \in Q!Ops
    BY <1>1 DEF FrameIn, Q!Ops
  <2> QED BY <1>1, <2>1 DEF FrameIn
<1>3. fr' = [fr EXCEPT ![w] = f] /\ UNCHANGED <<limit, shared, wk, lines, bank>>
  BY <1>1 DEF Q!StealMiss, Q!Stolen
<1>4. /\ m \in SUBSET Q!Buckets /\ mask' = [mask EXCEPT ![w] = m]
      /\ v \in Workers /\ cursor' = [cursor EXCEPT ![w] = v]
  BY <1>1, <1>2 DEF Q!StealMiss, FrameIn
<1>5. WorkerFits(wk[w], f, bank[w])
  BY <1>1 DEF Q!StealMiss, WorkerIn, FrameIn, WorkerFits, QueueFits, InHand, Calling, Searching, Q!Free
<1>6. QueueFits(w, wk[w], f, bank[w], m)
  BY <1>1 DEF Q!StealMiss, WorkerIn, FrameIn, WorkerFits, QueueFits, Within, Empty, Calling, Q!Free
<1> HIDE DEF f, m, v
<1> QED BY <1>2, <1>3, <1>4, <1>5, <1>6, BankStays

LEMMA StealStopStep ==
  ASSUME IInv, NEW w \in Workers, UNCHANGED <<limit, shared, wk, lines>>, Q!StealStop(w)
  PROVE  IInv'
<1>1. /\ wk[w] \in WorkerIn /\ fr[w] \in FrameIn /\ fr \in [Workers -> FrameIn]
      /\ WorkerFits(wk[w], fr[w], bank[w]) /\ QueueFits(w, wk[w], fr[w], bank[w], mask[w])
      /\ mask \in [Workers -> SUBSET Q!Buckets] /\ cursor \in [Workers -> Workers]
      /\ w \in Q!Workers
  BY Here DEF IInv, Types
<1> DEFINE f == [Q!Free(w) EXCEPT !.op = "stolen", !.got = fr[w].got]
           m == mask[w]
           v == (fr[w].from + 1) % N
<1>2. f \in FrameIn
  <2>1. Q!Free(w) \in FrameIn
    BY <1>1, CollapseAssumption DEF FrameIn, Q!Ops, Q!Free, Q!Buckets
  <2>2. "stolen" \in Q!Ops /\ fr[w].got \in Nat
    BY <1>1 DEF FrameIn, Q!Ops
  <2> QED BY <2>1, <2>2 DEF FrameIn
<1>3. fr' = [fr EXCEPT ![w] = f] /\ UNCHANGED <<limit, shared, wk, lines, bank>>
  BY <1>1 DEF Q!StealStop, Q!Stolen
<1>0. v \in Workers
  <2>1. fr[w].from \in Workers /\ cursor[w] \in Workers
    BY <1>1 DEF FrameIn
  <2>2. (fr[w].from + 1) \in Nat /\ (cursor[w] + Attempts) \in Nat
    BY <2>1, CollapseAssumption DEF Workers, Q!Workers
  <2> QED BY <2>2, ModWorker
<1>4. /\ m \in SUBSET Q!Buckets /\ mask' = [mask EXCEPT ![w] = m]
      /\ v \in Workers /\ cursor' = [cursor EXCEPT ![w] = v]
  BY <1>1, <1>2, <1>0 DEF Q!StealStop, FrameIn
<1>5. WorkerFits(wk[w], f, bank[w])
  BY <1>1, CollapseAssumption DEF Q!StealStop, WorkerIn, FrameIn, WorkerFits, QueueFits, InHand, Calling, Searching, Q!Free, Q!Free, Q!Stolen
<1>6. QueueFits(w, wk[w], f, bank[w], m)
  BY <1>1, CollapseAssumption DEF Q!StealStop, WorkerIn, FrameIn, WorkerFits, QueueFits, Within, Empty, Calling, Q!Free, Q!Free, Q!Stolen
<1> HIDE DEF f, m, v
<1> QED BY <1>2, <1>3, <1>4, <1>5, <1>6, BankStays

LEMMA StealNoneStep ==
  ASSUME IInv, NEW w \in Workers, UNCHANGED <<limit, shared, wk, lines>>, Q!StealNone(w)
  PROVE  IInv'
<1>1. /\ wk[w] \in WorkerIn /\ fr[w] \in FrameIn /\ fr \in [Workers -> FrameIn]
      /\ WorkerFits(wk[w], fr[w], bank[w]) /\ QueueFits(w, wk[w], fr[w], bank[w], mask[w])
      /\ mask \in [Workers -> SUBSET Q!Buckets] /\ cursor \in [Workers -> Workers]
      /\ w \in Q!Workers
  BY Here DEF IInv, Types
<1> DEFINE f == [Q!Free(w) EXCEPT !.op = "stolen", !.got = fr[w].got]
           m == mask[w]
           v == (cursor[w] + Attempts) % N
<1>2. f \in FrameIn
  <2>1. Q!Free(w) \in FrameIn
    BY <1>1, CollapseAssumption DEF FrameIn, Q!Ops, Q!Free, Q!Buckets
  <2>2. "stolen" \in Q!Ops /\ fr[w].got \in Nat
    BY <1>1 DEF FrameIn, Q!Ops
  <2> QED BY <2>1, <2>2 DEF FrameIn
<1>3. fr' = [fr EXCEPT ![w] = f] /\ UNCHANGED <<limit, shared, wk, lines, bank>>
  BY <1>1 DEF Q!StealNone, Q!Stolen
<1>0. v \in Workers
  <2>1. fr[w].from \in Workers /\ cursor[w] \in Workers
    BY <1>1 DEF FrameIn
  <2>2. (fr[w].from + 1) \in Nat /\ (cursor[w] + Attempts) \in Nat
    BY <2>1, CollapseAssumption DEF Workers, Q!Workers
  <2> QED BY <2>2, ModWorker
<1>4. /\ m \in SUBSET Q!Buckets /\ mask' = [mask EXCEPT ![w] = m]
      /\ v \in Workers /\ cursor' = [cursor EXCEPT ![w] = v]
  BY <1>1, <1>2, <1>0 DEF Q!StealNone, FrameIn
<1>5. WorkerFits(wk[w], f, bank[w])
  BY <1>1, CollapseAssumption DEF Q!StealNone, WorkerIn, FrameIn, WorkerFits, QueueFits, InHand, Calling, Searching, Q!Free, Q!Free, Q!Stolen
<1>6. QueueFits(w, wk[w], f, bank[w], m)
  BY <1>1, CollapseAssumption DEF Q!StealNone, WorkerIn, FrameIn, WorkerFits, QueueFits, Within, Empty, Calling, Q!Free, Q!Free, Q!Stolen
<1> HIDE DEF f, m, v
<1> QED BY <1>2, <1>3, <1>4, <1>5, <1>6, BankStays

LEMMA PopMissStep ==
  ASSUME IInv, NEW w \in Workers, UNCHANGED <<limit, shared, wk, lines>>, Q!PopMiss(w)
  PROVE  IInv'
<1>1. /\ wk[w] \in WorkerIn /\ fr[w] \in FrameIn /\ fr \in [Workers -> FrameIn]
      /\ WorkerFits(wk[w], fr[w], bank[w]) /\ QueueFits(w, wk[w], fr[w], bank[w], mask[w])
      /\ mask \in [Workers -> SUBSET Q!Buckets] /\ cursor \in [Workers -> Workers]
  BY Here DEF IInv, Types
<1>2. PICK c \in fr[w].m : /\ bank[w][c] = <<>> /\ fr[w].op = "pop"
                           /\ fr' = [fr EXCEPT ![w] = [@ EXCEPT !.op = "clear", !.b = c]]
  BY DEF Q!PopMiss
<1> DEFINE f == [fr[w] EXCEPT !.op = "clear", !.b = c]
<1>3. f \in FrameIn
  <2>1. c \in Q!Buckets /\ "clear" \in Q!Ops
    BY <1>1 DEF FrameIn, Q!Ops
  <2> QED BY <1>1, <2>1 DEF FrameIn
<1>4. fr' = [fr EXCEPT ![w] = f] /\ UNCHANGED <<limit, shared, wk, lines, bank>>
  BY <1>1, <1>2 DEF Q!PopMiss
<1>5. /\ mask[w] \in SUBSET Q!Buckets /\ mask' = [mask EXCEPT ![w] = mask[w]]
      /\ cursor[w] \in Workers /\ cursor' = [cursor EXCEPT ![w] = cursor[w]]
  BY <1>1 DEF Q!PopMiss
<1>6. WorkerFits(wk[w], f, bank[w])
  BY <1>1, <1>2 DEF WorkerIn, FrameIn, WorkerFits, Calling, Searching
<1>7. QueueFits(w, wk[w], f, bank[w], mask[w])
  BY <1>1, <1>2 DEF FrameIn, WorkerFits, QueueFits, Within, Calling
<1> HIDE DEF f
<1> QED BY <1>3, <1>4, <1>5, <1>6, <1>7, BankStays

LEMMA StealPickStep ==
  ASSUME IInv, NEW w \in Workers, UNCHANGED <<limit, shared, wk, lines>>, Q!StealPick(w)
  PROVE  IInv'
<1>1. /\ wk[w] \in WorkerIn /\ fr[w] \in FrameIn /\ fr \in [Workers -> FrameIn]
      /\ WorkerFits(wk[w], fr[w], bank[w]) /\ QueueFits(w, wk[w], fr[w], bank[w], mask[w])
      /\ mask \in [Workers -> SUBSET Q!Buckets] /\ cursor \in [Workers -> Workers]
  BY Here DEF IInv, Types
<1>2. Q!Victim(w) \in Workers \ {w}
  <2>1. cursor[w] \in Workers /\ fr[w].k \in Nat
    BY <1>1 DEF FrameIn
  <2>2. cursor[w] + fr[w].k \in Nat
    BY <2>1, CollapseAssumption DEF Workers, Q!Workers
  <2> QED BY <2>2, ModWorker DEF Q!StealPick, Q!Victim
<1>3. PICK c \in Q!Buckets :
        /\ fr[w].op = "look"
        /\ fr' = [fr EXCEPT ![w] = [@ EXCEPT !.op = "take", !.from = Q!Victim(w), !.b = c]]
  BY DEF Q!StealPick
<1> DEFINE f == [fr[w] EXCEPT !.op = "take", !.from = Q!Victim(w), !.b = c]
<1>4. f \in FrameIn
  <2>1. "take" \in Q!Ops
    BY DEF Q!Ops
  <2> QED BY <1>1, <1>2, <2>1 DEF FrameIn
<1>5. fr' = [fr EXCEPT ![w] = f] /\ UNCHANGED <<limit, shared, wk, lines, bank>>
  BY <1>1, <1>3 DEF Q!StealPick
<1>6. /\ mask[w] \in SUBSET Q!Buckets /\ mask' = [mask EXCEPT ![w] = mask[w]]
      /\ cursor[w] \in Workers /\ cursor' = [cursor EXCEPT ![w] = cursor[w]]
  BY <1>1 DEF Q!StealPick
<1>7. WorkerFits(wk[w], f, bank[w])
  BY <1>1, <1>3 DEF WorkerIn, FrameIn, WorkerFits, Calling, Searching
<1>8. QueueFits(w, wk[w], f, bank[w], mask[w])
  BY <1>1, <1>2, <1>3 DEF FrameIn, WorkerFits, QueueFits, Within, Calling
<1> HIDE DEF f
<1> QED BY <1>4, <1>5, <1>6, <1>7, <1>8, BankStays

\* "wspq deadlock detected": whatever the operations held, they stop.
LEMMA CrashStep ==
  ASSUME IInv, NEW w \in Workers, UNCHANGED <<limit, shared, wk, lines>>, Q!Crash(w)
  PROVE  IInv'
<1>1. Types /\ WorkersFit /\ Counted /\ LimitKept
  BY DEF IInv
<1>2. /\ fr' = [v \in Workers |-> [fr[v] EXCEPT !.op = "dead"]]
      /\ UNCHANGED <<bank, mask, cursor>>
  BY DEF Q!Crash, Workers
<1>3. \A v \in Workers : /\ fr[v] \in FrameIn /\ fr'[v] = [fr[v] EXCEPT !.op = "dead"]
                         /\ [fr[v] EXCEPT !.op = "dead"] \in FrameIn
  <2> SUFFICES ASSUME NEW v \in Workers
               PROVE  /\ fr[v] \in FrameIn /\ fr'[v] = [fr[v] EXCEPT !.op = "dead"]
                      /\ [fr[v] EXCEPT !.op = "dead"] \in FrameIn
    OBVIOUS
  <2>1. fr[v] \in FrameIn /\ "dead" \in Q!Ops
    BY <1>1 DEF Types, Q!Ops
  <2>2. [fr[v] EXCEPT !.op = "dead"] \in FrameIn
    BY <2>1 DEF FrameIn
  <2>3. fr'[v] = [fr[v] EXCEPT !.op = "dead"]
    BY <1>2
  <2> QED BY <2>1, <2>2, <2>3
<1>4. Types'
  <2>1. fr' \in [Workers -> FrameIn]
    BY <1>2, <1>3
  <2> QED BY <1>1, <1>2, <2>1 DEF Types, shared
<1>5. WorkersFit'
  <2> SUFFICES ASSUME NEW v \in Workers
               PROVE  /\ WorkerFits(wk[v], fr'[v], bank[v])
                      /\ QueueFits(v, wk[v], fr'[v], bank[v], mask[v])
    BY <1>2 DEF WorkersFit
  <2>1. PICK f \in FrameIn, d \in FrameIn : f = fr[v] /\ d = fr'[v] /\ d = [f EXCEPT !.op = "dead"]
    BY <1>3
  <2>2. d.op = "dead" /\ d.x = f.x
    BY <2>1 DEF FrameIn
  <2>3. WorkerFits(wk[v], f, bank[v])
    BY <1>1, <2>1 DEF WorkersFit
  <2>4. WorkerFits(wk[v], d, bank[v]) /\ QueueFits(v, wk[v], d, bank[v], mask[v])
    BY <2>2, <2>3 DEF WorkerFits, QueueFits
  <2> QED BY <2>1, <2>4
<1>6. Counted' /\ LimitKept'
  BY <1>1 DEF Counted, LimitKept, PrintBatch, shared
<1> QED BY <1>4, <1>5, <1>6 DEF IInv

\* The task at the end of a bucket that a pop or a steal takes.
LEMMA TaskTaken ==
  ASSUME NEW q \in Seq(Locs), q # <<>>
  PROVE  /\ Head(q) \in Locs /\ Tail(q) \in Seq(Locs)
         /\ Q!Taken(q) \in Locs /\ Q!Left(q) \in Seq(Locs)
<1>1. /\ Head(q) \in Locs /\ Tail(q) \in Seq(Locs)
      /\ Len(q) \in Nat \ {0} /\ \A i \in 1..Len(q) : q[i] \in Locs
  OBVIOUS
<1>2. q[Len(q)] \in Locs
  BY <1>1
<1>3. SubSeq(q, 1, Len(q) - 1) \in Seq(Locs)
  BY <1>1, SubSeqProperties
<1> QED BY <1>1, <1>2, <1>3 DEF Q!Taken, Q!Left

LEMMA OneBucket ==
  ASSUME bank \in [Workers -> [Q!Buckets -> Seq(Locs)]],
         NEW v \in Workers, NEW c \in Q!Buckets, NEW q \in Seq(Locs),
         bank' = [bank EXCEPT ![v][c] = q]
  PROVE  /\ bank' \in [Workers -> [Q!Buckets -> Seq(Locs)]] /\ bank'[v][c] = q
         /\ \A u \in Workers, d \in Q!Buckets : u # v \/ d # c => bank'[u][d] = bank[u][d]
OBVIOUS

LEMMA PushWriteStep ==
  ASSUME IInv, NEW w \in Workers, UNCHANGED <<limit, shared, wk, lines>>, Q!PushWrite(w)
  PROVE  IInv'
<1>1. /\ wk[w] \in WorkerIn /\ fr[w] \in FrameIn /\ fr \in [Workers -> FrameIn]
      /\ WorkerFits(wk[w], fr[w], bank[w]) /\ QueueFits(w, wk[w], fr[w], bank[w], mask[w])
      /\ mask \in [Workers -> SUBSET Q!Buckets] /\ cursor \in [Workers -> Workers]
      /\ bank \in [Workers -> [Q!Buckets -> Seq(Locs)]]
  BY Here DEF IInv, Types
<1>2. PICK c \in Q!Buckets, x \in Locs : c = fr[w].b /\ x = fr[w].x
  BY <1>1 DEF Q!PushWrite, QueueFits, FrameIn
<1>3. /\ fr[w].op = "push" /\ bank' = [bank EXCEPT ![w][c] = Append(bank[w][c], x)]
      /\ fr' = [fr EXCEPT ![w] = [@ EXCEPT !.op = "mask", !.x = 0]]
      /\ mask' = mask /\ cursor' = cursor
  BY <1>1, <1>2 DEF Q!PushWrite, Q!Put
<1>4. Append(bank[w][c], x) \in Seq(Locs)
  BY <1>1, <1>2
<1>5. /\ bank' \in [Workers -> [Q!Buckets -> Seq(Locs)]]
      /\ \A u \in Workers, d \in Q!Buckets : u # w \/ d # c => bank'[u][d] = bank[u][d]
  BY <1>1, <1>3, <1>4, OneBucket
<1> DEFINE f == [fr[w] EXCEPT !.op = "mask", !.x = 0]
<1>6. f \in FrameIn
  <2>1. "mask" \in Q!Ops
    BY DEF Q!Ops
  <2> QED BY <1>1, <2>1 DEF FrameIn
<1>7. fr' = [fr EXCEPT ![w] = f]
  BY <1>1, <1>3
<1>8. /\ f.op = "mask" /\ f.x = 0 /\ f.b = c /\ f.from = fr[w].from
  BY <1>1, <1>2 DEF FrameIn
<1> HIDE DEF f
<1>9. WorkerFits(wk[w], f, bank'[w])
  BY <1>1, <1>2, <1>3, <1>8, CollapseAssumption DEF WorkerFits, Calling, Searching
<1>10. QueueFits(w, wk[w], f, bank'[w], mask'[w])
  BY <1>1, <1>3, <1>5, <1>8 DEF QueueFits, Within
<1>11. /\ \A u \in Workers \ {w} :
            mask'[u] = mask[u] /\ \A d \in Q!Buckets : bank[u][d] = <<>> => bank'[u][d] = <<>>
       /\ mask' \in [Workers -> SUBSET Q!Buckets] /\ cursor' \in [Workers -> Workers]
  BY <1>1, <1>3, <1>5
<1> QED BY <1>5, <1>6, <1>7, <1>9, <1>10, <1>11, QueueStep

LEMMA PopTakeStep ==
  ASSUME IInv, NEW w \in Workers, UNCHANGED <<limit, shared, wk, lines>>, Q!PopTake(w)
  PROVE  IInv'
<1>1. /\ wk[w] \in WorkerIn /\ fr[w] \in FrameIn /\ fr \in [Workers -> FrameIn]
      /\ WorkerFits(wk[w], fr[w], bank[w]) /\ QueueFits(w, wk[w], fr[w], bank[w], mask[w])
      /\ mask \in [Workers -> SUBSET Q!Buckets] /\ cursor \in [Workers -> Workers]
      /\ bank \in [Workers -> [Q!Buckets -> Seq(Locs)]]
  BY Here DEF IInv, Types
<1>2. PICK c \in fr[w].m :
        /\ bank[w][c] # <<>> /\ fr[w].op = "pop"
        /\ fr' = [fr EXCEPT ![w] = [@ EXCEPT !.op = "popped", !.b = c,
                                             !.x = Q!Taken(bank[w][c]), !.m = {}]]
        /\ bank' = [bank EXCEPT ![w][c] = Q!Left(bank[w][c])]
        /\ mask' = mask /\ cursor' = cursor
  BY <1>1 DEF Q!PopTake
<1>3. c \in Q!Buckets
  BY <1>1 DEF FrameIn
<1>4. PICK x \in Locs, q \in Seq(Locs) : x = Q!Taken(bank[w][c]) /\ q = Q!Left(bank[w][c])
  BY <1>1, <1>2, <1>3, TaskTaken
<1>5. /\ bank' \in [Workers -> [Q!Buckets -> Seq(Locs)]]
      /\ \A u \in Workers, d \in Q!Buckets : u # w \/ d # c => bank'[u][d] = bank[u][d]
  BY <1>1, <1>2, <1>3, <1>4, OneBucket
<1>6. \A u \in Workers, d \in Q!Buckets : bank[u][d] = <<>> => bank'[u][d] = <<>>
  BY <1>2, <1>5
<1> DEFINE f == [fr[w] EXCEPT !.op = "popped", !.b = c, !.x = x, !.m = {}]
<1>7. f \in FrameIn
  <2>1. "popped" \in Q!Ops
    BY DEF Q!Ops
  <2> QED BY <1>1, <1>3, <2>1 DEF FrameIn
<1>8. fr' = [fr EXCEPT ![w] = f]
  BY <1>1, <1>2, <1>4
<1>9. f.op = "popped" /\ f.x = x /\ x # 0
  BY <1>1, CollapseAssumption DEF FrameIn
<1> HIDE DEF f
<1>10. ~Empty(bank[w])
  BY <1>2, <1>3 DEF Empty
<1>11. WorkerFits(wk[w], f, bank'[w])
  BY <1>1, <1>2, <1>9, <1>10 DEF WorkerFits, Calling, Searching
<1>12. QueueFits(w, wk[w], f, bank'[w], mask'[w])
  BY <1>1, <1>2, <1>6, <1>9 DEF QueueFits, Within
<1>13. /\ \A u \in Workers \ {w} :
            mask'[u] = mask[u] /\ \A d \in Q!Buckets : bank[u][d] = <<>> => bank'[u][d] = <<>>
       /\ mask' \in [Workers -> SUBSET Q!Buckets] /\ cursor' \in [Workers -> Workers]
  BY <1>1, <1>2, <1>6
<1> QED BY <1>5, <1>7, <1>8, <1>11, <1>12, <1>13, QueueStep

\* The thief is active, and stays so with the task in its hand; the victim has
\* one less, and what the invariant says of it does not mind.
LEMMA StealTakeStep ==
  ASSUME IInv, NEW w \in Workers, UNCHANGED <<limit, shared, wk, lines>>, Q!StealTake(w)
  PROVE  IInv'
<1>1. /\ wk[w] \in WorkerIn /\ fr[w] \in FrameIn /\ fr \in [Workers -> FrameIn]
      /\ WorkerFits(wk[w], fr[w], bank[w]) /\ QueueFits(w, wk[w], fr[w], bank[w], mask[w])
      /\ mask \in [Workers -> SUBSET Q!Buckets] /\ cursor \in [Workers -> Workers]
      /\ bank \in [Workers -> [Q!Buckets -> Seq(Locs)]]
  BY Here DEF IInv, Types
<1>2. PICK v \in Workers, c \in Q!Buckets : v = fr[w].from /\ c = fr[w].b
  BY <1>1 DEF FrameIn
<1>3. /\ bank[v][c] # <<>> /\ fr[w].op = "take"
      /\ fr' = [fr EXCEPT ![w] = [@ EXCEPT !.op = "push", !.x = Head(bank[v][c])]]
      /\ bank' = [bank EXCEPT ![v][c] = Tail(bank[v][c])]
      /\ mask' = mask /\ cursor' = cursor
  BY <1>1, <1>2 DEF Q!StealTake
<1>4. PICK x \in Locs, q \in Seq(Locs) : x = Head(bank[v][c]) /\ q = Tail(bank[v][c])
  BY <1>1, <1>3, TaskTaken
<1>5. /\ bank' \in [Workers -> [Q!Buckets -> Seq(Locs)]]
      /\ \A u \in Workers, d \in Q!Buckets : u # v \/ d # c => bank'[u][d] = bank[u][d]
  BY <1>1, <1>3, <1>4, OneBucket
<1>6. \A u \in Workers, d \in Q!Buckets : bank[u][d] = <<>> => bank'[u][d] = <<>>
  BY <1>3, <1>5
<1> DEFINE f == [fr[w] EXCEPT !.op = "push", !.x = x]
<1>7. f \in FrameIn
  <2>1. "push" \in Q!Ops
    BY DEF Q!Ops
  <2> QED BY <1>1, <2>1 DEF FrameIn
<1>8. fr' = [fr EXCEPT ![w] = f]
  BY <1>1, <1>3, <1>4
<1>9. f.op = "push" /\ f.x = x /\ x # 0 /\ f.from = fr[w].from /\ f.got = fr[w].got
  BY <1>1, CollapseAssumption DEF FrameIn
<1> HIDE DEF f
<1>10. Empty(bank[w]) => Empty(bank'[w])
  BY <1>6 DEF Empty
<1>11. WorkerFits(wk[w], f, bank'[w])
  BY <1>1, <1>3, <1>9, <1>10 DEF WorkerFits, InHand, Calling, Searching
<1>12. QueueFits(w, wk[w], f, bank'[w], mask'[w])
  BY <1>1, <1>3, <1>6, <1>9 DEF QueueFits, Within
<1>13. /\ \A u \in Workers \ {w} :
            mask'[u] = mask[u] /\ \A d \in Q!Buckets : bank[u][d] = <<>> => bank'[u][d] = <<>>
       /\ mask' \in [Workers -> SUBSET Q!Buckets] /\ cursor' \in [Workers -> Workers]
  BY <1>1, <1>3, <1>6
<1> QED BY <1>5, <1>7, <1>8, <1>11, <1>12, <1>13, QueueStep

LEMMA Queueings ==
  ASSUME IInv, NEW w \in Workers, limit' = limit, Queueing(w)
  PROVE  IInv'
<1>1. UNCHANGED <<limit, shared, wk, lines>> /\ Q!Step(w)
  BY DEF Queueing
<1> QED BY <1>1, PushWriteStep, MaskSetStep, FullCheckStep, FullYesStep, FullNoStep, CrashStep,
           PopTakeStep, PopMissStep, MaskClearStep, PopNoneStep, StealSkipStep, StealPickStep,
           StealTakeStep, StealStopStep, StealMissStep, StealNoneStep DEF Q!Step

-----------------------------------------------------------------------------
(* The invariant, and what follows from it.                                *)

LEMMA IInvInit == Init => IInv
<1> SUFFICES ASSUME Init PROVE IInv
  OBVIOUS
<1>1. /\ N \in Nat \ {0} /\ 0 \in Workers /\ 0 \in Q!Buckets /\ Workers = Q!Workers
      /\ Workers \subseteq Nat
  BY CollapseAssumption DEF Workers, Q!Workers, Q!Buckets
<1>2. /\ bank = [w \in Workers |-> [c \in Q!Buckets |-> IF w = 0 /\ c = 0 THEN <<Root>> ELSE <<>>]]
      /\ mask = [w \in Workers |-> IF w = 0 THEN {0} ELSE {}]
      /\ cursor = [w \in Workers |-> (w + 1) % N]
      /\ fr = [w \in Workers |-> Q!Free(w)]
      /\ limit \in Limits /\ pending = N /\ stop \in BOOLEAN /\ printed = 0
      /\ cpend = (IF N > 1 THEN N ELSE 0) /\ wk = [w \in Workers |-> Fresh(w)] /\ lines = <<>>
  BY DEF Init
<1>3. \A w \in Workers : Q!Free(w) \in FrameIn /\ Q!Free(w).op = "none" /\ Q!Free(w).x = 0
  BY <1>1, CollapseAssumption DEF FrameIn, Q!Free, Q!Ops
<1>4. \A w \in Workers :
        /\ Fresh(w) \in WorkerIn /\ Fresh(w).pc = "top" /\ Fresh(w).at = 0 /\ Fresh(w).active
        /\ (Fresh(w).pool <=> N > 1) /\ Fresh(w).local = 0
  <2> SUFFICES ASSUME NEW w \in Workers
               PROVE  /\ Fresh(w) \in WorkerIn /\ Fresh(w).pc = "top" /\ Fresh(w).at = 0
                      /\ Fresh(w).active /\ (Fresh(w).pool <=> N > 1) /\ Fresh(w).local = 0
    OBVIOUS
  <2>1. /\ "top" \in Steps /\ 0 \in 0..Brackets /\ 0 \in 0..Period /\ 1 \in 1..N
        /\ (N > 1) \in BOOLEAN
    BY CollapseAssumption DEF Steps
  <2>2. Fresh(w) \in WorkerIn
    BY <2>1 DEF WorkerIn, Fresh
  <2> QED BY <2>2 DEF Fresh
<1>5. Types
  <2>1. bank \in [Workers -> [Q!Buckets -> Seq(Locs)]]
    <3>1. <<Root>> \in Seq(Locs) /\ <<>> \in Seq(Locs)
      BY CollapseAssumption
    <3> QED BY <1>2, <3>1
  <2>2. mask \in [Workers -> SUBSET Q!Buckets]
    BY <1>1, <1>2
  <2>3. cursor \in [Workers -> Workers]
    <3>1. \A w \in Workers : (w + 1) % N \in Workers
      BY <1>1, ModWorker
    <3> QED BY <1>2, <3>1
  <2>4. fr \in [Workers -> FrameIn] /\ wk \in [Workers -> WorkerIn]
    BY <1>2, <1>3, <1>4
  <2>5. pending \in Nat /\ cpend \in Nat /\ printed \in Nat /\ lines \in Seq(Locs)
    BY <1>1, <1>2
  <2> QED BY <1>2, <2>1, <2>2, <2>3, <2>4, <2>5 DEF Types
<1>6. WorkersFit
  <2> SUFFICES ASSUME NEW w \in Workers
               PROVE  /\ WorkerFits(wk[w], fr[w], bank[w])
                      /\ QueueFits(w, wk[w], fr[w], bank[w], mask[w])
    BY DEF WorkersFit
  <2>1. /\ wk[w].pc = "top" /\ wk[w].at = 0 /\ wk[w].active
        /\ fr[w] = Q!Free(w) /\ fr[w].op = "none" /\ fr[w].x = 0
    BY <1>2, <1>3, <1>4
  <2>2. Within(bank[w], mask[w])
    BY <1>2 DEF Within
  <2>3. WorkerFits(wk[w], fr[w], bank[w])
    BY <2>1 DEF WorkerFits, InHand, Calling, Searching
  <2>4. QueueFits(w, wk[w], fr[w], bank[w], mask[w])
    BY <2>1, <2>2 DEF QueueFits
  <2> QED BY <2>3, <2>4
<1>7. Counted
  <2>1. {w \in Workers : wk[w].active} = Workers
    BY <1>2, <1>4
  <2>2. {w \in Workers : wk[w].pool} = IF N > 1 THEN Workers ELSE {}
    BY <1>2, <1>4
  <2> QED BY <1>2, <2>1, <2>2, WorkersFinite, FS_EmptySet DEF Counted
<1>8. LimitKept
  <2>1. Cardinality({w \in Workers : wk[w].pc = "print"}) = 0
    <3>1. {w \in Workers : wk[w].pc = "print"} = {}
      BY <1>2, <1>4
    <3> QED BY <3>1, FS_EmptySet
  <2>2. limit \in Nat /\ Len(lines) = 0
    BY <1>2, CollapseAssumption
  <2>3. \A w \in Workers : wk[w].local = IF wk[w].pc \in {"halt", "flush"} THEN 1 ELSE 0
    BY <1>2, <1>4
  <2>4. Len(lines) + Cardinality({w \in Workers : wk[w].pc = "print"}) <= printed
    <3> DEFINE P == Cardinality({w \in Workers : wk[w].pc = "print"})
    <3> HIDE DEF P
    <3>1. P = 0 /\ printed = 0
      BY <1>2, <2>1 DEF P
    <3>2. Len(lines) + P <= printed
      BY <2>2, <3>1
    <3> QED BY <3>2 DEF P
  <2> QED BY <2>2, <2>3, <2>4 DEF LimitKept
<1> QED BY <1>5, <1>6, <1>7, <1>8 DEF IInv

LEMMA IInvNext == IInv /\ [Next]_vars => IInv'
<1> SUFFICES ASSUME IInv, [Next]_vars PROVE IInv'
  OBVIOUS
<1>1. CASE UNCHANGED vars
  BY <1>1 DEF IInv, Types, WorkersFit, Counted, LimitKept, PrintBatch, vars, queue, shared
<1>2. ASSUME NEW w \in Workers, Worker(w) PROVE IInv'
  <2>1. limit' = limit
    BY <1>2 DEF Worker
  <2>2. CASE Queueing(w)
    BY <2>1, <2>2, Queueings
  <2>3. CASE Collapsing(w)
    <3>1. CASE \/ Enter(w) \/ Retire(w) \/ Leave(w) \/ CnfLeaf(w) \/ LimitStop(w) \/ Flush(w)
               \/ PrintLine(w)
      BY <2>1, <3>1, EnterStep, RetireLeaves, RetireStays, LeaveStep, CnfLeafStep, LimitStopStep,
         FlushStep, PrintLineStep
    <3>2. CASE HelpDrop(w) \/ HelpSteal(w) \/ HelpCount(w) \/ JoinDrop(w) \/ JoinTake(w)
      BY <2>1, <3>2, HelpDropStep, HelpStealStep, HelpCountStep, JoinDropStep, JoinTakeStep
    <3>3. CASE ~(\/ Enter(w) \/ Retire(w) \/ Leave(w) \/ CnfLeaf(w) \/ LimitStop(w) \/ Flush(w)
                 \/ PrintLine(w) \/ HelpDrop(w) \/ HelpSteal(w) \/ HelpCount(w) \/ JoinDrop(w)
                 \/ JoinTake(w))
      BY <2>1, <2>3, <3>3, QuietActions DEF Collapsing
    <3> QED BY <3>1, <3>2, <3>3
  <2> QED BY <1>2, <2>2, <2>3 DEF Worker
<1> QED BY <1>1, <1>2 DEF Next, Joined

\* The invariant holds in every behaviour, whatever the word stop held before
\* the run: the frames of each worker agree with each other and with its bank,
\* the counters are exact, and a line is counted before it is printed.
THEOREM Invariance == Spec => []IInv
<1> QED BY IInvInit, IInvNext, PTL DEF Spec

\* Every variable of eval_collapse keeps its type; in particular neither
\* counter goes below zero, where the unsigned words of the code would wrap.
THEOREM TypeCorrect == Spec => []TypeOK
<1>1. IInv => TypeOK
  BY DEF IInv, Types, TypeOK, WorkerIn
<1> QED BY <1>1, Invariance, PTL

\* Termination detection: pending is the number of active workers, and a
\* worker that is not active has no task in its bank or in its hands, whatever
\* the workers push, pop and steal meanwhile.
THEOREM PendingIsExact == Spec => []PendingExact
<1>1. IInv => PendingExact
  BY DEF IInv, WorkersFit, WorkerFits, Counted, PendingExact, HasWork, InHand, Empty
<1> QED BY <1>1, Invariance, PTL

\* With a print batch of one, never more than limit lines are printed, though
\* the workers count and print them without a lock.
THEOREM KeepsTheLimit == Spec => []AtMostLimit
<1>1. IInv => AtMostLimit
  BY DEF IInv, LimitKept, AtMostLimit
<1> QED BY <1>1, Invariance, PTL
=============================================================================
