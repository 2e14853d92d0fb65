----------------------------- MODULE WsqProofs -----------------------------
(***************************************************************************)
(* Wsq for any set of thieves, any ring size and any number of pushes: its *)
(* inductive invariant, and the safety properties that follow from it.     *)
(***************************************************************************)
EXTENDS Wsq, TLAPS

-----------------------------------------------------------------------------
(* The ring: an index has a slot, and the indices of a window of Cap slots *)
(* have different ones.                                                    *)

LEMMA SlotRange ==
  ASSUME NEW i \in Nat
  PROVE  Slot(i) \in 0..(Cap - 1)
BY WsqAssumption DEF Slot

LEMMA DivMod ==
  ASSUME NEW i \in Nat
  PROVE  i \div Cap \in Int /\ i = Cap * (i \div Cap) + Slot(i)
BY WsqAssumption DEF Slot

LEMMA SlotsDiffer ==
  ASSUME NEW i \in Nat, NEW j \in Nat, i < j, j < i + Cap
  PROVE  Slot(i) # Slot(j)
<1>1. SUFFICES ASSUME Slot(i) = Slot(j) PROVE FALSE
  OBVIOUS
<1> DEFINE m == i \div Cap
           n == j \div Cap
<1>2. m \in Int /\ n \in Int /\ Cap \in Nat /\ Cap > 0
  BY DivMod, WsqAssumption
<1>3. j - i = Cap * n - Cap * m
  <2>1. Slot(i) \in Int /\ Slot(j) \in Int /\ Cap * n \in Int /\ Cap * m \in Int
    BY <1>2, SlotRange
  <2>2. i = Cap * m + Slot(i) /\ j = Cap * n + Slot(j)
    BY DivMod
  <2> QED BY <1>1, <2>1, <2>2
<1>4. Cap * n - Cap * m = Cap * (n - m)
  BY <1>2
<1>5. n - m >= 1
  <2>1. ASSUME n - m <= 0 PROVE Cap * (n - m) <= 0
    BY <2>1, <1>2
  <2> QED BY <2>1, <1>2, <1>3, <1>4
<1>6. Cap * (n - m) >= Cap
  BY <1>2, <1>5
<1> QED BY <1>2, <1>3, <1>4, <1>6

\* The same, without the order of the two indices.
LEMMA SlotInjective ==
  ASSUME NEW lo \in Nat, NEW hi \in Nat, hi <= lo + Cap,
         NEW i \in lo..(hi - 1), NEW j \in lo..(hi - 1), Slot(i) = Slot(j)
  PROVE  i = j
<1>1. i \in Nat /\ j \in Nat /\ Cap \in Nat
  BY WsqAssumption
<1>2. ~ (i < j) /\ ~ (j < i)
  BY <1>1, SlotsDiffer
<1> QED BY <1>1, <1>2

-----------------------------------------------------------------------------
(* The initial state.                                                      *)

LEMMA InitIInv == Init => IInv
<1> SUFFICES ASSUME Init PROVE IInv
  OBVIOUS
<1> USE WsqAssumption DEF Init
<1>1. TypeOK
  BY DEF TypeOK, OwnerPC, ThiefPC, Tasks
<1>2. Indices
  BY DEF Indices, Popping, Bottom
<1>3. Cells
  BY DEF Cells, Held, Popping, Bottom, Tasks
<1>4. Snapshots
  <2>1. tpc = [p \in Thieves |-> "idle"] /\ tt = [p \in Thieves |-> 0] /\ top = 0
    OBVIOUS
  <2> HIDE DEF Init
  <2>2. \A p \in Thieves : tpc[p] = "idle" /\ tt[p] = 0
    BY <2>1, Zenon
  <2>3. ASSUME NEW p \in Thieves
        PROVE  tt[p] <= top /\ tpc[p] \notin {"read", "cas"}
    BY <2>1, <2>2
  <2> QED BY <2>3 DEF Snapshots
<1> QED BY <1>1, <1>2, <1>3, <1>4 DEF IInv

-----------------------------------------------------------------------------
(* wsq_push keeps the invariant.                                           *)

LEMMA PushIInv == IInv /\ Push => IInv'
<1> SUFFICES ASSUME IInv, Push PROVE IInv'
  OBVIOUS
<1> USE WsqAssumption DEF IInv, OwnerReturns, shared, owner, thief
<1>1. CASE PushFull
  BY <1>1 DEF PushFull, TypeOK, Indices, Cells, Snapshots, Held, Bottom,
              Popping, OwnerPC, ThiefPC, Tasks
<1>2. CASE PushLoad
  <2> USE <1>2 DEF PushLoad
  <2>1. TypeOK'
    BY DEF TypeOK, OwnerPC
  <2>2. Indices'
    BY DEF Indices, Popping, Bottom, TypeOK
  <2>3. Bottom' = Bottom /\ Held' = Held
    BY DEF Held, Bottom, Popping
  <2>4. Cells'
    BY <2>3 DEF Cells, Held
  <2>5. Snapshots'
    BY <2>3 DEF Snapshots
  <2> QED BY <2>1, <2>2, <2>4, <2>5
<1>3. CASE PushWrite
  <2> USE <1>3 DEF PushWrite
  <2>1. Bottom' = Bottom /\ Held' = Held /\ Bottom = b
    BY DEF Held, Bottom, Popping, Indices
  <2>2. b \in Nat /\ top \in Nat /\ b < top + Cap /\ top <= b
        /\ Cap \in Nat /\ pushed + 1 \in 0..MaxPush
    BY <2>1 DEF TypeOK, Indices
  <2>3. Slot(b) \in 0..(Cap - 1)
    BY <2>2, SlotRange
  <2>4. \A i \in Held : Slot(i) # Slot(b) /\ Slot(i) \in 0..(Cap - 1)
                        /\ buf'[Slot(i)] = buf[Slot(i)]
    <3> SUFFICES ASSUME NEW i \in Held
                 PROVE  /\ Slot(i) # Slot(b) /\ Slot(i) \in 0..(Cap - 1)
                        /\ buf'[Slot(i)] = buf[Slot(i)]
      OBVIOUS
    <3>1. i \in Nat /\ i < b /\ b < i + Cap
      BY <2>1, <2>2 DEF Held
    <3>2. Slot(i) # Slot(b) /\ Slot(i) \in 0..(Cap - 1)
      BY <3>1, <2>2, SlotsDiffer, SlotRange
    <3> QED BY <3>2, <2>3 DEF TypeOK
  <2>5. TypeOK'
    BY <2>2, <2>3 DEF TypeOK, OwnerPC
  <2>6. Indices'
    BY DEF Indices, Popping, Bottom
  <2>7. Cells'
    <3>1. buf'[Slot(b)] = pushed + 1
      BY <2>3 DEF TypeOK
    <3> QED BY <3>1, <2>1, <2>4 DEF Cells
  <2>8. Snapshots'
    <3> SUFFICES ASSUME NEW p \in Thieves, tpc[p] \in {"read", "cas"}, tt[p] = top
                 PROVE  top < Bottom /\ (tpc[p] = "cas" => tx[p] = buf'[Slot(top)])
      BY <2>1 DEF Snapshots
    <3>1. top < Bottom /\ top \in Held
      BY <2>1, <2>2 DEF Snapshots, Held
    <3> QED BY <3>1, <2>4 DEF Snapshots
  <2> QED BY <2>5, <2>6, <2>7, <2>8
<1>4. CASE PushPublish
  <2> USE <1>4 DEF PushPublish
  <2>1. Bottom = b /\ Bottom' = b + 1 /\ bot = b /\ b \in Nat /\ top \in Nat
        /\ top <= b /\ b < top + Cap /\ pushed \in Nat /\ pushed < MaxPush
        /\ Cap \in Nat /\ MaxPush \in Nat
    BY DEF Bottom, Popping, Indices, TypeOK
  <2>2. Held' = Held \cup {b} /\ b \notin Held
    BY <2>1 DEF Held
  <2>3. TypeOK'
    BY <2>1 DEF TypeOK, OwnerPC
  <2>4. Indices'
    BY <2>1 DEF Indices, Popping, Bottom
  <2>5. Cells'
    <3>1. buf[Slot(b)] = pushed + 1 /\ takes[pushed + 1] = 0
      BY <2>1 DEF Cells
    <3>2. \A i \in Held : buf[Slot(i)] \in 1..pushed
      BY DEF Cells
    <3>3. \A i \in Held' : buf'[Slot(i)] \in 1..pushed' /\ takes'[buf'[Slot(i)]] = 0
      BY <2>1, <2>2, <3>1, <3>2 DEF Cells
    <3>4. \A i, j \in Held' : buf'[Slot(i)] = buf'[Slot(j)] => i = j
      BY <2>1, <2>2, <3>1, <3>2 DEF Cells
    <3>5. \A k \in 1..pushed' : takes'[k] = 1 \/ \E i \in Held' : buf'[Slot(i)] = k
      BY <2>1, <2>2, <3>1 DEF Cells
    <3>6. \A k \in (pushed' + 1)..MaxPush : takes'[k] = 0
      BY <2>1 DEF Cells
    <3> QED BY <3>3, <3>4, <3>5, <3>6 DEF Cells
  <2>6. Snapshots'
    BY <2>1 DEF Snapshots
  <2> QED BY <2>3, <2>4, <2>5, <2>6
<1> QED BY <1>1, <1>2, <1>3, <1>4 DEF Push

-----------------------------------------------------------------------------
(* A delivery.  Whoever takes the task of one end of the held slots leaves *)
(* the others, and takes it for the first time: what PopMany, PopCasWin    *)
(* and StealCasWin have in common.                                         *)

LEMMA Deliver ==
  ASSUME IInv, NEW e \in Held, Hand(buf[Slot(e)]),
         Held' = Held \ {e}, UNCHANGED <<buf, pushed>>,
         pc' = "publish" => pc = "publish" /\ b' = b
  PROVE  Cells' /\ takes' \in [Tasks -> 0..1]
<1> DEFINE k == buf[Slot(e)]
<1>1. k \in 1..pushed /\ takes[k] = 0 /\ k \in Tasks /\ pushed \in Nat
      /\ takes \in [Tasks -> 0..1] /\ pushed <= MaxPush /\ MaxPush \in Nat
  BY WsqAssumption DEF IInv, Cells, TypeOK, Tasks
<1>2. takes'[k] = 1 /\ \A j \in Tasks : j # k => takes'[j] = takes[j]
  BY <1>1 DEF Hand
<1>3. takes' \in [Tasks -> 0..1]
  BY <1>1 DEF Hand
<1>4. \A i \in Held' : buf'[Slot(i)] \in 1..pushed' /\ takes'[buf'[Slot(i)]] = 0
  BY <1>1, <1>2 DEF IInv, Cells, Tasks
<1>5. \A i, j \in Held' : buf'[Slot(i)] = buf'[Slot(j)] => i = j
  BY DEF IInv, Cells
<1>6. \A j \in 1..pushed' : takes'[j] = 1 \/ \E i \in Held' : buf'[Slot(i)] = j
  BY <1>1, <1>2 DEF IInv, Cells, Tasks
<1>7. \A j \in (pushed' + 1)..MaxPush : takes'[j] = 0
  BY <1>1, <1>2 DEF IInv, Cells, Tasks
<1>8. pc' = "publish" => buf'[Slot(b')] = pushed' + 1
  BY DEF IInv, Cells
<1> QED BY <1>3, <1>4, <1>5, <1>6, <1>7, <1>8 DEF Cells

-----------------------------------------------------------------------------
(* wsq_pop keeps the invariant.                                            *)

LEMMA PopIInv == IInv /\ Pop => IInv'
<1> SUFFICES ASSUME IInv, Pop PROVE IInv'
  OBVIOUS
<1> USE WsqAssumption DEF OwnerReturns, shared, owner, thief
<1>0. /\ top \in Nat /\ bot \in Nat /\ b \in Nat /\ t \in Nat /\ Cap \in Nat
      /\ Cap > 0 /\ TypeOK /\ Indices /\ Cells /\ Snapshots
  BY DEF IInv, TypeOK
<1>1. CASE PopZero
  BY <1>0, <1>1 DEF PopZero, IInv, TypeOK, Indices, Cells, Snapshots, Held, Bottom,
              Popping, OwnerPC, ThiefPC, Tasks
<1>2. CASE PopDec
  <2> USE <1>0, <1>2 DEF PopDec
  <2>1. Bottom' = Bottom /\ Held' = Held /\ bot' \in Nat
    BY DEF Held, Bottom, Popping
  <2>2. TypeOK'
    BY <2>1 DEF TypeOK, OwnerPC
  <2>3. Indices'
    BY <2>1 DEF Indices, Popping
  <2>4. Cells'
    BY <2>1 DEF Cells
  <2>5. Snapshots'
    BY <2>1 DEF Snapshots
  <2> QED BY <2>2, <2>3, <2>4, <2>5 DEF IInv
<1>3. CASE PopMany
  <2> USE <1>0, <1>3 DEF PopMany
  <2>1. Bottom = b + 1 /\ Bottom' = b /\ bot = b
    BY DEF Bottom, Popping, Indices
  <2>2. b \in Held /\ Held' = Held \ {b}
    BY <2>1 DEF Held
  <2>3. Cells' /\ takes' \in [Tasks -> 0..1]
    BY <2>2, Deliver
  <2>4. TypeOK'
    BY <2>3 DEF TypeOK, OwnerPC
  <2>5. Indices'
    BY <2>1 DEF Indices, Popping
  <2>6. Snapshots'
    BY <2>1 DEF Snapshots
  <2> QED BY <2>3, <2>4, <2>5, <2>6 DEF IInv
<1>4. CASE PopLast
  <2> USE <1>0, <1>4 DEF PopLast
  <2>1. Bottom' = Bottom /\ Held' = Held
    BY DEF Held, Bottom, Popping
  <2>2. Slot(b) \in 0..(Cap - 1)
    BY SlotRange
  <2>3. TypeOK'
    BY <2>2 DEF TypeOK, OwnerPC
  <2>4. Indices'
    BY <2>1 DEF Indices, Popping
  <2>5. Cells'
    BY <2>1 DEF Cells
  <2>6. Snapshots'
    BY <2>1 DEF Snapshots
  <2> QED BY <2>3, <2>4, <2>5, <2>6 DEF IInv
<1>5. CASE PopNone
  <2> USE <1>0, <1>5 DEF PopNone
  <2>1. Bottom' = Bottom /\ Held' = Held /\ Bottom = b + 1 /\ top <= Bottom
    BY DEF Held, Bottom, Popping, Indices
  <2>2. TypeOK'
    BY DEF TypeOK, OwnerPC
  <2>3. Indices'
    BY <2>1 DEF Indices, Popping
  <2>4. Cells'
    BY <2>1 DEF Cells
  <2>5. Snapshots'
    BY <2>1 DEF Snapshots
  <2> QED BY <2>2, <2>3, <2>4, <2>5 DEF IInv
<1>6. CASE PopCasWin
  <2> USE <1>0, <1>6 DEF PopCasWin
  <2>1. Bottom = b + 1 /\ Bottom' = Bottom /\ t = b /\ bot = b
        /\ x = buf[Slot(b)] /\ top = b
    BY DEF Bottom, Popping, Indices
  <2>2. b \in Held /\ Held' = Held \ {b}
    BY <2>1 DEF Held
  <2>3. Cells' /\ takes' \in [Tasks -> 0..1]
    BY <2>1, <2>2, Deliver
  <2>4. TypeOK'
    BY <2>3 DEF TypeOK, OwnerPC
  <2>5. Indices'
    BY <2>1 DEF Indices, Popping
  <2>6. Snapshots'
    BY <2>1 DEF Snapshots, TypeOK
  <2> QED BY <2>3, <2>4, <2>5, <2>6 DEF IInv
<1>7. CASE PopCasLose
  <2> USE <1>0, <1>7 DEF PopCasLose
  <2>1. Bottom' = Bottom /\ Held' = Held /\ Bottom = b + 1 /\ top <= Bottom
    BY DEF Held, Bottom, Popping, Indices
  <2>2. TypeOK'
    BY DEF TypeOK, OwnerPC
  <2>3. Indices'
    BY <2>1 DEF Indices, Popping
  <2>4. Cells'
    BY <2>1 DEF Cells
  <2>5. Snapshots'
    BY <2>1 DEF Snapshots
  <2> QED BY <2>2, <2>3, <2>4, <2>5 DEF IInv
<1>8. CASE PopRestore \/ PopReset
  <2> USE <1>0, <1>8 DEF PopRestore, PopReset
  <2>1. Bottom' = Bottom /\ Held' = Held
    BY DEF Held, Bottom, Popping, Indices
  <2>2. TypeOK'
    BY DEF TypeOK, OwnerPC
  <2>3. Indices'
    BY <2>1 DEF Indices, Popping, Bottom
  <2>4. Cells'
    BY <2>1 DEF Cells
  <2>5. Snapshots'
    BY <2>1 DEF Snapshots
  <2> QED BY <2>2, <2>3, <2>4, <2>5 DEF IInv
<1> QED BY <1>1, <1>2, <1>3, <1>4, <1>5, <1>6, <1>7, <1>8 DEF Pop

-----------------------------------------------------------------------------
(* wsq_steal keeps the invariant.                                          *)

LEMMA StealIInv ==
  ASSUME IInv, NEW p \in Thieves, Steal(p)
  PROVE  IInv'
<1> USE WsqAssumption DEF ThiefReturns, shared, owner, thief
<1>0. /\ top \in Nat /\ bot \in Nat /\ b \in Nat /\ t \in Nat /\ Cap \in Nat
      /\ Cap > 0 /\ TypeOK /\ Indices /\ Cells /\ Snapshots /\ tt[p] \in Nat
  BY DEF IInv, TypeOK
\* A step that leaves the shared words and the owner alone.
<1>1. ASSUME UNCHANGED <<shared, owner, pushed, takes>> PROVE Indices' /\ Cells'
  BY <1>0, <1>1 DEF Indices, Cells, Held, Bottom, Popping
<1>2. CASE StealLoadTop(p)
  <2> USE <1>0, <1>2 DEF StealLoadTop
  <2>1. TypeOK'
    BY DEF TypeOK, ThiefPC
  <2>2. Snapshots'
    BY DEF Snapshots, TypeOK, Bottom, Popping
  <2> QED BY <1>1, <2>1, <2>2 DEF IInv
<1>3. CASE StealEmpty(p)
  <2> USE <1>0, <1>3 DEF StealEmpty
  <2>1. TypeOK'
    BY DEF TypeOK, ThiefPC
  <2>2. Snapshots'
    BY DEF Snapshots, TypeOK, Bottom, Popping
  <2> QED BY <1>1, <2>1, <2>2 DEF IInv
<1>4. CASE StealLoadBot(p)
  <2> USE <1>0, <1>4 DEF StealLoadBot
  <2>1. TypeOK'
    BY DEF TypeOK, ThiefPC
  <2>2. Snapshots'
    BY DEF Snapshots, TypeOK, Bottom, Popping
  <2> QED BY <1>1, <2>1, <2>2 DEF IInv
<1>5. CASE StealRead(p)
  <2> USE <1>0, <1>5 DEF StealRead
  <2>0. Slot(tt[p]) \in 0..(Cap - 1)
    BY SlotRange
  <2>1. TypeOK'
    BY <2>0 DEF TypeOK, ThiefPC
  <2>2. Snapshots'
    BY DEF Snapshots, TypeOK, Bottom, Popping
  <2> QED BY <1>1, <2>1, <2>2 DEF IInv
<1>6. CASE StealCasWin(p)
  <2> USE <1>0, <1>6 DEF StealCasWin
  <2>1. Bottom' = Bottom /\ top < Bottom /\ tx[p] = buf[Slot(top)] /\ Bottom \in Nat
    BY DEF Bottom, Popping, Snapshots
  <2>2. top \in Held /\ Held' = Held \ {top}
    BY <2>1 DEF Held
  <2>3. Cells' /\ takes' \in [Tasks -> 0..1]
    BY <2>1, <2>2, Deliver
  <2>4. TypeOK'
    BY <2>3 DEF TypeOK, ThiefPC
  <2>5. Indices'
    BY <2>1 DEF Indices, Popping, Bottom
  <2>6. Snapshots'
    BY <2>1 DEF Snapshots, TypeOK
  <2> QED BY <2>3, <2>4, <2>5, <2>6 DEF IInv
<1>7. CASE StealCasLose(p)
  <2> USE <1>0, <1>7 DEF StealCasLose
  <2>1. TypeOK'
    BY DEF TypeOK, ThiefPC
  <2>2. Snapshots'
    BY DEF Snapshots, TypeOK, Bottom, Popping
  <2> QED BY <1>1, <2>1, <2>2 DEF IInv
<1> QED BY <1>2, <1>3, <1>4, <1>5, <1>6, <1>7 DEF Steal

-----------------------------------------------------------------------------
(* The theorems.                                                           *)

\* Every reachable state satisfies the inductive invariant.
THEOREM Invariance == Spec => []IInv
<1>1. IInv /\ UNCHANGED vars => IInv'
  BY DEF vars, IInv, TypeOK, Indices, Cells, Snapshots, Held, Bottom, Popping
<1>2. IInv /\ [Next]_vars => IInv'
  BY <1>1, PushIInv, PopIInv, StealIInv DEF Next
<1> QED BY <1>2, InitIInv, PTL DEF Spec

\* Type correctness of the deque: in particular wsq_pop never decrements bot
\* below zero.
THEOREM TypeCorrect == Spec => []TypeOK
<1>1. IInv => TypeOK
  BY DEF IInv
<1> QED BY <1>1, Invariance, PTL

\* No task pushed to a deque is lost and none is handed out twice, whatever the
\* number of thieves, the size of the ring and the interleaving of the owner's
\* pops with the steals.
THEOREM DeliveredExactlyOnce == Spec => []ExactlyOnce
<1>1. IInv => ExactlyOnce
  <2> SUFFICES ASSUME IInv PROVE ExactlyOnce
    OBVIOUS
  <2>1. takes \in [Tasks -> 0..1] /\ pushed \in 0..MaxPush /\ MaxPush \in Nat
    BY WsqAssumption DEF IInv, TypeOK
  <2>2. \A k \in Tasks : takes[k] <= 1
    BY <2>1
  <2>3. ASSUME NEW k \in 1..pushed
        PROVE  \/ takes[k] = 1 /\ \A i \in Held : buf[Slot(i)] # k
               \/ /\ takes[k] = 0
                  /\ \E i \in Held : /\ buf[Slot(i)] = k
                                     /\ \A j \in Held : buf[Slot(j)] = k => j = i
    <3>1. takes[k] \in {0, 1}
      BY <2>1 DEF Tasks
    <3>2. CASE \E i \in Held : buf[Slot(i)] = k
      <4>1. PICK i \in Held : buf[Slot(i)] = k
        BY <3>2
      <4>2. takes[k] = 0 /\ \A j \in Held : buf[Slot(j)] = k => j = i
        BY <4>1 DEF IInv, Cells
      <4> QED BY <4>1, <4>2
    <3>3. CASE ~ \E i \in Held : buf[Slot(i)] = k
      BY <3>1, <3>3 DEF IInv, Cells
    <3> QED BY <3>2, <3>3
  <2>4. \A k \in (pushed + 1)..MaxPush : takes[k] = 0
    BY DEF IInv, Cells
  <2> QED BY <2>2, <2>3, <2>4 DEF ExactlyOnce
<1> QED BY <1>1, Invariance, PTL

-----------------------------------------------------------------------------
(* Wsq implements Deque: what the held slots contain is the abstract       *)
(* sequence, and each access is one of its operations or a stutter.        *)

ContentFacts ==
  /\ top \in Nat /\ Bottom \in Nat /\ top <= Bottom /\ pushed \in Nat
  /\ Content \in Seq(1..pushed) /\ Len(Content) = Bottom - top
  /\ \A i \in 1..(Bottom - top) : Content[i] = buf[Slot(top + i - 1)]

LEMMA ContentIsSeq == IInv => ContentFacts
<1> SUFFICES ASSUME IInv PROVE ContentFacts
  OBVIOUS
<1>1. top \in Nat /\ Bottom \in Nat /\ top <= Bottom /\ Bottom - top \in Nat
  BY DEF IInv, TypeOK, Indices, Bottom
<1>2. \A i \in 1..(Bottom - top) : top + i - 1 \in Held
  BY <1>1 DEF Held
<1>3. \A i \in 1..(Bottom - top) : buf[Slot(top + i - 1)] \in 1..pushed
  BY <1>2 DEF IInv, Cells
<1>4. Content \in [1..(Bottom - top) -> 1..pushed]
  BY <1>3 DEF Content
<1>5. pushed \in Nat
  BY DEF IInv, TypeOK
<1>6. Content \in Seq(1..pushed) /\ Len(Content) = Bottom - top
  BY <1>1, <1>4 DEF Content
<1>7. \A i \in 1..(Bottom - top) : Content[i] = buf[Slot(top + i - 1)]
  BY DEF Content
<1> QED BY <1>1, <1>5, <1>6, <1>7 DEF ContentFacts

LEMMA ContentIsSeqNext == IInv' => ContentFacts'
BY ContentIsSeq, PTL

\* A deque whose words keep their values keeps its content.
LEMMA ContentSame ==
  ASSUME UNCHANGED <<top, buf>>, Bottom' = Bottom
  PROVE  Content' = Content
BY DEF Content

LEMMA SeqEqual ==
  ASSUME NEW S, NEW r \in Seq(S), NEW s \in Seq(S), Len(r) = Len(s),
         \A i \in 1..Len(s) : r[i] = s[i]
  PROVE  r = s
OBVIOUS

LEMMA AppendFacts ==
  ASSUME NEW S, NEW s \in Seq(S), NEW e \in S
  PROVE  /\ Append(s, e) \in Seq(S) /\ Len(Append(s, e)) = Len(s) + 1
         /\ Append(s, e)[Len(s) + 1] = e
         /\ \A i \in 1..Len(s) : Append(s, e)[i] = s[i]
OBVIOUS

LEMMA TailFacts ==
  ASSUME NEW S, NEW s \in Seq(S), s # <<>>
  PROVE  /\ Tail(s) \in Seq(S) /\ Len(Tail(s)) = Len(s) - 1 /\ Head(s) = s[1]
         /\ \A i \in 1..(Len(s) - 1) : Tail(s)[i] = s[i + 1]
OBVIOUS

LEMMA FrontFacts ==
  ASSUME NEW S, NEW s \in Seq(S), s # <<>>
  PROVE  /\ SubSeq(s, 1, Len(s) - 1) \in Seq(S)
         /\ Len(SubSeq(s, 1, Len(s) - 1)) = Len(s) - 1
         /\ \A i \in 1..(Len(s) - 1) : SubSeq(s, 1, Len(s) - 1)[i] = s[i]
<1>1. Len(s) \in Nat \ {0}
  OBVIOUS
<1>2. \A i \in 1..(Len(s) - 1) : i \in 1..Len(s)
  BY <1>1
<1>3. \A i \in 1..(Len(s) - 1) : s[i] \in S
  BY <1>2
<1>4. SubSeq(s, 1, Len(s) - 1) = [i \in 1..(Len(s) - 1) |-> s[i]]
  BY <1>1
<1>5. [i \in 1..(Len(s) - 1) |-> s[i]] \in Seq(S)
  BY <1>1, <1>3
<1>6. Len([i \in 1..(Len(s) - 1) |-> s[i]]) = Len(s) - 1
  BY <1>1
<1>7. \A j \in 1..(Len(s) - 1) : [i \in 1..(Len(s) - 1) |-> s[i]][j] = s[j]
  OBVIOUS
<1> QED BY <1>4, <1>5, <1>6, <1>7

\* The task at the bottom leaves: a pop, of the last task or of one of many.
LEMMA ContentPop ==
  ASSUME IInv, IInv', Bottom - top > 0, Hand(buf[Slot(Bottom - 1)]),
         UNCHANGED <<buf, pushed>>, ret' = "popped",
         \/ top' = top /\ Bottom' = Bottom - 1
         \/ top' = top + 1 /\ Bottom' = Bottom /\ Bottom - top = 1
  PROVE  D!Pop
<1>1. /\ top \in Nat /\ Bottom \in Nat /\ Content \in Seq(1..pushed)
      /\ Len(Content) = Bottom - top /\ Len(Content) \in Nat \ {0}
      /\ \A i \in 1..(Bottom - top) : Content[i] = buf[Slot(top + i - 1)]
  BY ContentIsSeq DEF ContentFacts
<1>2. /\ top' \in Nat /\ Bottom' \in Nat /\ Content' \in Seq(1..pushed)
      /\ Len(Content') = Bottom' - top' /\ Bottom' - top' = Bottom - top - 1
      /\ \A i \in 1..(Bottom' - top') : Content'[i] = buf[Slot(top' + i - 1)]
  BY <1>1, ContentIsSeqNext DEF ContentFacts
<1>3. Content # <<>> /\ Content[Len(Content)] = buf[Slot(Bottom - 1)]
  <2>1. Bottom - top \in 1..(Bottom - top) /\ top + (Bottom - top) - 1 = Bottom - 1
    BY <1>1
  <2> QED BY <1>1, <2>1
<1>4. Content' = SubSeq(Content, 1, Len(Content) - 1)
  <2> DEFINE f == SubSeq(Content, 1, Len(Content) - 1)
  <2>1. f \in Seq(1..pushed) /\ Len(f) = Len(Content) - 1
        /\ \A i \in 1..(Len(Content) - 1) : f[i] = Content[i]
    BY <1>1, <1>3, FrontFacts
  <2>2. \A i \in 1..Len(f) : Content'[i] = f[i]
    <3> SUFFICES ASSUME NEW i \in 1..Len(f) PROVE Content'[i] = Content[i]
      BY <1>1, <2>1
    <3>1. top' = top
      BY <1>1, <2>1
    <3>2. i \in 1..(Bottom' - top') /\ i \in 1..(Bottom - top)
      <4>1. i \in Nat /\ 1 <= i /\ i <= Bottom - top - 1
        BY <1>1, <2>1
      <4>2. Bottom' - top' = Bottom - top - 1 /\ Bottom - top \in Nat
        BY <1>1, <1>2
      <4> QED BY <4>1, <4>2
    <3> QED BY <1>1, <1>2, <3>1, <3>2
  <2> HIDE DEF f
  <2>3. Len(Content') = Len(f)
    BY <1>1, <1>2, <2>1
  <2>4. Content' = f
    BY <1>2, <2>1, <2>2, <2>3, SeqEqual
  <2> QED BY <2>4 DEF f
<1> QED BY <1>3, <1>4 DEF D!Pop, D!Hand, Hand, D!Front, D!Last

\* The deque of the code implements the linearisable deque: in particular a
\* push fails only on a full deque, and a pop only on an empty one.
THEOREM ImplementsDeque == Spec => DequeSpec
<1> USE DEF shared, owner, thief, OwnerReturns, ThiefReturns
<1>1. Init => D!Init
  <2> SUFFICES ASSUME Init PROVE D!Init
    OBVIOUS
  <2>1. Bottom - top = 0
    BY DEF Init, Bottom, Popping
  <2>2. Content = <<>>
    BY <2>1 DEF Content
  <2> QED BY <2>2 DEF Init, D!Init, Tasks
<1>2. IInv /\ IInv' /\ [Next]_vars => [D!Next]_(D!vars)
  <2> SUFFICES ASSUME IInv, IInv', [Next]_vars PROVE [D!Next]_(D!vars)
    OBVIOUS
  <2>0. /\ TypeOK /\ Indices /\ Cells /\ Snapshots
        /\ top \in Nat /\ bot \in Nat /\ b \in Nat /\ Cap \in Nat /\ MaxPush \in Nat
        /\ Bottom \in Nat /\ Content \in Seq(1..pushed) /\ Len(Content) = Bottom - top
        /\ pushed \in Nat
        /\ \A i \in 1..(Bottom - top) : Content[i] = buf[Slot(top + i - 1)]
    BY WsqAssumption, ContentIsSeq DEF IInv, TypeOK, ContentFacts
  <2>p. /\ top' \in Nat /\ Bottom' \in Nat /\ Content' \in Seq(1..pushed') /\ Len(Content') = Bottom' - top'
        /\ \A i \in 1..(Bottom' - top') : Content'[i] = buf'[Slot(top' + i - 1)]
    BY ContentIsSeqNext DEF ContentFacts
  <2>1. CASE PushFull
    <3>1. Len(Content) = Cap /\ Content' = Content
      BY <2>0, <2>1 DEF PushFull, Indices, Bottom, Popping, Content
    <3> QED BY <2>1, <3>1 DEF PushFull, D!Next, D!PushFull
  <2>2. CASE PushWrite
    <3>1. Bottom' = Bottom /\ Bottom = b /\ pushed' = pushed /\ top' = top
      BY <2>0, <2>2 DEF PushWrite, Bottom, Popping, Indices
    <3>2. \A i \in 1..Len(Content) : Content'[i] = Content[i]
      <4> SUFFICES ASSUME NEW i \in 1..Len(Content)
                   PROVE  buf'[Slot(top + i - 1)] = buf[Slot(top + i - 1)]
        BY <2>0, <2>p, <3>1
      <4>1. top + i - 1 \in Nat /\ top + i - 1 < b /\ b < top + i - 1 + Cap
        BY <2>0, <2>2, <3>1 DEF PushWrite, Indices
      <4>2. Slot(top + i - 1) # Slot(b) /\ Slot(top + i - 1) \in 0..(Cap - 1)
        BY <2>0, <4>1, SlotsDiffer, SlotRange
      <4> QED BY <2>0, <2>2, <4>2 DEF PushWrite, TypeOK
    <3>3. Content' = Content
      BY <2>0, <2>p, <3>1, <3>2, SeqEqual
    <3> QED BY <2>2, <3>3 DEF PushWrite, D!vars
  <2>3. CASE PushPublish
    <3>1. Bottom' = b + 1 /\ Bottom = b /\ top' = top /\ buf' = buf /\ pushed' = pushed + 1
          /\ b - top < Cap /\ pushed < MaxPush /\ buf[Slot(b)] = pushed + 1
      BY <2>0, <2>3 DEF PushPublish, Bottom, Popping, Indices, Cells
    <3> DEFINE f == Append(Content, pushed + 1)
    <3>2. f \in Seq(1..pushed') /\ Len(f) = Len(Content) + 1
          /\ f[Len(Content) + 1] = pushed + 1
          /\ \A i \in 1..Len(Content) : f[i] = Content[i]
      <4>1. Content \in Seq(1..pushed') /\ pushed + 1 \in 1..pushed'
        <5>1. \A i \in 1..Len(Content) : Content[i] \in 1..pushed'
          BY <2>0, <3>1
        <5> QED BY <2>0, <3>1, <5>1
      <4> QED BY <4>1, AppendFacts
    <3>3. \A i \in 1..Len(f) : Content'[i] = f[i]
      <4> SUFFICES ASSUME NEW i \in 1..Len(f) PROVE Content'[i] = f[i]
        OBVIOUS
      <4>1. Content'[i] = buf[Slot(top + i - 1)]
        BY <2>0, <2>p, <3>1, <3>2
      <4>2. CASE i = Len(Content) + 1
        BY <2>0, <3>1, <3>2, <4>1, <4>2
      <4>3. CASE i \in 1..Len(Content)
        BY <2>0, <3>2, <4>1, <4>3
      <4> QED BY <2>0, <3>2, <4>2, <4>3
    <3> HIDE DEF f
    <3>4. Content' = f
      BY <2>0, <2>p, <3>1, <3>2, <3>3, SeqEqual
    <3>5. Len(Content) < Cap
      BY <2>0, <3>1
    <3> QED BY <2>3, <3>1, <3>4, <3>5 DEF f, PushPublish, D!Next, D!Push
  <2>4. CASE PopZero \/ PopNone \/ PopCasLose
    <3>1. Bottom = top /\ Bottom' = top'
      BY <2>0, <2>4 DEF PopZero, PopNone, PopCasLose, Bottom, Popping, Indices
    <3>2. Content = <<>> /\ Content' = <<>>
      BY <2>0, <2>p, <3>1
    <3> QED BY <2>4, <3>2 DEF PopZero, PopNone, PopCasLose, D!Next, D!PopEmpty
  <2>5. CASE PopMany
    <3>1. Bottom = b + 1 /\ Bottom' = Bottom - 1 /\ top' = top /\ Bottom - top > 0
      BY <2>0, <2>5 DEF PopMany, Bottom, Popping, Indices
    <3>2. b = Bottom - 1
      BY <2>0, <3>1
    <3> QED BY <2>5, <3>1, <3>2, ContentPop DEF PopMany, D!Next
  <2>6. CASE PopCasWin
    <3>1. Bottom = b + 1 /\ Bottom' = Bottom /\ top' = top + 1 /\ Bottom - top = 1
          /\ x = buf[Slot(b)]
      BY <2>0, <2>6 DEF PopCasWin, Bottom, Popping, Indices
    <3>2. b = Bottom - 1
      BY <2>0, <3>1
    <3> QED BY <2>6, <3>1, <3>2, ContentPop DEF PopCasWin, D!Next
  <2>7. ASSUME NEW p \in Thieves, StealCasWin(p) PROVE D!Steal
    <3>1. Bottom' = Bottom /\ top' = top + 1 /\ buf' = buf /\ top < Bottom
          /\ tx[p] = buf[Slot(top)] /\ pushed' = pushed
      BY <2>0, <2>7 DEF StealCasWin, Bottom, Popping, Snapshots
    <3>2. Content # <<>> /\ Head(Content) = buf[Slot(top)]
      <4>1. 1 \in 1..(Bottom - top) /\ top + 1 - 1 = top /\ Len(Content) > 0
        BY <2>0, <3>1
      <4> QED BY <2>0, <4>1
    <3> DEFINE f == Tail(Content)
    <3>3. f \in Seq(1..pushed) /\ Len(f) = Len(Content) - 1
          /\ \A i \in 1..(Len(Content) - 1) : f[i] = Content[i + 1]
      BY <2>0, <3>2, TailFacts
    <3>4. \A i \in 1..Len(f) : Content'[i] = f[i]
      <4> SUFFICES ASSUME NEW i \in 1..Len(f) PROVE Content'[i] = Content[i + 1]
        BY <2>0, <3>3
      <4>1. i \in 1..(Bottom' - top') /\ i + 1 \in 1..(Bottom - top)
            /\ top' + i - 1 = top + (i + 1) - 1
        <5>1. i \in Nat /\ 1 <= i /\ i <= Bottom - top - 1
          BY <2>0, <3>3
        <5>2. Bottom' - top' = Bottom - top - 1 /\ Bottom - top \in Nat /\ top' = top + 1
          BY <2>0, <3>1
        <5> QED BY <2>0, <5>1, <5>2
      <4> QED BY <2>0, <2>p, <3>1, <4>1
    <3> HIDE DEF f
    <3>5. Content' = f
      BY <2>0, <2>p, <3>1, <3>3, <3>4, SeqEqual
    <3> QED BY <2>7, <3>1, <3>2, <3>5 DEF f, StealCasWin, D!Steal, D!Hand, Hand
  <2>8. CASE \/ PushLoad \/ PopDec \/ PopLast \/ PopRestore \/ PopReset
             \/ \E p \in Thieves : \/ StealLoadTop(p) \/ StealEmpty(p) \/ StealLoadBot(p)
                                   \/ StealRead(p) \/ StealCasLose(p)
             \/ UNCHANGED vars
    <3>1. Bottom' = Bottom /\ UNCHANGED <<top, buf, pushed, takes, ret>>
      BY <2>0, <2>8 DEF PushLoad, PopDec, PopLast, PopRestore, PopReset, StealLoadTop,
         StealEmpty, StealLoadBot, StealRead, StealCasLose, vars, Bottom, Popping, Indices
    <3> QED BY <3>1, ContentSame DEF D!vars
  <2> QED
    <3>1. CASE Push
      BY <3>1, <2>1, <2>2, <2>3, <2>8 DEF Push
    <3>2. CASE Pop
      BY <3>2, <2>4, <2>5, <2>6, <2>8 DEF Pop
    <3>3. ASSUME NEW p \in Thieves, Steal(p) PROVE [D!Next]_(D!vars)
      BY <3>3, <2>7, <2>8 DEF Steal, D!Next
    <3> QED BY <3>1, <3>2, <3>3, <2>8 DEF Next
<1> QED BY <1>1, <1>2, Invariance, PTL DEF Spec, DequeSpec, D!Spec
=============================================================================
