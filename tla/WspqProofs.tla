----------------------------- MODULE WspqProofs -----------------------------
(***************************************************************************)
(* Wspq for any number of workers, buckets and slots, and callers that do  *)
(* anything: its inductive invariant, the soundness of the masks and the   *)
(* order of pops and restricted steals.                                    *)
(***************************************************************************)
EXTENDS Wspq, TLAPS

USE WspqAssumption

Frames == [op : Ops, b : Buckets, x : Tasks \cup {0}, m : SUBSET Buckets,
           k : Nat, from : Workers, got : Nat, t : 0..N, deeper : BOOLEAN]

-----------------------------------------------------------------------------
(* Facts about the values an operation computes.                           *)

LEMMA ModWorker ==
  ASSUME NEW i \in Int
  PROVE  i % N \in Workers
BY DEF Workers

LEMMA BucketInRange ==
  ASSUME NEW key \in Nat
  PROVE  Bucket(key) \in Buckets
BY DEF Bucket, Buckets

LEMMA FreeFrame ==
  ASSUME NEW w \in Workers
  PROVE  /\ Free(w) \in Frames
         /\ Free(w).op = "none" /\ Free(w).from = w /\ Free(w).deeper = FALSE
<1>1. 0 \in Buckets
  BY DEF Buckets
<1> QED BY <1>1 DEF Free, Frames, Ops

LEMMA LeftTyped ==
  ASSUME NEW q \in Seq(Tasks), q # <<>>
  PROVE  Taken(q) \in Tasks /\ Left(q) \in Seq(Tasks)
<1>1. Head(q) \in Tasks /\ Tail(q) \in Seq(Tasks)
  OBVIOUS
<1>2. q[Len(q)] \in Tasks /\ SubSeq(q, 1, Len(q) - 1) \in Seq(Tasks)
  OBVIOUS
<1> QED BY <1>1, <1>2 DEF Taken, Left

-----------------------------------------------------------------------------
(* The types.                                                              *)

LEMMA TypesInit == Init => TypeOK
<1> SUFFICES ASSUME Init PROVE TypeOK
  OBVIOUS
<1>1. \A w \in Workers : (w + 1) % N \in Workers
  BY ModWorker DEF Workers
<1>2. fr \in [Workers -> Frames]
  BY FreeFrame DEF Init
<1> QED BY <1>1, <1>2 DEF Init, TypeOK, Frames

LEMMA TypesPush ==
  ASSUME TypeOK, NEW w \in Workers, TaskInHand(w),
         AnyPush(w) \/ PushWrite(w) \/ MaskSet(w)
  PROVE  TypeOK'
<1>1. fr[w] \in Frames /\ fr \in [Workers -> Frames]
  BY DEF TypeOK, Frames
<1>2. CASE AnyPush(w)
  <2>1. PICK key \in 0..Brackets : PushCall(w, key, pushed + 1)
    BY <1>2 DEF AnyPush
  <2>2. pushed + 1 \in Tasks /\ pushed' \in 0..MaxTask /\ takes' = takes
    BY <1>2 DEF AnyPush, TypeOK, Tasks
  <2>3. Bucket(key) \in Buckets
    BY BucketInRange
  <2>4. fr' \in [Workers -> Frames]
    BY <1>1, <2>1, <2>2, <2>3 DEF PushCall, Frames, Ops
  <2> QED BY <2>1, <2>2, <2>4 DEF PushCall, TypeOK, Frames
<1>3. CASE PushWrite(w)
  <2>1. fr[w].x \in Tasks /\ fr[w].b \in Buckets
    BY <1>1, <1>3 DEF Frames, TaskInHand, PushWrite
  <2>2. PICK b \in Buckets, x \in Tasks : b = fr[w].b /\ x = fr[w].x
    BY <2>1
  <2>3. bank' = [bank EXCEPT ![w][b] = Append(@, x)]
    BY <1>3, <2>2 DEF PushWrite, Put
  <2>4. bank \in [Workers -> [Buckets -> Seq(Tasks)]]
    BY DEF TypeOK
  <2>5. Append(bank[w][b], x) \in Seq(Tasks)
    BY <2>4
  <2>6. bank' \in [Workers -> [Buckets -> Seq(Tasks)]]
    BY <2>3, <2>4, <2>5
  <2>7. fr' \in [Workers -> Frames]
    BY <1>1, <1>3 DEF PushWrite, Frames, Ops
  <2> QED BY <1>3, <2>6, <2>7 DEF PushWrite, TypeOK, Frames, history
<1>4. CASE MaskSet(w)
  <2>1. fr[w].b \in Buckets
    BY <1>1 DEF Frames
  <2>2. mask' \in [Workers -> SUBSET Buckets]
    BY <1>4, <2>1 DEF MaskSet, TypeOK
  <2>3. fr' \in [Workers -> Frames]
    <3>1. CASE fr[w].from = w
      BY <1>1, <1>4, <3>1, FreeFrame DEF MaskSet
    <3>2. CASE fr[w].from # w
      <4>1. fr[w] \in Frames /\ fr[w].got + 1 \in Nat /\ "take" \in Ops
        BY <1>1 DEF Frames, Ops
      <4>2. [fr[w] EXCEPT !.op = "take", !.got = fr[w].got + 1] \in Frames
        BY <4>1 DEF Frames
      <4>3. fr' = [fr EXCEPT ![w] = [fr[w] EXCEPT !.op = "take", !.got = fr[w].got + 1]]
        BY <1>4, <3>2 DEF MaskSet
      <4> QED BY <1>1, <4>2, <4>3
    <3> QED BY <3>1, <3>2
  <2> QED BY <1>4, <2>2, <2>3 DEF MaskSet, TypeOK, Frames, history
<1> QED BY <1>2, <1>3, <1>4

LEMMA TypesFull ==
  ASSUME TypeOK, NEW w \in Workers,
         FullCheck(w) \/ FullYes(w) \/ FullNo(w) \/ Crash(w)
  PROVE  TypeOK'
<1>1. fr[w] \in Frames /\ fr \in [Workers -> Frames]
  BY DEF TypeOK, Frames
<1>0. 0 \in 0..N
  OBVIOUS
<1>2. CASE FullCheck(w)
  <2>1. fr' \in [Workers -> Frames]
    BY <1>0, <1>1, <1>2 DEF FullCheck, Frames, Ops
  <2> QED BY <1>2, <2>1 DEF FullCheck, TypeOK, Frames, history
<1>3. CASE FullYes(w)
  <2>1. fr[w].t + 1 \in 0..N
    BY <1>1, <1>3 DEF Frames, FullYes
  <2>2. fr' \in [Workers -> Frames]
    BY <1>1, <1>3, <2>1 DEF FullYes, Frames, Ops
  <2> QED BY <1>3, <2>2 DEF FullYes, TypeOK, Frames, history
<1>4. CASE FullNo(w)
  <2>1. fr' \in [Workers -> Frames]
    BY <1>0, <1>1, <1>4 DEF FullNo, Frames, Ops
  <2> QED BY <1>4, <2>1 DEF FullNo, TypeOK, Frames, history
<1>5. CASE Crash(w)
  <2>1. \A v \in Workers : [fr[v] EXCEPT !.op = "dead"] \in Frames
    BY <1>1 DEF Frames, Ops
  <2>2. fr' = [v \in Workers |-> [fr[v] EXCEPT !.op = "dead"]]
    BY <1>5 DEF Crash
  <2>3. fr' \in [Workers -> Frames]
    BY <2>1, <2>2
  <2> QED BY <1>5, <2>3 DEF Crash, TypeOK, Frames, history
<1> QED BY <1>2, <1>3, <1>4, <1>5

LEMMA TypesPop ==
  ASSUME TypeOK, NEW w \in Workers,
         AnyPop(w) \/ PopTake(w) \/ PopMiss(w) \/ MaskClear(w) \/ PopNone(w) \/ AnyReturn(w)
  PROVE  TypeOK'
<1>1. fr[w] \in Frames /\ fr \in [Workers -> Frames]
  BY DEF TypeOK, Frames
<1>2. bank \in [Workers -> [Buckets -> Seq(Tasks)]] /\ mask \in [Workers -> SUBSET Buckets]
  BY DEF TypeOK
<1>3. CASE AnyPop(w)
  BY <1>1, <1>2, <1>3 DEF AnyPop, PopCall, TypeOK, Frames, Ops, history
<1>4. CASE PopTake(w)
  <2>1. PICK c \in fr[w].m :
          /\ bank[w][c] # <<>>
          /\ fr' = [fr EXCEPT ![w] = [@ EXCEPT !.op = "popped", !.b = c,
                                               !.x = Taken(bank[w][c]), !.m = {}]]
          /\ bank' = [bank EXCEPT ![w][c] = Left(@)]
    BY <1>4 DEF PopTake
  <2>2. c \in Buckets
    BY <1>1, <2>1 DEF Frames
  <2>3. Taken(bank[w][c]) \in Tasks /\ Left(bank[w][c]) \in Seq(Tasks)
    BY <1>2, <2>1, <2>2, LeftTyped
  <2>4. bank' \in [Workers -> [Buckets -> Seq(Tasks)]]
    BY <1>2, <2>1, <2>2, <2>3
  <2>5. fr' \in [Workers -> Frames]
    BY <1>1, <2>1, <2>2, <2>3 DEF Frames, Ops
  <2> QED BY <1>4, <2>4, <2>5 DEF PopTake, TypeOK, Frames, history
<1>5. CASE PopMiss(w)
  <2>1. PICK c \in fr[w].m : fr' = [fr EXCEPT ![w] = [@ EXCEPT !.op = "clear", !.b = c]]
    BY <1>5 DEF PopMiss
  <2>2. fr' \in [Workers -> Frames]
    BY <1>1, <2>1 DEF Frames, Ops
  <2> QED BY <1>5, <2>2 DEF PopMiss, TypeOK, Frames, history
<1>6. CASE MaskClear(w)
  BY <1>1, <1>2, <1>6 DEF MaskClear, TypeOK, Frames, Ops, history
<1>7. CASE PopNone(w)
  <2>1. 0 \in Buckets
    BY DEF Buckets
  <2> QED BY <1>1, <1>7, <2>1 DEF PopNone, TypeOK, Frames, Ops, history
<1>8. CASE AnyReturn(w)
  <2>1. fr' \in [Workers -> Frames]
    BY <1>1, <1>8, FreeFrame DEF AnyReturn, Return
  <2>2. takes' \in [Tasks -> Nat]
    <3>1. takes \in [Tasks -> Nat]
      BY DEF TypeOK
    <3>2. PICK x : x = fr[w].x
      OBVIOUS
    <3>3. takes' = takes \/ takes' = [takes EXCEPT ![x] = @ + 1]
      BY <1>8, <3>2 DEF AnyReturn
    <3>4. CASE x \in Tasks
      <4>1. takes[x] + 1 \in Nat
        BY <3>1, <3>4
      <4> QED BY <3>1, <3>3, <4>1
    <3>5. CASE x \notin Tasks
      BY <3>1, <3>3, <3>5
    <3> QED BY <3>4, <3>5
  <2> QED BY <1>8, <2>1, <2>2 DEF AnyReturn, Return, TypeOK, Frames
<1> QED BY <1>3, <1>4, <1>5, <1>6, <1>7, <1>8

LEMMA TypesSteal ==
  ASSUME TypeOK, NEW w \in Workers,
         \/ AnySteal(w) \/ StealSkip(w) \/ StealPick(w) \/ StealTake(w)
         \/ StealStop(w) \/ StealMiss(w) \/ StealNone(w)
  PROVE  TypeOK'
<1>1. fr[w] \in Frames /\ fr \in [Workers -> Frames]
  BY DEF TypeOK, Frames
<1>2. bank \in [Workers -> [Buckets -> Seq(Tasks)]] /\ mask \in [Workers -> SUBSET Buckets]
  BY DEF TypeOK
<1>3. cursor \in [Workers -> Workers] /\ cursor[w] \in Int
  <2>1. cursor \in [Workers -> Workers]
    BY DEF TypeOK
  <2>2. \A v \in Workers : v \in Int
    BY DEF Workers
  <2> QED BY <2>1, <2>2
<1>4. fr[w].k \in Nat /\ fr[w].got \in Nat /\ fr[w].from \in Workers /\ fr[w].b \in Buckets
  BY <1>1 DEF Frames
<1>5. ASSUME fr' = [fr EXCEPT ![w] = [Free(w) EXCEPT !.op = "stolen", !.got = fr[w].got]]
      PROVE  fr' \in [Workers -> Frames]
  <2>1. PICK f \in Frames, n \in Nat : f = Free(w) /\ n = fr[w].got
    BY <1>4, FreeFrame
  <2>2. [f EXCEPT !.op = "stolen", !.got = n] \in Frames
    BY DEF Frames, Ops
  <2> QED BY <1>1, <1>5, <2>1, <2>2
<1>6. CASE AnySteal(w)
  <2>1. PICK deeper \in BOOLEAN : StealCall(w, deeper) /\ UNCHANGED history
    BY <1>6 DEF AnySteal
  <2>2. Allowed(w, deeper) \in SUBSET Buckets
    BY DEF Allowed
  <2>3. fr' \in [Workers -> Frames]
    BY <1>1, <2>1, <2>2 DEF StealCall, Frames, Ops
  <2> QED BY <2>1, <2>3 DEF StealCall, TypeOK, Frames, history
<1>7. CASE StealSkip(w)
  <2>1. fr' \in [Workers -> Frames]
    BY <1>1, <1>4, <1>7 DEF StealSkip, Frames, Ops
  <2> QED BY <1>7, <2>1 DEF StealSkip, TypeOK, Frames, history
<1>8. CASE StealPick(w)
  <2>1. PICK c \in Buckets :
          fr' = [fr EXCEPT ![w] = [@ EXCEPT !.op = "take", !.from = Victim(w), !.b = c]]
    BY <1>8 DEF StealPick
  <2>2. Victim(w) \in Workers
    BY <1>3, <1>4, ModWorker DEF Victim
  <2>3. fr' \in [Workers -> Frames]
    BY <1>1, <2>1, <2>2 DEF Frames, Ops
  <2> QED BY <1>8, <2>3 DEF StealPick, TypeOK, Frames, history
<1>9. CASE StealTake(w)
  <2>1. PICK v \in Workers, c \in Buckets : v = fr[w].from /\ c = fr[w].b
    BY <1>4
  <2>2. /\ bank[v][c] # <<>>
        /\ fr' = [fr EXCEPT ![w] = [@ EXCEPT !.op = "push", !.x = Head(bank[v][c])]]
        /\ bank' = [bank EXCEPT ![v][c] = Tail(@)]
    BY <1>9, <2>1 DEF StealTake
  <2>3. Head(bank[v][c]) \in Tasks /\ Tail(bank[v][c]) \in Seq(Tasks)
    BY <1>2, <2>2
  <2>4. bank' \in [Workers -> [Buckets -> Seq(Tasks)]]
    BY <1>2, <2>2, <2>3
  <2>5. fr' \in [Workers -> Frames]
    BY <1>1, <2>2, <2>3 DEF Frames, Ops
  <2> QED BY <1>9, <2>4, <2>5 DEF StealTake, TypeOK, Frames, history
<1>10. CASE StealStop(w)
  <2>1. (fr[w].from + 1) % N \in Workers
    BY <1>4, ModWorker DEF Workers
  <2>2. fr' \in [Workers -> Frames]
    BY <1>5, <1>10 DEF StealStop, Stolen
  <2> QED BY <1>3, <1>10, <2>1, <2>2 DEF StealStop, TypeOK, Frames, history
<1>11. CASE StealMiss(w)
  <2>1. fr' \in [Workers -> Frames]
    <3>1. fr[w] \in Frames /\ fr[w].k + 1 \in Nat /\ "look" \in Ops
      BY <1>1 DEF Frames, Ops
    <3>2. [fr[w] EXCEPT !.op = "look", !.from = w, !.k = fr[w].k + 1] \in Frames
      BY <3>1 DEF Frames
    <3>3. fr' = [fr EXCEPT ![w] = [fr[w] EXCEPT !.op = "look", !.from = w, !.k = fr[w].k + 1]]
      BY <1>11 DEF StealMiss
    <3> QED BY <1>1, <3>2, <3>3
  <2> QED BY <1>11, <2>1 DEF StealMiss, TypeOK, Frames, history
<1>12. CASE StealNone(w)
  <2>1. (cursor[w] + Attempts) % N \in Workers
    BY <1>3, ModWorker
  <2>2. fr' \in [Workers -> Frames]
    BY <1>5, <1>12 DEF StealNone, Stolen
  <2> QED BY <1>3, <1>12, <2>1, <2>2 DEF StealNone, TypeOK, Frames, history
<1> QED BY <1>6, <1>7, <1>8, <1>9, <1>10, <1>11, <1>12

LEMMA TypesNext ==
  ASSUME TypeOK, [Next]_vars, \A w \in Workers : TaskInHand(w)
  PROVE  TypeOK'
<1>1. CASE UNCHANGED vars
  BY <1>1 DEF vars, TypeOK
<1>2. ASSUME NEW w \in Workers, Call(w) \/ Step(w)
      PROVE  TypeOK'
  BY <1>2, TypesPush, TypesFull, TypesPop, TypesSteal DEF Call, Step
<1> QED BY <1>1, <1>2 DEF Next, Exited

-----------------------------------------------------------------------------
(* A worker's part of the invariant.                                       *)

Part(w) == TaskInHand(w) /\ MaskCovers(w) /\ StealsBelow(w)

\* What another worker does to a bank only takes tasks out of it.
LEMMA OthersTake ==
  ASSUME NEW v \in Workers, Part(v), fr'[v] = fr[v], mask'[v] = mask[v],
         \A c \in Buckets : Holds(v, c)' => Holds(v, c),
         fr[v].b \in Buckets
  PROVE  Part(v)'
<1>1. TaskInHand(v)'
  BY DEF Part, TaskInHand, Tasks
<1>2. MaskCovers(v)'
  BY DEF Part, MaskCovers, Buckets
<1>3. StealsBelow(v)'
  BY DEF Part, StealsBelow, Buckets, Free
<1> QED BY <1>1, <1>2, <1>3 DEF Part

\* What an action of w leaves to the others.
LEMMA OthersUntouched ==
  ASSUME TypeOK, NEW w \in Workers, NEW v \in Workers \ {w},
         Call(w) \/ Step(w), ~Crash(w)
  PROVE  /\ fr'[v] = fr[v] /\ mask'[v] = mask[v]
         /\ \A c \in Buckets : Holds(v, c)' => Holds(v, c)
<1>1. fr \in [Workers -> Frames] /\ mask \in [Workers -> SUBSET Buckets]
      /\ bank \in [Workers -> [Buckets -> Seq(Tasks)]]
  BY DEF TypeOK, Frames
<1>2. fr'[v] = fr[v]
  <2>1. CASE Call(w)
    BY <1>1, <2>1 DEF Call, AnyPush, AnyPop, AnySteal, AnyReturn, PushCall, PopCall,
                      StealCall, Return
  <2>2. CASE Step(w)
    BY <1>1, <2>2 DEF Step, PushWrite, MaskSet, FullCheck, FullYes, FullNo, PopTake,
                      PopMiss, MaskClear, PopNone, StealSkip, StealPick, StealTake,
                      StealStop, StealMiss, StealNone, Stolen
  <2> QED BY <2>1, <2>2
<1>3. mask'[v] = mask[v]
  <2>1. CASE Call(w)
    BY <1>1, <2>1 DEF Call, AnyPush, AnyPop, AnySteal, AnyReturn, PushCall, PopCall,
                      StealCall, Return
  <2>2. CASE Step(w)
    BY <1>1, <2>2 DEF Step, PushWrite, MaskSet, FullCheck, FullYes, FullNo, PopTake,
                      PopMiss, MaskClear, PopNone, StealSkip, StealPick, StealTake,
                      StealStop, StealMiss, StealNone, Stolen
  <2> QED BY <2>1, <2>2
<1>4. ASSUME NEW c \in Buckets, Holds(v, c)'
      PROVE  Holds(v, c)
  <2>1. CASE bank' = bank
    BY <1>4, <2>1 DEF Holds
  <2>2. CASE PushWrite(w)
    <3>1. bank'[v] = bank[v]
      BY <1>1, <2>2 DEF PushWrite, Put
    <3> QED BY <1>4, <3>1 DEF Holds
  <2>3. CASE PopTake(w)
    <3>1. bank'[v] = bank[v]
      BY <1>1, <2>3 DEF PopTake
    <3> QED BY <1>4, <3>1 DEF Holds
  <2>4. CASE StealTake(w)
    <3>1. PICK u, d : u = fr[w].from /\ d = fr[w].b
      OBVIOUS
    <3>2. bank[u][d] # <<>> /\ bank' = [bank EXCEPT ![u][d] = Tail(@)]
      BY <2>4, <3>1 DEF StealTake
    <3>3. bank'[v][c] = bank[v][c] \/ (u = v /\ d = c)
      BY <1>1, <3>2
    <3> QED BY <1>4, <3>2, <3>3 DEF Holds
  <2>5. bank' = bank \/ PushWrite(w) \/ PopTake(w) \/ StealTake(w)
    BY DEF Call, Step, AnyPush, AnyPop, AnySteal, AnyReturn, PushCall, PopCall,
           StealCall, Return, MaskSet, FullCheck, FullYes, FullNo, PopMiss, MaskClear,
           PopNone, StealSkip, StealPick, StealStop, StealMiss, StealNone
  <2> QED BY <2>1, <2>2, <2>3, <2>4, <2>5
<1> QED BY <1>2, <1>3, <1>4

LEMMA PartPush ==
  ASSUME TypeOK, NEW w \in Workers, Part(w), AnyPush(w) \/ PushWrite(w) \/ MaskSet(w)
  PROVE  Part(w)'
<1>1. fr \in [Workers -> Frames] /\ mask \in [Workers -> SUBSET Buckets]
      /\ bank \in [Workers -> [Buckets -> Seq(Tasks)]]
  BY DEF TypeOK, Frames
<1>2. fr[w].b \in Buckets
  BY <1>1 DEF Frames
<1>3. CASE AnyPush(w)
  <2>1. PICK key \in 0..Brackets : PushCall(w, key, pushed + 1)
    BY <1>3 DEF AnyPush
  <2>2. pushed + 1 \in Tasks
    BY <1>3 DEF AnyPush, TypeOK, Tasks
  <2>3. /\ fr'[w].op = "push" /\ fr'[w].x = pushed + 1
        /\ fr'[w].from = w /\ fr'[w].deeper = FALSE
    <3>1. fr[w].from = w /\ fr[w].deeper = FALSE
      BY <2>1, FreeFrame DEF PushCall, Part, StealsBelow
    <3>2. fr[w] \in Frames
      BY <1>1
    <3>3. fr' = [fr EXCEPT ![w] = [@ EXCEPT !.op = "push", !.b = Bucket(key),
                                            !.x = pushed + 1]]
      BY <2>1 DEF PushCall
    <3> QED BY <1>1, <3>1, <3>2, <3>3 DEF Frames
  <2>4. \A c \in Buckets : Holds(w, c)' <=> Holds(w, c)
    BY <2>1 DEF PushCall, Holds
  <2>5. mask' = mask /\ fr[w].op = "none"
    BY <2>1 DEF PushCall
  <2>6. TaskInHand(w)'
    BY <2>2, <2>3 DEF TaskInHand, Tasks
  <2>7. MaskCovers(w)'
    BY <2>3, <2>4, <2>5 DEF MaskCovers, Part, Buckets
  <2>8. StealsBelow(w)'
    BY <2>3 DEF StealsBelow
  <2> QED BY <2>6, <2>7, <2>8 DEF Part
<1>4. CASE PushWrite(w)
  <2>1. /\ fr[w].op = "push" /\ fr'[w].op = "mask" /\ fr'[w].b = fr[w].b
        /\ fr'[w].from = fr[w].from /\ fr'[w].deeper = fr[w].deeper /\ mask' = mask
        /\ fr'[w].x = 0
    BY <1>1, <1>4 DEF PushWrite, Frames
  <2>2. \A c \in Buckets : Holds(w, c)' => Holds(w, c) \/ c = fr[w].b
    <3>1. ASSUME NEW c \in Buckets, c # fr[w].b
          PROVE  bank'[w][c] = bank[w][c]
      BY <1>1, <1>4, <3>1 DEF PushWrite, Put
    <3> QED BY <3>1 DEF Holds
  <2>3. TaskInHand(w)'
    BY <2>1 DEF TaskInHand
  <2>4. MaskCovers(w)'
    BY <2>1, <2>2 DEF MaskCovers, Part, Buckets
  <2>5. StealsBelow(w)'
    <3>1. \A c \in Buckets : c <= c
      BY DEF Buckets
    <3> QED BY <1>2, <2>1, <2>2, <3>1 DEF StealsBelow, Part, Buckets
  <2> QED BY <2>3, <2>4, <2>5 DEF Part
<1>5. CASE MaskSet(w)
  <2>1. bank' = bank /\ mask'[w] = mask[w] \cup {fr[w].b} /\ fr[w].op = "mask"
    BY <1>1, <1>5 DEF MaskSet
  <2>2. \A c \in Buckets : Holds(w, c)' <=> Holds(w, c)
    BY <2>1 DEF Holds
  <2>3. CASE fr[w].from = w
    <3>1. fr'[w] = Free(w)
      BY <1>1, <1>5, <2>3 DEF MaskSet
    <3> QED BY <2>1, <2>2, <3>1, FreeFrame DEF Part, TaskInHand, MaskCovers, StealsBelow,
                                                Buckets, Free
  <2>4. CASE fr[w].from # w
    <3>1. /\ fr'[w].op = "take" /\ fr'[w].b = fr[w].b /\ fr'[w].got # 0
          /\ fr'[w].x = 0
          /\ fr'[w].from = fr[w].from /\ fr'[w].deeper = fr[w].deeper
      <4>1. fr' = [fr EXCEPT ![w] = [@ EXCEPT !.op = "take", !.got = fr[w].got + 1]]
        BY <1>5, <2>4 DEF MaskSet
      <4>2. fr[w] \in Frames /\ fr[w].x = 0
        BY <1>1, <2>1 DEF Part, TaskInHand
      <4> QED BY <1>1, <4>1, <4>2 DEF Frames
    <3>2. TaskInHand(w)'
      BY <3>1 DEF TaskInHand
    <3>3. MaskCovers(w)'
      BY <2>1, <2>2, <3>1 DEF MaskCovers, Part, Buckets
    <3>4. StealsBelow(w)'
      BY <2>2, <2>4, <3>1 DEF StealsBelow, Part, Buckets
    <3> QED BY <3>2, <3>3, <3>4 DEF Part
  <2> QED BY <2>3, <2>4
<1> QED BY <1>3, <1>4, <1>5

LEMMA PartFull ==
  ASSUME TypeOK, NEW w \in Workers, Part(w), FullCheck(w) \/ FullYes(w) \/ FullNo(w)
  PROVE  Part(w)'
<1>1. fr \in [Workers -> Frames]
  BY DEF TypeOK, Frames
<1>2. /\ fr[w].op \in {"push", "full"} /\ fr'[w].op \in {"push", "full"}
      /\ fr'[w].b = fr[w].b /\ fr'[w].x = fr[w].x
      /\ fr'[w].from = fr[w].from /\ fr'[w].deeper = fr[w].deeper
      /\ mask' = mask /\ bank' = bank
  <2>1. fr[w] \in Frames
    BY <1>1
  <2>2. CASE FullCheck(w)
    BY <1>1, <2>1, <2>2 DEF FullCheck, Frames
  <2>3. CASE FullYes(w)
    BY <1>1, <2>1, <2>3 DEF FullYes, Frames
  <2>4. CASE FullNo(w)
    BY <1>1, <2>1, <2>4 DEF FullNo, Frames
  <2> QED BY <2>2, <2>3, <2>4
<1>3. \A c \in Buckets : Holds(w, c)' <=> Holds(w, c)
  BY <1>2 DEF Holds
<1>4. TaskInHand(w)'
  BY <1>2 DEF TaskInHand, Part, Tasks
<1>5. MaskCovers(w)'
  BY <1>2, <1>3 DEF MaskCovers, Part, Buckets
<1>6. StealsBelow(w)'
  BY <1>2, <1>3 DEF StealsBelow, Part, Buckets
<1> QED BY <1>4, <1>5, <1>6 DEF Part

\* The process has exited; the banks stay as they were.
LEMMA PartCrash ==
  ASSUME TypeOK, NEW w \in Workers, Crash(w), NEW v \in Workers, Part(v)
  PROVE  Part(v)'
<1>1. fr \in [Workers -> Frames]
  BY DEF TypeOK, Frames
<1>2. /\ fr'[v].op = "dead" /\ fr'[v].b = fr[v].b
      /\ fr'[v].from = fr[v].from /\ fr'[v].deeper = fr[v].deeper
      /\ mask' = mask /\ bank' = bank
  BY <1>1 DEF Crash, Frames
<1>3. \A c \in Buckets : Holds(v, c)' <=> Holds(v, c)
  BY <1>2 DEF Holds
<1>4. StealsBelow(v)'
  BY <1>2, <1>3 DEF StealsBelow, Part, Buckets
<1> QED BY <1>2, <1>4 DEF Part, TaskInHand, MaskCovers

LEMMA PartPop ==
  ASSUME TypeOK, NEW w \in Workers, Part(w),
         AnyPop(w) \/ PopTake(w) \/ PopMiss(w) \/ MaskClear(w) \/ PopNone(w) \/ AnyReturn(w)
  PROVE  Part(w)'
<1>1. fr \in [Workers -> Frames] /\ mask \in [Workers -> SUBSET Buckets]
      /\ bank \in [Workers -> [Buckets -> Seq(Tasks)]]
  BY DEF TypeOK, Frames
<1>2. fr[w] \in Frames
  BY <1>1
<1>3. CASE AnyPop(w)
  <2>1. fr[w].op = "none" /\ fr[w].from = w /\ fr[w].deeper = FALSE /\ fr[w].x = 0
    BY <1>3, FreeFrame DEF AnyPop, PopCall, Part, StealsBelow, TaskInHand
  <2>2. /\ fr'[w].op = "pop" /\ fr'[w].m = mask[w] /\ fr'[w].x = 0
        /\ fr'[w].from = w /\ fr'[w].deeper = FALSE
    BY <1>1, <1>2, <1>3, <2>1 DEF AnyPop, PopCall, Frames
  <2>3. \A c \in Buckets : Holds(w, c)' <=> Holds(w, c)
    BY <1>3 DEF AnyPop, PopCall, Holds
  <2>4. mask' = mask
    BY <1>3 DEF AnyPop, PopCall
  <2>5. MaskCovers(w)'
    BY <2>1, <2>2, <2>3, <2>4 DEF MaskCovers, Part, Buckets
  <2> QED BY <2>2, <2>5 DEF Part, TaskInHand, StealsBelow
<1>4. CASE PopTake(w)
  <2>1. PICK c \in fr[w].m :
          /\ Lowest(c, fr[w].m)
          /\ fr' = [fr EXCEPT ![w] = [@ EXCEPT !.op = "popped", !.b = c,
                                               !.x = Taken(bank[w][c]), !.m = {}]]
          /\ bank' = [bank EXCEPT ![w][c] = Left(@)]
          /\ bank[w][c] # <<>>
    BY <1>4 DEF PopTake
  <2>2. fr[w].op = "pop" /\ mask' = mask /\ fr[w].from = w
    BY <1>4 DEF PopTake, Part, StealsBelow
  <2>3. fr'[w].op = "popped" /\ fr'[w].b = c /\ fr'[w].from = w
    BY <1>1, <1>2, <2>1, <2>2 DEF Frames
  <2>4. \A d \in Buckets : Holds(w, d)' => Holds(w, d)
    <3>1. ASSUME NEW d \in Buckets PROVE bank'[w][d] = bank[w][d] \/ d = c
      BY <1>1, <2>1
    <3> QED BY <2>1, <3>1 DEF Holds
  <2>5. \A d \in Buckets : Holds(w, d) => c <= d
    BY <2>1, <2>2 DEF Part, MaskCovers, Lowest
  <2>6. MaskCovers(w)'
    BY <2>2, <2>3, <2>4, <2>5 DEF MaskCovers, Part, Buckets
  <2>7. StealsBelow(w)'
    BY <2>3 DEF StealsBelow
  <2> QED BY <2>3, <2>6, <2>7 DEF Part, TaskInHand
<1>5. CASE PopMiss(w)
  <2>1. PICK c \in fr[w].m : /\ bank[w][c] = <<>>
                            /\ fr' = [fr EXCEPT ![w] = [@ EXCEPT !.op = "clear", !.b = c]]
    BY <1>5 DEF PopMiss
  <2>2. /\ fr[w].op = "pop" /\ mask' = mask /\ bank' = bank /\ fr[w].from = w
        /\ fr[w].x = 0
    BY <1>5 DEF PopMiss, Part, StealsBelow, TaskInHand
  <2>3. /\ fr'[w].op = "clear" /\ fr'[w].b = c /\ fr'[w].m = fr[w].m /\ fr'[w].from = w
        /\ fr'[w].x = 0
    BY <1>1, <1>2, <2>1, <2>2 DEF Frames
  <2>4. ~Holds(w, fr[w].b)'
    BY <2>1, <2>2, <2>3 DEF Holds
  <2>5. \A d \in Buckets : Holds(w, d)' <=> Holds(w, d)
    BY <2>2 DEF Holds
  <2>6. MaskCovers(w)'
    BY <2>2, <2>3, <2>4, <2>5 DEF MaskCovers, Part, Buckets
  <2>7. StealsBelow(w)'
    BY <2>3 DEF StealsBelow
  <2> QED BY <2>3, <2>6, <2>7 DEF Part, TaskInHand
<1>6. CASE MaskClear(w)
  <2>1. /\ fr[w].op = "clear" /\ bank' = bank /\ mask'[w] = mask[w] \ {fr[w].b}
        /\ fr[w].from = w /\ fr[w].x = 0
    BY <1>1, <1>6 DEF MaskClear, Part, StealsBelow, TaskInHand
  <2>2. /\ fr'[w].op = "pop" /\ fr'[w].m = fr[w].m \ {fr[w].b} /\ fr'[w].from = w
        /\ fr'[w].x = 0
    BY <1>1, <1>2, <1>6, <2>1 DEF MaskClear, Frames
  <2>3. \A d \in Buckets : Holds(w, d)' <=> Holds(w, d)
    BY <2>1 DEF Holds
  <2>4. ~Holds(w, fr[w].b)
    BY <2>1 DEF Part, MaskCovers
  <2>5. MaskCovers(w)'
    BY <2>1, <2>2, <2>3, <2>4 DEF MaskCovers, Part, Buckets
  <2>6. StealsBelow(w)'
    BY <2>2 DEF StealsBelow
  <2> QED BY <2>2, <2>5, <2>6 DEF Part, TaskInHand
<1>7. CASE PopNone(w)
  <2>1. /\ fr[w].op = "pop" /\ fr[w].m = {} /\ bank' = bank /\ mask' = mask
        /\ fr[w].from = w /\ fr[w].x = 0
    BY <1>7 DEF PopNone, Part, StealsBelow, TaskInHand
  <2>2. fr'[w].op = "nothing" /\ fr'[w].from = w /\ fr'[w].x = 0
    BY <1>1, <1>2, <1>7, <2>1 DEF PopNone, Frames
  <2>3. \A d \in Buckets : ~Holds(w, d) /\ ~Holds(w, d)'
    BY <2>1 DEF Holds, Part, MaskCovers
  <2>4. MaskCovers(w)'
    BY <2>2, <2>3 DEF MaskCovers
  <2>5. StealsBelow(w)'
    BY <2>2 DEF StealsBelow
  <2> QED BY <2>2, <2>4, <2>5 DEF Part, TaskInHand
<1>8. CASE AnyReturn(w)
  <2>1. /\ fr'[w] = Free(w) /\ bank' = bank /\ mask' = mask
        /\ fr[w].op \in {"popped", "nothing", "stolen"}
    BY <1>1, <1>8 DEF AnyReturn, Return
  <2>2. \A c \in Buckets : Holds(w, c)' => c \in mask'[w]
    BY <2>1 DEF Holds, Part, MaskCovers
  <2> QED BY <2>1, <2>2, FreeFrame DEF Part, TaskInHand, MaskCovers, StealsBelow, Buckets, Free
<1> QED BY <1>3, <1>4, <1>5, <1>6, <1>7, <1>8

LEMMA PartSteal ==
  ASSUME TypeOK, NEW w \in Workers, Part(w),
         \/ AnySteal(w) \/ StealSkip(w) \/ StealPick(w) \/ StealTake(w)
         \/ StealStop(w) \/ StealMiss(w) \/ StealNone(w)
  PROVE  Part(w)'
<1>1. fr \in [Workers -> Frames] /\ mask \in [Workers -> SUBSET Buckets]
      /\ bank \in [Workers -> [Buckets -> Seq(Tasks)]]
  BY DEF TypeOK, Frames
<1>2. fr[w] \in Frames /\ fr[w].b \in Buckets /\ fr[w].m \in SUBSET Buckets
  BY <1>1 DEF Frames
\* A step that leaves mask and bank alone and is outside the walk of a pop.
<1>3. ASSUME bank' = bank, mask' = mask, fr[w].op \in {"none", "look", "take"},
             fr'[w].op \in {"look", "take", "stolen"}, fr'[w].x = fr[w].x
      PROVE  TaskInHand(w)' /\ MaskCovers(w)' /\ \A c \in Buckets : Holds(w, c)' <=> Holds(w, c)
  <2>1. \A c \in Buckets : Holds(w, c)' <=> Holds(w, c)
    BY <1>3 DEF Holds
  <2>2. MaskCovers(w)'
    BY <1>3, <2>1 DEF MaskCovers, Part, Buckets
  <2> QED BY <1>3, <2>1, <2>2 DEF TaskInHand, Part
<1>4. ASSUME fr[w].op \in {"look", "take"}, bank' = bank, mask' = mask,
             fr' = [fr EXCEPT ![w] = [Free(w) EXCEPT !.op = "stolen", !.got = fr[w].got]]
      PROVE  Part(w)'
  <2>1. PICK f \in Frames : f = Free(w) /\ f.from = w /\ f.x = 0
    BY FreeFrame DEF Free
  <2>2. fr'[w].op = "stolen" /\ fr'[w].from = w /\ fr'[w].x = fr[w].x
    BY <1>1, <1>4, <2>1 DEF Frames, Part, TaskInHand
  <2>3. StealsBelow(w)'
    BY <2>2 DEF StealsBelow
  <2> QED BY <1>3, <1>4, <2>2, <2>3 DEF Part
<1>5. CASE AnySteal(w)
  <2>1. PICK deeper \in BOOLEAN : StealCall(w, deeper)
    BY <1>5 DEF AnySteal
  <2>2. fr[w].op = "none" /\ fr[w].from = w /\ fr[w].got = 0
    BY <2>1, FreeFrame DEF StealCall, Part, StealsBelow, Free
  <2>3. /\ fr'[w].op \in {"look", "stolen"} /\ fr'[w].m = Allowed(w, deeper)
        /\ fr'[w].from = w /\ fr'[w].deeper = deeper /\ fr'[w].got = 0
        /\ fr'[w].x = fr[w].x
    BY <1>1, <1>2, <2>1, <2>2 DEF StealCall, Frames
  <2>4. bank' = bank /\ mask' = mask
    BY <2>1 DEF StealCall
  <2>5. TaskInHand(w)' /\ MaskCovers(w)' /\ \A c \in Buckets : Holds(w, c)' <=> Holds(w, c)
    BY <1>3, <2>2, <2>3, <2>4
  <2>6. \A d \in Buckets : Holds(w, d) => d \in mask[w]
    BY <2>2 DEF Part, MaskCovers
  <2>7. StealsBelow(w)'
    BY <2>3, <2>5, <2>6 DEF StealsBelow, Allowed
  <2> QED BY <2>5, <2>7 DEF Part
<1>6. CASE StealSkip(w)
  <2>1. /\ fr[w].op = "look" /\ fr'[w].op = "look" /\ fr'[w].got = fr[w].got
        /\ fr'[w].m = fr[w].m /\ fr'[w].from = fr[w].from /\ fr'[w].deeper = fr[w].deeper
        /\ bank' = bank /\ mask' = mask /\ fr'[w].x = fr[w].x
    BY <1>1, <1>2, <1>6 DEF StealSkip, Frames
  <2>2. TaskInHand(w)' /\ MaskCovers(w)' /\ \A c \in Buckets : Holds(w, c)' <=> Holds(w, c)
    BY <1>3, <2>1
  <2>3. StealsBelow(w)'
    BY <2>1, <2>2 DEF StealsBelow, Part
  <2> QED BY <2>2, <2>3 DEF Part
<1>7. CASE StealPick(w)
  <2>1. PICK c \in Buckets :
          /\ Lowest(c, mask[Victim(w)] \cap fr[w].m)
          /\ fr' = [fr EXCEPT ![w] = [@ EXCEPT !.op = "take", !.from = Victim(w), !.b = c]]
    BY <1>7 DEF StealPick
  <2>2. fr[w].op = "look" /\ bank' = bank /\ mask' = mask /\ c \in fr[w].m
    BY <1>7, <2>1 DEF StealPick, Lowest
  <2>3. /\ fr'[w].op = "take" /\ fr'[w].b = c /\ fr'[w].m = fr[w].m
        /\ fr'[w].got = fr[w].got /\ fr'[w].deeper = fr[w].deeper /\ fr'[w].x = fr[w].x
    BY <1>1, <1>2, <2>1 DEF Frames
  <2>4. TaskInHand(w)' /\ MaskCovers(w)' /\ \A d \in Buckets : Holds(w, d)' <=> Holds(w, d)
    BY <1>3, <2>2, <2>3
  <2>5. fr[w].deeper => \A e \in fr[w].m, d \in Buckets : Holds(w, d) => e < d
    BY <2>2 DEF Part, StealsBelow
  <2>6. fr[w].deeper => \A d \in Buckets : Holds(w, d) => c <= d
    BY <2>2, <2>5 DEF Buckets
  <2>7. StealsBelow(w)'
    BY <2>3, <2>4, <2>5, <2>6 DEF StealsBelow
  <2> QED BY <2>4, <2>7 DEF Part
<1>8. CASE StealTake(w)
  <2>1. PICK v \in Workers, c \in Buckets : v = fr[w].from /\ c = fr[w].b
    BY <1>2 DEF Frames
  <2>2. /\ fr[w].op = "take" /\ bank[v][c] # <<>>
        /\ fr' = [fr EXCEPT ![w] = [@ EXCEPT !.op = "push", !.x = Head(bank[v][c])]]
        /\ bank' = [bank EXCEPT ![v][c] = Tail(@)] /\ mask' = mask
    BY <1>8, <2>1 DEF StealTake
  <2>3. bank[v][c] \in Seq(Tasks)
    BY <1>1
  <2>4. Head(bank[v][c]) \in Tasks
    BY <2>2, <2>3
  <2>5. /\ fr'[w].op = "push" /\ fr'[w].x \in Tasks /\ fr'[w].b = fr[w].b
        /\ fr'[w].from = fr[w].from /\ fr'[w].deeper = fr[w].deeper
    BY <1>1, <1>2, <2>2, <2>4 DEF Frames
  <2>6. \A d \in Buckets : Holds(w, d)' => Holds(w, d)
    <3>1. ASSUME NEW d \in Buckets
          PROVE  bank'[w][d] = bank[w][d] \/ (v = w /\ d = c)
      BY <1>1, <2>2
    <3> QED BY <2>2, <3>1 DEF Holds
  <2>7. TaskInHand(w)'
    BY <2>5 DEF TaskInHand, Tasks
  <2>8. MaskCovers(w)'
    BY <2>2, <2>5, <2>6 DEF MaskCovers, Part, Buckets
  <2>9. StealsBelow(w)'
    BY <2>2, <2>5, <2>6 DEF StealsBelow, Part, Buckets
  <2> QED BY <2>7, <2>8, <2>9 DEF Part
<1>9. CASE StealStop(w)
  BY <1>4, <1>9 DEF StealStop, Stolen
<1>10. CASE StealMiss(w)
  <2>1. /\ fr[w].op = "take" /\ fr[w].got = 0 /\ fr'[w].op = "look" /\ fr'[w].got = 0
        /\ fr'[w].m = fr[w].m /\ fr'[w].from = w /\ fr'[w].deeper = fr[w].deeper
        /\ bank' = bank /\ mask' = mask /\ fr'[w].x = fr[w].x
    BY <1>1, <1>2, <1>10 DEF StealMiss, Frames
  <2>2. TaskInHand(w)' /\ MaskCovers(w)' /\ \A c \in Buckets : Holds(w, c)' <=> Holds(w, c)
    BY <1>3, <2>1
  <2>3. StealsBelow(w)'
    BY <2>1, <2>2 DEF StealsBelow, Part
  <2> QED BY <2>2, <2>3 DEF Part
<1>11. CASE StealNone(w)
  BY <1>4, <1>11 DEF StealNone, Stolen
<1> QED BY <1>5, <1>6, <1>7, <1>8, <1>9, <1>10, <1>11

-----------------------------------------------------------------------------
(* What a push, a pop and a steal do to the tasks in a bucket.             *)

LEMMA AppendOne ==
  ASSUME NEW S, NEW q \in Seq(S), NEW e \in S, e \notin Range(q), IsInjective(q)
  PROVE  /\ Range(Append(q, e)) = Range(q) \cup {e}
         /\ IsInjective(Append(q, e)) /\ Len(Append(q, e)) = Len(q) + 1
<1>1. /\ DOMAIN q = 1..Len(q) /\ DOMAIN Append(q, e) = 1..(Len(q) + 1) /\ Len(q) \in Nat
      /\ Len(Append(q, e)) = Len(q) + 1
  OBVIOUS
<1>2. \A i \in 1..Len(q) : Append(q, e)[i] = q[i]
  OBVIOUS
<1>3. Append(q, e)[Len(q) + 1] = e
  OBVIOUS
<1>4. \A i \in 1..(Len(q) + 1) : i \in 1..Len(q) \/ i = Len(q) + 1
  BY <1>1
<1>5. Range(Append(q, e)) = Range(q) \cup {e}
  BY <1>1, <1>2, <1>3 DEF Range
<1>6. \A i \in 1..Len(q) : q[i] # e
  BY <1>1 DEF Range
<1>7. IsInjective(Append(q, e))
  BY <1>1, <1>2, <1>3, <1>4, <1>6 DEF IsInjective
<1> QED BY <1>1, <1>5, <1>7

LEMMA TailOne ==
  ASSUME NEW S, NEW q \in Seq(S), q # <<>>, IsInjective(q)
  PROVE  /\ Head(q) \in Range(q) /\ Range(Tail(q)) = Range(q) \ {Head(q)}
         /\ IsInjective(Tail(q)) /\ Len(Tail(q)) <= Len(q)
<1>1. /\ DOMAIN q = 1..Len(q) /\ DOMAIN Tail(q) = 1..(Len(q) - 1) /\ Len(q) \in Nat \ {0}
      /\ Len(Tail(q)) = Len(q) - 1
  OBVIOUS
<1>2. \A i \in 1..(Len(q) - 1) : Tail(q)[i] = q[i + 1] /\ i + 1 \in 1..Len(q) /\ i + 1 # 1
  OBVIOUS
<1>3. Head(q) = q[1] /\ 1 \in 1..Len(q)
  BY <1>1
<1>4. \A i \in 1..Len(q) : i = 1 \/ i - 1 \in 1..(Len(q) - 1)
  BY <1>1
<1>5. Range(Tail(q)) \subseteq Range(q) \ {Head(q)}
  BY <1>1, <1>2, <1>3 DEF Range, IsInjective
<1>6. ASSUME NEW i \in 1..Len(q), i # 1 PROVE q[i] \in Range(Tail(q))
  <2>1. i - 1 \in 1..(Len(q) - 1) /\ (i - 1) + 1 = i
    BY <1>4, <1>6
  <2>2. Tail(q)[i - 1] = q[i]
    BY <1>2, <2>1
  <2> QED BY <1>1, <2>1, <2>2 DEF Range
<1>7. Range(q) \ {Head(q)} \subseteq Range(Tail(q))
  BY <1>1, <1>3, <1>6 DEF Range
<1>8. \A i, j \in 1..(Len(q) - 1) : i + 1 = j + 1 => i = j
  BY <1>1
<1>9. IsInjective(Tail(q))
  BY <1>1, <1>2, <1>8 DEF IsInjective
<1>10. Head(q) \in Range(q)
  BY <1>1, <1>3 DEF Range
<1> QED BY <1>1, <1>5, <1>7, <1>9, <1>10

LEMMA FrontOne ==
  ASSUME NEW S, NEW q \in Seq(S), q # <<>>, IsInjective(q)
  PROVE  LET r == SubSeq(q, 1, Len(q) - 1)
         IN /\ q[Len(q)] \in Range(q) /\ Range(r) = Range(q) \ {q[Len(q)]}
            /\ IsInjective(r) /\ Len(r) <= Len(q)
<1> DEFINE r == SubSeq(q, 1, Len(q) - 1)
<1> PICK n \in Nat \ {0} : n = Len(q)
  OBVIOUS
<1>1. DOMAIN q = 1..n /\ DOMAIN r = 1..(n - 1) /\ Len(r) = n - 1
  OBVIOUS
<1>2. \A i \in 1..(n - 1) : r[i] = q[i] /\ i \in 1..n /\ i # n
  OBVIOUS
<1>3. n \in 1..n
  OBVIOUS
<1>4. \A i \in 1..n : i = n \/ i \in 1..(n - 1)
  OBVIOUS
<1> HIDE DEF r
<1>5. Range(r) \subseteq Range(q) \ {q[Len(q)]}
  BY <1>1, <1>2, <1>3 DEF Range, IsInjective
<1>6. ASSUME NEW e \in Range(q) \ {q[Len(q)]}
      PROVE  e \in Range(r)
  <2>1. PICK i \in 1..n : e = q[i]
    BY <1>1 DEF Range
  <2>2. i \in 1..(n - 1) /\ e = r[i]
    BY <1>2, <1>4, <1>6, <2>1
  <2> QED BY <1>1, <2>2, Zenon DEF Range
<1>7. IsInjective(r)
  BY <1>1, <1>2 DEF IsInjective
<1>8. q[Len(q)] \in Range(q)
  BY <1>1, <1>3 DEF Range
<1> QED BY <1>1, <1>5, <1>6, <1>7, <1>8 DEF r

-----------------------------------------------------------------------------
(* No task is lost and none duplicated.                                    *)

\* Kept'(w, c) and Hand'(w) say it all: a step that changes neither, nor the
\* histories, keeps every task in its place.
LEMMA NothingMoves ==
  ASSUME ExactlyOnce, bank' = bank, \A w \in Workers : Hand(w)' = Hand(w),
         pushed' = pushed, takes' = takes
  PROVE  ExactlyOnce'
<1>1. \A w \in Workers, c \in Buckets : Kept(w, c)' = Kept(w, c) /\ bank'[w][c] = bank[w][c]
  BY DEF Kept
<1>2. \A k \in Tasks : Somewhere(k)' <=> Somewhere(k)
  BY <1>1 DEF Somewhere
<1>3. Workers' = Workers /\ Buckets' = Buckets
  BY DEF Workers, Buckets
<1> QED BY <1>1, <1>2, <1>3 DEF ExactlyOnce

\* A caller pushes a new task: it is in its hand.
LEMMA TaskGiven ==
  ASSUME ExactlyOnce, TypeOK, NEW w \in Workers, Hand(w) = 0, bank' = bank,
         pushed' = pushed + 1, pushed + 1 \in Tasks, Hand(w)' = pushed + 1,
         \A v \in Workers \ {w} : Hand(v)' = Hand(v), takes' = takes
  PROVE  ExactlyOnce'
<1> PICK new \in Tasks : new = pushed + 1
  OBVIOUS
<1>0. pushed \in Nat /\ new \in Nat \ {0} /\ \A k \in Tasks : k \in Nat \ {0}
  BY DEF TypeOK, Tasks
<1>1. \A v \in Workers, c \in Buckets : Kept(v, c)' = Kept(v, c) /\ bank'[v][c] = bank[v][c]
  BY DEF Kept
<1>2. ~Somewhere(new) /\ takes[new] = 0
  BY <1>0 DEF ExactlyOnce
<1>3. /\ \A v \in Workers, c \in Buckets : new \notin Kept(v, c)
      /\ \A v \in Workers : Hand(v) # new
  BY <1>2 DEF Somewhere
<1>4. ASSUME NEW k \in Tasks, k # new PROVE Somewhere(k)' <=> Somewhere(k)
  BY <1>0, <1>1, <1>4 DEF Somewhere
<1>5. Somewhere(new)'
  BY DEF Somewhere
<1>6. ASSUME NEW v \in Workers, NEW u \in Workers, Hand(v)' # 0, Hand(v)' = Hand(u)'
      PROVE  v = u
  <2>1. CASE v = w
    BY <1>3, <1>6, <2>1 DEF Hand
  <2>2. CASE u = w
    BY <1>3, <1>6, <2>2 DEF Hand
  <2>3. CASE v # w /\ u # w
    BY <1>6, <2>3 DEF ExactlyOnce
  <2> QED BY <2>1, <2>2, <2>3
<1>7. \A v, u \in Workers, c \in Buckets : Hand(v)' \notin Kept(u, c)'
  BY <1>1, <1>3 DEF ExactlyOnce
<1>8. ASSUME NEW k \in Tasks
      PROVE  \/ k > pushed' /\ takes'[k] = 0 /\ ~Somewhere(k)'
             \/ k <= pushed' /\ takes'[k] = 1 /\ ~Somewhere(k)'
             \/ k <= pushed' /\ takes'[k] = 0 /\ Somewhere(k)'
  <2>1. CASE k = new
    BY <1>0, <1>2, <1>5, <2>1
  <2>2. CASE k # new
    <3>1. \/ k > pushed /\ takes[k] = 0 /\ ~Somewhere(k)
          \/ k <= pushed /\ takes[k] = 1 /\ ~Somewhere(k)
          \/ k <= pushed /\ takes[k] = 0 /\ Somewhere(k)
      BY DEF ExactlyOnce
    <3>2. (Somewhere(k)' <=> Somewhere(k)) /\ k \in Nat
      BY <1>0, <1>4, <2>2
    <3>3. (k > pushed => k > pushed') /\ (k <= pushed => k <= pushed')
      BY <1>0, <2>2, <3>2
    <3> QED BY <3>1, <3>2, <3>3
  <2> QED BY <2>1, <2>2
<1>9. \A v \in Workers, c \in Buckets : Len(bank'[v][c]) <= Cap /\ IsInjective(bank'[v][c])
  BY <1>1 DEF ExactlyOnce
<1>10. \A v, u \in Workers, c, d \in Buckets :
         Kept(v, c)' \cap Kept(u, d)' # {} => v = u /\ c = d
  BY <1>1 DEF ExactlyOnce
<1> QED BY <1>6, <1>7, <1>8, <1>9, <1>10 DEF ExactlyOnce, Workers, Buckets

\* A push writes the task in its hand to a bucket that is not full.
LEMMA TaskWritten ==
  ASSUME ExactlyOnce, TypeOK, NEW w \in Workers, NEW b \in Buckets, NEW x \in Tasks,
         Hand(w) = x, bank' = [bank EXCEPT ![w][b] = Append(@, x)], ~Full(w, b),
         Hand(w)' = 0, \A v \in Workers \ {w} : Hand(v)' = Hand(v),
         pushed' = pushed, takes' = takes
  PROVE  ExactlyOnce'
<1>1. bank \in [Workers -> [Buckets -> Seq(Tasks)]] /\ 0 \notin Tasks
  BY DEF TypeOK, Tasks
<1>2. x \notin Kept(w, b) /\ IsInjective(bank[w][b]) /\ Len(bank[w][b]) < Cap
  <2>1. Len(bank[w][b]) \in Nat
    BY <1>1
  <2> QED BY <2>1 DEF ExactlyOnce, Full
<1>3. bank'[w][b] = Append(bank[w][b], x)
  BY <1>1
<1>4. /\ Kept(w, b)' = Kept(w, b) \cup {x}
      /\ IsInjective(bank'[w][b]) /\ Len(bank'[w][b]) <= Cap
  <2>1. bank[w][b] \in Seq(Tasks) /\ Len(bank[w][b]) \in Nat
    BY <1>1
  <2> QED BY <1>2, <1>3, <2>1, AppendOne DEF Kept
<1>5. ASSUME NEW v \in Workers, NEW c \in Buckets, v # w \/ c # b
      PROVE  bank'[v][c] = bank[v][c] /\ Kept(v, c)' = Kept(v, c)
  <2>1. bank'[v][c] = bank[v][c]
    BY <1>1, <1>5
  <2> QED BY <2>1 DEF Kept
<1>6. \A v \in Workers, c \in Buckets : x \notin Kept(v, c)
  BY DEF ExactlyOnce
<1>7. \A v \in Workers \ {w} : Hand(v) # x
  BY <1>1 DEF ExactlyOnce
<1>8. \A v, u \in Workers, c, d \in Buckets :
        Kept(v, c)' \cap Kept(u, d)' # {} => v = u /\ c = d
  BY <1>4, <1>5, <1>6 DEF ExactlyOnce
<1>9. ASSUME NEW v \in Workers, NEW u \in Workers, NEW c \in Buckets
      PROVE  Hand(v)' \notin Kept(u, c)'
  <2>1. 0 \notin Kept(u, c)
    BY <1>1 DEF Kept, Range
  <2>2. Kept(u, c)' \subseteq Kept(u, c) \cup {x}
    BY <1>4, <1>5
  <2>3. CASE v = w
    BY <1>1, <2>1, <2>2, <2>3
  <2>4. CASE v # w
    BY <1>7, <2>2, <2>4 DEF ExactlyOnce
  <2> QED BY <2>3, <2>4
<1>10. ASSUME NEW k \in Tasks PROVE Somewhere(k)' <=> Somewhere(k)
  <2>1. CASE k = x
    BY <1>4, <2>1 DEF Somewhere
  <2>2. CASE k # x
    <3>1. \A v \in Workers, c \in Buckets : k \in Kept(v, c)' <=> k \in Kept(v, c)
      BY <1>4, <1>5, <2>2
    <3>2. \A v \in Workers : Hand(v)' = k <=> Hand(v) = k
      BY <1>1, <2>2
    <3> QED BY <3>1, <3>2 DEF Somewhere
  <2> QED BY <2>1, <2>2
<1>11. \A v \in Workers, c \in Buckets : Len(bank'[v][c]) <= Cap /\ IsInjective(bank'[v][c])
  BY <1>4, <1>5 DEF ExactlyOnce
<1>12. \A v, u \in Workers : Hand(v)' # 0 /\ Hand(v)' = Hand(u)' => v = u
  BY DEF ExactlyOnce
<1> QED BY <1>8, <1>9, <1>10, <1>11, <1>12 DEF ExactlyOnce, Workers, Buckets

\* A pop or a steal takes a task out of a bucket into the worker's hand.
LEMMA TaskTaken ==
  ASSUME ExactlyOnce, TypeOK, NEW w \in Workers, NEW v \in Workers, NEW b \in Buckets,
         NEW x \in Tasks, NEW q \in Seq(Tasks),
         bank' = [bank EXCEPT ![v][b] = q],
         x \in Kept(v, b), Range(q) = Kept(v, b) \ {x}, IsInjective(q),
         Len(q) <= Len(bank[v][b]),
         Hand(w) = 0, Hand(w)' = x, \A u \in Workers \ {w} : Hand(u)' = Hand(u),
         pushed' = pushed, takes' = takes
  PROVE  ExactlyOnce'
<1>1. bank \in [Workers -> [Buckets -> Seq(Tasks)]] /\ x # 0
  BY DEF TypeOK, Tasks
<1>2. bank'[v][b] = q /\ Kept(v, b)' = Kept(v, b) \ {x}
  <2>1. bank'[v][b] = q
    BY <1>1
  <2> QED BY <2>1 DEF Kept
<1>3. ASSUME NEW u \in Workers, NEW c \in Buckets, u # v \/ c # b
      PROVE  bank'[u][c] = bank[u][c] /\ Kept(u, c)' = Kept(u, c) /\ x \notin Kept(u, c)
  <2>1. bank'[u][c] = bank[u][c]
    BY <1>1, <1>3
  <2>2. x \notin Kept(u, c)
    BY <1>3 DEF ExactlyOnce
  <2> QED BY <2>1, <2>2 DEF Kept
<1>4. \A u \in Workers, c \in Buckets :
        Kept(u, c)' \subseteq Kept(u, c) /\ x \notin Kept(u, c)'
  BY <1>2, <1>3
<1>5. \A u \in Workers : Hand(u) # x
  BY DEF ExactlyOnce
<1>6. \A u \in Workers, c \in Buckets : Len(bank'[u][c]) <= Cap /\ IsInjective(bank'[u][c])
  <2>1. Len(bank[v][b]) <= Cap /\ Len(bank[v][b]) \in Nat /\ Len(q) \in Nat
    BY <1>1 DEF ExactlyOnce
  <2>2. Len(q) <= Cap
    BY <2>1
  <2> QED BY <1>2, <1>3, <2>2 DEF ExactlyOnce
<1>7. \A u, t \in Workers, c, d \in Buckets :
        Kept(u, c)' \cap Kept(t, d)' # {} => u = t /\ c = d
  BY <1>4 DEF ExactlyOnce
<1>8. ASSUME NEW u \in Workers, NEW t \in Workers, Hand(u)' # 0, Hand(u)' = Hand(t)'
      PROVE  u = t
  <2>1. CASE u = w
    BY <1>5, <1>8, <2>1 DEF Hand
  <2>2. CASE t = w
    BY <1>5, <1>8, <2>2 DEF Hand
  <2>3. CASE u # w /\ t # w
    BY <1>8, <2>3 DEF ExactlyOnce
  <2> QED BY <2>1, <2>2, <2>3
<1>9. ASSUME NEW u \in Workers, NEW t \in Workers, NEW c \in Buckets
      PROVE  Hand(u)' \notin Kept(t, c)'
  <2>1. CASE u = w
    BY <1>4, <2>1 DEF Hand
  <2>2. CASE u # w
    BY <1>4, <2>2 DEF ExactlyOnce
  <2> QED BY <2>1, <2>2
<1>10. ASSUME NEW k \in Tasks PROVE Somewhere(k)' <=> Somewhere(k)
  <2>1. CASE k = x
    BY <2>1 DEF Somewhere
  <2>2. CASE k # x
    <3>1. \A u \in Workers, c \in Buckets : k \in Kept(u, c)' <=> k \in Kept(u, c)
      BY <1>2, <1>3, <2>2
    <3>2. \A u \in Workers : Hand(u)' = k <=> Hand(u) = k
      <4>1. k # 0
        BY DEF Tasks
      <4> QED BY <2>2, <4>1
    <3> QED BY <3>1, <3>2 DEF Somewhere
  <2> QED BY <2>1, <2>2
<1> QED BY <1>6, <1>7, <1>8, <1>9, <1>10 DEF ExactlyOnce, Workers, Buckets

\* The result of a pop goes from the worker's hand to the caller.
LEMMA TaskReturned ==
  ASSUME ExactlyOnce, TypeOK, NEW w \in Workers, NEW x \in Tasks, Hand(w) = x,
         bank' = bank, Hand(w)' = 0, \A u \in Workers \ {w} : Hand(u)' = Hand(u),
         pushed' = pushed, takes' = [takes EXCEPT ![x] = @ + 1]
  PROVE  ExactlyOnce'
<1>1. takes \in [Tasks -> Nat] /\ x # 0
  BY DEF TypeOK, Tasks
<1>2. \A u \in Workers, c \in Buckets : Kept(u, c)' = Kept(u, c) /\ bank'[u][c] = bank[u][c]
  BY DEF Kept
<1>3. \A u \in Workers, c \in Buckets : x \notin Kept(u, c) /\ 0 \notin Kept(u, c)
  <2>1. bank \in [Workers -> [Buckets -> Seq(Tasks)]] /\ 0 \notin Tasks
    BY DEF TypeOK, Tasks
  <2>2. \A u \in Workers, c \in Buckets : 0 \notin Kept(u, c)
    BY <2>1 DEF Kept, Range
  <2> QED BY <2>2 DEF ExactlyOnce
<1>4. \A u \in Workers \ {w} : Hand(u) # x
  BY <1>1 DEF ExactlyOnce
<1>5. ASSUME NEW u \in Workers PROVE Hand(u)' # x /\ (Hand(u)' = Hand(u) \/ Hand(u)' = 0)
  <2>1. CASE u = w
    BY <1>1, <2>1 DEF Hand
  <2>2. CASE u # w
    BY <1>4, <2>2
  <2> QED BY <2>1, <2>2
<1>6. ~Somewhere(x)' /\ Somewhere(x)
  BY <1>2, <1>3, <1>5 DEF Somewhere
<1>7. ASSUME NEW k \in Tasks, k # x PROVE Somewhere(k)' <=> Somewhere(k)
  <2>1. \A u \in Workers : Hand(u)' = k <=> Hand(u) = k
    <3>1. k # 0
      BY DEF Tasks
    <3> QED BY <1>7, <3>1
  <2> QED BY <1>2, <2>1 DEF Somewhere
<1>8. ASSUME NEW k \in Tasks
      PROVE  \/ k > pushed' /\ takes'[k] = 0 /\ ~Somewhere(k)'
             \/ k <= pushed' /\ takes'[k] = 1 /\ ~Somewhere(k)'
             \/ k <= pushed' /\ takes'[k] = 0 /\ Somewhere(k)'
  <2>1. CASE k = x
    <3>1. takes[x] = 0 /\ x <= pushed
      BY <1>6 DEF ExactlyOnce
    <3>2. takes'[x] = 1
      BY <1>1, <3>1
    <3> QED BY <1>6, <2>1, <3>1, <3>2
  <2>2. CASE k # x
    <3>1. takes'[k] = takes[k]
      BY <1>1, <2>2
    <3>2. Somewhere(k)' <=> Somewhere(k)
      BY <1>7, <2>2
    <3>3. \/ k > pushed /\ takes[k] = 0 /\ ~Somewhere(k)
          \/ k <= pushed /\ takes[k] = 1 /\ ~Somewhere(k)
          \/ k <= pushed /\ takes[k] = 0 /\ Somewhere(k)
      BY DEF ExactlyOnce
    <3> QED BY <3>1, <3>2, <3>3
  <2> QED BY <2>1, <2>2
<1>9. \A u, t \in Workers : Hand(u)' # 0 /\ Hand(u)' = Hand(t)' => u = t
  BY <1>5 DEF ExactlyOnce
<1>10. \A u, t \in Workers, c \in Buckets : Hand(u)' \notin Kept(t, c)'
  BY <1>2, <1>3, <1>5 DEF ExactlyOnce
<1>11. \A u \in Workers, c \in Buckets : Len(bank'[u][c]) <= Cap /\ IsInjective(bank'[u][c])
  BY <1>2 DEF ExactlyOnce
<1>12. \A u, t \in Workers, c, d \in Buckets :
         Kept(u, c)' \cap Kept(t, d)' # {} => u = t /\ c = d
  BY <1>2 DEF ExactlyOnce
<1> QED BY <1>8, <1>9, <1>10, <1>11, <1>12 DEF ExactlyOnce, Workers, Buckets

LEMMA OnceInit == Init => ExactlyOnce
<1> SUFFICES ASSUME Init PROVE ExactlyOnce
  OBVIOUS
<1>1. \A w \in Workers, c \in Buckets : bank[w][c] = <<>>
  BY DEF Init
<1>2. Range(<<>>) = {} /\ IsInjective(<<>>) /\ Len(<<>>) = 0
  BY DEF Range, IsInjective
<1>3. \A w \in Workers, c \in Buckets : Kept(w, c) = {}
  BY <1>1, <1>2 DEF Kept
<1>4. \A w \in Workers : Hand(w) = 0
  BY DEF Init, Free, Hand
<1>5. \A k \in Tasks : k > pushed /\ takes[k] = 0 /\ ~Somewhere(k)
  BY <1>3, <1>4 DEF Init, Tasks, Somewhere
<1> QED BY <1>1, <1>2, <1>3, <1>4, <1>5 DEF ExactlyOnce

\* The steps that move no task.
LEMMA OnceStill ==
  ASSUME TypeOK, ExactlyOnce, NEW w \in Workers, Part(w),
         \/ MaskSet(w) \/ FullCheck(w) \/ FullYes(w) \/ FullNo(w) \/ Crash(w)
         \/ AnyPop(w) \/ PopMiss(w) \/ MaskClear(w) \/ PopNone(w)
         \/ AnySteal(w) \/ StealSkip(w) \/ StealPick(w)
         \/ StealStop(w) \/ StealMiss(w) \/ StealNone(w)
  PROVE  ExactlyOnce'
<1>1. fr \in [Workers -> Frames]
  BY DEF TypeOK, Frames
<1>2. bank' = bank /\ pushed' = pushed /\ takes' = takes
  BY DEF MaskSet, FullCheck, FullYes, FullNo, Crash, AnyPop, PopCall, PopMiss, MaskClear,
         PopNone, AnySteal, StealCall, StealSkip, StealPick, StealStop, StealMiss, StealNone,
         history
<1>3. ASSUME NEW v \in Workers PROVE Hand(v)' = Hand(v)
  <2>1. CASE Crash(w)
    BY <1>1, <2>1 DEF Crash, Hand, Frames
  <2>2. CASE MaskSet(w) \/ StealStop(w) \/ StealNone(w)
    <3>1. fr[w].x = 0 /\ fr[w] \in Frames
      BY <1>1, <2>2 DEF Part, TaskInHand, MaskSet, StealStop, StealNone
    <3>2. CASE v = w
      <4>1. PICK f \in Frames : f = Free(w) /\ f.x = 0
        BY FreeFrame DEF Free
      <4>2. \/ fr'[w] = f
            \/ fr'[w] = [fr[w] EXCEPT !.op = "take", !.got = @ + 1]
            \/ fr'[w] = [f EXCEPT !.op = "stolen", !.got = fr[w].got]
        BY <1>1, <2>2, <4>1 DEF MaskSet, StealStop, StealNone, Stolen
      <4>3. fr'[w].x = 0
        BY <3>1, <4>1, <4>2 DEF Frames
      <4> QED BY <3>1, <3>2, <4>3 DEF Hand
    <3>3. CASE v # w
      BY <1>1, <2>2, <3>3 DEF MaskSet, StealStop, StealNone, Stolen, Hand
    <3> QED BY <3>2, <3>3
  <2>3. CASE FullCheck(w) \/ FullYes(w) \/ FullNo(w) \/ AnyPop(w) \/ PopMiss(w)
             \/ MaskClear(w) \/ PopNone(w)
    <3>1. fr[w] \in Frames
      BY <1>1
    <3>2. CASE v = w
      <4>1. CASE FullCheck(w) \/ FullYes(w) \/ FullNo(w) \/ AnyPop(w)
        <5>1. CASE FullCheck(w)
          BY <1>1, <3>1, <3>2, <5>1 DEF FullCheck, Frames, Hand
        <5>2. CASE FullYes(w) \/ FullNo(w)
          BY <1>1, <3>1, <3>2, <5>2 DEF FullYes, FullNo, Frames, Hand
        <5>3. CASE AnyPop(w)
          BY <1>1, <3>1, <3>2, <5>3 DEF AnyPop, PopCall, Frames, Hand
        <5> QED BY <4>1, <5>1, <5>2, <5>3
      <4>2. CASE PopMiss(w)
        <5>1. PICK c \in fr[w].m : fr' = [fr EXCEPT ![w] = [@ EXCEPT !.op = "clear",
                                                                     !.b = c]]
          BY <4>2 DEF PopMiss
        <5> QED BY <1>1, <3>1, <3>2, <5>1 DEF Frames, Hand
      <4>3. CASE MaskClear(w) \/ PopNone(w)
        <5>1. CASE MaskClear(w)
          BY <1>1, <3>1, <3>2, <5>1 DEF MaskClear, Frames, Hand
        <5>2. CASE PopNone(w)
          BY <1>1, <3>1, <3>2, <5>2 DEF PopNone, Frames, Hand
        <5> QED BY <4>3, <5>1, <5>2
      <4> QED BY <2>3, <4>1, <4>2, <4>3
    <3>3. CASE v # w
      BY <1>1, <2>3, <3>3 DEF FullCheck, FullYes, FullNo, AnyPop, PopCall, PopMiss, MaskClear,
                              PopNone, Hand
    <3> QED BY <3>2, <3>3
  <2>4. CASE AnySteal(w) \/ StealSkip(w) \/ StealPick(w) \/ StealMiss(w)
    <3>1. fr[w] \in Frames
      BY <1>1
    <3>2. CASE v = w
      <4>1. fr'[w].x = fr[w].x
        <5>1. CASE AnySteal(w)
          <6>1. PICK deeper \in BOOLEAN : StealCall(w, deeper)
            BY <5>1 DEF AnySteal
          <6> QED BY <1>1, <3>1, <6>1 DEF StealCall, Frames
        <5>2. CASE StealPick(w)
          <6>1. PICK c \in Buckets :
                  fr' = [fr EXCEPT ![w] = [@ EXCEPT !.op = "take", !.from = Victim(w),
                                                    !.b = c]]
            BY <5>2 DEF StealPick
          <6> QED BY <1>1, <3>1, <6>1 DEF Frames
        <5>3. CASE StealSkip(w) \/ StealMiss(w)
          <6>1. CASE StealSkip(w)
            BY <1>1, <3>1, <6>1 DEF StealSkip, Frames
          <6>2. CASE StealMiss(w)
            BY <1>1, <3>1, <6>2 DEF StealMiss, Frames
          <6> QED BY <5>3, <6>1, <6>2
        <5> QED BY <2>4, <5>1, <5>2, <5>3
      <4> QED BY <3>2, <4>1 DEF Hand
    <3>3. CASE v # w
      BY <1>1, <2>4, <3>3 DEF AnySteal, StealCall, StealSkip, StealPick, StealMiss, Hand
    <3> QED BY <3>2, <3>3
  <2> QED BY <2>1, <2>2, <2>3, <2>4
<1> QED BY <1>2, <1>3, NothingMoves

LEMMA OnceMoves ==
  ASSUME TypeOK, ExactlyOnce, NEW w \in Workers, Part(w),
         AnyPush(w) \/ PushWrite(w) \/ PopTake(w) \/ StealTake(w) \/ AnyReturn(w)
  PROVE  ExactlyOnce'
<1>1. fr \in [Workers -> Frames] /\ fr[w] \in Frames
      /\ bank \in [Workers -> [Buckets -> Seq(Tasks)]]
  BY DEF TypeOK, Frames
<1>2. \A v \in Workers \ {w} : Hand(v)' = Hand(v)
  BY <1>1 DEF AnyPush, PushCall, PushWrite, PopTake, StealTake, AnyReturn, Return, Hand
<1>3. CASE AnyPush(w)
  <2>1. PICK key \in 0..Brackets : PushCall(w, key, pushed + 1)
    BY <1>3 DEF AnyPush
  <2>2. pushed' = pushed + 1 /\ takes' = takes /\ bank' = bank
    BY <1>3, <2>1 DEF AnyPush, PushCall
  <2>5. pushed + 1 \in Tasks
    BY <1>3 DEF AnyPush, TypeOK, Tasks
  <2>3. Hand(w) = 0
    BY <2>1 DEF Part, TaskInHand, PushCall, Hand
  <2>4. Hand(w)' = pushed + 1
    BY <1>1, <2>1 DEF PushCall, Hand, Frames
  <2> QED BY <1>2, <2>2, <2>5, <2>3, <2>4, TaskGiven
<1>4. CASE PushWrite(w)
  <2>1. PICK b \in Buckets, x \in Tasks : b = fr[w].b /\ x = fr[w].x
    BY <1>1, <1>4 DEF PushWrite, Part, TaskInHand, Frames
  <2>2. /\ bank' = [bank EXCEPT ![w][b] = Append(@, x)] /\ ~Full(w, b)
        /\ pushed' = pushed /\ takes' = takes
    BY <1>4, <2>1 DEF PushWrite, Put, history
  <2>3. Hand(w) = x /\ Hand(w)' = 0
    BY <1>1, <1>4, <2>1 DEF PushWrite, Hand, Frames
  <2> QED BY <1>2, <2>1, <2>2, <2>3, TaskWritten
<1>5. CASE PopTake(w)
  <2>1. PICK c \in fr[w].m :
          /\ bank[w][c] # <<>>
          /\ fr' = [fr EXCEPT ![w] = [@ EXCEPT !.op = "popped", !.b = c,
                                               !.x = Taken(bank[w][c]), !.m = {}]]
          /\ bank' = [bank EXCEPT ![w][c] = Left(@)]
    BY <1>5 DEF PopTake
  <2>2. c \in Buckets
    BY <1>1 DEF Frames
  <2>3. PICK x \in Tasks, q \in Seq(Tasks) : x = Taken(bank[w][c]) /\ q = Left(bank[w][c])
    BY <1>1, <2>1, <2>2, LeftTyped
  <2>4. bank[w][c] \in Seq(Tasks) /\ IsInjective(bank[w][c])
    BY <1>1, <2>2 DEF ExactlyOnce
  <2>5. /\ x \in Kept(w, c) /\ Range(q) = Kept(w, c) \ {x}
        /\ IsInjective(q) /\ Len(q) <= Len(bank[w][c])
    BY <2>1, <2>3, <2>4, TailOne, FrontOne DEF Taken, Left, Kept
  <2>6. bank' = [bank EXCEPT ![w][c] = q] /\ pushed' = pushed /\ takes' = takes
    BY <1>1, <1>5, <2>1, <2>2, <2>3 DEF PopTake, history
  <2>7. Hand(w) = 0
    BY <1>5 DEF PopTake, Part, TaskInHand, Hand
  <2>8. Hand(w)' = x
    BY <1>1, <2>1, <2>3 DEF Hand, Frames
  <2> QED BY <1>2, <2>2, <2>5, <2>6, <2>7, <2>8, TaskTaken
<1>6. CASE StealTake(w)
  <2>1. PICK v \in Workers, c \in Buckets : v = fr[w].from /\ c = fr[w].b
    BY <1>1 DEF Frames
  <2>2. /\ bank[v][c] # <<>>
        /\ fr' = [fr EXCEPT ![w] = [@ EXCEPT !.op = "push", !.x = Head(bank[v][c])]]
        /\ bank' = [bank EXCEPT ![v][c] = Tail(@)]
        /\ pushed' = pushed /\ takes' = takes
    BY <1>6, <2>1 DEF StealTake, history
  <2>3. bank[v][c] \in Seq(Tasks) /\ IsInjective(bank[v][c])
    BY <1>1 DEF ExactlyOnce
  <2>4. PICK x \in Tasks, q \in Seq(Tasks) : x = Head(bank[v][c]) /\ q = Tail(bank[v][c])
    <3>1. Head(bank[v][c]) \in Tasks /\ Tail(bank[v][c]) \in Seq(Tasks)
      BY <2>2, <2>3
    <3> QED BY <3>1
  <2>5. /\ x \in Kept(v, c) /\ Range(q) = Kept(v, c) \ {x}
        /\ IsInjective(q) /\ Len(q) <= Len(bank[v][c])
    BY <2>2, <2>3, <2>4, TailOne DEF Kept
  <2>6. bank' = [bank EXCEPT ![v][c] = q]
    BY <1>1, <2>2, <2>4
  <2>7. Hand(w) = 0
    BY <1>6 DEF StealTake, Part, TaskInHand, Hand
  <2>8. Hand(w)' = x
    BY <1>1, <2>2, <2>4 DEF Hand, Frames
  <2> QED BY <1>2, <2>2, <2>5, <2>6, <2>7, <2>8, TaskTaken
<1>7. CASE AnyReturn(w)
  <2>1. /\ fr'[w] = Free(w) /\ bank' = bank /\ pushed' = pushed
        /\ fr[w].op \in {"popped", "nothing", "stolen"}
    BY <1>1, <1>7 DEF AnyReturn, Return
  <2>2. Hand(w)' = 0
    BY <2>1 DEF Hand, Free
  <2>3. CASE Hand(w) = 0
    <3>1. takes' = takes
      <4>1. takes \in [Tasks -> Nat] /\ 0 \notin Tasks
        BY DEF TypeOK, Tasks
      <4> QED BY <1>7, <2>3, <4>1 DEF AnyReturn, Hand
    <3> QED BY <1>2, <2>1, <2>2, <2>3, <3>1, NothingMoves
  <2>4. CASE Hand(w) # 0
    <3>1. PICK x \in Tasks : x = fr[w].x
      BY <1>1, <2>4 DEF Hand, Frames
    <3>2. fr[w].op = "popped"
      BY <2>1, <2>4 DEF Part, TaskInHand, Hand
    <3>3. takes' = [takes EXCEPT ![x] = @ + 1]
      BY <1>7, <3>1, <3>2 DEF AnyReturn
    <3>4. Hand(w) = x
      BY <3>1 DEF Hand
    <3> QED BY <1>2, <2>1, <2>2, <3>3, <3>4, TaskReturned
  <2> QED BY <2>3, <2>4
<1> QED BY <1>3, <1>4, <1>5, <1>6, <1>7

LEMMA OnceNext ==
  ASSUME TypeOK, ExactlyOnce, \A w \in Workers : Part(w), [Next]_vars
  PROVE  ExactlyOnce'
<1>1. CASE UNCHANGED vars
  <2>1. \A w \in Workers : Hand(w)' = Hand(w)
    BY <1>1 DEF vars, Hand
  <2> QED BY <1>1, <2>1, NothingMoves DEF vars
<1>2. ASSUME NEW w \in Workers, Call(w) \/ Step(w)
      PROVE  ExactlyOnce'
  BY <1>2, OnceStill, OnceMoves DEF Call, Step
<1> QED BY <1>1, <1>2 DEF Next, Exited

-----------------------------------------------------------------------------
(* The theorems.                                                           *)

LEMMA IInvInit == Init => IInv
<1> SUFFICES ASSUME Init PROVE IInv
  OBVIOUS
<1>1. TypeOK
  BY TypesInit
<1>2. ASSUME NEW w \in Workers
      PROVE  TaskInHand(w) /\ MaskCovers(w) /\ StealsBelow(w)
  <2>1. fr[w] = Free(w) /\ Free(w).x = 0 /\ \A c \in Buckets : ~Holds(w, c)
    BY DEF Init, Holds, Free
  <2> QED BY <2>1, FreeFrame DEF TaskInHand, MaskCovers, StealsBelow
<1> QED BY <1>1, <1>2, OnceInit DEF IInv

LEMMA IInvNext == IInv /\ [Next]_vars => IInv'
<1> SUFFICES ASSUME IInv, [Next]_vars PROVE IInv'
  OBVIOUS
<1>1. TypeOK /\ \A w \in Workers : Part(w) /\ TaskInHand(w)
  BY DEF IInv, Part
<1>2. TypeOK'
  BY <1>1, TypesNext
<1>3. \A w \in Workers : fr[w].b \in Buckets
  BY <1>1 DEF TypeOK
<1>4. ASSUME UNCHANGED vars, NEW v \in Workers
      PROVE  Part(v)'
  BY <1>1, <1>3, <1>4, OthersTake DEF vars, Holds
<1>5. ASSUME NEW w \in Workers, Call(w) \/ Step(w), ~Crash(w), NEW v \in Workers
      PROVE  Part(v)'
  <2>1. CASE v = w
    BY <1>1, <1>5, <2>1, PartPush, PartFull, PartPop, PartSteal DEF Call, Step
  <2>2. CASE v # w
    BY <1>1, <1>3, <1>5, <2>2, OthersUntouched, OthersTake
  <2> QED BY <2>1, <2>2
<1>6. ASSUME NEW w \in Workers, Crash(w), NEW v \in Workers
      PROVE  Part(v)'
  BY <1>1, <1>6, PartCrash
<1>7. \A v \in Workers : Part(v)'
  BY <1>4, <1>5, <1>6 DEF Next, Exited
<1>8. ExactlyOnce'
  BY <1>1, OnceNext DEF IInv
<1> QED BY <1>2, <1>7, <1>8 DEF IInv, Part

\* The strengthened invariant of the queue: types, and for every worker that
\* its mask and what is left of the mask a pop has copied cover its bank, and
\* that a restricted steal stays below what the thief has.
THEOREM Invariance == Spec => []IInv
BY IInvInit, IInvNext, PTL DEF Spec

\* Type correctness: among others, every bucket that an operation uses exists and
\* every victim is a worker.
THEOREM TypeCorrect == Spec => []TypeOK
<1>1. IInv => TypeOK
  BY DEF IInv
<1> QED BY <1>1, Invariance, PTL

\* wspq_push, wspq_pop and wspq_steal_some lose no task and hand none out twice,
\* for any number of workers and buckets and any sequence of calls.
THEOREM NoTaskIsLost == Spec => []ExactlyOnce
<1>1. IInv => ExactlyOnce
  BY DEF IInv
<1> QED BY <1>1, Invariance, PTL

\* A worker whose wspq_pop found nothing has an empty bank, for any number of
\* workers: what it then tells the counter of active workers is true.
THEOREM MasksAreSound == Spec => []MaskSound
<1>1. IInv => MaskSound
  BY DEF IInv, MaskSound, MaskCovers, Holds
<1> QED BY <1>1, Invariance, PTL

\* wspq_pop takes the best key of its bank, and wspq_steal_some with
\* restrict_deeper brings home nothing worse, though others steal meanwhile.
THEOREM PopsTheBest == Spec => []BestKey
<1>1. IInv => BestKey
  BY DEF IInv, BestKey, MaskCovers, StealsBelow, Holds
<1> QED BY <1>1, Invariance, PTL
=============================================================================
