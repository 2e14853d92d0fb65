-------------------------------- MODULE Wspq --------------------------------
(***************************************************************************)
(* src/clang/data/wspq.c: the work-stealing key queue.  Every worker has a *)
(* bank of deques, one per key bucket, and a mask of the buckets that may  *)
(* hold a task; it pushes to and pops from its own bank and steals from    *)
(* the others'.                                                            *)
(*                                                                         *)
(* The deques are the linearisable ones that Wsq implements, a steal of    *)
(* which may fail at any time; the words of the masks are accessed one at  *)
(* a time.  fr[w] is the frame of the queue operation that worker w is in. *)
(* The callers are any: PushCall, PopCall and StealCall begin an operation *)
(* and Return hands its result over.                                       *)
(***************************************************************************)
EXTENDS Integers, Sequences, Functions

CONSTANTS N,         \* ws->n
          Brackets,  \* WSPQ_BRACKETS
          Cap,       \* slots of a deque
          Attempts,  \* WSPQ_STEAL_ATTEMPTS
          Batch,     \* max_batch
          MaxTask    \* bound: tasks pushed in one behaviour

ASSUME WspqAssumption ==
  /\ N \in Nat \ {0} /\ Brackets \in Nat \ {0} /\ Cap \in Nat \ {0}
  /\ Attempts \in Nat /\ Batch \in Nat \ {0} /\ MaxTask \in Nat

Workers == 0..(N - 1)
Buckets == 0..(Brackets - 1)
Tasks   == 1..MaxTask

VARIABLES bank,     \* bank[w][c]: the deque of bucket c, oldest task first
          mask,     \* bank[w].nonempty
          cursor,   \* cursor[w]: where worker w looks first, modulo N
          fr,       \* fr[w]: the operation worker w is in, and its locals
          pushed,   \* history: number of tasks pushed by the callers
          takes     \* history: how often each task was returned by a pop

vars  == <<bank, mask, cursor, fr, pushed, takes>>

\* op: where the operation is; b: its bucket; x: the task in hand; m: the
\* local mask; k: victims tried; from: the victim, w itself when none;
\* got: tasks stolen; t: banks that the deadlock test found full; deeper: the
\* argument restrict_deeper.
Free(w) == [op |-> "none", b |-> 0, x |-> 0, m |-> {}, k |-> 0, from |-> w,
            got |-> 0, t |-> 0, deeper |-> FALSE]

Init ==
  /\ bank = [w \in Workers |-> [c \in Buckets |-> <<>>]]
  /\ mask = [w \in Workers |-> {}]
  /\ cursor = [w \in Workers |-> (w + 1) % N]
  /\ fr = [w \in Workers |-> Free(w)]
  /\ pushed = 0
  /\ takes = [k \in Tasks |-> 0]

\* A slip: the last key is one too far.
BucketOneMore(key) == IF key > Brackets THEN Brackets - 1 ELSE key

\* wspq_key_bucket
Bucket(key) == IF key >= Brackets THEN Brackets - 1 ELSE key
Full(w, c) == Len(bank[w][c]) >= Cap
\* wspq_lsb64
Lowest(c, S) == c \in S /\ \A d \in S : c <= d
Put(w, c, x) == bank' = [bank EXCEPT ![w][c] = Append(@, x)]
history == <<pushed, takes>>

-----------------------------------------------------------------------------
(* wspq_push.                                                              *)

PushCall(w, key, task) ==
  /\ fr[w].op = "none"
  /\ task # 0
  /\ fr' = [fr EXCEPT ![w] = [@ EXCEPT !.op = "push", !.b = Bucket(key), !.x = task]]
  /\ UNCHANGED <<bank, mask, cursor>>

PushWrite(w) ==
  /\ fr[w].op = "push"
  /\ ~Full(w, fr[w].b)
  /\ Put(w, fr[w].b, fr[w].x)
  /\ fr' = [fr EXCEPT ![w] = [@ EXCEPT !.op = "mask", !.x = 0]]
  /\ UNCHANGED <<mask, cursor, history>>

\* wspq_mask_set; the push returns to the caller or to the steal it is part of.
MaskSet(w) ==
  /\ fr[w].op = "mask"
  /\ mask' = [mask EXCEPT ![w] = @ \cup {fr[w].b}]
  /\ IF fr[w].from = w
     THEN fr' = [fr EXCEPT ![w] = Free(w)]
     ELSE fr' = [fr EXCEPT ![w] = [@ EXCEPT !.op = "take", !.got = fr[w].got + 1]]
  /\ UNCHANGED <<bank, cursor, history>>

\* The bucket is full: once in a period of spins, look at every bank, one
\* after the other.
FullCheck(w) ==
  /\ fr[w].op = "push"
  /\ Full(w, fr[w].b)
  /\ fr' = [fr EXCEPT ![w] = [@ EXCEPT !.op = "full", !.t = 0]]
  /\ UNCHANGED <<bank, mask, cursor, history>>

\* The bank of another worker may look full when it is not: bot is loaded before
\* top, and their unsigned difference wraps when its owner is popping from an
\* empty bucket, or when top passes the value loaded of bot.  That it may at any
\* time is more than the code allows.
LooksFull(w, t, c) == Full(t, c) \/ t # w

FullYes(w) ==
  /\ fr[w].op = "full" /\ fr[w].t < N
  /\ LooksFull(w, fr[w].t, fr[w].b)
  /\ fr' = [fr EXCEPT ![w].t = @ + 1]
  /\ UNCHANGED <<bank, mask, cursor, history>>

FullNo(w) ==
  /\ fr[w].op = "full" /\ fr[w].t < N
  /\ ~Full(fr[w].t, fr[w].b)
  /\ fr' = [fr EXCEPT ![w] = [@ EXCEPT !.op = "push", !.t = 0]]
  /\ UNCHANGED <<bank, mask, cursor, history>>

\* "wspq deadlock detected": the process exits, with all its threads.
Crash(w) ==
  /\ fr[w].op = "full" /\ fr[w].t = N
  /\ fr' = [v \in Workers |-> [fr[v] EXCEPT !.op = "dead"]]
  /\ UNCHANGED <<bank, mask, cursor, history>>

-----------------------------------------------------------------------------
(* wspq_pop.                                                               *)

PopCall(w) ==
  /\ fr[w].op = "none"
  /\ fr' = [fr EXCEPT ![w] = [@ EXCEPT !.op = "pop", !.m = mask[w]]]
  /\ UNCHANGED <<bank, mask, cursor>>

\* One worker alone takes the oldest task of the bucket, several the newest.
Taken(q) == IF N = 1 THEN Head(q) ELSE q[Len(q)]
Left(q) == IF N = 1 THEN Tail(q) ELSE SubSeq(q, 1, Len(q) - 1)

\* A slip: the worst key first.
PopTakeWorst(w) ==
  /\ fr[w].op = "pop"
  /\ \E c \in fr[w].m :
       /\ \A d \in fr[w].m : d <= c
       /\ bank[w][c] # <<>>
       /\ fr' = [fr EXCEPT ![w] = [@ EXCEPT !.op = "popped", !.b = c,
                                            !.x = Taken(bank[w][c]), !.m = {}]]
       /\ bank' = [bank EXCEPT ![w][c] = Left(@)]
  /\ UNCHANGED <<mask, cursor, history>>

PopTake(w) ==
  /\ fr[w].op = "pop"
  /\ \E c \in fr[w].m :
       /\ Lowest(c, fr[w].m)
       /\ bank[w][c] # <<>>
       /\ fr' = [fr EXCEPT ![w] = [@ EXCEPT !.op = "popped", !.b = c,
                                            !.x = Taken(bank[w][c]), !.m = {}]]
       /\ bank' = [bank EXCEPT ![w][c] = Left(@)]
  /\ UNCHANGED <<mask, cursor, history>>

PopMiss(w) ==
  /\ fr[w].op = "pop"
  /\ \E c \in fr[w].m :
       /\ Lowest(c, fr[w].m)
       /\ bank[w][c] = <<>>
       /\ fr' = [fr EXCEPT ![w] = [@ EXCEPT !.op = "clear", !.b = c]]
  /\ UNCHANGED <<bank, mask, cursor, history>>

\* A slip: the whole mask is cleared.
MaskClearAll(w) ==
  /\ fr[w].op = "clear"
  /\ mask' = [mask EXCEPT ![w] = {}]
  /\ fr' = [fr EXCEPT ![w] = [@ EXCEPT !.op = "pop", !.m = fr[w].m \ {fr[w].b}]]
  /\ UNCHANGED <<bank, cursor, history>>

MaskClear(w) ==
  /\ fr[w].op = "clear"
  /\ mask' = [mask EXCEPT ![w] = @ \ {fr[w].b}]
  /\ fr' = [fr EXCEPT ![w] = [@ EXCEPT !.op = "pop", !.m = fr[w].m \ {fr[w].b}]]
  /\ UNCHANGED <<bank, cursor, history>>

PopNone(w) ==
  /\ fr[w].op = "pop" /\ fr[w].m = {}
  /\ fr' = [fr EXCEPT ![w] = [@ EXCEPT !.op = "nothing", !.b = 0]]
  /\ UNCHANGED <<bank, mask, cursor, history>>

-----------------------------------------------------------------------------
(* wspq_steal_some.                                                        *)

\* The buckets a steal may take from: with deeper, those below the worker's
\* own best one.
Allowed(w, deeper) ==
  {c \in Buckets : deeper => \A d \in mask[w] : c < d}

StealCall(w, deeper) ==
  /\ fr[w].op = "none"
  /\ fr' = [fr EXCEPT ![w] = [@ EXCEPT !.op = IF N > 1 THEN "look" ELSE "stolen",
                                       !.m = Allowed(w, deeper), !.deeper = deeper]]
  /\ UNCHANGED <<bank, mask, cursor>>

Victim(w) == (cursor[w] + fr[w].k) % N

StealSkip(w) ==
  /\ fr[w].op = "look" /\ fr[w].k < Attempts
  /\ Victim(w) = w \/ mask[Victim(w)] \cap fr[w].m = {}
  /\ fr' = [fr EXCEPT ![w].k = @ + 1]
  /\ UNCHANGED <<bank, mask, cursor, history>>

StealPick(w) ==
  /\ fr[w].op = "look" /\ fr[w].k < Attempts
  /\ Victim(w) # w
  /\ \E c \in Buckets :
       /\ Lowest(c, mask[Victim(w)] \cap fr[w].m)
       /\ fr' = [fr EXCEPT ![w] = [@ EXCEPT !.op = "take", !.from = Victim(w), !.b = c]]
  /\ UNCHANGED <<bank, mask, cursor, history>>

\* A slip: the thief takes the task without its CAS on top.
StealTakeUnraced(w) ==
  /\ fr[w].op = "take" /\ fr[w].got < Batch
  /\ bank[fr[w].from][fr[w].b] # <<>>
  /\ fr' = [fr EXCEPT ![w] = [@ EXCEPT !.op = "push",
                                       !.x = Head(bank[fr[w].from][fr[w].b])]]
  /\ UNCHANGED <<bank, mask, cursor, history>>

StealTake(w) ==
  /\ fr[w].op = "take" /\ fr[w].got < Batch
  /\ LET v == fr[w].from
         c == fr[w].b
     IN /\ bank[v][c] # <<>>
        /\ fr' = [fr EXCEPT ![w] = [@ EXCEPT !.op = "push", !.x = Head(bank[v][c])]]
        /\ bank' = [bank EXCEPT ![v][c] = Tail(@)]
  /\ UNCHANGED <<mask, cursor, history>>

\* The steal returns got.
Stolen(w) ==
  fr' = [fr EXCEPT ![w] = [Free(w) EXCEPT !.op = "stolen", !.got = fr[w].got]]

\* The batch is complete, or wsq_steal found the deque empty or lost a race.
StealStop(w) ==
  /\ fr[w].op = "take" /\ fr[w].got > 0
  /\ Stolen(w)
  /\ cursor' = [cursor EXCEPT ![w] = (fr[w].from + 1) % N]
  /\ UNCHANGED <<bank, mask, history>>

\* A slip: a thief that finds nothing clears the bit of the victim.
StealMissClears(w) ==
  /\ fr[w].op = "take" /\ fr[w].got = 0
  /\ fr' = [fr EXCEPT ![w] = [@ EXCEPT !.op = "look", !.from = w, !.k = fr[w].k + 1]]
  /\ mask' = [mask EXCEPT ![fr[w].from] = @ \ {fr[w].b}]
  /\ UNCHANGED <<bank, cursor, history>>

StealMiss(w) ==
  /\ fr[w].op = "take" /\ fr[w].got = 0
  /\ fr' = [fr EXCEPT ![w] = [@ EXCEPT !.op = "look", !.from = w, !.k = fr[w].k + 1]]
  /\ UNCHANGED <<bank, mask, cursor, history>>

StealNone(w) ==
  /\ fr[w].op = "look" /\ fr[w].k = Attempts
  /\ Stolen(w)
  /\ cursor' = [cursor EXCEPT ![w] = (@ + Attempts) % N]
  /\ UNCHANGED <<bank, mask, history>>

-----------------------------------------------------------------------------
Step(w) ==
  \/ PushWrite(w) \/ MaskSet(w)
  \/ FullCheck(w) \/ FullYes(w) \/ FullNo(w) \/ Crash(w)
  \/ PopTake(w) \/ PopMiss(w) \/ MaskClear(w) \/ PopNone(w)
  \/ StealSkip(w) \/ StealPick(w) \/ StealTake(w)
  \/ StealStop(w) \/ StealMiss(w) \/ StealNone(w)

\* The result of a pop or of a steal is handed to the caller.
Return(w) ==
  /\ fr[w].op \in {"popped", "nothing", "stolen"}
  /\ fr' = [fr EXCEPT ![w] = Free(w)]
  /\ UNCHANGED <<bank, mask, cursor>>

\* Any worker calls any operation with any argument.
AnyPush(w) ==
  /\ pushed < MaxTask
  /\ \E key \in 0..Brackets : PushCall(w, key, pushed + 1)
  /\ pushed' = pushed + 1
  /\ UNCHANGED takes

AnyPop(w) == PopCall(w) /\ UNCHANGED history
AnySteal(w) == \E deeper \in BOOLEAN : StealCall(w, deeper) /\ UNCHANGED history

AnyReturn(w) ==
  /\ Return(w)
  /\ takes' = IF fr[w].op = "popped" THEN [takes EXCEPT ![fr[w].x] = @ + 1]
              ELSE takes
  /\ UNCHANGED pushed

Call(w) == AnyPush(w) \/ AnyPop(w) \/ AnySteal(w) \/ AnyReturn(w)

Crashed == \E w \in Workers : fr[w].op = "dead"
Exited == Crashed /\ UNCHANGED vars

Next == (\E w \in Workers : Call(w) \/ Step(w)) \/ Exited

Spec == Init /\ [][Next]_vars

-----------------------------------------------------------------------------
(* Correctness.                                                            *)

Ops == {"none", "push", "mask", "full", "pop", "clear", "popped", "nothing",
        "look", "take", "stolen", "dead"}

TypeOK ==
  /\ bank \in [Workers -> [Buckets -> Seq(Tasks)]]
  /\ mask \in [Workers -> SUBSET Buckets]
  /\ cursor \in [Workers -> Workers]
  /\ fr \in [Workers -> [op : Ops, b : Buckets, x : Tasks \cup {0},
                         m : SUBSET Buckets, k : Nat, from : Workers,
                         got : Nat, t : 0..N, deeper : BOOLEAN]]
  /\ pushed \in 0..MaxTask
  /\ takes \in [Tasks -> Nat]

\* The places of a task: a bucket, or the hand of a worker.
Kept(w, c) == Range(bank[w][c])
Hand(w) == fr[w].x
Somewhere(k) == \/ \E w \in Workers, c \in Buckets : k \in Kept(w, c)
                \/ \E w \in Workers : Hand(w) = k

\* No task is lost and none duplicated, whatever is pushed, popped and stolen
\* at the same time: a task is in one slot, or in one hand, or was handed out
\* once; the buckets never hold more than their capacity.
ExactlyOnce ==
  /\ \A w \in Workers, c \in Buckets : Len(bank[w][c]) <= Cap /\ IsInjective(bank[w][c])
  /\ \A w, v \in Workers, c, d \in Buckets :
       Kept(w, c) \cap Kept(v, d) # {} => w = v /\ c = d
  /\ \A w, v \in Workers : Hand(w) # 0 /\ Hand(w) = Hand(v) => w = v
  /\ \A w, v \in Workers, c \in Buckets : Hand(w) \notin Kept(v, c)
  /\ \A k \in Tasks :
       \/ k > pushed /\ takes[k] = 0 /\ ~Somewhere(k)
       \/ k <= pushed /\ takes[k] = 1 /\ ~Somewhere(k)
       \/ k <= pushed /\ takes[k] = 0 /\ Somewhere(k)

\* The mask is a sound hint: a task can only be in a bucket of the mask, or in
\* the one whose bit its owner is about to set; so a worker whose pop finds
\* nothing has nothing, which is what it then tells the termination counter.
MaskSound ==
  \A w \in Workers : fr[w].op # "dead" =>
    /\ \A c \in Buckets : bank[w][c] # <<>> =>
         c \in mask[w] \/ (fr[w].op = "mask" /\ fr[w].b = c)
    /\ fr[w].op = "nothing" => \A c \in Buckets : bank[w][c] = <<>>

\* Local pops take the best key: no bucket under the one that was popped has a
\* task, though thieves work on it; and a worker that still has tasks only
\* steals tasks that are no worse than all of its own.
BestKey ==
  \A w \in Workers, c \in Buckets :
    /\ fr[w].op = "popped" /\ bank[w][c] # <<>> => fr[w].b <= c
    /\ fr[w].deeper /\ fr[w].from # w /\ bank[w][c] # <<>> => fr[w].b <= c

-----------------------------------------------------------------------------
(* The inductive invariant of WspqProofs.                                  *)

Holds(w, c) == bank[w][c] # <<>>

\* The mask covers the bank; so does what is left of the copy a pop walks
\* through, which is why the first task it finds has the best key.
MaskCovers(w) ==
  /\ fr[w].op # "dead" => \A c \in Buckets :
       Holds(w, c) => c \in mask[w] \/ (fr[w].op = "mask" /\ fr[w].b = c)
  /\ fr[w].op \in {"pop", "clear"} => \A c \in Buckets : Holds(w, c) => c \in fr[w].m
  /\ fr[w].op = "clear" => ~Holds(w, fr[w].b)
  /\ fr[w].op = "nothing" => \A c \in Buckets : ~Holds(w, c)
  /\ fr[w].op = "popped" => \A c \in Buckets : Holds(w, c) => fr[w].b <= c

\* A restricted steal looks only below what the thief has, and then fills the
\* one bucket it found.
StealsBelow(w) ==
  /\ fr[w].op = "none" => fr[w] = Free(w)
  /\ fr[w].from # w => fr[w].op \in {"take", "push", "full", "mask", "dead"}
  /\ fr[w].op = "look" => fr[w].got = 0
  /\ fr[w].op \in {"look", "take"} /\ fr[w].got = 0 /\ fr[w].deeper =>
       \A c \in fr[w].m, d \in Buckets : Holds(w, d) => c < d
  /\ fr[w].deeper /\ fr[w].from # w =>
       \A d \in Buckets : Holds(w, d) => fr[w].b <= d

\* A worker has a task in its hand from the call of a push until it is written,
\* and from the success of a pop or a steal until it is handed on.
TaskInHand(w) ==
  /\ fr[w].op \in {"push", "full"} => fr[w].x \in Tasks
  /\ fr[w].op \notin {"push", "full", "popped", "dead"} => fr[w].x = 0

IInv ==
  /\ TypeOK /\ ExactlyOnce
  /\ \A w \in Workers : TaskInHand(w) /\ MaskCovers(w) /\ StealsBelow(w)
=============================================================================
