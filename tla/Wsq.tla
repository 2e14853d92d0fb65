-------------------------------- MODULE Wsq --------------------------------
(***************************************************************************)
(* src/clang/data/wsq.c: the Chase-Lev work-stealing deque, one action per *)
(* access to the shared words top, bot and buf.                            *)
(*                                                                         *)
(* One owner thread calls wsq_push and wsq_pop; every thread of Thieves    *)
(* calls wsq_steal.  The accesses interleave in program order, the order   *)
(* the seq_cst fence of wsq_pop, the acquire loads and the release stores  *)
(* are there to give.  A task is the number of the push that brings it, so *)
(* that two tasks are never equal; the counters do not wrap (they are u64) *)
(* because MaxPush bounds them.                                            *)
(***************************************************************************)
EXTENDS Integers, Sequences

CONSTANTS Thieves,  \* the threads that steal
          Cap,      \* slots of the ring (in the code a power of two, so that
                    \* i & mask is i % Cap; nothing else depends on it)
          MaxPush   \* bound: tasks pushed in one behaviour

ASSUME WsqAssumption == Cap \in Nat \ {0} /\ MaxPush \in Nat

VARIABLES top, bot, buf,  \* the shared words of WsDeque
          pc, b, t, x,    \* owner: next access and locals (b is b1 in pop)
          tpc, tt, tx,    \* thieves: next access, locals t and x
          pushed, takes,  \* history: tasks pushed, deliveries of each task
          ret             \* outcome of the owner's last operation

shared == <<top, bot, buf>>
owner  == <<pc, b, t, x>>
thief  == <<tpc, tt, tx>>
vars   == <<top, bot, buf, pc, b, t, x, tpc, tt, tx, pushed, takes, ret>>

Tasks  == 1..MaxPush
Slot(i) == i % Cap

Init ==
  /\ top = 0 /\ bot = 0
  /\ buf = [i \in 0..(Cap - 1) |-> 0]
  /\ pc = "idle" /\ b = 0 /\ t = 0 /\ x = 0
  /\ tpc = [p \in Thieves |-> "idle"]
  /\ tt = [p \in Thieves |-> 0]
  /\ tx = [p \in Thieves |-> 0]
  /\ pushed = 0
  /\ takes = [k \in Tasks |-> 0]
  /\ ret = "none"

Hand(k) == takes' = [takes EXCEPT ![k] = @ + 1]

OwnerReturns == pc' = "idle" /\ b' = 0 /\ t' = 0 /\ x' = 0
ThiefReturns(p) ==
  /\ tpc' = [tpc EXCEPT ![p] = "idle"]
  /\ tt'  = [tt EXCEPT ![p] = 0]
  /\ tx'  = [tx EXCEPT ![p] = 0]

-----------------------------------------------------------------------------
(* wsq_push.  Only the owner writes bot while it runs wsq_push, so the two *)
(* loads may be one step.                                                  *)

\* A slip: the owner keeps one slot free, and reports "full" too early.
PushFullEarly ==
  /\ pc = "idle" /\ pushed < MaxPush
  /\ bot - top >= Cap - 1
  /\ ret' = "full"
  /\ UNCHANGED <<shared, owner, thief, pushed, takes>>

PushFull ==
  /\ pc = "idle" /\ pushed < MaxPush
  /\ bot - top >= Cap
  /\ ret' = "full"
  /\ UNCHANGED <<shared, owner, thief, pushed, takes>>

\* A slip: > for >= in the full test, one task too many.
PushLoadOneMore ==
  /\ pc = "idle" /\ pushed < MaxPush
  /\ bot - top <= Cap
  /\ pc' = "write" /\ b' = bot /\ t' = top
  /\ UNCHANGED <<shared, x, thief, pushed, takes, ret>>

PushLoad ==
  /\ pc = "idle" /\ pushed < MaxPush
  /\ bot - top < Cap
  /\ pc' = "write" /\ b' = bot /\ t' = top
  /\ UNCHANGED <<shared, x, thief, pushed, takes, ret>>

PushWrite ==
  /\ pc = "write"
  /\ buf' = [buf EXCEPT ![Slot(b)] = pushed + 1]
  /\ pc' = "publish"
  /\ UNCHANGED <<top, bot, b, t, x, thief, pushed, takes, ret>>

PushPublish ==
  /\ pc = "publish"
  /\ bot' = b + 1
  /\ pushed' = pushed + 1
  /\ ret' = "pushed"
  /\ OwnerReturns
  /\ UNCHANGED <<top, buf, thief, takes>>

-----------------------------------------------------------------------------
(* wsq_pop.                                                                *)

PopZero ==
  /\ pc = "idle"
  /\ bot = 0
  /\ ret' = "empty"
  /\ UNCHANGED <<shared, owner, thief, pushed, takes>>

\* A slip: no return for b == 0.
PopDecUntested ==
  /\ pc = "idle"
  /\ b' = bot - 1
  /\ bot' = bot - 1
  /\ pc' = "top"
  /\ UNCHANGED <<top, buf, t, x, thief, pushed, takes, ret>>

PopDec ==
  /\ pc = "idle"
  /\ bot # 0
  /\ b' = bot - 1
  /\ bot' = bot - 1
  /\ pc' = "top"
  /\ UNCHANGED <<top, buf, t, x, thief, pushed, takes, ret>>

\* A slip: the last task is taken as if no thief could reach it.
PopManyUnraced ==
  /\ pc = "top" /\ top <= b
  /\ Hand(buf[Slot(b)])
  /\ ret' = "popped"
  /\ OwnerReturns
  /\ UNCHANGED <<shared, thief, pushed>>

\* More than one task was left: no thief can reach the last one.
PopMany ==
  /\ pc = "top" /\ top < b
  /\ Hand(buf[Slot(b)])
  /\ ret' = "popped"
  /\ OwnerReturns
  /\ UNCHANGED <<shared, thief, pushed>>

\* The last task: the owner must race the thieves for it.
PopLast ==
  /\ pc = "top" /\ top = b
  /\ t' = top
  /\ x' = buf[Slot(b)]
  /\ pc' = "cas"
  /\ UNCHANGED <<shared, b, thief, pushed, takes, ret>>

PopNone ==
  /\ pc = "top" /\ top > b
  /\ t' = top
  /\ pc' = "reset"
  /\ ret' = "empty"
  /\ UNCHANGED <<shared, b, x, thief, pushed, takes>>

PopCasWin ==
  /\ pc = "cas" /\ top = t
  /\ top' = t + 1
  /\ Hand(x)
  /\ pc' = "restore"
  /\ ret' = "popped"
  /\ UNCHANGED <<bot, buf, b, t, x, thief, pushed>>

PopCasLose ==
  /\ pc = "cas" /\ top # t
  /\ pc' = "restore"
  /\ ret' = "empty"
  /\ UNCHANGED <<shared, b, t, x, thief, pushed, takes>>

PopRestore ==
  /\ pc = "restore"
  /\ bot' = t + 1
  /\ OwnerReturns
  /\ UNCHANGED <<top, buf, thief, pushed, takes, ret>>

PopReset ==
  /\ pc = "reset"
  /\ bot' = t
  /\ OwnerReturns
  /\ UNCHANGED <<top, buf, thief, pushed, takes, ret>>

-----------------------------------------------------------------------------
(* wsq_steal by thread p.                                                  *)

StealLoadTop(p) ==
  /\ tpc[p] = "idle"
  /\ tpc' = [tpc EXCEPT ![p] = "bot"]
  /\ tt' = [tt EXCEPT ![p] = top]
  /\ UNCHANGED <<shared, owner, tx, pushed, takes, ret>>

StealEmpty(p) ==
  /\ tpc[p] = "bot"
  /\ tt[p] >= bot
  /\ ThiefReturns(p)
  /\ UNCHANGED <<shared, owner, pushed, takes, ret>>

StealLoadBot(p) ==
  /\ tpc[p] = "bot"
  /\ tt[p] < bot
  /\ tpc' = [tpc EXCEPT ![p] = "read"]
  /\ UNCHANGED <<shared, owner, tt, tx, pushed, takes, ret>>

StealRead(p) ==
  /\ tpc[p] = "read"
  /\ tx' = [tx EXCEPT ![p] = buf[Slot(tt[p])]]
  /\ tpc' = [tpc EXCEPT ![p] = "cas"]
  /\ UNCHANGED <<shared, owner, tt, pushed, takes, ret>>

StealCasWin(p) ==
  /\ tpc[p] = "cas" /\ top = tt[p]
  /\ top' = tt[p] + 1
  /\ Hand(tx[p])
  /\ ThiefReturns(p)
  /\ UNCHANGED <<bot, buf, owner, pushed, ret>>

StealCasLose(p) ==
  /\ tpc[p] = "cas" /\ top # tt[p]
  /\ ThiefReturns(p)
  /\ UNCHANGED <<shared, owner, pushed, takes, ret>>

-----------------------------------------------------------------------------
Push == PushFull \/ PushLoad \/ PushWrite \/ PushPublish
Pop == \/ PopZero \/ PopDec \/ PopMany \/ PopLast \/ PopNone
       \/ PopCasWin \/ PopCasLose \/ PopRestore \/ PopReset
Steal(p) == \/ StealLoadTop(p) \/ StealEmpty(p) \/ StealLoadBot(p)
            \/ StealRead(p) \/ StealCasWin(p) \/ StealCasLose(p)

Next == Push \/ Pop \/ \E p \in Thieves : Steal(p)

Spec == Init /\ [][Next]_vars

-----------------------------------------------------------------------------
(* Correctness.                                                            *)

OwnerPC == {"idle", "write", "publish", "top", "cas", "restore", "reset"}
ThiefPC == {"idle", "bot", "read", "cas"}

\* Every index is a counter of its range, bot is never decremented below 0
\* (wsq_pop's b == 0 return), and no task is delivered more than once.
TypeOK ==
  /\ top \in Nat /\ bot \in Nat
  /\ buf \in [0..(Cap - 1) -> 0..MaxPush]
  /\ pc \in OwnerPC /\ b \in Nat /\ t \in Nat /\ x \in 0..MaxPush
  /\ tpc \in [Thieves -> ThiefPC]
  /\ tt \in [Thieves -> Nat]
  /\ tx \in [Thieves -> 0..MaxPush]
  /\ pushed \in 0..MaxPush
  /\ takes \in [Tasks -> 0..1]
  /\ ret \in {"none", "pushed", "full", "popped", "empty"}

\* While wsq_pop runs, bot is one below the tasks it has not given up yet.
Popping == pc \in {"top", "cas", "restore", "reset"}
Bottom  == IF Popping THEN bot + 1 ELSE bot

\* The tasks in the deque, oldest first: the slots from top to Bottom.
Held   == top..(Bottom - 1)
Content == [i \in 1..(Bottom - top) |-> buf[Slot(top + i - 1)]]

\* No task is lost and none delivered twice: a pushed task is either still
\* in exactly one held slot, not delivered, or it was delivered once; the
\* tasks not pushed yet were never delivered.  This is what the CAS of the
\* last task, the copy read before the thief's CAS and the full test of
\* wsq_push must give together.
ExactlyOnce ==
  /\ \A k \in Tasks : takes[k] <= 1
  /\ \A k \in 1..pushed :
       \/ takes[k] = 1 /\ \A i \in Held : buf[Slot(i)] # k
       \/ /\ takes[k] = 0
          /\ \E i \in Held : /\ buf[Slot(i)] = k
                             /\ \A j \in Held : buf[Slot(j)] = k => j = i
  /\ \A k \in (pushed + 1)..MaxPush : takes[k] = 0

\* The indices of the ring: top never passes the bottom and the bottom never
\* laps top, so the u64 difference b - t of wsq_push does not wrap and a push
\* never overwrites a slot that is still held.
Indices ==
  /\ top <= Bottom
  /\ Bottom <= top + Cap
  /\ pc \in {"write", "publish"} => b = bot /\ b - top < Cap /\ pushed < MaxPush
  /\ Popping => b = bot
  /\ pc \in {"cas", "restore"} => t = b
  /\ pc = "reset" => t = b + 1
  /\ pc = "cas" => b <= top /\ x = buf[Slot(b)]
  /\ pc \in {"restore", "reset"} => top = b + 1

\* The held slots carry pushed, undelivered, pairwise different tasks, and
\* every pushed task that was not delivered is in one of them.
Cells ==
  /\ \A i \in Held : buf[Slot(i)] \in 1..pushed /\ takes[buf[Slot(i)]] = 0
  /\ \A i, j \in Held : buf[Slot(i)] = buf[Slot(j)] => i = j
  /\ pc = "publish" => buf[Slot(b)] = pushed + 1
  /\ \A k \in 1..pushed : takes[k] = 1 \/ \E i \in Held : buf[Slot(i)] = k
  /\ \A k \in (pushed + 1)..MaxPush : takes[k] = 0

\* A thief whose snapshot of top is still current has seen a task that is
\* still held, and the copy it made before its CAS is that task.
Snapshots ==
  \A p \in Thieves :
    /\ tt[p] <= top
    /\ tpc[p] \in {"read", "cas"} /\ tt[p] = top => top < Bottom
    /\ tpc[p] = "cas" /\ tt[p] = top => tx[p] = buf[Slot(top)]

\* The inductive invariant of the deque; WsqProofs proves it.
IInv == TypeOK /\ Indices /\ Cells /\ Snapshots

\* The deque implements the linearisable one: every access either stutters or
\* is the instant at which an operation takes effect, pops take the newest
\* task and steals the oldest, and wsq_push reports "full" and wsq_pop "empty"
\* only at an instant at which the deque is full or empty.
D == INSTANCE Deque WITH dq <- Content
DequeSpec == D!Spec
=============================================================================
