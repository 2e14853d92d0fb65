----------------------------- MODULE Normalize -----------------------------
(***************************************************************************)
(* src/clang/eval/normalize.c: parallel normalization.  N workers traverse *)
(* the heap from Root; each evaluates a location, pushes the locations     *)
(* under it to its own deque and steals from the others when it runs dry.  *)
(* The workers stop when the counter pending of active workers is zero.    *)
(*                                                                         *)
(* The heap is abstracted to Kids: Kids[l] holds the locations under the   *)
(* weak normal form that wnf_at(l) leaves in l (the cell of the duplication*)
(* for DP0 and DP1, the arguments otherwise).  A deque is the sequence it  *)
(* holds, as Wsq implements it: an operation takes effect at one instant,  *)
(* but a thief may look while the owner is in the middle of a pop, and its *)
(* steal fails when another thread moved top after its snapshot.           *)
(***************************************************************************)
EXTENDS Integers, Sequences, FiniteSets, Functions

CONSTANTS N,        \* number of workers
          Cap,      \* capacity of a deque
          Locs,     \* the heap locations
          Root,     \* the location that eval_normalize allocates
          Kids      \* the locations under the value of a location, 0 for none

ASSUME NormalizeAssumption ==
  /\ N \in Nat \ {0}
  /\ Cap \in Nat \ {0}
  /\ 0 \notin Locs /\ Root \in Locs
  /\ Kids \in [Locs -> Seq(Locs \cup {0})]

Workers == 0..(N - 1)

VARIABLES pending,  \* ctx->pending
          dq,       \* dq[w]: ctx->W[w].dq, oldest task first
          seen,     \* ctx->seen
          done,     \* locations whose evaluation has finished
          pc,       \* pc[w]: the next step of worker w
          active,   \* the worker's local active
          start, k, \* the worker's locals in the scan for a victim
          fresh,    \* fresh[w]: top of the victim is still w's snapshot of it
          loc,      \* the argument of eval_normalize_go
          frames    \* the enqueue loops it is in, innermost last: <<l, i>>

vars == <<pending, dq, seen, done, pc, active, start, k, fresh, loc, frames>>
scanning == <<start, k, fresh>>
going == <<loc, frames>>

Init ==
  /\ pending = N
  /\ dq = [w \in Workers |-> IF w = 0 THEN <<Root>> ELSE <<>>]
  /\ seen = {} /\ done = {}
  /\ pc = [w \in Workers |-> "poll"]
  /\ active = [w \in Workers |-> TRUE]
  /\ start = [w \in Workers |-> 0]
  /\ k = [w \in Workers |-> 0]
  /\ fresh = [w \in Workers |-> FALSE]
  /\ loc = [w \in Workers |-> 0]
  /\ frames = [w \in Workers |-> <<>>]

Goto(w, step) == pc' = [pc EXCEPT ![w] = step]
Victim(w) == (start[w] + k[w]) % N

\* A thread moved top of v's deque: the CAS of every snapshot will fail.
TopMoves(v) ==
  fresh' = [u \in Workers |-> fresh[u] /\ Victim(u) # v]

-----------------------------------------------------------------------------
(* The worker's loop: stop, or take a task of its own.                     *)

\* A slip: the last active worker counts itself out twice.
StopEarly(w) ==
  /\ pc[w] = "poll" /\ pending <= 1
  /\ Goto(w, "exited")
  /\ UNCHANGED <<pending, dq, seen, done, active, scanning, going>>

Stop(w) ==
  /\ pc[w] = "poll" /\ pending = 0
  /\ Goto(w, "exited")
  /\ UNCHANGED <<pending, dq, seen, done, active, scanning, going>>

Poll(w) ==
  /\ pc[w] = "poll" /\ pending # 0
  /\ Goto(w, "popping")
  /\ UNCHANGED <<pending, dq, seen, done, active, scanning, going>>

\* A slip: the last task is popped without the CAS on top.
PopTaskUnraced(w) ==
  /\ pc[w] = "popping" /\ dq[w] # <<>>
  /\ loc' = [loc EXCEPT ![w] = dq[w][Len(dq[w])]]
  /\ dq' = [dq EXCEPT ![w] = SubSeq(@, 1, Len(@) - 1)]
  /\ Goto(w, "visit")
  /\ UNCHANGED <<pending, seen, done, active, scanning, frames>>

PopTask(w) ==
  /\ pc[w] = "popping" /\ dq[w] # <<>>
  /\ loc' = [loc EXCEPT ![w] = dq[w][Len(dq[w])]]
  /\ dq' = [dq EXCEPT ![w] = SubSeq(@, 1, Len(@) - 1)]
  /\ IF Len(dq[w]) = 1 THEN TopMoves(w) ELSE UNCHANGED fresh
  /\ Goto(w, "visit")
  /\ UNCHANGED <<pending, seen, done, active, start, k, frames>>

PopNothing(w) ==
  /\ pc[w] = "popping" /\ dq[w] = <<>>
  /\ \E s \in Workers : start' = [start EXCEPT ![w] = s]
  /\ Goto(w, "scan")
  /\ UNCHANGED <<pending, dq, seen, done, active, k, fresh, going>>

-----------------------------------------------------------------------------
(* The scan for a victim.                                                  *)

\* The tasks a thread can see in v's deque: wsq_pop hides the last one while
\* it decides.
Visible(v) == IF pc[v] = "popping" THEN Len(dq[v]) - 1 ELSE Len(dq[v])

\* wsq_can_steal loads top, then bot.  If a pop of the last task is decided in
\* between, it compares the old top with the restored bot and says yes.
MaySee(v) == dq[v] # <<>>

\* start and k live for one scan.
EndScan(w) == start' = [start EXCEPT ![w] = 0] /\ k' = [k EXCEPT ![w] = 0]
NextVictim(w) == k' = [k EXCEPT ![w] = @ + 1]

\* A slip: continue before the increment of k, as in a while loop.
SkipNobody(w) ==
  /\ pc[w] = "scan" /\ k[w] < N - 1
  /\ Victim(w) = w \/ Visible(Victim(w)) <= 0
  /\ UNCHANGED vars

\* This victim is w itself, or wsq_can_steal says no.
Skip(w) ==
  /\ pc[w] = "scan" /\ k[w] < N - 1
  /\ Victim(w) = w \/ Visible(Victim(w)) <= 0
  /\ NextVictim(w)
  /\ UNCHANGED <<pending, dq, seen, done, pc, active, start, fresh, going>>

\* A slip: an idle worker steals without counting itself in.
SpotUncounted(w) ==
  /\ pc[w] = "scan" /\ k[w] < N - 1
  /\ Victim(w) # w /\ MaySee(Victim(w))
  /\ Goto(w, "steal")
  /\ UNCHANGED <<pending, dq, seen, done, active, scanning, going>>

\* wsq_can_steal says yes.
Spot(w) ==
  /\ pc[w] = "scan" /\ k[w] < N - 1
  /\ Victim(w) # w /\ MaySee(Victim(w))
  /\ Goto(w, IF active[w] THEN "steal" ELSE "enter")
  /\ UNCHANGED <<pending, dq, seen, done, active, scanning, going>>

Enter(w) ==
  /\ pc[w] = "enter"
  /\ pending' = pending + 1
  /\ active' = [active EXCEPT ![w] = TRUE]
  /\ Goto(w, "steal")
  /\ UNCHANGED <<dq, seen, done, scanning, going>>

\* wsq_steal up to its test: the snapshot of top, then bot.
StealLook(w) ==
  /\ pc[w] = "steal" /\ Visible(Victim(w)) > 0
  /\ fresh' = [fresh EXCEPT ![w] = TRUE]
  /\ Goto(w, "cas")
  /\ UNCHANGED <<pending, dq, seen, done, active, start, k, going>>

StealEmpty(w) ==
  /\ pc[w] = "steal" /\ Visible(Victim(w)) <= 0
  /\ NextVictim(w)
  /\ Goto(w, "scan")
  /\ UNCHANGED <<pending, dq, seen, done, active, start, fresh, going>>

StealWin(w) ==
  /\ pc[w] = "cas" /\ fresh[w]
  /\ loc' = [loc EXCEPT ![w] = Head(dq[Victim(w)])]
  /\ dq' = [dq EXCEPT ![Victim(w)] = Tail(@)]
  /\ TopMoves(Victim(w))
  /\ EndScan(w)
  /\ Goto(w, "visit")
  /\ UNCHANGED <<pending, seen, done, active, frames>>

StealLose(w) ==
  /\ pc[w] = "cas" /\ ~fresh[w]
  /\ NextVictim(w)
  /\ Goto(w, "scan")
  /\ UNCHANGED <<pending, dq, seen, done, active, start, fresh, going>>

\* Slips: pending goes down on every empty scan; active is left set.
RetireTwice(w) ==
  /\ pc[w] = "scan" /\ k[w] >= N - 1
  /\ pending' = pending - 1
  /\ active' = [active EXCEPT ![w] = FALSE]
  /\ EndScan(w)
  /\ Goto(w, "poll")
  /\ UNCHANGED <<dq, seen, done, fresh, going>>
RetireActive(w) ==
  /\ pc[w] = "scan" /\ k[w] >= N - 1
  /\ pending' = IF active[w] THEN pending - 1 ELSE pending
  /\ EndScan(w)
  /\ Goto(w, "poll")
  /\ UNCHANGED <<dq, seen, done, active, fresh, going>>

\* No victim gave a task.
Retire(w) ==
  /\ pc[w] = "scan" /\ k[w] >= N - 1
  /\ pending' = IF active[w] THEN pending - 1 ELSE pending
  /\ active' = [active EXCEPT ![w] = FALSE]
  /\ EndScan(w)
  /\ Goto(w, "poll")
  /\ UNCHANGED <<dq, seen, done, fresh, going>>

-----------------------------------------------------------------------------
(* eval_normalize_go and eval_normalize_enqueue.                           *)

\* The call returns to the enqueue loop that made it, or to the worker.
Forget(w) == loc' = [loc EXCEPT ![w] = 0]
Return(w) ==
  /\ Goto(w, IF frames[w] = <<>> THEN "poll" ELSE "enqueue")
  /\ Forget(w)
  /\ UNCHANGED frames

VisitSeen(w) ==
  /\ pc[w] = "visit"
  /\ loc[w] = 0 \/ loc[w] \in seen
  /\ Return(w)
  /\ UNCHANGED <<pending, dq, seen, done, active, scanning>>

\* A slip: the membership test and the insertion of uset_add fall apart.
VisitNewUnclaimed(w) ==
  /\ pc[w] = "visit"
  /\ loc[w] # 0
  /\ seen' = seen \cup {loc[w]}
  /\ Goto(w, "eval")
  /\ UNCHANGED <<pending, dq, done, active, scanning, going>>

\* uset_add, an atomic fetch_or.
VisitNew(w) ==
  /\ pc[w] = "visit"
  /\ loc[w] # 0 /\ loc[w] \notin seen
  /\ seen' = seen \cup {loc[w]}
  /\ Goto(w, "eval")
  /\ UNCHANGED <<pending, dq, done, active, scanning, going>>

\* wnf_at, and the test of the arity of the term it returns.
Evaluate(w) ==
  /\ pc[w] = "eval"
  /\ done' = done \cup {loc[w]}
  /\ IF Kids[loc[w]] = <<>>
     THEN Return(w)
     ELSE /\ frames' = [frames EXCEPT ![w] = Append(@, <<loc[w], Len(Kids[loc[w]])>>)]
          /\ Goto(w, "enqueue")
          /\ Forget(w)
  /\ UNCHANGED <<pending, dq, seen, active, scanning>>

Frame(w) == frames[w][Len(frames[w])]
NextKid(w) == Kids[Frame(w)[1]][Frame(w)[2]]
Outer(w) == SubSeq(frames[w], 1, Len(frames[w]) - 1)
Advanced(w) == Append(Outer(w), <<Frame(w)[1], Frame(w)[2] - 1>>)

EnqueuePush(w) ==
  /\ pc[w] = "enqueue" /\ Frame(w)[2] > 1
  /\ Len(dq[w]) < Cap
  /\ dq' = [dq EXCEPT ![w] = Append(@, NextKid(w))]
  /\ frames' = [frames EXCEPT ![w] = Advanced(w)]
  /\ UNCHANGED <<pending, seen, done, pc, active, scanning, loc>>

\* The deque is full: the location is visited at once, by a recursive call.
EnqueueInline(w) ==
  /\ pc[w] = "enqueue" /\ Frame(w)[2] > 1
  /\ Len(dq[w]) >= Cap
  /\ loc' = [loc EXCEPT ![w] = NextKid(w)]
  /\ frames' = [frames EXCEPT ![w] = Advanced(w)]
  /\ Goto(w, "visit")
  /\ UNCHANGED <<pending, dq, seen, done, active, scanning>>

\* The loop is over: go on with the first location under the term.
EnqueueLast(w) ==
  /\ pc[w] = "enqueue" /\ Frame(w)[2] = 1
  /\ loc' = [loc EXCEPT ![w] = NextKid(w)]
  /\ frames' = [frames EXCEPT ![w] = Outer(w)]
  /\ Goto(w, "visit")
  /\ UNCHANGED <<pending, dq, seen, done, active, scanning>>

-----------------------------------------------------------------------------
Own(w) == Stop(w) \/ Poll(w) \/ PopTask(w) \/ PopNothing(w)
Scan(w) == \/ Skip(w) \/ Spot(w) \/ Enter(w) \/ StealLook(w) \/ StealEmpty(w)
           \/ StealWin(w) \/ StealLose(w) \/ Retire(w)
Go(w) == \/ VisitSeen(w) \/ VisitNew(w) \/ Evaluate(w)
         \/ EnqueuePush(w) \/ EnqueueInline(w) \/ EnqueueLast(w)

Worker(w) == Own(w) \/ Scan(w) \/ Go(w)
Halted == \A w \in Workers : pc[w] = "exited"

\* pthread_join: all workers have returned.
Joined == Halted /\ UNCHANGED vars

Next == (\E w \in Workers : Worker(w)) \/ Joined

Spec == Init /\ [][Next]_vars

\* Every worker is an operating system thread that never blocks.
FairSpec == Spec /\ \A w \in Workers : WF_vars(Worker(w))

-----------------------------------------------------------------------------
(* Correctness.                                                            *)

Steps == {"poll", "popping", "scan", "enter", "steal", "cas",
          "visit", "eval", "enqueue", "exited"}
Idle == {"poll", "popping", "scan", "enter", "exited"}

\* The state's types; pending never goes below zero, and a frame is a position
\* in the locations under an evaluated one.
TypeOK ==
  /\ pending \in Nat
  /\ dq \in [Workers -> Seq(Locs \cup {0})]
  /\ seen \subseteq Locs /\ done \subseteq Locs
  /\ pc \in [Workers -> Steps]
  /\ active \in [Workers -> BOOLEAN]
  /\ start \in [Workers -> Workers] /\ k \in [Workers -> Nat]
  /\ fresh \in [Workers -> BOOLEAN]
  /\ loc \in [Workers -> Locs \cup {0}]
  /\ frames \in [Workers -> Seq(Locs \X Nat)]

\* The counter that decides termination is exactly the number of workers that
\* consider themselves active, and those are all the workers with work: an
\* inactive one has an empty deque and is in no eval_normalize_go.
PendingExact ==
  /\ pending = Cardinality({w \in Workers : active[w]})
  /\ \A w \in Workers : ~active[w] =>
       dq[w] = <<>> /\ frames[w] = <<>> /\ pc[w] \in Idle

\* What normalization owes: the root, and all the locations under those done.
Under(l) == Range(Kids[l]) \ {0}
Due == {Root} \cup UNION {Under(l) : l \in done}

\* No early exit: when the counter reads zero, or some worker has left, every
\* location the result reaches has been evaluated.
NoEarlyExit ==
  (pending = 0 \/ \E w \in Workers : pc[w] = "exited") => Due \subseteq done

\* No location is evaluated twice, by one worker or by two: wnf_at writes back
\* what it read, so a second run would work on a term that is being replaced.
EvaluatedOnce ==
  \A w \in Workers : pc[w] = "eval" =>
    /\ loc[w] \notin done
    /\ \A u \in Workers : pc[u] = "eval" /\ loc[u] = loc[w] => u = w

-----------------------------------------------------------------------------
(* Why: the inductive invariant, which NormalizeProofs proves.             *)

\* The tasks of worker w: in its deque, in hand, and those that its enqueue
\* loops have not reached yet.
Ahead(f) == {Kids[f[1]][i] : i \in 1..f[2]}
Loops(s) == UNION {Ahead(s[j]) : j \in 1..Len(s)}
InHand(w) == IF pc[w] = "visit" THEN {loc[w]} ELSE {}
Tasks(w) == Range(dq[w]) \cup InHand(w) \cup Loops(frames[w])

\* What a worker's step says of its deque, its loops and its activity.
Control ==
  \A w \in Workers :
    /\ pc[w] \notin {"visit", "eval", "enqueue"} => frames[w] = <<>>
    /\ pc[w] = "enqueue" => frames[w] # <<>>
    /\ pc[w] \in {"scan", "enter", "steal", "cas"} => dq[w] = <<>>
    /\ pc[w] = "enter" => ~active[w]
    /\ \A j \in 1..Len(frames[w]) :
         /\ frames[w][j][1] \in done
         /\ frames[w][j][2] \in 1..Len(Kids[frames[w][j][1]])

\* A snapshot of top that is still current is that of a deque with a task.
Snapshots ==
  \A w \in Workers : fresh[w] => pc[w] = "cas" /\ dq[Victim(w)] # <<>>

\* A location is seen from uset_add on and done after wnf_at; in between it is
\* the one that some worker evaluates.
Claims ==
  /\ done \subseteq seen /\ seen \subseteq Due
  /\ \A l \in seen \ done : \E w \in Workers : pc[w] = "eval" /\ loc[w] = l
  /\ \A w \in Workers : pc[w] = "eval" => loc[w] \in seen \ done

\* Nothing that is owed is forgotten, and nothing else is ever a task.
Coverage ==
  /\ \A l \in Due : l \in seen \/ \E w \in Workers : l \in Tasks(w)
  /\ \A w \in Workers : Tasks(w) \subseteq Due \cup {0}

ExitComplete == (\E w \in Workers : pc[w] = "exited") => Due \subseteq done

IInv == /\ TypeOK /\ PendingExact /\ Control /\ Snapshots /\ Claims /\ EvaluatedOnce
        /\ Coverage /\ ExitComplete

\* Every worker returns, even though a late thief may raise pending after it
\* was zero.
Termination == <>Halted

\* Normalization implements the traversal it promises.
T == INSTANCE Traversal WITH halted <- \E w \in Workers : pc[w] = "exited"
TraversalSpec == T!Spec
=============================================================================
