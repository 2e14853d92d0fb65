-------------------------------- MODULE Cnf --------------------------------
(***************************************************************************)
(* src/clang/cnf/_.c: the collapsed normal form of a term and the pool in  *)
(* which the fields of a node are collapsed in parallel.                   *)
(*                                                                         *)
(* cnf_at forks one task per field of a node; the tasks, the results and   *)
(* the counter of the tasks that are still out live in the C stack frame   *)
(* of the call, and other workers hold pointers into it.  stack[w] is the  *)
(* C stack of worker w, and a frame is addressed, as in C, by its place in *)
(* it: a frame that returned too early would be written by a late helper.  *)
(*                                                                         *)
(* Kind[l] and Kids[l] are what wnf leaves at the location l: its head and *)
(* the locations under it.  The deques are those that Wsq implements; a    *)
(* steal may fail at any time.                                             *)
(***************************************************************************)
EXTENDS Integers, Sequences, FiniteSets

CONSTANTS N,      \* pool->n
          Cap,    \* capacity of a deque
          Par,    \* CNF_POOL_SPAWN_DEPTH
          Locs, Kind, Kids,
          Lab,    \* Lab[l]: the label of a superposition
          Scenarios  \* bound: which worker may compute the cnf of which term

Workers == 0..(N - 1)

ASSUME CnfAssumption ==
  /\ N \in Nat \ {0} /\ Cap \in Nat \ {0} /\ Par \in Nat
  /\ 0 \notin Locs /\ Scenarios \subseteq [Workers -> Locs \cup {0}]
  /\ Kind \in [Locs -> {"SUP", "INC", "ERA", "LEAF", "LAM", "NODE"}]
  /\ \A l \in Locs : Kids[l] \in Seq(Locs) /\ (Kind[l] = "LAM" => Len(Kids[l]) = 1)

VARIABLES root,    \* root[w]: the term worker w calls cnf for, 0 for none
          dq,      \* dq[w]: pool->dq[w], oldest task first
          pending, \* pool->pending
          active,  \* pool->active
          stack,   \* stack[w]: the calls of cnf_at worker w is in, innermost last
          pool,    \* pool[w]: where worker w is in cnf_pool_try_pop
          res      \* res[w]: what the call of worker w returned

vars == <<root, dq, pending, active, stack, pool, res>>
counter == <<pending, active>>

-----------------------------------------------------------------------------
(* Terms.  A term that is not collapsed is the location it stands at; CPY  *)
(* is one side of the duplication that term_clone makes.                   *)

Term(tag, at, args) == [tag |-> tag, at |-> at, args |-> args]
At(l) == Term("AT", l, <<>>)
Here(l) == Term(Kind[l], IF Kind[l] = "SUP" THEN Lab[l] ELSE l,
                [i \in DOMAIN Kids[l] |-> At(Kids[l][i])])
None == Term("NONE", 0, <<>>)
Era == Term("ERA", 0, <<>>)
Sup(lab, a, b) == Term("SUP", lab, <<a, b>>)
Lam(l, body) == Term("LAM", l, <<body>>)

\* The case LAM, once its body is collapsed.
LiftLam(l, body) ==
  CASE body.tag = "ERA" -> Era
    [] body.tag = "INC" -> [body EXCEPT !.args = <<Lam(l, body.args[1])>>]
    [] body.tag = "SUP" -> Sup(body.at, Lam(l, body.args[1]), Lam(l, body.args[2]))
    [] OTHER -> Lam(l, body)

\* The other nodes: the first superposition among the fields is lifted and the
\* others are cloned.
Erased(out) == \E i \in DOMAIN out : out[i].tag = "ERA"
FirstSup(out, s) == out[s].tag = "SUP" /\ \A i \in 1..(s - 1) : out[i].tag # "SUP"
Clone(lab, side, t) == Term("CPY", <<lab, side>>, <<t>>)

\* A slip: the two copies are swapped.
BranchSwapped(l, out, s, side) ==
  Term("NODE", l, [i \in DOMAIN out |->
    IF i = s THEN out[s].args[side] ELSE Clone(out[s].at, 3 - side, out[i])])

Branch(l, out, s, side) ==
  Term("NODE", l, [i \in DOMAIN out |->
    IF i = s THEN out[s].args[side] ELSE Clone(out[s].at, side, out[i])])

Lift(l, out) ==
  IF Erased(out) THEN Era
  ELSE IF \E s \in DOMAIN out : out[s].tag = "SUP"
  THEN LET s == CHOOSE s \in DOMAIN out : FirstSup(out, s)
       IN Sup(out[s].at, Branch(l, out, s, 1), Branch(l, out, s, 2))
  ELSE Term("NODE", l, out)

-----------------------------------------------------------------------------
(* Frames.  step: where the call is; i: the next field; out: the results   *)
(* of its fields; pend: the counter of its tasks; to: the frame and field  *)
(* that its own result is for, frame 0 for the caller of cnf; task: whether*)
(* the call was made by cnf_task_run.                                      *)

Frame(l, par, to, task) ==
  [loc |-> l, par |-> par, step |-> "enter", i |-> 1,
   out |-> [i \in DOMAIN Kids[l] |-> None], pend |-> 0, to |-> to, task |-> task]

Place(w, d, i) == <<w, d, i>>
Task(l, par, to) == [loc |-> l, par |-> par, to |-> to]

Depth(w) == Len(stack[w])
Top(w) == stack[w][Depth(w)]
Popped(s) == SubSeq(s, 1, Len(s) - 1)
Less(par) == IF par > 0 THEN par - 1 ELSE 0
Free == [op |-> "free", k |-> 0, task |-> Task(0, 0, Place(0, 0, 0))]

\* The innermost call of w is at a step of cnf_at.
On(w, step) == pool[w].op = "free" /\ Depth(w) > 0 /\ Top(w).step = step

Init ==
  /\ root \in Scenarios
  /\ dq = [w \in Workers |-> <<>>]
  /\ pending = IF N > 1 THEN N ELSE 0
  /\ active = [w \in Workers |-> TRUE]
  /\ stack = [w \in Workers |-> <<>>]
  /\ pool = [w \in Workers |-> Free]
  /\ res = [w \in Workers |-> None]

\* The caller calls cnf.
Call(w) ==
  /\ pool[w] = Free /\ stack[w] = <<>>
  /\ root[w] # 0 /\ res[w] = None
  /\ stack' = [stack EXCEPT ![w] = <<Frame(root[w], Par, Place(w, 0, 1), FALSE)>>]
  /\ UNCHANGED <<dq, counter, pool, res>>

\* The stacks once that of w is s.
Stacks(w, s) == [u \in Workers |-> IF u = w THEN s ELSE stack[u]]

\* The innermost call of w returns v, to a caller on the same stack or to
\* cnf_task_run, which stores it in the frame of the fork.
Give(w, v) ==
  LET p == Top(w).to
      s == Popped(stack[w])
  IN IF Top(w).task
     THEN /\ stack' = [Stacks(w, [stack[w] EXCEPT ![Depth(w)].step = "sub"])
                         EXCEPT ![p[1]][p[2]].out[p[3]] = v]
          /\ UNCHANGED <<dq, counter, pool, res>>
     ELSE IF p[2] = 0
     THEN /\ stack' = [stack EXCEPT ![w] = s]
          /\ res' = [res EXCEPT ![w] = v]
          /\ UNCHANGED <<dq, counter, pool>>
     ELSE /\ stack' = [stack EXCEPT ![w] = [s EXCEPT ![p[2]].out[p[3]] = v]]
          /\ UNCHANGED <<dq, counter, pool, res>>

\* cnf_task_run counts the task out.
TaskDone(w) ==
  /\ On(w, "sub")
  /\ LET p == Top(w).to
     IN stack' = [Stacks(w, Popped(stack[w])) EXCEPT ![p[1]][p[2]].pend = @ - 1]
  /\ UNCHANGED <<dq, counter, pool, res>>

\* The innermost call of w goes on at a step, with its next field, and calls
\* cnf_at for a field, or runs the task of it.
Next_i(w, step, i) == [Top(w) EXCEPT !.step = step, !.i = i]
Continue(w, f) == [stack EXCEPT ![w] = Append(Popped(@), f)]
Field(w, i) == Kids[Top(w).loc][i]
ForField(w, i) == Place(w, Depth(w), i)
Enter(w, f, i, task) ==
  [stack EXCEPT ![w] = Popped(@) \o
     <<f, Frame(Field(w, i), Less(Top(w).par), ForField(w, i), task)>>]

-----------------------------------------------------------------------------
(* cnf_at.                                                                 *)

Is(w, kinds) == Kind[Top(w).loc] \in kinds
Arity(w) == Len(Kids[Top(w).loc])

Value(w) ==
  /\ On(w, "enter") /\ Is(w, {"LEAF", "ERA", "SUP", "INC"})
  /\ Give(w, Here(Top(w).loc))

LamBody(w) ==
  /\ On(w, "enter") /\ Is(w, {"LAM"})
  /\ stack' = Enter(w, Next_i(w, "lam", 2), 1, FALSE)
  /\ UNCHANGED <<dq, counter, pool, res>>

LamDone(w) ==
  /\ On(w, "lam")
  /\ Give(w, LiftLam(Top(w).loc, Top(w).out[1]))

Parallel(w) == N > 1 /\ Arity(w) > 1 /\ Top(w).par > 0

NodeSeq(w) ==
  /\ On(w, "enter") /\ Is(w, {"NODE"}) /\ ~Parallel(w)
  /\ stack' = Continue(w, Next_i(w, "seq", 1))
  /\ UNCHANGED <<dq, counter, pool, res>>

\* A slip: the counter is set to the tasks that others may take.
NodeParOneLess(w) ==
  /\ On(w, "enter") /\ Is(w, {"NODE"}) /\ Parallel(w)
  /\ stack' = Continue(w, [Next_i(w, "spawn", 1) EXCEPT !.pend = Arity(w) - 1])
  /\ UNCHANGED <<dq, counter, pool, res>>

NodePar(w) ==
  /\ On(w, "enter") /\ Is(w, {"NODE"}) /\ Parallel(w)
  /\ stack' = Continue(w, [Next_i(w, "spawn", 1) EXCEPT !.pend = Arity(w)])
  /\ UNCHANGED <<dq, counter, pool, res>>

\* The loop over the fields ends at the first that is erased.
ErasedLast(w) == Top(w).i > 1 /\ Top(w).out[Top(w).i - 1].tag = "ERA"

SeqField(w) ==
  /\ On(w, "seq") /\ Top(w).i <= Arity(w) /\ ~ErasedLast(w)
  /\ stack' = Enter(w, Next_i(w, "seq", Top(w).i + 1), Top(w).i, FALSE)
  /\ UNCHANGED <<dq, counter, pool, res>>

SeqErased(w) ==
  /\ On(w, "seq") /\ ErasedLast(w)
  /\ Give(w, Era)

SeqDone(w) ==
  /\ On(w, "seq") /\ Top(w).i > Arity(w) /\ ~ErasedLast(w)
  /\ Give(w, Lift(Top(w).loc, Top(w).out))

-----------------------------------------------------------------------------
(* The fork: cnf_pool_spawn for each field; cnf_pool_join.                 *)

Spawned(w) ==
  Task(Field(w, Top(w).i), Less(Top(w).par), ForField(w, Top(w).i))

Spawn(w) ==
  /\ On(w, "spawn") /\ Top(w).i <= Arity(w) /\ Len(dq[w]) < Cap
  /\ dq' = [dq EXCEPT ![w] = Append(@, Spawned(w))]
  /\ stack' = Continue(w, Next_i(w, "spawn", Top(w).i + 1))
  /\ UNCHANGED <<counter, pool, res>>

\* The deque is full: the task is run at once.  A slip: by cnf_at alone.
SpawnInlineUncounted(w) ==
  /\ On(w, "spawn") /\ Top(w).i <= Arity(w) /\ Len(dq[w]) >= Cap
  /\ stack' = Enter(w, Next_i(w, "spawn", Top(w).i + 1), Top(w).i, FALSE)
  /\ UNCHANGED <<dq, counter, pool, res>>

SpawnInline(w) ==
  /\ On(w, "spawn") /\ Top(w).i <= Arity(w) /\ Len(dq[w]) >= Cap
  /\ stack' = Enter(w, Next_i(w, "spawn", Top(w).i + 1), Top(w).i, TRUE)
  /\ UNCHANGED <<dq, counter, pool, res>>

SpawnDone(w) ==
  /\ On(w, "spawn") /\ Top(w).i > Arity(w)
  /\ stack' = Continue(w, Next_i(w, "join", Top(w).i))
  /\ UNCHANGED <<dq, counter, pool, res>>

\* A slip: the last task is not waited for.
JoinDoneEarly(w) ==
  /\ On(w, "join") /\ Top(w).pend <= 1
  /\ Give(w, Lift(Top(w).loc, Top(w).out))

JoinDone(w) ==
  /\ On(w, "join") /\ Top(w).pend = 0
  /\ Give(w, Lift(Top(w).loc, Top(w).out))

JoinWait(w) ==
  /\ On(w, "join") /\ Top(w).pend # 0
  /\ pool' = [pool EXCEPT ![w].op = "pop"]
  /\ UNCHANGED <<dq, counter, stack, res>>

\* cnf_pool_try_run, called by a worker of the collapser that has no work.
Help(w) ==
  /\ pool[w] = Free /\ stack[w] = <<>>
  /\ N > 1 /\ pending # 0
  /\ pool' = [pool EXCEPT ![w].op = "pop"]
  /\ UNCHANGED <<dq, counter, stack, res>>

-----------------------------------------------------------------------------
(* cnf_pool_try_pop.                                                       *)

Run(w, t) == stack' = [stack EXCEPT ![w] = Append(@, Frame(t.loc, t.par, t.to, TRUE))]
Leave(w) == pool' = [pool EXCEPT ![w] = Free]

PopOwn(w) ==
  /\ pool[w].op = "pop" /\ dq[w] # <<>>
  /\ Run(w, dq[w][Len(dq[w])])
  /\ dq' = [dq EXCEPT ![w] = Popped(@)]
  /\ Leave(w)
  /\ UNCHANGED <<counter, res>>

\* A slip: a worker that is not active leaves again.
PopNoneAgain(w) ==
  /\ pool[w].op = "pop" /\ dq[w] = <<>>
  /\ pending' = pending - 1
  /\ active' = [active EXCEPT ![w] = FALSE]
  /\ pool' = [pool EXCEPT ![w] = [@ EXCEPT !.op = "scan", !.k = 1]]
  /\ UNCHANGED <<dq, stack, res>>

\* The counter and the flag change in one step, here and in StealCounts: nobody
\* but w reads its flag.
PopNone(w) ==
  /\ pool[w].op = "pop" /\ dq[w] = <<>>
  /\ pending' = IF active[w] THEN pending - 1 ELSE pending
  /\ active' = [active EXCEPT ![w] = FALSE]
  /\ pool' = [pool EXCEPT ![w] = [@ EXCEPT !.op = "scan", !.k = 1]]
  /\ UNCHANGED <<dq, stack, res>>

Victim(w) == (w + pool[w].k) % N

StealFails(w) ==
  /\ pool[w].op = "scan" /\ pool[w].k < N
  /\ pool' = [pool EXCEPT ![w].k = @ + 1]
  /\ UNCHANGED <<dq, counter, stack, res>>

StealTakes(w) ==
  /\ pool[w].op = "scan" /\ pool[w].k < N
  /\ dq[Victim(w)] # <<>>
  /\ pool' = [pool EXCEPT ![w] = [@ EXCEPT !.op = "count", !.task = Head(dq[Victim(w)])]]
  /\ dq' = [dq EXCEPT ![Victim(w)] = Tail(@)]
  /\ UNCHANGED <<counter, stack, res>>

StealCounts(w) ==
  /\ pool[w].op = "count"
  /\ pending' = IF active[w] THEN pending ELSE pending + 1
  /\ active' = [active EXCEPT ![w] = TRUE]
  /\ Run(w, pool[w].task)
  /\ Leave(w)
  /\ UNCHANGED <<dq, res>>

FoundNone(w) ==
  /\ pool[w].op = "scan" /\ pool[w].k >= N
  /\ Leave(w)
  /\ UNCHANGED <<dq, counter, stack, res>>

-----------------------------------------------------------------------------
Compute(w) ==
  \/ Call(w) \/ Value(w) \/ LamBody(w) \/ LamDone(w) \/ NodeSeq(w) \/ NodePar(w)
  \/ SeqField(w) \/ SeqErased(w) \/ SeqDone(w) \/ TaskDone(w)
  \/ Spawn(w) \/ SpawnInline(w) \/ SpawnDone(w) \/ JoinDone(w) \/ JoinWait(w)
Find(w) ==
  \/ Help(w) \/ PopOwn(w) \/ PopNone(w) \/ StealFails(w) \/ StealTakes(w)
  \/ StealCounts(w) \/ FoundNone(w)

Worker(w) == (Compute(w) \/ Find(w)) /\ UNCHANGED root

Returned(w) == root[w] # 0 => res[w] # None
Finished == \A w \in Workers : Returned(w) /\ stack[w] = <<>> /\ pool[w] = Free
\* The collapser goes on with the results.
Done == Finished /\ UNCHANGED vars

Next == (\E w \in Workers : Worker(w)) \/ Done

Spec == Init /\ [][Next]_vars

\* Every worker is a thread that never blocks.
FairSpec == Spec /\ \A w \in Workers : WF_vars(Worker(w))

-----------------------------------------------------------------------------
(* Correctness.                                                            *)

\* The calls that run, by address, and the tasks that are out: in a deque, in
\* the hand of a thief, or run by a worker.
Frames == UNION {{<<w, d>> : d \in 1..Depth(w)} : w \in Workers}
FrameAt(f) == stack[f[1]][f[2]]

Queued(p) == {s \in Workers \X (1..Cap) : s[2] <= Len(dq[s[1]]) /\ dq[s[1]][s[2]].to = p}
Held(p) == {w \in Workers : pool[w].op = "count" /\ pool[w].task.to = p}
Running(p) == {f \in Frames : FrameAt(f).task /\ FrameAt(f).to = p}
Copies(p) == Cardinality(Queued(p)) + Cardinality(Held(p)) + Cardinality(Running(p))
Out(f) == {i \in DOMAIN FrameAt(f).out : Copies(<<f[1], f[2], i>>) > 0}

Unspawned(f) == IF FrameAt(f).step = "spawn" THEN Len(FrameAt(f).out) - FrameAt(f).i + 1 ELSE 0

\* The counter in a frame is the number of its tasks that are not finished; a
\* task is in one place only.  So a fork does not return before its last task
\* has stored a result, which is what makes it safe to keep tasks, results and
\* counter on the stack of the call.
TasksCounted ==
  \A f \in Frames :
    /\ FrameAt(f).pend = Cardinality(Out(f)) + Unspawned(f)
    /\ \A i \in Out(f) : Copies(<<f[1], f[2], i>>) = 1

\* No pointer outlives the frame it points into: every task in a deque, in the
\* hand of a thief or running belongs to a call that is still forking or
\* joining, whose field it has not delivered, or is about to count out.
Targets == {dq[f[1]][f[2]].to : f \in {g \in Workers \X (1..Cap) : g[2] <= Len(dq[g[1]])}}
     \cup {pool[w].task.to : w \in {v \in Workers : pool[v].op = "count"}}
     \cup {FrameAt(f).to : f \in {g \in Frames : FrameAt(g).task}}
NoDangling ==
  \A p \in Targets :
    /\ <<p[1], p[2]>> \in Frames
    /\ FrameAt(p).step \in {"spawn", "join"}
    /\ p[3] \in DOMAIN FrameAt(p).out
    /\ FrameAt(p).out[p[3]] # None =>
         \E f \in Running(p) : FrameAt(f).step = "sub"

\* The counter of the pool, which the collapser reads before it stops and a
\* helper before it looks for a task, is the number of active workers.
PoolCount == N > 1 => pending = Cardinality({w \in Workers : active[w]})

-----------------------------------------------------------------------------
(* The inductive invariant of CnfProofs.                                   *)

Steps == {"enter", "lam", "seq", "spawn", "join", "sub"}
Places == Workers \X Nat \X Nat
TaskIn(L) == [loc : L, par : Nat, to : Places]
FrameIn(V) == [loc : Locs, par : Nat, step : Steps, i : Nat \ {0}, out : Seq(V), pend : Int,
               to : Places, task : BOOLEAN]
PoolIn == [op : {"free", "pop", "scan", "count"}, k : Nat, task : TaskIn(Locs \cup {0})]
ResultsIn(s) ==
  UNION {UNION {{s[w][d].out[i] : i \in DOMAIN s[w][d].out} : d \in DOMAIN s[w]} : w \in Workers}

Types ==
  /\ root \in [Workers -> Locs \cup {0}]
  /\ dq \in [Workers -> Seq(TaskIn(Locs))]
  /\ pending \in Int /\ active \in [Workers -> BOOLEAN]
  /\ stack \in [Workers -> Seq(FrameIn(ResultsIn(stack)))]
  /\ pool \in [Workers -> PoolIn]
  /\ \A w \in Workers : Len(dq[w]) <= Cap
  /\ \A w \in Workers : pool[w].op = "count" => pool[w].task.loc # 0

\* A call has a result for each field; the fields ahead of a fork have none yet;
\* a call that is not a task's was made by the one below it.
FrameFits(w, d) ==
  LET f == stack[w][d]
  IN /\ Len(f.out) = Len(Kids[f.loc])
     /\ f.step = "enter" => f.i = 1
     /\ f.step \in {"enter", "spawn"} =>
          f.i \in 1..(Len(f.out) + 1) /\ \A j \in f.i..Len(f.out) : f.out[j] = None
     /\ f.step = "sub" => f.task
     /\ ~f.task => \/ d = 1 /\ f.to = Place(w, 0, 1)
                   \/ /\ d > 1 /\ f.to[1] = w /\ f.to[2] = d - 1
                      /\ f.to[3] \in 1..Len(stack[w][d - 1].out)
                      /\ stack[w][d - 1].step \in {"lam", "seq"}
FramesFit == \A w \in Workers : \A d \in 1..Depth(w) : FrameFits(w, d)

InQueue(p) == \E w \in Workers : \E i \in 1..Len(dq[w]) : dq[w][i].to = p
InHand(p) == \E w \in Workers : pool[w].op = "count" /\ pool[w].task.to = p
InRun(p) == \E w \in Workers : \E d \in 1..Depth(w) : stack[w][d].task /\ stack[w][d].to = p
IsOut(p) == InQueue(p) \/ InHand(p) \/ InRun(p)

\* No two tasks are for the same field.
QueuedApart ==
  \A w, v \in Workers : \A i \in 1..Len(dq[w]), j \in 1..Len(dq[v]) :
    dq[w][i].to = dq[v][j].to => w = v /\ i = j
HeldApart ==
  \A w, v \in Workers :
    pool[w].op = "count" /\ pool[v].op = "count" /\ pool[w].task.to = pool[v].task.to => w = v
RunApart ==
  \A w, v \in Workers : \A d \in 1..Depth(w), e \in 1..Depth(v) :
    stack[w][d].task /\ stack[v][e].task /\ stack[w][d].to = stack[v][e].to => w = v /\ d = e
QueuedOnly ==
  \A w \in Workers : \A i \in 1..Len(dq[w]) : ~InHand(dq[w][i].to) /\ ~InRun(dq[w][i].to)
HeldOnly == \A w \in Workers : pool[w].op = "count" => ~InRun(pool[w].task.to)
TasksApart == QueuedApart /\ HeldApart /\ RunApart /\ QueuedOnly /\ HeldOnly

\* A task is for a field of a call that forks or joins, and until it is done
\* the field has no result.
Awaits(p) ==
  /\ p[2] \in 1..Depth(p[1]) /\ stack[p[1]][p[2]].step \in {"spawn", "join"}
  /\ p[3] \in 1..Len(stack[p[1]][p[2]].out)
Awaited(p) == Awaits(p) /\ stack[p[1]][p[2]].out[p[3]] = None
QueuedPoint == \A w \in Workers : \A i \in 1..Len(dq[w]) : Awaited(dq[w][i].to)
HeldPoint == \A w \in Workers : pool[w].op = "count" => Awaited(pool[w].task.to)
RunPoint ==
  \A w \in Workers : \A d \in 1..Depth(w) : stack[w][d].task =>
    Awaits(stack[w][d].to) /\ (stack[w][d].step # "sub" => Awaited(stack[w][d].to))
TasksPoint == QueuedPoint /\ HeldPoint /\ RunPoint

FieldsOut(w, d) == {j \in 1..Len(stack[w][d].out) : IsOut(Place(w, d, j))}
FrameCounted(w, d) ==
  /\ stack[w][d].pend = Cardinality(FieldsOut(w, d)) + Unspawned(<<w, d>>)
  /\ stack[w][d].step = "spawn" => \A j \in FieldsOut(w, d) : j < stack[w][d].i
FieldsCounted == \A w \in Workers : \A d \in 1..Depth(w) : FrameCounted(w, d)

IInv == Types /\ FramesFit /\ TasksApart /\ TasksPoint /\ FieldsCounted /\ PoolCount

\* Every call returns, though it may wait for a task that another worker runs
\* on top of a call of its own that waits.
Returns == <>[](\A w \in Workers : stack[w] = <<>>)
=============================================================================
