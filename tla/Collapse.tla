------------------------------ MODULE Collapse ------------------------------
(***************************************************************************)
(* src/clang/eval/collapse.c: the collapser.  N workers take terms from    *)
(* the work-stealing key queue (Wspq); a superposition goes back to the    *)
(* queue as its two branches, anything else is printed.                    *)
(*                                                                         *)
(* A term is a location of a tree: Kind says what cnf leaves at its root   *)
(* and Kids what is under it.  The pool in which cnf evaluates the fields  *)
(* of a term in parallel is abstracted to what it does to the collapser's  *)
(* state: who is inside cnf, who helps whom, and the counter cpend of      *)
(* workers active in the pool, which the collapser reads before it stops.  *)
(***************************************************************************)
EXTENDS Integers, Sequences, FiniteSets, SequencesExt

CONSTANTS N, Brackets, Cap, Attempts, Batch,  \* as in Wspq
          Period,    \* EVAL_COLLAPSE_STEAL_PERIOD
          Limits,    \* the limits a caller may give; no limit is a large one
          Scale,     \* the 100 of the formula of print_batch
          Fields,    \* bound: tasks of one cnf, or of a task of it, that others run
          Locs, Root, Kind, Kids

ASSUME CollapseAssumption ==
  /\ N \in Nat \ {0} /\ Brackets \in Nat \ {0} /\ Cap \in Nat \ {0}
  /\ Attempts \in Nat /\ Batch \in Nat \ {0}
  /\ Period \in Nat \ {0} /\ Limits \subseteq Nat \ {0}
  /\ Scale \in Nat \ {0} /\ Fields \in Nat
  /\ 0 \notin Locs /\ Root \in Locs
  /\ Kind \in [Locs -> {"SUP", "INC", "ERA", "LEAF"}]
  /\ \A l \in Locs : /\ Kids[l] \in Seq(Locs)
                     /\ Kind[l] = "SUP" => Len(Kids[l]) = 2
                     /\ Kind[l] = "INC" => Len(Kids[l]) = 1

\* Terms are affine, so what cnf makes is a tree: no location is below two.  It
\* is a finite one here: none is below itself, which a numbering from the leaves
\* up says.  A recursive definition makes a tree without end; what a run has seen
\* of it after finitely many steps is a finite tree, so that the safety
\* properties are about it too, but Ends is about finite trees only.
ASSUME TreeAssumption ==
  /\ Locs \subseteq Nat
  /\ \A l \in Locs : Kind[l] \in {"ERA", "LEAF"} => Len(Kids[l]) = 0
  /\ \A l \in Locs : \A i \in DOMAIN Kids[l] : Kids[l][i] < l
  /\ \A l, m \in Locs : \A i \in DOMAIN Kids[l], j \in DOMAIN Kids[m] :
       Kids[l][i] = Kids[m][j] => l = m /\ i = j

VARIABLES bank, mask, cursor, fr,  \* the queue
          limit,                   \* C->limit
          pending, stop, printed,  \* the shared words of EvalCollapseCtx
          cpend,                   \* C->cnf.pending
          wk,                      \* wk[w]: the frame of worker w
          lines                    \* history: the terms printed, in order

queue  == <<bank, mask, cursor, fr>>
shared == <<pending, stop, printed, cpend>>
vars   == <<queue, limit, shared, wk, lines>>

Q == INSTANCE Wspq WITH MaxTask <- Cardinality(Locs), pushed <- 0, takes <- <<>>

Workers == Q!Workers
PrintBatch ==
  LET batch == limit \div (Scale * N)
  IN IF batch < 1 THEN 1 ELSE IF batch > 64 THEN 64 ELSE batch

\* pc: the step; at, key: the term in hand; iter, active, popped, k: locals of
\* eval_collapse_worker; local: local_printed; pool: pool->active[w]; aids: the
\* worker whose cnf it runs a task of, w itself when none; tasks: those that it
\* forked and others may still take.
Fresh(w) == [pc |-> "top", at |-> 0, key |-> 0, iter |-> 0, active |-> TRUE,
             popped |-> FALSE, k |-> 1, local |-> 0, pool |-> N > 1, aids |-> w, tasks |-> 0]

\* The first push, of the root, is over before the threads are created.  stop
\* is a word of an automatic variable that nothing sets: its value is what the
\* stack held.
Init ==
  /\ bank = [w \in Workers |-> [c \in Q!Buckets |->
               IF w = 0 /\ c = 0 THEN <<Root>> ELSE <<>>]]
  /\ mask = [w \in Workers |-> IF w = 0 THEN {0} ELSE {}]
  /\ cursor = [w \in Workers |-> (w + 1) % N]
  /\ fr = [w \in Workers |-> Q!Free(w)]
  /\ limit \in Limits
  /\ pending = N /\ stop \in BOOLEAN /\ printed = 0
  /\ cpend = IF N > 1 THEN N ELSE 0
  /\ wk = [w \in Workers |-> Fresh(w)]
  /\ lines = <<>>

At(w, step) == wk[w].pc = step
Goto(w, step) == wk' = [wk EXCEPT ![w].pc = step]

-----------------------------------------------------------------------------
(* eval_collapse_worker.                                                   *)

Stopped(w) ==
  /\ At(w, "top") /\ stop
  /\ Goto(w, "leave")
  /\ UNCHANGED <<queue, shared, lines>>

Pop(w) ==
  /\ At(w, "top") /\ ~stop
  /\ Q!PopCall(w)
  /\ Goto(w, "pop")
  /\ UNCHANGED <<shared, lines>>

Popped(w) ==
  /\ At(w, "pop") /\ fr[w].op = "popped"
  /\ wk' = [wk EXCEPT ![w] = [@ EXCEPT !.pc = "go", !.at = fr[w].x, !.key = fr[w].b,
                                       !.popped = TRUE]]
  /\ Q!Return(w)
  /\ UNCHANGED <<shared, lines>>

\* A slip: popped keeps the value of an earlier round.
PoppedNoneKept(w) ==
  /\ At(w, "pop") /\ fr[w].op = "nothing"
  /\ wk' = [wk EXCEPT ![w] = [@ EXCEPT !.pc = "seek", !.k = 1, !.iter = Period]]
  /\ Q!Return(w)
  /\ UNCHANGED <<shared, lines>>

PoppedNone(w) ==
  /\ At(w, "pop") /\ fr[w].op = "nothing"
  /\ wk' = [wk EXCEPT ![w] = [@ EXCEPT !.pc = "seek", !.k = 1, !.popped = FALSE,
                                       !.iter = Period]]
  /\ Q!Return(w)
  /\ UNCHANGED <<shared, lines>>

\* wspq_can_steal, one mask at a time.
Candidate(w) == (w + wk[w].k) % N

SeekOn(w) ==
  /\ At(w, "seek") /\ wk[w].k < N
  /\ mask[Candidate(w)] = {}
  /\ wk' = [wk EXCEPT ![w].k = @ + 1]
  /\ UNCHANGED <<queue, shared, lines>>

SeekNone(w) ==
  /\ At(w, "seek") /\ wk[w].k >= N
  /\ Goto(w, "help")
  /\ UNCHANGED <<queue, shared, lines>>

\* A slip: an idle worker steals without counting itself in.
SeekFoundUncounted(w) ==
  /\ At(w, "seek") /\ wk[w].k < N
  /\ mask[Candidate(w)] # {}
  /\ Goto(w, "steal")
  /\ UNCHANGED <<queue, shared, lines>>

SeekFound(w) ==
  /\ At(w, "seek") /\ wk[w].k < N
  /\ mask[Candidate(w)] # {}
  /\ Goto(w, IF wk[w].active THEN "steal" ELSE "enter")
  /\ UNCHANGED <<queue, shared, lines>>

Enter(w) ==
  /\ At(w, "enter")
  /\ pending' = pending + 1
  /\ wk' = [wk EXCEPT ![w] = [@ EXCEPT !.pc = "steal", !.active = TRUE]]
  /\ UNCHANGED <<queue, stop, printed, cpend, lines>>

Steal(w) ==
  /\ At(w, "steal")
  /\ Q!StealCall(w, wk[w].popped)
  /\ Goto(w, "stealing")
  /\ UNCHANGED <<shared, lines>>

Stole(w) ==
  /\ At(w, "stealing") /\ fr[w].op = "stolen"
  /\ wk' = [wk EXCEPT ![w] = [@ EXCEPT !.pc = IF fr[w].got > 0 THEN "top" ELSE "help",
                                       !.iter = 0]]
  /\ Q!Return(w)
  /\ UNCHANGED <<shared, lines>>

\* Two slips: the worker counts itself out whenever it passes here, or though
\* it has just popped and may have more.
RetireTwice(w) ==
  /\ At(w, "retire")
  /\ pending' = pending - 1
  /\ wk' = [wk EXCEPT ![w] = [@ EXCEPT !.pc = "zero", !.active = FALSE]]
  /\ UNCHANGED <<queue, stop, printed, cpend, lines>>

RetirePopped(w) ==
  /\ At(w, "retire")
  /\ pending' = IF wk[w].active THEN pending - 1 ELSE pending
  /\ wk' = [wk EXCEPT ![w] = [@ EXCEPT !.pc = "zero", !.active = FALSE]]
  /\ UNCHANGED <<queue, stop, printed, cpend, lines>>

Retire(w) ==
  /\ At(w, "retire")
  /\ IF wk[w].active /\ ~wk[w].popped
     THEN /\ pending' = pending - 1
          /\ wk' = [wk EXCEPT ![w] = [@ EXCEPT !.pc = "zero", !.active = FALSE]]
     ELSE Goto(w, "zero") /\ UNCHANGED pending
  /\ UNCHANGED <<queue, stop, printed, cpend, lines>>

\* pending is read, then cnf.pending, then stop is set.
ReadPending(w) ==
  /\ At(w, "zero")
  /\ Goto(w, IF pending = 0 THEN "zero2" ELSE "top")
  /\ UNCHANGED <<queue, shared, lines>>

ReadCnfPending(w) ==
  /\ At(w, "zero2")
  /\ Goto(w, IF cpend = 0 THEN "set" ELSE "top")
  /\ UNCHANGED <<queue, shared, lines>>

SetStop(w) ==
  /\ At(w, "set")
  /\ stop' = TRUE
  /\ Goto(w, "top")
  /\ UNCHANGED <<queue, pending, printed, cpend, lines>>

Leave(w) ==
  /\ At(w, "leave")
  /\ printed' = printed + wk[w].local
  /\ wk' = [wk EXCEPT ![w] = [@ EXCEPT !.pc = "done", !.local = 0]]
  /\ UNCHANGED <<queue, pending, stop, cpend, lines>>

-----------------------------------------------------------------------------
(* eval_collapse_process_loc.                                              *)

\* The call returns: the task counts as one iteration, and after a period of
\* them the worker looks for better work elsewhere.
Finish(w, locals) ==
  wk' = [wk EXCEPT ![w] = [locals EXCEPT
           !.pc = IF locals.iter + 1 < Period THEN "top" ELSE "seek",
           !.iter = IF @ < Period THEN @ + 1 ELSE @,
           !.k = 1, !.at = 0, !.key = 0, !.tasks = 0]]

GoStopped(w) ==
  /\ At(w, "go") /\ stop
  /\ Finish(w, wk[w])
  /\ UNCHANGED <<queue, shared, lines>>

Go(w) ==
  /\ At(w, "go") /\ ~stop
  /\ \E n \in 0..Fields : wk' = [wk EXCEPT ![w] = [@ EXCEPT !.pc = "cnf", !.tasks = n]]
  /\ UNCHANGED <<queue, shared, lines>>

\* cnf returns: nobody runs a task of it any more.
Unaided(w) == \A u \in Workers \ {w} : wk[u].aids # w
CnfDone(w) == At(w, "cnf") /\ Unaided(w)
Is(w, kind) == Kind[wk[w].at] = kind

\* A slip: the key is kept.
CnfIncKept(w) ==
  /\ CnfDone(w) /\ Is(w, "INC")
  /\ wk' = [wk EXCEPT ![w] = [@ EXCEPT !.pc = "go", !.at = Kids[wk[w].at][1], !.tasks = 0]]
  /\ UNCHANGED <<queue, shared, lines>>

CnfInc(w) ==
  /\ CnfDone(w) /\ Is(w, "INC")
  /\ LET key == IF wk[w].key > 0 THEN wk[w].key - 1 ELSE wk[w].key
     IN wk' = [wk EXCEPT ![w] = [@ EXCEPT !.pc = "go", !.at = Kids[wk[w].at][1],
                                          !.key = key, !.tasks = 0]]
  /\ UNCHANGED <<queue, shared, lines>>

CnfSup(w) ==
  /\ CnfDone(w) /\ Is(w, "SUP")
  /\ Q!PushCall(w, wk[w].key + 1, Kids[wk[w].at][1])
  /\ wk' = [wk EXCEPT ![w] = [@ EXCEPT !.pc = "second", !.tasks = 0]]
  /\ UNCHANGED <<shared, lines>>

\* A slip: the first branch again.
CnfSupFirstAgain(w) ==
  /\ At(w, "second")
  /\ Q!PushCall(w, wk[w].key + 1, Kids[wk[w].at][1])
  /\ Goto(w, "pushed")
  /\ UNCHANGED <<shared, lines>>

CnfSupSecond(w) ==
  /\ At(w, "second")
  /\ Q!PushCall(w, wk[w].key + 1, Kids[wk[w].at][2])
  /\ Goto(w, "pushed")
  /\ UNCHANGED <<shared, lines>>

CnfSupPushed(w) ==
  /\ At(w, "pushed") /\ fr[w].op = "none"
  /\ Finish(w, wk[w])
  /\ UNCHANGED <<queue, shared, lines>>

CnfEra(w) ==
  /\ CnfDone(w) /\ Is(w, "ERA")
  /\ Finish(w, wk[w])
  /\ UNCHANGED <<queue, shared, lines>>

\* A term to print: it is counted locally, then, at the limit or when a batch
\* is complete, in the shared counter.
CnfLeaf(w) ==
  /\ CnfDone(w) /\ Is(w, "LEAF")
  /\ LET n == wk[w].local + 1
         pc == IF printed + n >= limit THEN "halt"
               ELSE IF n >= PrintBatch THEN "flush" ELSE "print"
     IN wk' = [wk EXCEPT ![w] = [@ EXCEPT !.local = n, !.pc = pc]]
  /\ UNCHANGED <<queue, shared, lines>>

LimitStop(w) ==
  /\ At(w, "halt")
  /\ stop' = TRUE
  /\ Goto(w, "flush")
  /\ UNCHANGED <<queue, pending, printed, cpend, lines>>

Flush(w) ==
  /\ At(w, "flush")
  /\ printed' = printed + wk[w].local
  /\ wk' = [wk EXCEPT ![w] = [@ EXCEPT !.pc = "print", !.local = 0]]
  /\ UNCHANGED <<queue, pending, stop, cpend, lines>>

\* A slip: the limit itself is not printed.
PrintLineStrict(w) ==
  /\ At(w, "print")
  /\ lines' = IF printed + wk[w].local < limit THEN Append(lines, wk[w].at) ELSE lines
  /\ Finish(w, wk[w])
  /\ UNCHANGED <<queue, shared>>

\* A slip: the limit is left to stop.
PrintLineUntested(w) ==
  /\ At(w, "print")
  /\ lines' = Append(lines, wk[w].at)
  /\ Finish(w, wk[w])
  /\ UNCHANGED <<queue, shared>>

PrintLine(w) ==
  /\ At(w, "print")
  /\ lines' = IF printed + wk[w].local <= limit THEN Append(lines, wk[w].at) ELSE lines
  /\ Finish(w, wk[w])
  /\ UNCHANGED <<queue, shared>>

-----------------------------------------------------------------------------
(* cnf_pool_try_run, and what a worker waiting in cnf_pool_join does to    *)
(* the counter of the pool.                                                *)

HelpOff(w) ==
  /\ At(w, "help") /\ (N = 1 \/ cpend = 0)
  /\ Goto(w, "retire")
  /\ UNCHANGED <<queue, shared, lines>>

\* The worker's own deque of the pool is empty: it leaves the pool.
HelpDrop(w) ==
  /\ At(w, "help") /\ N > 1 /\ cpend # 0
  /\ cpend' = IF wk[w].pool THEN cpend - 1 ELSE cpend
  /\ wk' = [wk EXCEPT ![w] = [@ EXCEPT !.pc = "try", !.pool = FALSE]]
  /\ UNCHANGED <<queue, pending, stop, printed, lines>>

HelpNone(w) ==
  /\ At(w, "try")
  /\ Goto(w, "retire")
  /\ UNCHANGED <<queue, shared, lines>>

\* A task of a worker inside cnf, or of a helper that forked in turn, is stolen;
\* then the counter goes up.
HelpSteal(w) ==
  /\ At(w, "try")
  /\ \E v \in Workers \ {w} :
       /\ wk[v].pc \in {"cnf", "aid"} /\ wk[v].tasks > 0
       /\ wk' = [wk EXCEPT ![w] = [@ EXCEPT !.pc = "stole", !.aids = v],
                           ![v] = [@ EXCEPT !.tasks = wk[v].tasks - 1]]
  /\ UNCHANGED <<queue, shared, lines>>

HelpCount(w) ==
  /\ At(w, "stole")
  /\ cpend' = cpend + 1
  /\ \E n \in 0..Fields :
       wk' = [wk EXCEPT ![w] = [@ EXCEPT !.pc = "aid", !.pool = TRUE, !.tasks = n]]
  /\ UNCHANGED <<queue, pending, stop, printed, lines>>

HelpDone(w) ==
  /\ At(w, "aid") /\ Unaided(w)
  /\ wk' = [wk EXCEPT ![w] = [@ EXCEPT !.pc = "top", !.aids = w, !.tasks = 0]]
  /\ UNCHANGED <<queue, shared, lines>>

\* A worker that waits in a join finds no task, or one of its helpers'.  What a
\* helper forks is mostly taken by the one it helps, which waits for it: those
\* tasks are not followed, and each lets the helper leave and enter once.
Waits(w) ==
  \/ wk[w].pc \in {"cnf", "aid"} /\ ~Unaided(w)
  \/ At(w, "aid") /\ wk[w].tasks > 0

JoinDrop(w) ==
  /\ Waits(w) /\ wk[w].pool
  /\ cpend' = cpend - 1
  /\ wk' = [wk EXCEPT ![w].pool = FALSE]
  /\ UNCHANGED <<queue, pending, stop, printed, lines>>

JoinTake(w) ==
  /\ Waits(w) /\ ~wk[w].pool
  /\ cpend' = cpend + 1
  /\ LET left == IF Unaided(w) THEN wk[w].tasks - 1 ELSE wk[w].tasks
     IN wk' = [wk EXCEPT ![w] = [@ EXCEPT !.pool = TRUE, !.tasks = left]]
  /\ UNCHANGED <<queue, pending, stop, printed, lines>>

-----------------------------------------------------------------------------
Collapsing(w) ==
  \/ Stopped(w) \/ Pop(w) \/ Popped(w) \/ PoppedNone(w)
  \/ SeekOn(w) \/ SeekNone(w) \/ SeekFound(w) \/ Enter(w) \/ Steal(w) \/ Stole(w)
  \/ Retire(w) \/ ReadPending(w) \/ ReadCnfPending(w) \/ SetStop(w) \/ Leave(w)
  \/ GoStopped(w) \/ Go(w) \/ CnfInc(w) \/ CnfSup(w) \/ CnfSupSecond(w)
  \/ CnfSupPushed(w) \/ CnfEra(w) \/ CnfLeaf(w) \/ LimitStop(w) \/ Flush(w) \/ PrintLine(w)
  \/ HelpOff(w) \/ HelpDrop(w) \/ HelpNone(w) \/ HelpSteal(w) \/ HelpCount(w)
  \/ HelpDone(w) \/ JoinDrop(w) \/ JoinTake(w)

Queueing(w) == Q!Step(w) /\ UNCHANGED <<shared, wk, lines>>

Halted == \A w \in Workers : At(w, "done")
\* pthread_join, or the exit of the process.
Joined == (Halted \/ Q!Crashed) /\ UNCHANGED vars

Worker(w) == (Collapsing(w) \/ Queueing(w)) /\ UNCHANGED limit

Next == (\E w \in Workers : Worker(w)) \/ Joined

Spec == Init /\ [][Next]_vars

\* The same on a stack that happens to be zero.
ZeroInit == Init /\ ~stop
ZeroSpec == ZeroInit /\ [][Next]_vars

\* Every worker is an operating system thread: it spins, but never blocks.  Two
\* races are not lost for ever: a thief's CAS fails only when another thread
\* takes a task, and an owner that pops again and again, with tasks in its bank
\* again and again, gets one in the end.  Without the second, two workers may
\* pass the last task to each other, each losing it between its push and its pop.
TakeSucceeds(w) == Q!StealTake(w) /\ UNCHANGED <<limit, shared, wk, lines>>
OwnerPops(w) ==
  \/ <>[](\A c \in Q!Buckets : bank[w][c] = <<>>)
  \/ <>[](fr[w].op # "pop")
  \/ []<>(fr[w].op = "popped")
FairSpec ==
  /\ ZeroSpec
  /\ \A w \in Workers :
       WF_vars(Worker(w)) /\ SF_vars(TakeSucceeds(w)) /\ OwnerPops(w)

-----------------------------------------------------------------------------
(* Correctness.                                                            *)

Steps == {"top", "pop", "seek", "enter", "steal", "stealing", "help", "retire",
          "zero", "zero2", "set", "leave", "done", "go", "cnf", "second",
          "pushed", "halt", "flush", "print", "try", "stole", "aid"}

TypeOK ==
  /\ bank \in [Workers -> [Q!Buckets -> Seq(Locs)]]
  /\ mask \in [Workers -> SUBSET Q!Buckets]
  /\ pending \in Nat /\ cpend \in Nat /\ printed \in Nat /\ stop \in BOOLEAN
  /\ \A w \in Workers :
       /\ wk[w].pc \in Steps /\ wk[w].at \in Locs \cup {0}
       /\ wk[w].key \in 0..Brackets /\ wk[w].iter \in 0..Period
       /\ wk[w].k \in 1..N /\ wk[w].local \in Nat /\ wk[w].aids \in Workers
  /\ lines \in Seq(Locs)

\* The lines a location stands for: the leaves below it.
Below[l \in Locs] ==
  IF Kind[l] = "LEAF" THEN {l} ELSE UNION {Below[k] : k \in ToSet(Kids[l])}

\* The terms to print.
Leaves == Below[Root]

HasWork(w) ==
  \/ wk[w].at # 0 \/ fr[w].x # 0
  \/ \E c \in Q!Buckets : bank[w][c] # <<>>

\* The counter that decides termination counts the active workers, and only
\* they have work: in their banks, in the hand of a queue operation, or in
\* eval_collapse_process_loc.
PendingExact ==
  /\ pending = Cardinality({w \in Workers : wk[w].active})
  /\ \A w \in Workers : HasWork(w) => wk[w].active

\* No early stop: unless the limit was reached, a worker sets stop only when
\* everything that had to be printed has been printed.
NoEarlyStop ==
  stop /\ limit > Cardinality(Leaves) => ToSet(lines) = Leaves

\* Every line is a leaf of the tree, and no leaf is printed twice.
PrintedOnce == IsInjective(lines) /\ ToSet(lines) \subseteq Leaves

\* Never more lines than asked for, though several workers count and print
\* without a lock, if each counts a line before it prints it: with a larger
\* batch, lines are printed that the others do not see counted.
AtMostLimit == PrintBatch = 1 => Len(lines) <= limit

\* The documented meaning of -C<N>: as many lines as asked for, when there are
\* that many terms.
AtLeastLimit ==
  Halted => Len(lines) >= limit \/ Len(lines) >= Cardinality(Leaves)

\* What a single worker has still to look at: its bank, with the branches that
\* it is about to push; and the term that it looks at.
Frontier ==
  LET g == wk[0]
      f == fr[0]
      pushing == g.pc \in {"second", "pushed"} /\ f.x # 0
  IN [c \in Q!Buckets |->
        bank[0][c] \o (IF pushing /\ f.b = c THEN <<f.x>> ELSE <<>>)
                   \o (IF g.pc = "second" /\ Q!Bucket(g.key + 1) = c
                       THEN <<Kids[g.at][2]>> ELSE <<>>)]
Held ==
  LET g == wk[0]
  IN IF g.pc = "pop" /\ fr[0].x # 0 THEN [at |-> fr[0].x, key |-> fr[0].b]
     ELSE IF g.pc \in {"go", "cnf", "halt", "flush", "print"} THEN [at |-> g.at, key |-> g.key]
     ELSE [at |-> 0, key |-> 0]

Search == INSTANCE BestFirst WITH Keys <- Brackets, todo <- Frontier, hand <- Held, out <- lines

\* A single worker prints in best-first order, oldest first within a key ...
InOrder == Search!Spec

\* ... and exactly as many lines as were asked for, if there are that many.
ExactLimit ==
  N = 1 /\ Halted => \/ Len(lines) = limit /\ limit <= Cardinality(Leaves)
                     \/ Len(lines) = Cardinality(Leaves) /\ Len(lines) < limit

-----------------------------------------------------------------------------
(* The inductive invariant of CollapseProofs.                              *)

FrameIn == [op : Q!Ops, b : Q!Buckets, x : Locs \cup {0}, m : SUBSET Q!Buckets, k : Nat,
            from : Workers, got : Nat, t : 0..N, deeper : BOOLEAN]
WorkerIn == [pc : Steps, at : Locs \cup {0}, key : 0..Brackets, iter : 0..Period,
             active : BOOLEAN, popped : BOOLEAN, k : 1..N, local : Nat, pool : BOOLEAN,
             aids : Workers, tasks : Nat]

Types ==
  /\ bank \in [Workers -> [Q!Buckets -> Seq(Locs)]]
  /\ mask \in [Workers -> SUBSET Q!Buckets]
  /\ cursor \in [Workers -> Workers]
  /\ fr \in [Workers -> FrameIn] /\ wk \in [Workers -> WorkerIn]
  /\ limit \in Limits /\ stop \in BOOLEAN
  /\ pending \in Nat /\ cpend \in Nat /\ printed \in Nat /\ lines \in Seq(Locs)

Empty(b) == \A c \in Q!Buckets : b[c] = <<>>
Within(b, S) == \A c \in Q!Buckets : b[c] # <<>> => c \in S

\* The steps of eval_collapse_process_loc, those inside a queue operation, and
\* those on the way from a search to the counter.
InHand == {"go", "cnf", "second", "pushed", "halt", "flush", "print"}
Calling == {"pop", "stealing", "second", "pushed"}
Searching == {"seek", "enter", "steal", "help", "try", "retire"}

\* What the frames of a worker say of each other and of its bank: only an
\* active worker has anything, and one that popped nothing has nothing until
\* it steals, so that it may count itself out.
WorkerFits(g, f, b) ==
  /\ g.pc \in InHand <=> g.at # 0
  /\ g.pc \in InHand => g.popped /\ g.active
  /\ g.pc \in {"steal", "stealing"} => g.active
  /\ g.pc = "enter" => ~g.active
  /\ g.pc = "second" => Kind[g.at] = "SUP"
  /\ g.pc \in {"halt", "flush", "print"} => Kind[g.at] = "LEAF"
  /\ g.pc \in {"try", "stole"} => ~g.pool
  /\ g.pc \notin Calling => f.op \in {"none", "dead"} /\ f.x = 0
  /\ g.pc = "pop" => f.op \in {"pop", "clear", "popped", "nothing", "dead"}
  /\ ~g.active => f.x = 0 /\ Empty(b)
  /\ ~g.popped /\ g.pc \in Searching => Empty(b)
  /\ ~g.popped /\ g.pc = "stealing" /\ f.got = 0 /\ f.op \notin {"mask", "dead"} => Empty(b)
  /\ g.pc = "stealing" => f.op \in {"look", "take", "push", "full", "mask", "stolen", "dead"}

\* As in Wspq, with the deques' contents left out: the mask, or the copy of it
\* that a pop walks through, covers the bank; a steal puts what it takes into
\* the thief's bank, and does not end with the first task.
QueueFits(w, g, f, b, m) ==
  /\ f.op = "none" => f = Q!Free(w)
  /\ f.op \in {"push", "full", "popped"} => f.x # 0
  /\ f.op \notin {"push", "full", "popped", "dead"} => f.x = 0
  /\ f.op # "dead" => Within(b, IF f.op = "mask" THEN m \cup {f.b} ELSE m)
  /\ f.op \in {"pop", "clear"} => Within(b, f.m)
  /\ f.op = "clear" => b[f.b] = <<>>
  /\ f.op = "nothing" => Empty(b)
  /\ g.pc = "stealing" /\ f.op \in {"take", "push", "full", "mask"} => f.from # w

WorkersFit ==
  \A w \in Workers : /\ WorkerFits(wk[w], fr[w], bank[w])
                     /\ QueueFits(w, wk[w], fr[w], bank[w], mask[w])

\* The counters are the workers with the flag.
Counted ==
  /\ pending = Cardinality({w \in Workers : wk[w].active})
  /\ cpend = Cardinality({w \in Workers : wk[w].pool})

\* With a batch of one a line is counted before it is printed.
LimitKept ==
  PrintBatch = 1 =>
    /\ \A w \in Workers : wk[w].local = IF wk[w].pc \in {"halt", "flush"} THEN 1 ELSE 0
    /\ Len(lines) + Cardinality({w \in Workers : wk[w].pc = "print"}) <= printed
    /\ Len(lines) <= limit

IInv == Types /\ WorkersFit /\ Counted /\ LimitKept

\* The places of a location: the slots of the buckets, the hand of a queue
\* operation (-1), and that of eval_collapse_process_loc (-2).
Slots == (Workers \X Q!Buckets \X (1..Cap)) \cup (Workers \X {-1, -2} \X {1})
Hand(g) ==
  IF g.pc = "second" THEN Kids[g.at][2] ELSE IF g.pc = "pushed" THEN 0 ELSE g.at
Load(banks, frames, frs) ==
  [s \in Slots |->
     IF s[2] = -1 THEN frs[s[1]].x
     ELSE IF s[2] = -2 THEN Hand(frames[s[1]])
     ELSE IF s[3] <= Len(banks[s[1]][s[2]]) THEN banks[s[1]][s[2]][s[3]] ELSE 0]
Places == Load(bank, wk, fr)
Loaded(load) == {s \in Slots : load[s] # 0}

\* No line is due twice, nor is one that is out.
Once(load, out) ==
  LET S == Loaded(load)
  IN \A s \in S :
       /\ Below[load[s]] \subseteq Leaves
       /\ Below[load[s]] \cap out = {}
       /\ \A t \in S \ {s} : Below[load[s]] \cap Below[load[t]] = {}
Capped == \A w \in Workers, c \in Q!Buckets : Len(bank[w][c]) <= Cap
OnceInv == PrintedOnce /\ Once(Places, ToSet(lines)) /\ Capped

\* The lines counted are those printed and those about to be: each is in the
\* count of one worker or in the shared one, as owner says.
Printing == {w \in Workers : wk[w].pc \in {"flush", "print"}}
CountedLines == ToSet(lines) \cup {wk[w].at : w \in Printing}
LinesCounted ==
  \E owner \in [CountedLines -> 0..N] :
    /\ printed = Cardinality({l \in CountedLines : owner[l] = N})
    /\ \A w \in Workers : wk[w].local = Cardinality({l \in CountedLines : owner[l] = w})

\* Far from the limit no line is lost: all are printed or still due, and all
\* are printed once pending has been seen at zero.
NoneLost ==
  limit > Cardinality(Leaves) =>
    /\ LinesCounted
    /\ \A l \in Leaves \ ToSet(lines) : \E s \in Loaded(Places) : l \in Below[Places[s]]
    /\ \A w \in Workers : wk[w].pc # "halt"
    /\ stop \/ (\E w \in Workers : wk[w].pc \in {"zero2", "set"})
         => Leaves \subseteq ToSet(lines)

ZeroInv == IInv /\ OnceInv /\ NoneLost

\* One worker: the lines counted are those printed and the one in hand.  They
\* are as many as the limit from the moment the worker halts; stop is set only
\* then or when all are printed, and the worker takes up no term after it.
Alone(g) ==
  LET counted == printed + g.local
      about == IF g.pc \in {"halt", "flush", "print"} THEN 1 ELSE 0
      done == Leaves \subseteq ToSet(lines)
  IN /\ counted = Len(lines) + about /\ counted <= limit
     /\ counted = limit => stop \/ g.pc = "halt"
     /\ g.pc = "halt" => counted = limit
     /\ stop => counted = limit \/ done
     /\ stop => g.pc \notin {"pop", "go", "cnf", "second", "pushed", "halt"}
     /\ g.pc \in {"zero2", "set"} => done
     /\ g.pc \in {"leave", "done"} => stop
     /\ \A l \in Leaves \ ToSet(lines) : \E s \in Loaded(Places) : l \in Below[Places[s]]
OneInv == N = 1 => \A w \in Workers : Alone(wk[w])

\* A bucket is full only for a time: whoever spins in a push leaves it, since
\* others steal from the bucket, or else the deadlock is detected.
PushReturns ==
  \A w \in Workers : fr[w].op \in {"push", "full"} ~> fr[w].op \notin {"push", "full"}

\* The collapser ends, or reports that the queue is deadlocked.
Ends == <>(Halted \/ Q!Crashed)
=============================================================================
