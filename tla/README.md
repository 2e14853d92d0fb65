# A TLA+ verification of HVM4

HVM4 is a run-time system for the interaction calculus, written in C
(`src/clang`, one translation unit, `hvm.c` includes everything). A program is
parsed into a book of static terms; evaluation copies them lazily to a heap of
64-bit words and rewrites them by interaction rules, on up to 64 threads. Two
evaluators sit on top: `eval_normalize` computes a strong normal form in
parallel, `eval_collapse` enumerates the superposition-free terms of a result.

This directory holds TLA+ modules of the system from the source program to its
normal form, the TLC configurations that check them on small instances, and
TLAPS proofs about the concurrent core and the memory of the machine that hold
for every value of their constants.

## 1. The system

| component | source | state it keeps | operations |
|---|---|---|---|
| work-stealing deque | `data/wsq.c` | `top`, `bot`, ring `buf` | `wsq_push`, `wsq_pop` (owner), `wsq_steal`, `wsq_can_steal` (any thread) |
| priority work-stealing queue | `data/wspq.c` | per worker a bank of 64 deques and a mask of the buckets that may be non-empty | `wspq_push`, `wspq_pop`, `wspq_steal_some`, `wspq_can_steal` |
| visited set | `data/uset.c` | a bit per heap location | `uset_add` (an atomic fetch-or) |
| parallel normalization | `eval/normalize.c` | a deque per worker, the visited set, the counter `pending` of active workers | the worker's loop, `eval_normalize_go`, `eval_normalize_enqueue` |
| collapse | `eval/collapse.c` | the key queue, `printed`, `pending`, `stop` | the worker's loop, `eval_collapse_process_loc` |
| CNF step and pool | `cnf/_.c` | a deque per worker, `pending`, `active`; per fork the tasks, results and a counter on the C stack | `cnf_at`, spawn, join, `cnf_pool_try_run` |
| heap banks | `heap/init_slices.c`, `heap/alloc*.c` | `HEAP_NEXT`, `HEAP_END` per thread | slicing, bump allocation |
| heap cells | `heap/{read,take,set*,subst*}.c` | the words; zero means "taken" | read (spins on zero), take (exchange with zero), substitutions |
| weak normal form | `wnf/_.c` | an explicit stack per thread, interaction counters | enter, apply, `wnf_rebuild`, `wnf_at` |
| interaction rules | `wnf/*.c` (about 60 files) | the cells of the redex | one function per rule |
| book terms on demand | `wnf/alo_*.c` | environment chains | lazy copy of a static term |
| term words | `term/*` | - | SUB 1, TAG 7, EXT 18, VAL 38 bits |
| parser | `parse/*` | position, binder stack, fresh labels | terms, definitions, automatic duplication |
| AOT compiler | `aot/*` | - | prints a C program, with a fall-back to the interpreter |
| run time, CLI | `runtime/*`, `main.c` | globals, options | set-up and tear-down |
| primitives, FFI | `prim/*`, `ffi/*` | a table of natives | registration, `dlopen` |
| printer, names, tables | `print/*`, `nick/*`, `table/*` | - | text |

How they interact. The evaluators create one thread per worker; a worker owns
its deques and its bank and only steals from the others'. Both evaluators stop by
a shared counter of *active* workers: a worker that finds nothing leaves the
counter, one that has spotted a task enters it *before* it steals. A normalizing
worker takes a heap location, claims it in the visited set, calls `wnf_at` on it
and enqueues the locations under the result. A collapsing worker takes a
location, calls `cnf` on it, and pushes both branches of a superposition back
with a larger key, follows a priority wrapper (`INC`) with a smaller one, drops an
erasure, and prints anything else. `cnf` forks the fields of a node as tasks of
a second pool of deques; workers of the collapser with nothing to do help there,
and a worker that waits for its own fields runs other tasks meanwhile.

What is hard: the owner and a thief at the last task of a deque; the entry to
and the exit from the counters while tasks move; full deques (a visit in line, a
task in line, a spin with a deadlock test); masks that are hints; the limit of
`-C<N>` counted in batches without a lock; pointers into stacks of other
threads; joins nested across stacks. What must hold, per component:

- deque: every task handed out once, `full` and `empty` only when true;
- key queue: nothing lost or doubled, best key first, masks that never hide a task;
- normalization: each location once, parents first, no early exit, termination;
- collapse: each line once, no early stop, the limit, the order, termination;
- CNF: no pointer outlives its frame, joins end, the meaning of a term is kept;
- heap: banks are disjoint; a duplication is fired by one thread once;
- rules: confluence, hence the same result for any schedule.

`PROJECT.json` lists the hazards with their lines, and the properties that would
notice each one.

## 2. The modules

```
Deque (abstract)  <== Wsq            MCWsq          WsqProofs
Traversal (abs.)  <== Normalize      MCNormalize    NormalizeProofs
                      Wspq           MCWspq         WspqProofs
                        ^ INSTANCE
BestFirst (abs.)  <== Collapse       MCCollapse     CollapseProofs
                                                    CollapseTreeProofs, CollapseOneProofs
                      Cnf <- CnfMeaning <- MCCnf     CnfProofs

Terms <- Rules <- Wnf <- Program                    ProgramProofs
Terms <- Parse <- Trees
ProgramMeaning EXTENDS Program, Trees <- MCProgram
```

**Wsq** (`data/wsq.c`). One action per access to a shared word. The owner's
program counter `pc` and locals `b`, `t`, `x` are those of `wsq_push` and
`wsq_pop`; each thief has `tpc`, `tt`, `tx`. `PushLoad`, `PushWrite`,
`PushPublish`; `PopDec`, `PopMany`, `PopLast`, `PopCasWin/Lose`, `PopRestore`,
`PopReset`; `StealLoadTop`, `StealLoadBot`, `StealRead`, `StealCasWin/Lose`
follow the lines in order. A task is the number of its push. **Deque** is what
the callers rely on: a bounded double-ended queue whose operations take effect
at one instant, with an outcome that must be justified. `Wsq` implements it
under the mapping that reads the held slots as a sequence (`Content`).

**Normalize** (`eval/normalize.c`, `data/uset.c`). A worker is its program
counter, its local `active`, the position of its scan for a victim, the
location it visits and the stack of `eval_normalize_enqueue` loops it is in (a
full deque makes `eval_normalize_go` recursive). Deques are sequences, as
`Wsq` implements them, with what a thief can still observe of an operation in
progress: a pop hides the last task while it decides (`Visible`), a steal fails
when `top` moved after its snapshot (`fresh`), and `wsq_can_steal`, which loads
`top` before `bot`, may see a task that a pop has just taken (`MaySee`): a worker
then enters the counter for nothing. The heap is `Kids`: the
locations under the value that `wnf_at` leaves. **Traversal** is the promise:
each reachable location once, parents first, stop when none is left.

**Wspq** (`data/wspq.c`). `fr[w]` is the frame of the queue operation worker
`w` is in. Masks are read, set and cleared one access at a time; the deadlock
test looks at the banks one after the other, may find the bank of another worker
full when it is not (`LooksFull`; more often here than in the code), and may end the
process. Any
worker calls any operation with any argument; `Collapse` instead calls
`PushCall`, `PopCall` and `StealCall` where the code does.

**Collapse** (`eval/collapse.c`, over an instance of `Wspq`). A worker is the
frame `wk[w]` of `eval_collapse_worker` and `eval_collapse_process_loc`. Terms are
the locations of a tree of `SUP`, `INC`, `ERA` and printable leaves. The pool of
`cnf` is reduced to its effect on the collapser: who is inside `cnf`, who helps
whom, and the second counter that is read before `stop` is set. A worker in a
join leaves that counter and enters it again, whether the join is in its own `cnf`
or in a task it runs for another (`Waits`). **BestFirst** is
what a single worker promises: the search of the tree that takes a term with the
least key, the oldest of them, and prints what is neither a superposition, a
wrapper nor an erasure. The mapping reads the buckets, with the terms that a
call of the queue holds, as its frontier.

**Terms** (`term/`, `hvm.c`): the words. **Rules** (`wnf/*.c`): one operator per
interaction, or one for several of the same shape. A rule is a record: the
term it leaves, whether that is entered or applied, the cells it writes, the
words it asks `heap_alloc` for, and the interactions it counts; what it writes
and what it asks for are taken from different lines of the code, so that a
disagreement shows. The rules of `ALO` copy a static term lazily, with the
chain of its environment. **Wnf** (`wnf/_.c`): the machine. A thread has a
stack of frames, the term in hand (`cur`) and a step `pc`: `Enter*` walk to the
head, `Apply*` fire what the frame and the value call for, `Rebuild*` turn the
frames back into terms at the limit of the step mode. A rule is one step,
because the cells it reads and writes are its thread's own; the exception is
the cell of a duplication, and there `EnterCopy` (the exchange with zero) comes
before the rule, and the release store that fills the cell is part of the rule.
`EnterWait` and `ReadWait` are the spins.

**Parse** (`parse/`): from the forms of the source to static words. `Lam`, `Let`,
`Dup`, `Fork`, `Match`, ... are the forms; one operator parses each, in the order
of the code, over the state of the parser (the next free cell, the words, the
binders, the fresh labels). `AutoDup` adds a duplication per extra use and moves
the levels of the binders inside. **Trees** says what a source, a static word
and a heap *mean*: the tree, with binders by level, in which every copy is
substituted. **Program** (`runtime/`, `eval/normalize.c`, `heap/init_slices.c`):
the book is loaded in bank 0 and the threads normalize `@main`; an operation of a
deque is atomic here, as `Normalize` treats the traversal in full. The state in
which the parser ends with a program is the constant `Image[p]`, so that
`Program` needs no recursion. **ProgramMeaning** computes it (`Images`, with
`ParseProgram`) and states what evaluation means; in the runs `Image` is `Images`.
The constant `Levels` says how many binders are around each static cell; only
the assumption about images uses it, no action does.

**Cnf** (`cnf/_.c`). `stack[w]` is the C stack of worker `w`; a frame is a call
of `cnf_at` with the results of its fields, the counter of its tasks and the
place its own result goes to. A task points into a frame by its address
`<<worker, depth, field>>`, as `out` and `pending` do in C. **CnfMeaning** says
what a result means: one superposition-free term for each choice of a side per
label.

## 3. What TLC checks

| run | instance | shows |
|---|---|---|
| `wsq` | 2 thieves (symmetric), ring of 2, 6 pushes | `TypeOK`, `ExactlyOnce`, the inductive `IInv`, and refinement of `Deque` |
| `normalize` | 3 workers, deques of 2, 5 locations, one of them under two others | `PendingExact`, `NoEarlyExit`, `EvaluatedOnce`, `IInv`, refinement of `Traversal`, `Termination` |
| `wspq` | 2 workers, 2 buckets of 1 slot, 3 tasks | `ExactlyOnce`, `MaskSound`, `BestKey`, `IInv` |
| `collapse` | 2 workers, 3 buckets, 6 locations, limit 1 or none | `PendingExact`, `NoEarlyStop`, `PrintedOnce`, `AtMostLimit`, the inductive `ZeroInv`, `Ends` |
| `collapse_one` | 1 worker, 23 locations, limit 1, 7 or none | `InOrder` (refinement of `BestFirst`), `ExactLimit` |
| `cnf` | 3 workers, deques of 1, `par_depth` 2, six scenarios | `TasksCounted`, `NoDangling`, `PoolCount`, the inductive `IInv`, `MeaningKept`, `HeadOrClean`, `Returns` |
| `program` | 14 programs of all forms and rules, at once and step by step; refused ones; full heaps; 8 programs on 2 threads, 1 on 3 | `BanksKept`, `TakenOwned`, `Linear`, `ResultRight`, `SameWork`, `Resolved`, `Affine`, `Terminates` |
| `fork_affine` | 1 thread | violates `Affine` |
| `collapse_garbage` | 1 worker | violates `AtLeastLimit` |
| `collapse_short` | 2 workers, limit 1 | violates `AtLeastLimit` |
| `collapse_stall` | 2 workers, buckets of 2 | violates `PushReturns` |
| `cnf_inc` | 2 workers | violates `HeadOrClean` |

Bounds, and why they are enough for the cases that matter. A ring of 2 slots with
6 pushes goes round three times, so slots are reused under a thief's
snapshot and the full test is hit with a stale `top`; two thieves race each
other and the owner. Deques and buckets of one or two slots make every
resource limit of the code happen at once (they hold 2^16 to 2^22 tasks in the
code, where it would take days), and three workers are the fewest with which a
worker can be robbed while it robs. The tree of `collapse` has two depths of
superpositions, a wrapper and an erasure, so keys go up and down; its buckets
of 3 never fill, so that the push which spins and the deadlock test are the matter of
`wspq` and `collapse_stall`, and what `Ends` shows is the counters. In `cnf` four scenarios end with a
superposition, an erasure or a wrapper at the root and two with a plain term: one that
forks at two depths, and one collapsed while another worker lifts a superposition
and both help; the second half of `HeadOrClean` is about these. `Attempts` is 2 as in the
code; a steal takes up to `Batch` tasks, 2 in `wspq` and `collapse_one` and 1 in
`collapse`, instead of 32; `Period` is 2 or 3 instead of 128: the same branches,
sooner. `Limits` holds the limits a behaviour may start with; the large
one stands for "no limit" and gives the full print batch of 64. `MaxPush`,
`MaxTask`, `Fields` and `Scenarios` are bounds of the models, not of the code.

`program` takes every form and fires every rule in programs of one thread,
where the machine is deterministic and their size costs nothing; a program
gives the result it should have and its number of interactions, both those of
the real program. Each runs a second time in the step mode, where every
interaction ends with `wnf_rebuild`. The programs on two threads are small (a
node, a lambda, a superposition, an operation or a stuck term, shared) because
all their interleavings are explored; one of three threads lets two wait for one
cell. `NumBits` is 10 instead of 32: numbers wrap all the same. `words` is 600,
and 20, 24 and 60 for the heaps that are full when the book is loaded, when the
root is stored and inside a rule.

Fairness. Every worker is a thread of the operating system that never blocks, so
each is weakly fair. `Normalize`, `Cnf` and `Program` need no more (a thread
that spins on a taken cell stutters). `Collapse` needs two
further assumptions, which the scheduler gives with probability one but not
certainly: a thief that tries again and again takes a task in the end
(strong fairness of the success of a steal), and an owner that pops again and
again while its bank is not empty gets a task in the end (`OwnerPops`).
Without the second two workers may pass the last task to each other for ever,
each losing it between its own push and its own pop; this is a livelock that the
code allows and that TLC finds when the assumption is removed.

## 4. Where the code and its text disagree

- `collapse_garbage`. `eval_collapse` sets every field of its context except
  `stop`, which the workers read first. Where the stack holds a non-zero word,
  nothing is printed. `Init` therefore lets `stop` be anything; the other runs
  of `Collapse` use `ZeroSpec`, the behaviours that start from a zero word.
- `collapse_stall`. A worker that spins in `wspq_push` on a full bucket may
  never be relieved: the bit of a better bucket that it emptied just before is
  still in its mask, thieves look only at the lowest bit and never clear one,
  and the deadlock test needs that bucket to be full in *all* banks. The header says
  that the push spins if a bucket is *temporarily* full.
- `collapse_short`. With several workers `-C1` may print nothing: both add
  their line to `printed` before either compares, and both see two.
- `cnf_inc`. The header of `cnf/_.c` promises no `INC` below the root of a
  result that has none at the root; the loops over the fields of a node ignore
  `INC`.
- `fork_affine`. Variables are affine, and `parse_term_fork` checks the ones it
  binds; but it counts the uses of the level below the one it pushed, and finds
  none. `&Aλx{[x,x];[x]}` is accepted, and its second use of `x` takes a cell
  that the first one has consumed.

More things are worth knowing, though no text contradicts them. With a
print batch above one (a limit of at least 200 per worker) more lines than the
limit may be printed, since a worker does not see what others have printed and
not yet counted; `AtMostLimit` is stated for a batch of one for that
reason. The deadlock test reads the banks one after the other and may see
banks full that were never full together; and it takes `bot - top` of two loads,
unsigned, which wraps when the owner is popping from an empty bucket (or
`top` passes the `bot` that was loaded), so that even an empty bank may count as full
(`wspq.c:121`). And a worker that left the counter of the
CNF pool and later forks tasks does not enter it again, so that when all have
left it, idle workers stop helping for good (`cnf/_.c:126`); forks still end.

About the machine and the parser:

- The labels of a definition are the same in all its expansions, so that
  `@t(@t)` of a cloned numeral annihilates where it should commute: one thread
  gives a wrong result, two may wait for a cell that they took themselves. The
  programs of `MCProgram` use one expansion of each cloned definition.
- Fresh labels start at `0x20000`, and a user's label may be as large.
- A stuck value goes back to its cell by a relaxed store (`wnf/_.c:488`), where
  the rules use a release.
- The fresh name of two compared lambdas starts at 1, like a user's `^a`:
  `(λx.x) === (λx.^a)` is 1.
- A case of `SWI` keeps 18 bits of its number and is compared with all 32:
  `λ{262144: 7; λx.9}(0)` is 7.
- A dynamic fork puts one word for its label in several nodes; a compound label
  is then shared without a copy.
- `count_uses` keeps the words ahead of it in 1024 places, untested; the length
  of an environment has 16 bits in `alo_dup`; shifts by 32 or more are undefined.

## 5. What is proved

For all constants that satisfy the named assumptions: `WsqAssumption`,
`NormalizeAssumption`, `WspqAssumption`, `CollapseAssumption`, `CnfAssumption`,
`TermsAssumption`, `WnfAssumption` and `ProgramAssumption` ask for positive sizes and well-typed heaps and terms, and `TreeAssumption` says that
what the collapser walks is a finite tree: no location is below two, since terms are
affine, none is below itself, and a leaf has nothing below it. A recursive
definition is enumerated without end (`eval/collapse.c:5`, `test/enum_nat.hvm`), which is
not a finite tree; but finitely many steps of it look at a finite part, and are steps on the
tree cut off below that part. So what is proved as safety holds of it too, while `Ends`
and whatever is said of *all* leaves is about finite trees. `ImageAssumption` says
what the parser leaves: the static words that can be reached from the book lie
below its next free cell, own cells that can be reached, hold no variable, copy
or pending allocation of the running kind, and are under fewer than 2^16 binders,
the length of an environment that `alo_dup` keeps. TLC evaluates it on every
program of `MCProgram`, with the images that `Parse` makes.

**WsqProofs.** `IInv` holds always (`Invariance`); from it `TypeCorrect`,
`DeliveredExactlyOnce` and `ImplementsDeque`. `ExactlyOnce` alone is not
inductive: whether a thief's CAS may succeed depends on the copy it made
earlier, so `IInv` adds that a snapshot of `top` that is still current is of a
held slot and its copy is the task in it (`Snapshots`), that the indices stay
within one lap while the owner is inside an operation (`Indices`), and that the
held slots carry different, undelivered tasks (`Cells`). The arithmetic fact
underneath is that indices less than `Cap` apart have different slots
(`SlotInjective`). The refinement maps the held slots to a sequence; each
access is shown to stutter or to be the one instant of its operation.

**NormalizeProofs.** `Invariance`, `TypeCorrect`, `CountsTheActive`, `EvaluatesOnce`,
`NoWorkIsLeft` and `ImplementsTraversal`. `IInv` says that the counter is the
number of active workers and that inactive ones have no work, that every
claimed location is being evaluated or done (`Claims`), and that
every location owed is claimed or is some worker's task: in a deque, in hand,
or ahead of one of its loops (`Coverage`). When the counter is zero all workers
are inactive, so there are no tasks and no claims, hence nothing is owed:
that is the argument for termination detection, for any number of workers and
any heap, and with it the refinement of `Traversal`.

**WspqProofs.** `Invariance`, `TypeCorrect`, `NoTaskIsLost`, `MasksAreSound`, `PopsTheBest`,
for any number of workers, buckets, slots and any callers. `IInv` adds to
`ExactlyOnce` what a hand holds at each step (`TaskInHand`), that the mask, or
the copy of it a pop is walking through, covers the bank (`MaskCovers`; others
only ever remove tasks from a bank, which keeps it true), and that a restricted
steal looks below the thief's own best bucket (`StealsBelow`).

**CnfProofs.** `Invariance`, `CountsTheTasks`, `NoTaskDangles`, `CountsTheActive`,
for any number of workers, capacity of the deques, forking depth and terms. A
task is an address in the stack of another worker, so the danger is that the frame
it points into has returned, or is already another call. `TasksCounted` (a
frame waits for as many tasks as there are for it) does not exclude that by
itself: the last task of a frame could be in two places, or two tasks could
write one field. `IInv` is the conjunction of

- `Types`, and `FramesFit`: each frame has one result per field, and the frame
  above it is the call that it made, or one that its worker took from a deque;
- `TasksApart`: no two tasks are for one field, and none is in two places (a
  deque, a thief's hand, a running call);
- `TasksPoint`: a task points to a frame that is forking or joining, to a field
  that has no result yet;
- `FieldsCounted`: the counter of a frame is the number of its fields that are
  not spawned yet or whose task is not done;
- `PoolCount`: the counter of the pool is the number of active workers.

A frame returns only when its counter is zero; then no task of it is left, and
nothing dangles (`NoDangling`). The long case is the end of a stolen call
(`GiveTask`): the result is stored in the stack of another worker and the counter
there goes down, while the same step pops the frame of the thief.

**CollapseProofs.** `Invariance`, `TypeCorrect`, `PendingIsExact`,
`KeepsTheLimit`, for any number of workers, any size of the key queue, any tree,
any limit and whatever the word `stop` held. That only active workers have work
is not inductive, because a worker counts itself out on the word of its last
pop: it may do so only if nothing came into its bank since. `IInv`
(`Types`, `WorkersFit`, `Counted`, `LimitKept`) therefore ties the step of a worker
to the frame of its queue operation and to its bank (`WorkerFits`): one that
popped nothing has an empty bank on the whole way from the search to the
counter, unless its steal has brought something, in which case it does not go
there; a worker that is not active is nowhere on the way to a steal. That the
pop was right needs the masks (`QueueFits`): what a pop still has to look at
covers the bank. What others do to a bank is to take tasks from it, and every
condition on a bank stays true of a smaller one (`FitsLess`), so that a step of
the queue concerns its own worker only. For the limit, the lines printed and the
workers about to print are at most `printed` (`LimitKept`).

**CollapseTreeProofs.** `PrintsOnce`, `StopsLate` and `ZeroInvariance`: no line is
printed twice, and far from the limit none is lost. A term is at one *place*: a
slot of a bucket, the hand of a queue operation, or the hand of a worker
(`Places`). `Once` says that what is due at two places is disjoint, and disjoint
from what is printed; a step moves a term from a place to another, or splits a
superposition over two. That no line is lost is the converse: everything
printed, counted for a print, or due somewhere is the whole tree. Lines are
counted in a local counter of a worker before the shared one, so that the
shared number alone does not say which lines it counts; `LinesCounted` gives every
counted line an owner, a worker or the shared counter, and a flush changes
owners. When `pending` is read as zero nothing is due at any place, hence every
line is printed. What a location holds below it is a recursive definition
(`Below`); the proofs do not induct over it but show that the least set closed
under children has the defining equation, and by a least counterexample that no
other function has (`BelowIs`).

**CollapseOneProofs.** With one worker: `StopsAtTheLimit` (`ExactLimit`), for any tree,
key queue, limit and print batch, and `PrintsInOrder`, the refinement of
`BestFirst`. `OneInv` says that the worker counts what it prints and that it halts
on the line that reaches the limit. For the order, `Pushing` keeps
the frame of a push together with the two halves of a superposition, so that a
term pushed but not yet in its bucket is already in the frontier of the search;
then the write of a push, the masks and the walk of a pop over them stutter,
and the one instant at which a pop takes a task is a step of the search from
the least key, because the masks cover the bank (`QueueFits`).

**ProgramProofs.** The memory discipline of the machine, for any programs, heap
sizes and numbers of threads: the state is well formed (`TypeOK`), each bank is
allocated without gaps, by its owner alone and within its slice (`BanksKept`), and
the words of the book are never written (`BookKept`). No rule tests the cells it
writes, so this is a property of all the rules together: about sixty, each of
which reuses cells of the nodes that it consumes and asks for others. That
every allocated cell was written, and none that was not allocated, is not
inductive: a rule writes where the words of the heap point. The invariant
(`IInv`) names three sets of allocated cells and says that they are disjoint from
each other and from the book:

- `F`, the cells of terms: each holds a word whose own cells are in `F`, whose
  variable or copy is in `F`, and whose pending allocation is known (`Firm`);
- `P`, the pairs of pending allocations: each refers to a place of the book and
  to a list of what is bound there, long enough for the binders around the place;
- `B`, among `F`, the cells that head such a list, with the link after each.

What a thread holds (its word, its frames, the root of its task) is of `F` as
well. `Sound` is the contract of a rule: it writes every cell it asks
for, otherwise only cells of `F`, and leaves a word of `F`; there is a lemma per
rule, and one per frame that collects them (`AppRuleSound`, ...). The allocation of
a book term is not of this kind, since it reads static words and makes pairs and
lists; `AloKeeps` treats it, and needs `ImageAssumption` for the list to be long
enough. `SoundKeeps` and `ThreadStep` then keep the sets apart for the thread
itself and for all others, whose cells only grow.

`OneThread` holds without condition, for the step mode too. `ManyThreads` assumes
`NotEmptied`: no thread enters the word of a cell that another one took and has
not filled yet. That the two sides of a copy are the only ones who reach its
cell, and that `EnterWait` guards both, is the linear ownership of terms, which is
not proved; `NotEmptied` is a part of `TakenOwned`, which TLC checks in every
interleaving of the programs on several threads.

Only model-checked: every liveness property (`Termination`, `Returns`, `Ends`,
`Terminates`), since fairness and `ENABLED` are outside the prover's reach;
`MeaningKept` and `HeadOrClean`, which compare a result of `cnf` with a recursive
definition of what it means, and need induction over the term; of the machine,
its ownership (`TakenOwned`, `Linear`), which is a property of the whole graph that
the words make, and its results (`ResultRight`, `SameWork`); and the parser
(`Resolved`, `Affine`), which is recursive over the source.

Assumed throughout: sequential consistency. The models interleave accesses in
program order, which is what the `seq_cst` fence of `wsq_pop` and the
acquire/release pairs are there for; that they suffice is not shown. The
counters are 64 bits wide and do not wrap within the bounds.

## 6. Not modelled, and the plan

Not modelled: the characters, precedence, includes and error texts of the
parser; the printer, names and tables; the code generator; primitives and FFI
loading; option parsing and statistics (sequential code covered by
`test/_all_.sh`). In `Wnf`, calls of compiled definitions and of primitives are
left out, and the running copy of a `DUP` word, since `ALO` turns every `DUP` of
a book into a cell. In `Program` a full deque (a recursive visit) is left to
`Normalize`, and `cnf` on the shared heap to `Cnf` and `Collapse`, where `wnf` is
a given tree, binder levels and the in-place reuse of nodes are left out. In
`Normalize` the value of a location does not depend on the order of evaluation.

Done, in this order: termination and task delivery (`Wsq`, `Normalize`, `Wspq`,
`Collapse`, `Cnf`), then the heap, the machine, its rules and the parser
(`Terms`, `Rules`, `Wnf`, `Parse`, `Trees`, `Program`, `ProgramMeaning`), and the
proofs. What the plan has left:

- a variant of `Wsq` with store buffers, in which the `seq_cst` fence matters;
- `cnf` over the shared heap, with `Wnf` in the place of the given tree;
- calls of compiled definitions and of primitives in `Wnf`;
- a larger print batch, with a bound on the lines that exceed the limit;
- the linear ownership of the heap as an inductive invariant of `Program`, from
  which `TakenOwned` follows and `ManyThreads` without its condition, and the meaning
  of a term (`MeaningKept`) as one of `Cnf`.

## 7. Running it

`tlc -workers 2 -config MCWsq.cfg MCWsq`, and likewise for the other
configurations; the longest takes about two minutes. `tlapm WsqProofs.tla`
checks the proofs of the deque, and likewise for `NormalizeProofs`, `WspqProofs`,
`CollapseProofs`, `CollapseTreeProofs`, `CollapseOneProofs`, `CnfProofs` and
`ProgramProofs`, whose many rules take about nine minutes.
Definitions with a comment that begins "A slip" are not part of any
specification: each is a plausible mistake in one operation, and putting it in
the place of the operation it stands before makes TLC report the property that
`PROJECT.json` names under `mutants`.
