------------------------------ MODULE Program -------------------------------
(***************************************************************************)
(* src/clang/runtime/ and src/clang/eval/normalize.c around the machine: a *)
(* source is parsed into the static part of the heap, @main is normalized  *)
(* by the threads, and the result is read back from the heap.              *)
(*                                                                         *)
(* Normalize has the traversal in full.  Here a deque takes each operation *)
(* at once, and the threads end together when none of them has work.  What *)
(* the parser makes of each source is a constant here, and Parse in        *)
(* ProgramMeaning.                                                         *)
(***************************************************************************)
EXTENDS Wnf

\* A program is a record: defs, a sequence of <<name, source>>; threads, steps
\* and words, the options; and what to expect: ends, the reason it ends, result,
\* a source with the same meaning as its normal form, and work, its interactions.
CONSTANTS Programs,
          Main,      \* the name of the definition to run
          Image,     \* Image[p]: the state in which the parser ends with program p
          Levels     \* Levels[p][l]: how many binders are around its static cell l

ASSUME ProgramAssumption ==
  \A p \in Programs : /\ p.threads \in 1..MaxThreads /\ (p.steps => p.threads = 1)
                      /\ p.words \in Nat /\ p.threads <= p.words

\* The static words are closed: those that can be reached from the book own
\* cells that can be reached, and hold no variable, copy or pending allocation.
\* No place is under 2^16 binders, the length that alo_dup keeps.
Around(t, c) == IF t.tag = "LAM" \/ (t.tag = "DUP" /\ c # t.val) THEN 1 ELSE 0

StaticTerms(s, level) ==
  /\ s.next \in Nat \ {0} /\ DOMAIN s.heap = 1..(s.next - 1)
  /\ DOMAIN s.book \subseteq Nat /\ \A d \in DOMAIN s.book : s.book[d] \in DOMAIN level
  /\ DOMAIN level \subseteq DOMAIN s.heap
  /\ \A l \in DOMAIN level :
       LET t == s.heap[l]
       IN /\ level[l] \in Nat /\ level[l] < 65536
          /\ t.ext \in Nat /\ t.val \in Nat /\ Bare(t) = t
          /\ t.tag \notin {"VAR", "DP0", "DP1", "ALO"}
          /\ \A c \in Cells(t) : c \in DOMAIN level /\ level[c] >= level[l] + Around(t, c)

ASSUME ImageAssumption ==
  \A p \in Programs : Image[p].error = "" => StaticTerms(Image[p], Levels[p])

VARIABLES program,   \* the program that runs
          root,      \* root_loc
          at,        \* the location a thread evaluates
          was,       \* cur in wnf_at: what the location held
          todo,      \* the deque of a thread, oldest task first
          seen       \* ctx.seen

taskVars == <<program, root, at, was, todo, seen>>
vars == <<wnfVars, taskVars>>

ThreadFn(x) == [t \in Threads |-> x]

\* heap_init_slices: bank t of a heap of words, and its first cell.
BankStart(t, p) == IF t = 0 THEN 1 ELSE t * (p.words \div p.threads)
BankEnd(t, p) == IF t = p.threads - 1 THEN p.words ELSE (t + 1) * (p.words \div p.threads)
InUse(t, p) == t < p.threads

Init ==
  /\ program \in Programs
  /\ threads = program.threads
  /\ nextFree = [t \in Threads |-> IF InUse(t, program) THEN BankStart(t, program) ELSE 0]
  /\ end = [t \in Threads |-> IF InUse(t, program) THEN BankEnd(t, program) ELSE 0]
  /\ book = <<>> /\ heap = <<>> /\ fresh = 1
  /\ itrs = ThreadFn(0) /\ limit = ThreadFn(0)
  /\ pc = ThreadFn("idle")
  /\ cur = ThreadFn(Zero) /\ was = ThreadFn(Zero) /\ at = ThreadFn(0)
  /\ stack = ThreadFn(<<>>) /\ todo = ThreadFn(<<>>)
  /\ seen = {} /\ root = 0
  /\ exit = "loading"

-----------------------------------------------------------------------------
(* runtime_prepare and runtime_eval_main.                                  *)

\* The parser's state s is the start of bank 0, if there is a program to run.
Install(s) ==
  IF s.error # "" \/ Main \notin DOMAIN s.book
  THEN exit' = "rejected" /\ UNCHANGED <<book, heap, nextFree>>
  ELSE IF s.next > end[0]
  THEN exit' = "memory" /\ UNCHANGED <<book, heap, nextFree>>
  ELSE /\ book' = s.book /\ heap' = s.heap
       /\ nextFree' = [nextFree EXCEPT ![0] = s.next]
       /\ UNCHANGED exit

Load ==
  /\ exit = "loading" /\ book = <<>>
  /\ Install(Image[program])
  /\ UNCHANGED <<threads, end, itrs, fresh, limit, pc, cur, stack, taskVars>>

\* eval_normalize: the root is the first task of thread 0.
Start ==
  /\ exit = "loading" /\ book # <<>>
  /\ IF nextFree[0] + 1 > end[0]
     THEN exit' = "memory" /\ UNCHANGED <<heap, nextFree, root, todo>>
     ELSE /\ heap' = Write(nextFree[0], Word("REF", Main, 0)) ++ heap
          /\ nextFree' = [nextFree EXCEPT ![0] = @ + 1]
          /\ root' = nextFree[0]
          /\ todo' = [todo EXCEPT ![0] = <<nextFree[0]>>]
          /\ exit' = "running"
  /\ UNCHANGED <<static, itrs, fresh, limit, pc, cur, stack, program, at, was, seen>>

-----------------------------------------------------------------------------
(* eval_normalize_worker and eval_normalize_go.                            *)

Visit(t, loc) == at' = [at EXCEPT ![t] = loc] /\ Goto(t, "visit")

Pop(t) ==
  /\ Running(t, "idle") /\ todo[t] # <<>>
  /\ Visit(t, Last(todo[t]))
  /\ todo' = [todo EXCEPT ![t] = Front(@)]
  /\ UNCHANGED <<static, heap, nextFree, itrs, fresh, limit, cur, stack, exit,
                 program, root, was, seen>>

Steal(t, victim) ==
  /\ Running(t, "idle") /\ InUse(t, program)
  /\ todo[t] = <<>> /\ victim # t /\ todo[victim] # <<>>
  /\ Visit(t, Head(todo[victim]))
  /\ todo' = [todo EXCEPT ![victim] = Tail(@)]
  /\ UNCHANGED <<static, heap, nextFree, itrs, fresh, limit, cur, stack, exit,
                 program, root, was, seen>>

\* uset_add: somebody has been here, or t is the first.
PassBy(t) ==
  /\ Running(t, "visit") /\ (at[t] = 0 \/ at[t] \in seen)
  /\ Goto(t, "idle") /\ at' = [at EXCEPT ![t] = 0]
  /\ UNCHANGED <<static, heap, nextFree, itrs, fresh, limit, cur, stack, exit,
                 program, root, was, todo, seen>>

Claim(t) ==
  /\ Running(t, "visit") /\ at[t] # 0 /\ at[t] \notin seen
  /\ seen' = seen \cup {at[t]} /\ Goto(t, "read")
  /\ UNCHANGED <<static, heap, nextFree, itrs, fresh, limit, cur, stack, exit,
                 program, root, at, was, todo>>

\* wnf_at and wnf_steps_at.  The cell of a copy is read, not taken.
Read(t) ==
  /\ Running(t, "read") /\ heap[at[t]] # Zero
  /\ LET cell == heap[at[t]]
     IN /\ To(t, cell) /\ was' = [was EXCEPT ![t] = cell]
        /\ IF cell.tag \in Values THEN Goto(t, "below") /\ UNCHANGED limit
           ELSE /\ Goto(t, "enter")
                /\ limit' = IF program.steps THEN [limit EXCEPT ![t] = itrs[t] + 1] ELSE limit
  /\ UNCHANGED <<static, heap, nextFree, itrs, fresh, stack, exit,
                 program, root, at, todo, seen>>

\* heap_read waits for a cell that another thread has taken.
ReadWait(t) == Running(t, "read") /\ heap[at[t]] = Zero /\ UNCHANGED vars

Back(t) ==
  /\ Running(t, "returned")
  /\ heap' = IF cur[t] = was[t] THEN heap ELSE [heap EXCEPT ![at[t]] = cur[t]]
  /\ IF program.steps /\ itrs[t] >= limit[t]
     THEN /\ Goto(t, "enter") /\ limit' = [limit EXCEPT ![t] = itrs[t] + 1]
          /\ was' = [was EXCEPT ![t] = cur[t]]
     ELSE Goto(t, "below") /\ limit' = [limit EXCEPT ![t] = 0] /\ UNCHANGED was
  /\ UNCHANGED <<static, nextFree, itrs, fresh, cur, stack, exit,
                 program, root, at, todo, seen>>

\* A slip: the parts start one cell after the node.
ChildrenShifted(t) ==
  /\ Running(t, "below")
  /\ LET n == Arity(cur[t])
     IN /\ IF n = 0 /\ cur[t].tag \notin Dps
           THEN Goto(t, "idle") /\ at' = [at EXCEPT ![t] = 0]
           ELSE Visit(t, cur[t].val + 1)
        /\ todo' = [todo EXCEPT ![t] = @ \o [i \in 1..(n - 1) |-> cur[t].val + n - i + 1]]
  /\ To(t, Zero) /\ was' = [was EXCEPT ![t] = Zero]
  /\ UNCHANGED <<static, heap, nextFree, itrs, fresh, limit, stack, exit,
                 program, root, seen>>

\* The cell of a copy is next, or the parts of a node: the first one now.
Children(t) ==
  /\ Running(t, "below")
  /\ LET n == Arity(cur[t])
         others == [i \in 1..(n - 1) |-> cur[t].val + n - i]
     IN /\ IF n = 0 /\ cur[t].tag \notin Dps
           THEN Goto(t, "idle") /\ at' = [at EXCEPT ![t] = 0]
           ELSE Visit(t, cur[t].val)
        /\ todo' = [todo EXCEPT ![t] = @ \o others]
  /\ To(t, Zero) /\ was' = [was EXCEPT ![t] = Zero]
  /\ UNCHANGED <<static, heap, nextFree, itrs, fresh, limit, stack, exit,
                 program, root, seen>>

Finish ==
  /\ exit = "running"
  /\ \A t \in Threads : pc[t] = "idle" /\ todo[t] = <<>>
  /\ exit' = "done"
  /\ UNCHANGED <<static, heap, nextFree, itrs, fresh, limit, pc, cur, stack, taskVars>>

Ended == exit \notin {"loading", "running"}
Rest == Ended /\ UNCHANGED vars

-----------------------------------------------------------------------------
Tasks(t) ==
  \/ Pop(t) \/ (\E v \in Threads : Steal(t, v)) \/ PassBy(t)
  \/ Claim(t) \/ Read(t) \/ ReadWait(t) \/ Back(t) \/ Children(t)
Machine(t) == (Enters(t) \/ Applies(t)) /\ UNCHANGED taskVars

Next ==
  \/ Load \/ Start \/ Finish \/ Rest
  \/ \E t \in Threads : Tasks(t) \/ Machine(t)

\* The scheduler stops no thread for ever.
Fairness == WF_vars(Finish) /\ \A t \in Threads : WF_vars(Tasks(t) \/ Machine(t))

Spec == Init /\ [][Next]_vars
FairSpec == Spec /\ Fairness


-----------------------------------------------------------------------------
(* Properties.                                                             *)

\* Every variable has its type.
TypeOK ==
  /\ program \in Programs /\ threads = program.threads
  /\ DOMAIN book \subseteq Nat /\ \A d \in DOMAIN book : book[d] \in DOMAIN heap
  /\ pc \in [Threads -> {"idle", "visit", "read", "enter", "apply", "rebuild", "returned", "below"}]
  /\ itrs \in [Threads -> Nat] /\ limit \in [Threads -> Nat] /\ fresh \in Nat
  /\ at \in [Threads -> DOMAIN heap \cup {0}] /\ seen \subseteq DOMAIN heap
  /\ \A t \in Threads : \A i \in DOMAIN todo[t] : todo[t][i] \in DOMAIN heap
  /\ exit \in {"loading", "running", "done", "rejected", "memory", "application"}

\* A rule writes the cells it allocated, all of them, and none past the end of
\* its thread's bank (heap_alloc checks the words that a rule asks for, and
\* nothing checks the cells that it then writes).
BanksKept ==
  /\ DOMAIN heap = UNION {BankStart(t, program)..(nextFree[t] - 1) :
                            t \in {t \in Threads : InUse(t, program)}}
  /\ \A t \in Threads : nextFree[t] <= end[t]

\* No two frames evaluate the value of the same copied cell, in one thread or
\* in two, and while a frame does nobody else writes the cell: of two threads
\* that need the two copies, one takes the value and the other one waits.  No
\* thread evaluates the word that a taken cell holds meanwhile.
Frames == UNION {{<<t, i>> : i \in DOMAIN stack[t]} : t \in Threads}
CopyFrames == {f \in Frames : stack[f[1]][f[2]].tag \in Dps}
NotEmptied == \A t \in Threads : Running(t, "enter") => Bare(cur[t]) # Zero

TakenOwned ==
  LET taken == {stack[f[1]][f[2]].val : f \in CopyFrames}
  IN /\ Cardinality(taken) = Cardinality(CopyFrames)
     /\ threads > 1 => \A l \in taken : heap[l] = Zero
     /\ NotEmptied

\* A program that starts ends: no thread waits for ever for a cell.
Terminates == exit = "running" ~> Ended
=============================================================================
