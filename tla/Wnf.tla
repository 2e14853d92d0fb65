-------------------------------- MODULE Wnf ---------------------------------
(***************************************************************************)
(* src/clang/wnf/_.c: the machine that brings a term to weak normal form,  *)
(* run by several threads on one heap.  Entering walks to the head of the  *)
(* term and pushes what it passes as frames; applying pops a frame and     *)
(* fires the rule that the frame and the value call for.                   *)
(*                                                                         *)
(* A rule is one step: the cells it reads and writes belong to the thread, *)
(* but for the cell of a duplication, which heap_take empties before the   *)
(* rule and one release store fills after it.  Memory is sequentially      *)
(* consistent.  Compiled definitions and primitives are left out.          *)
(***************************************************************************)
EXTENDS Rules, SequencesExt

CONSTANT MaxThreads

ASSUME WnfAssumption == MaxThreads \in Nat \ {0}

Threads == 0..(MaxThreads - 1)

VARIABLES threads,   \* THREAD_COUNT
          book,      \* BOOK: the location of each definition
          heap,      \* HEAP: the cells allocated so far
          nextFree,  \* HEAP_NEXT, by thread
          end,       \* HEAP_END, by thread
          itrs,      \* ITRS, by thread
          fresh,     \* FRESH
          limit,     \* STEPS_ITRS_LIM, by thread
          pc,        \* the next step of a thread
          cur,       \* its local next or whnf
          stack,     \* WNF_STACK, innermost frame last
          exit       \* "running", or why the process ended

static == <<threads, book, end>>
wnfVars == <<threads, book, heap, nextFree, end, itrs, fresh, limit, pc, cur, stack, exit>>

Goto(t, step) == pc' = [pc EXCEPT ![t] = step]
To(t, term) == cur' = [cur EXCEPT ![t] = term]
Push(t, frame) == stack' = [stack EXCEPT ![t] = Append(@, frame)]
Top(t) == Last(stack[t])
Below(t) == Front(stack[t])

\* The step-by-step mode stops the machine at the limit, the rest runs.
AtLimit(t) == limit[t] # 0 /\ itrs[t] >= limit[t]
Running(t, step) == exit = "running" /\ pc[t] = step

-----------------------------------------------------------------------------
(* Firing a rule.                                                          *)

\* heap_alloc: the rule has room in the thread's bank, or the process ends.
HasRoom(t, r) == nextFree[t] + r.words <= end[t]

\* A slip: a rule takes one word less than it writes.
FireShort(t, r, rest) ==
  /\ HasRoom(t, r)
  /\ \E w \in {r.writes} : heap' = w ++ heap
  /\ nextFree' = [nextFree EXCEPT ![t] = @ + (IF r.words > 3 THEN r.words - 1 ELSE r.words)]
  /\ itrs' = [itrs EXCEPT ![t] = @ + r.count]
  /\ stack' = [stack EXCEPT ![t] = rest]
  /\ To(t, r.t) /\ Goto(t, r.go)
  /\ UNCHANGED <<static, limit, exit>>

Fire(t, r, rest) ==
  \/ /\ HasRoom(t, r)
     /\ \E w \in {r.writes} : heap' = w ++ heap
     /\ nextFree' = [nextFree EXCEPT ![t] = @ + r.words]
     /\ itrs' = [itrs EXCEPT ![t] = @ + r.count]
     /\ stack' = [stack EXCEPT ![t] = rest]
     /\ To(t, r.t) /\ Goto(t, r.go)
     /\ UNCHANGED <<static, limit, exit>>
  \/ /\ ~ HasRoom(t, r)
     /\ exit' = "memory"
     /\ UNCHANGED <<static, heap, nextFree, itrs, limit, pc, cur, stack>>

-----------------------------------------------------------------------------
(* Entering.                                                               *)

Strict == {"APP", "OP2", "EQL", "AND", "OR", "DSU", "DDU"}

Entering(t, tags) == Running(t, "enter") /\ ~ AtLimit(t) /\ cur[t].tag \in tags

EnterLimit(t) ==
  /\ Running(t, "enter") /\ AtLimit(t)
  /\ Goto(t, "rebuild")
  /\ UNCHANGED <<static, heap, nextFree, itrs, fresh, limit, cur, stack, exit>>

EnterVar(t) ==
  /\ Entering(t, {"VAR"})
  /\ LET cell == heap[cur[t].val]
     IN IF cell.sub THEN To(t, Bare(cell)) /\ UNCHANGED pc
        ELSE Goto(t, "apply") /\ UNCHANGED cur
  /\ UNCHANGED <<static, heap, nextFree, itrs, fresh, limit, stack, exit>>

\* A slip: heap_take reads the cell and leaves it full.
EnterCopyUntaken(t) ==
  /\ Entering(t, Dps)
  /\ LET cell == heap[cur[t].val]
     IN /\ cell # Zero
        /\ To(t, Bare(cell))
        /\ IF cell.sub THEN UNCHANGED stack ELSE Push(t, cur[t])
  /\ UNCHANGED <<static, heap, nextFree, itrs, fresh, limit, pc, exit>>

\* heap_take: a single thread leaves the cell, several exchange it with zero
\* and wait while another one has it.
EnterCopy(t) ==
  /\ Entering(t, Dps)
  /\ LET cell == heap[cur[t].val]
     IN /\ cell # Zero
        /\ heap' = IF threads = 1 THEN heap ELSE [heap EXCEPT ![cur[t].val] = Zero]
        /\ To(t, Bare(cell))
        /\ IF cell.sub THEN UNCHANGED stack ELSE Push(t, cur[t])
  /\ UNCHANGED <<static, nextFree, itrs, fresh, limit, pc, exit>>

\* The thread that needs the other copy of a value that is evaluated spins.
EnterWait(t) ==
  /\ Entering(t, Dps) /\ threads > 1
  /\ heap[cur[t].val] = Zero
  /\ UNCHANGED wnfVars

EnterStrict(t) ==
  /\ Entering(t, Strict)
  /\ Push(t, cur[t])
  /\ To(t, heap[cur[t].val])
  /\ UNCHANGED <<static, heap, nextFree, itrs, fresh, limit, pc, exit>>

EnterUns(t) ==
  /\ Entering(t, {"UNS"})
  /\ Fire(t, WnfUns(heap, nextFree[t], cur[t]), stack[t])
  /\ UNCHANGED fresh

EnterRef(t) ==
  /\ Entering(t, {"REF"})
  /\ IF cur[t].ext \in DOMAIN book THEN To(t, At("ALO", book[cur[t].ext])) /\ UNCHANGED pc
     ELSE Goto(t, "apply") /\ UNCHANGED cur
  /\ UNCHANGED <<static, heap, nextFree, itrs, fresh, limit, stack, exit>>

EnterAlo(t) ==
  /\ Entering(t, {"ALO"})
  /\ Fire(t, Alo(heap, nextFree[t], cur[t]), stack[t])
  /\ UNCHANGED fresh

EnterValue(t) ==
  /\ Entering(t, Values \cup {"ANY"})
  /\ Goto(t, "apply")
  /\ UNCHANGED <<static, heap, nextFree, itrs, fresh, limit, cur, stack, exit>>

-----------------------------------------------------------------------------
(* Applying: what each frame does with a value.                            *)

AppRule(h, k, frame, v) ==
  LET loc == frame.val
  IN CASE v.tag = "ERA" -> Erase
       [] v.tag \in Names \cup {"DRY"} -> AppName(loc, v)
       [] v.tag = "LAM" -> AppLam(h, v, h[loc + 1])
       [] v.tag = "SUP" -> AppSup(h, k, loc, v, h[loc + 1])
       [] v.tag = "INC" -> AppInc(h, loc, v)
       [] OTHER -> Stuck(frame, loc, v)

MatRule(h, k, mat, v) ==
  CASE v.tag = "ERA" -> Erase
    [] v.tag = "SUP" -> MatSup(h, k, mat, v)
    [] v.tag = "INC" -> MatInc(h, k, mat, v)
    [] v.tag \in Ctrs -> MatCtr(h, k, mat, v)
    [] v.tag = "NUM" -> MatNum(h, mat, v)
    [] v.tag \in Names \cup {"DRY"} -> Step("apply", At("DRY", k), Node(k, <<mat, v>>), 2, 0)
    [] OTHER -> Step("apply", At("APP", k), Node(k, <<mat, v>>), 2, 0)

UseRule(h, k, use, v) ==
  CASE v.tag = "ERA" -> Erase
    [] v.tag = "SUP" -> UseSup(h, k, use, v)
    [] v.tag = "INC" -> UseInc(h, k, use, v)
    [] OTHER -> UseVal(h, k, use, v)

DupRule(h, k, dp, v) ==
  CASE v.tag \in Names \cup {"ERA", "ANY", "NUM"} -> DupAtom(dp, v)
    [] v.tag = "LAM" -> DupLam(h, k, dp, v)
    [] v.tag = "SUP" -> DupSup(h, k, dp, v)
    [] v.tag \in {"DRY", "USE", "INC", "OP2", "DSU", "DDU"} \cup Mats \cup Ctrs -> DupNod(k, dp, v)
    [] OTHER -> Stuck(dp, dp.val, v)

Op2Rule(h, k, frame, v) ==
  LET y == h[frame.val + 1]
  IN CASE v.tag = "ERA" -> Erase
       [] v.tag = "NUM" -> Op2NumNum(frame.ext, v.val, y.val)
       [] v.tag = "SUP" -> Op2Sup(h, k, frame.ext, frame.val, v, y)
       [] v.tag = "INC" -> Op2Inc(h, k, frame.ext, v, y)
       [] OTHER -> Stuck(frame, frame.val, v)

Op2RightRule(h, k, frame, v) ==
  LET x == Num(frame.val)
  IN CASE v.tag = "ERA" -> Erase
       [] v.tag = "NUM" -> Op2NumNum(frame.ext, frame.val, v.val)
       [] v.tag = "SUP" -> Op2NumSup(h, k, frame.ext, x, v)
       [] v.tag = "INC" -> Op2NumInc(h, k, frame.ext, x, v)
       [] OTHER -> Step("apply", Word("OP2", frame.ext, k), Node(k, <<x, v>>), 2, 0)

EqlRule(h, k, frame, v) ==
  CASE v.tag = "ERA" -> Erase
    [] v.tag = "ANY" -> Answer(TRUE)
    [] v.tag = "SUP" -> EqlSup(h, k, frame.val, v, h[frame.val + 1])
    [] v.tag = "INC" -> EqlInc(h, frame.val, v)

EqlRightRule(h, k, loc, v) ==
  CASE v.tag = "ERA" -> Erase
    [] v.tag = "ANY" -> Answer(TRUE)
    [] v.tag = "SUP" -> EqlSupRight(h, k, loc, h[loc], v)
    [] v.tag = "INC" -> EqlIncRight(h, loc, h[loc], v)
    [] OTHER -> EqlValues(h, k, loc, h[loc], v, fresh)

DsuRule(h, k, frame, v) ==
  LET a == h[frame.val + 1]
      b == h[frame.val + 2]
  IN CASE v.tag = "ERA" -> Erase
       [] v.tag = "NUM" -> DsuNum(k, v, a, b)
       [] v.tag = "SUP" -> DsuSup(h, k, v, a, b)
       [] v.tag = "INC" -> DsuInc(h, k, v, a, b)
       [] OTHER -> Stuck(frame, frame.val, v)

DduRule(h, k, frame, v) ==
  LET val == h[frame.val + 1]
      bod == h[frame.val + 2]
  IN CASE v.tag = "ERA" -> Erase
       [] v.tag = "NUM" -> DduNum(k, v, val, bod)
       [] v.tag = "SUP" -> DduSup(h, k, v, val, bod)
       [] v.tag = "INC" -> DduInc(h, k, v, val, bod)
       [] OTHER -> Stuck(frame, frame.val, v)

AndRule(h, k, frame, v) ==
  LET b == h[frame.val + 1]
  IN CASE v.tag = "ERA" -> Erase
       [] v.tag = "SUP" -> AndSup(h, k, frame.val, v, b)
       [] v.tag = "INC" -> AndInc(h, frame.val, v)
       [] v.tag = "NUM" -> AndNum(v, b)
       [] OTHER -> Stuck(frame, frame.val, v)

OrRule(h, k, frame, v) ==
  LET b == h[frame.val + 1]
  IN CASE v.tag = "ERA" -> Erase
       [] v.tag = "SUP" -> OrSup(h, k, frame.val, v, b)
       [] v.tag = "INC" -> OrInc(h, frame.val, v)
       [] v.tag = "NUM" -> OrNum(v, b)
       [] OTHER -> Stuck(frame, frame.val, v)

-----------------------------------------------------------------------------
Applying(t, tags) ==
  Running(t, "apply") /\ stack[t] # <<>> /\ ~ AtLimit(t) /\ Top(t).tag \in tags

Reduce(t, rule(_, _, _, _)) ==
  Fire(t, rule(heap, nextFree[t], Top(t), cur[t]), Below(t)) /\ UNCHANGED fresh

\* The frame makes way for another one, and the term next is entered.
Descend(t, frame, next) ==
  /\ stack' = [stack EXCEPT ![t] = Append(Below(t), frame)]
  /\ To(t, next) /\ Goto(t, "enter")
  /\ UNCHANGED <<static, nextFree, itrs, fresh, limit, exit>>

ApplyApp(t) ==
  /\ Applying(t, {"APP"})
  /\ cur[t].tag \notin {"USE", "NUM"} \cup Mats \cup Ctrs
  /\ Reduce(t, AppRule)

\* A match needs its argument.
ApplyMatch(t) ==
  /\ Applying(t, {"APP"})
  /\ cur[t].tag \in {"USE"} \cup Mats
  /\ Descend(t, cur[t], heap[Top(t).val + 1])
  /\ UNCHANGED heap

\* RUNTIME_ERROR: cannot apply a number or a constructor.
ApplyData(t) ==
  /\ Applying(t, {"APP"})
  /\ cur[t].tag \in {"NUM"} \cup Ctrs
  /\ exit' = "application"
  /\ UNCHANGED <<static, heap, nextFree, itrs, fresh, limit, pc, cur, stack>>

ApplyMat(t) == Applying(t, Mats) /\ Reduce(t, MatRule)
ApplyUse(t) == Applying(t, {"USE"}) /\ Reduce(t, UseRule)
ApplyCopy(t) == Applying(t, Dps) /\ Reduce(t, DupRule)

Op2Left(t) == cur[t].tag = "NUM" /\ heap[Top(t).val + 1].tag # "NUM"
ApplyOp2(t) == Applying(t, {"OP2"}) /\ ~ Op2Left(t) /\ Reduce(t, Op2Rule)

\* The left operand is a number: the right one is next.
ApplyOp2Left(t) ==
  /\ Applying(t, {"OP2"}) /\ Op2Left(t)
  /\ Descend(t, Word("F_OP2_NUM", Top(t).ext, cur[t].val), heap[Top(t).val + 1])
  /\ UNCHANGED heap

ApplyOp2Right(t) == Applying(t, {"F_OP2_NUM"}) /\ Reduce(t, Op2RightRule)

EqlLeftTags == {"ERA", "ANY", "SUP", "INC"}
ApplyEql(t) == Applying(t, {"EQL"}) /\ cur[t].tag \in EqlLeftTags /\ Reduce(t, EqlRule)

\* The left value waits in the node while the right one is next.
ApplyEqlLeft(t) ==
  /\ Applying(t, {"EQL"}) /\ cur[t].tag \notin EqlLeftTags
  /\ Descend(t, At("F_EQL_R", Top(t).val), heap[Top(t).val + 1])
  /\ heap' = [heap EXCEPT ![Top(t).val] = cur[t]]

\* Two lambdas take the next fresh name.
ApplyEqlRight(t) ==
  /\ Applying(t, {"F_EQL_R"})
  /\ LET loc == Top(t).val
     IN /\ Fire(t, EqlRightRule(heap, nextFree[t], loc, cur[t]), Below(t))
        /\ fresh' = IF heap[loc].tag = "LAM" /\ cur[t].tag = "LAM" THEN fresh + 1 ELSE fresh

ApplyDsu(t) == Applying(t, {"DSU"}) /\ Reduce(t, DsuRule)
ApplyDdu(t) == Applying(t, {"DDU"}) /\ Reduce(t, DduRule)
ApplyAnd(t) == Applying(t, {"AND"}) /\ Reduce(t, AndRule)
ApplyOr(t) == Applying(t, {"OR"}) /\ Reduce(t, OrRule)

\* No frame is left: wnf returns.
Return(t) ==
  /\ Running(t, "apply") /\ stack[t] = <<>>
  /\ Goto(t, "returned")
  /\ UNCHANGED <<static, heap, nextFree, itrs, fresh, limit, cur, stack, exit>>

-----------------------------------------------------------------------------
(* wnf_rebuild: at the limit, the frames become terms again.               *)

ApplyLimit(t) ==
  /\ Running(t, "apply") /\ stack[t] # <<>> /\ AtLimit(t)
  /\ Goto(t, "rebuild")
  /\ UNCHANGED <<static, heap, nextFree, itrs, fresh, limit, cur, stack, exit>>

Rebuilt(h, k, frame, v) ==
  LET loc == frame.val
      back(t, writes, words) == Step("rebuild", t, writes, words, 0)
  IN CASE frame.tag = "APP" -> back(At("APP", loc), Write(loc, v), 0)
       [] frame.tag \in {"USE"} \cup Mats -> back(At("APP", k), Node(k, <<frame, v>>), 2)
       [] frame.tag = "F_OP2_NUM" ->
            back(Word("OP2", frame.ext, k), Node(k, <<Num(loc), v>>), 2)
       [] frame.tag = "F_EQL_R" -> back(At("EQL", loc), Write(loc + 1, v), 0)
       [] OTHER -> back(frame, Write(loc, v), 0)

RebuildFrame(t) ==
  /\ Running(t, "rebuild") /\ stack[t] # <<>>
  /\ Reduce(t, Rebuilt)

Rebuild(t) ==
  /\ Running(t, "rebuild") /\ stack[t] = <<>>
  /\ Goto(t, "returned")
  /\ UNCHANGED <<static, heap, nextFree, itrs, fresh, limit, cur, stack, exit>>

-----------------------------------------------------------------------------
Enters(t) ==
  \/ EnterLimit(t) \/ EnterVar(t) \/ EnterCopy(t) \/ EnterWait(t) \/ EnterStrict(t)
  \/ EnterUns(t) \/ EnterRef(t) \/ EnterAlo(t) \/ EnterValue(t)

Applies(t) ==
  \/ ApplyApp(t) \/ ApplyMatch(t) \/ ApplyData(t) \/ ApplyMat(t) \/ ApplyUse(t)
  \/ ApplyCopy(t) \/ ApplyOp2(t) \/ ApplyOp2Left(t) \/ ApplyOp2Right(t) \/ ApplyEql(t)
  \/ ApplyEqlLeft(t) \/ ApplyEqlRight(t) \/ ApplyDsu(t) \/ ApplyDdu(t) \/ ApplyAnd(t)
  \/ ApplyOr(t) \/ ApplyLimit(t) \/ RebuildFrame(t) \/ Rebuild(t) \/ Return(t)
=============================================================================
