-------------------------- MODULE CollapseOneProofs ---------------------------
(***************************************************************************)
(* The collapser with a single worker: it stops exactly at the limit, or   *)
(* with every line printed, for any tree, key queue, limit and batch.      *)
(***************************************************************************)
EXTENDS CollapseTreeProofs

-----------------------------------------------------------------------------
(* The steps a worker goes through.                                        *)

\* With stop set a worker takes up nothing: these are the steps with a term,
\* or towards one.
Busy == {"pop", "go", "cnf", "second", "pushed"}

LEMMA Hops ==
  ASSUME IInv, NEW w \in Workers, Collapsing(w)
  PROVE  /\ wk[w].pc = "halt" => LimitStop(w)
         /\ wk'[w].pc \in Busy => ~stop \/ wk[w].pc \in Busy
         /\ wk'[w].pc \in {"leave", "done"} => stop \/ wk[w].pc = "leave"
         /\ wk'[w].pc \in {"second", "pushed"} => CnfSup(w) \/ CnfSupSecond(w)
<1>1. wk \in [Workers -> WorkerIn] /\ wk[w] \in WorkerIn
  BY Here
<1>3. CASE Stopped(w)
  <2>1. wk[w].pc = "top" /\ wk'[w].pc = "leave" /\ stop
    BY <1>1, <1>3 DEF Stopped, At, Goto, WorkerIn
  <2> QED BY <2>1 DEF Busy
<1>4. CASE Pop(w)
  <2>1. wk[w].pc = "top" /\ wk'[w].pc = "pop" /\ ~stop
    BY <1>1, <1>4 DEF Pop, At, Goto, WorkerIn
  <2> QED BY <2>1 DEF Busy
<1>5. CASE Popped(w)
  <2>1. wk[w].pc = "pop" /\ wk'[w].pc = "go"
    BY <1>1, <1>5 DEF Popped, At, Goto, WorkerIn
  <2> QED BY <2>1 DEF Busy
<1>6. CASE PoppedNone(w)
  <2>1. wk[w].pc = "pop" /\ wk'[w].pc = "seek"
    BY <1>1, <1>6 DEF PoppedNone, At, Goto, WorkerIn
  <2> QED BY <2>1 DEF Busy
<1>7. CASE SeekOn(w)
  <2>1. wk[w].pc = "seek" /\ wk'[w].pc = "seek"
    BY <1>1, <1>7 DEF SeekOn, At, Goto, WorkerIn
  <2> QED BY <2>1 DEF Busy
<1>8. CASE SeekNone(w)
  <2>1. wk[w].pc = "seek" /\ wk'[w].pc = "help"
    BY <1>1, <1>8 DEF SeekNone, At, Goto, WorkerIn
  <2> QED BY <2>1 DEF Busy
<1>9. CASE SeekFound(w)
  <2>1. wk[w].pc = "seek" /\ wk'[w].pc \in {"steal", "enter"}
    BY <1>1, <1>9 DEF SeekFound, At, Goto, WorkerIn
  <2> QED BY <2>1 DEF Busy
<1>10. CASE Enter(w)
  <2>1. wk[w].pc = "enter" /\ wk'[w].pc = "steal"
    BY <1>1, <1>10 DEF Enter, At, Goto, WorkerIn
  <2> QED BY <2>1 DEF Busy
<1>11. CASE Steal(w)
  <2>1. wk[w].pc = "steal" /\ wk'[w].pc = "stealing"
    BY <1>1, <1>11 DEF Steal, At, Goto, WorkerIn
  <2> QED BY <2>1 DEF Busy
<1>12. CASE Stole(w)
  <2>1. wk[w].pc = "stealing" /\ wk'[w].pc \in {"top", "help"}
    BY <1>1, <1>12 DEF Stole, At, Goto, WorkerIn
  <2> QED BY <2>1 DEF Busy
<1>13. CASE Retire(w)
  <2>1. wk[w].pc = "retire"
    BY <1>13 DEF Retire, At
  <2>2. \/ wk' = [wk EXCEPT ![w] = [@ EXCEPT !.pc = "zero", !.active = FALSE]]
        \/ wk' = [wk EXCEPT ![w].pc = "zero"]
    BY <1>13 DEF Retire, Goto
  <2>3. wk'[w].pc = "zero"
    BY <1>1, <2>2 DEF WorkerIn
  <2> QED BY <2>1, <2>3 DEF Busy
<1>14. CASE ReadPending(w)
  <2>1. wk[w].pc = "zero" /\ wk'[w].pc \in {"zero2", "top"}
    BY <1>1, <1>14 DEF ReadPending, At, Goto, WorkerIn
  <2> QED BY <2>1 DEF Busy
<1>15. CASE ReadCnfPending(w)
  <2>1. wk[w].pc = "zero2" /\ wk'[w].pc \in {"set", "top"}
    BY <1>1, <1>15 DEF ReadCnfPending, At, Goto, WorkerIn
  <2> QED BY <2>1 DEF Busy
<1>16. CASE SetStop(w)
  <2>1. wk[w].pc = "set" /\ wk'[w].pc = "top"
    BY <1>1, <1>16 DEF SetStop, At, Goto, WorkerIn
  <2> QED BY <2>1 DEF Busy
<1>17. CASE Leave(w)
  <2>1. wk[w].pc = "leave" /\ wk'[w].pc = "done"
    BY <1>1, <1>17 DEF Leave, At, Goto, WorkerIn
  <2> QED BY <2>1 DEF Busy
<1>18. CASE GoStopped(w)
  <2>1. wk[w].pc = "go" /\ wk'[w].pc \in {"top", "seek"}
    BY <1>1, <1>18 DEF GoStopped, At, Finish, WorkerIn
  <2> QED BY <2>1 DEF Busy
<1>19. CASE Go(w)
  <2>1. wk[w].pc = "go" /\ wk'[w].pc = "cnf"
    BY <1>1, <1>19 DEF Go, At, Goto, WorkerIn
  <2> QED BY <2>1 DEF Busy
<1>20. CASE CnfInc(w)
  <2>1. wk[w].pc = "cnf" /\ wk'[w].pc = "go"
    BY <1>1, <1>20 DEF CnfInc, At, CnfDone, Goto, WorkerIn
  <2> QED BY <2>1 DEF Busy
<1>21. CASE CnfSup(w)
  <2>1. wk[w].pc = "cnf" /\ wk'[w].pc = "second"
    BY <1>1, <1>21 DEF CnfSup, At, CnfDone, Goto, WorkerIn
  <2> QED BY <1>21, <2>1 DEF Busy
<1>22. CASE CnfSupSecond(w)
  <2>1. wk[w].pc = "second" /\ wk'[w].pc = "pushed"
    BY <1>1, <1>22 DEF CnfSupSecond, At, Goto, WorkerIn
  <2> QED BY <1>22, <2>1 DEF Busy
<1>23. CASE CnfSupPushed(w)
  <2>1. wk[w].pc = "pushed" /\ wk'[w].pc \in {"top", "seek"}
    BY <1>1, <1>23 DEF CnfSupPushed, At, Finish, WorkerIn
  <2> QED BY <2>1 DEF Busy
<1>24. CASE CnfEra(w)
  <2>1. wk[w].pc = "cnf" /\ wk'[w].pc \in {"top", "seek"}
    BY <1>1, <1>24 DEF CnfEra, At, CnfDone, Finish, WorkerIn
  <2> QED BY <2>1 DEF Busy
<1>25. CASE CnfLeaf(w)
  <2>1. wk[w].pc = "cnf" /\ wk'[w].pc \in {"halt", "flush", "print"}
    BY <1>1, <1>25 DEF CnfLeaf, At, CnfDone, Goto, WorkerIn
  <2> QED BY <2>1 DEF Busy
<1>26. CASE Flush(w)
  <2>1. wk[w].pc = "flush" /\ wk'[w].pc = "print"
    BY <1>1, <1>26 DEF Flush, At, Goto, WorkerIn
  <2> QED BY <2>1 DEF Busy
<1>27. CASE PrintLine(w)
  <2>1. wk[w].pc = "print" /\ wk'[w].pc \in {"top", "seek"}
    BY <1>1, <1>27 DEF PrintLine, At, Finish, WorkerIn
  <2> QED BY <2>1 DEF Busy
<1>28. CASE HelpOff(w)
  <2>1. wk[w].pc = "help" /\ wk'[w].pc = "retire"
    BY <1>1, <1>28 DEF HelpOff, At, Goto, WorkerIn
  <2> QED BY <2>1 DEF Busy
<1>29. CASE HelpDrop(w)
  <2>1. wk[w].pc = "help" /\ wk'[w].pc = "try"
    BY <1>1, <1>29 DEF HelpDrop, At, Goto, WorkerIn
  <2> QED BY <2>1 DEF Busy
<1>30. CASE HelpNone(w)
  <2>1. wk[w].pc = "try" /\ wk'[w].pc = "retire"
    BY <1>1, <1>30 DEF HelpNone, At, Goto, WorkerIn
  <2> QED BY <2>1 DEF Busy
<1>31. CASE HelpSteal(w)
  <2>1. PICK v \in Workers \ {w} :
          /\ wk[w].pc = "try"
          /\ wk' = [wk EXCEPT ![w] = [@ EXCEPT !.pc = "stole", !.aids = v],
                              ![v] = [@ EXCEPT !.tasks = wk[v].tasks - 1]]
    BY <1>31 DEF HelpSteal, At
  <2>2. wk'[w] = [wk[w] EXCEPT !.pc = "stole", !.aids = v]
    BY <1>1, <2>1
  <2>3. wk'[w].pc = "stole"
    BY <1>1, <2>2 DEF WorkerIn
  <2> QED BY <2>1, <2>3 DEF Busy
<1>32. CASE HelpCount(w)
  <2>0. PICK n \in 0..Fields :
          wk' = [wk EXCEPT ![w] = [@ EXCEPT !.pc = "aid", !.pool = TRUE, !.tasks = n]]
    BY <1>32 DEF HelpCount
  <2>1. wk[w].pc = "stole" /\ wk'[w].pc = "aid"
    BY <1>1, <1>32, <2>0 DEF HelpCount, At, WorkerIn
  <2> QED BY <2>1 DEF Busy
<1>33. CASE HelpDone(w)
  <2>1. wk[w].pc = "aid" /\ wk'[w].pc = "top"
    BY <1>1, <1>33 DEF HelpDone, At, Goto, WorkerIn
  <2> QED BY <2>1 DEF Busy
<1>34. CASE JoinDrop(w)
  <2>1. wk[w].pc \in {"cnf", "aid"} /\ wk'[w].pc = wk[w].pc
    BY <1>1, <1>34 DEF JoinDrop, Waits, At, WorkerIn
  <2> QED BY <2>1 DEF Busy
<1>35. CASE JoinTake(w)
  <2>1. wk[w].pc \in {"cnf", "aid"} /\ wk'[w].pc = wk[w].pc
    BY <1>1, <1>35 DEF JoinTake, Waits, At, WorkerIn
  <2> QED BY <2>1 DEF Busy
<1>36. CASE LimitStop(w)
  <2>1. wk'[w].pc = "flush"
    BY <1>1, <1>36 DEF LimitStop, At, Goto, WorkerIn
  <2> QED BY <1>36, <2>1 DEF Busy
<1> QED BY <1>3, <1>4, <1>5, <1>6, <1>7, <1>8, <1>9, <1>10, <1>11, <1>12, <1>13, <1>14,
           <1>15, <1>16, <1>17, <1>18, <1>19, <1>20, <1>21, <1>22, <1>23, <1>24, <1>25,
           <1>26, <1>27, <1>28, <1>29, <1>30, <1>31, <1>32, <1>33, <1>34, <1>35, <1>36 DEF
           Collapsing

-----------------------------------------------------------------------------
(* OneInv, part by part.                                                   *)

Counts(g) == printed + g.local
About(g) == IF g.pc \in {"halt", "flush", "print"} THEN 1 ELSE 0
AllOut == Leaves \subseteq ToSet(lines)
Sole(g) ==
  /\ Counts(g) = Len(lines) + About(g) /\ Counts(g) <= limit
  /\ Counts(g) = limit => stop \/ g.pc = "halt"
  /\ g.pc = "halt" => Counts(g) = limit
  /\ stop => Counts(g) = limit \/ AllOut
  /\ stop => g.pc \notin Busy \cup {"halt"}
  /\ g.pc \in {"zero2", "set"} => AllOut
  /\ g.pc \in {"leave", "done"} => stop

LEMMA AloneIs == \A w \in Workers : Alone(wk[w]) <=> Sole(wk[w]) /\ AllThere
<1> TAKE w \in Workers
<1>1. AllThere <=> \A l \in Leaves \ ToSet(lines) : \E s \in Loaded(Places) : l \in Below[Places[s]]
  BY DEF AllThere, AllDue, Due, Loaded
<1> DEFINE done == Leaves \subseteq ToSet(lines)
           g == wk[w]
<1>2. g.pc \notin Busy \cup {"halt"} <=>
        g.pc \notin {"pop", "go", "cnf", "second", "pushed", "halt"}
  BY DEF Busy
<1> QED BY <1>1, <1>2 DEF Alone, Sole, Counts, About, AllOut

LEMMA AloneThen == (\A w \in Workers : Alone(wk[w]) <=> Sole(wk[w]) /\ AllThere)'
BY AloneIs, PTL

LEMMA SoleTypes ==
  ASSUME IInv, NEW w \in Workers
  PROVE  /\ printed \in Nat /\ wk[w].local \in Nat /\ limit \in Nat \ {0}
         /\ lines \in Seq(Locs) /\ Len(lines) \in Nat /\ stop \in BOOLEAN
<1>1. wk[w] \in WorkerIn /\ Types
  BY Here DEF IInv
<1>2. wk[w].local \in Nat
  BY <1>1 DEF WorkerIn
<1>3. printed \in Nat /\ limit \in Limits /\ lines \in Seq(Locs) /\ stop \in BOOLEAN
  BY <1>1 DEF Types
<1>4. limit \in Nat \ {0} /\ Len(lines) \in Nat
  BY <1>3, CollapseAssumption
<1> QED BY <1>2, <1>3, <1>4

\* A step that leaves the lines and the counters alone, in a worker without a
\* counted line.
LEMMA CalmSole ==
  ASSUME IInv, NEW w \in Workers, Sole(wk[w]), Only(w), Calm(w), Collapsing(w), limit' = limit
  PROVE  Sole(wk[w])'
<1>1. /\ printed' = printed /\ stop' = stop /\ lines' = lines
      /\ wk'[w].local = wk[w].local
      /\ (wk'[w].pc \in {"zero2", "set"} => wk[w].pc = "zero2")
      /\ wk'[w].pc \notin {"halt", "flush", "print"} /\ wk[w].pc \notin {"flush", "print"}
  BY DEF Only, Calm
<1>2. wk[w].pc # "halt"
  <2>1. ASSUME wk[w].pc = "halt" PROVE FALSE
    <3>1. LimitStop(w)
      BY <2>1, Hops
    <3>2. stop' = TRUE /\ ~stop
      BY <2>1, <3>1 DEF LimitStop, Sole
    <3> QED BY <1>1, <3>2
  <2> QED BY <2>1
<1>3. /\ wk'[w].pc \in Busy => ~stop \/ wk[w].pc \in Busy
      /\ wk'[w].pc \in {"leave", "done"} => stop \/ wk[w].pc = "leave"
  BY Hops
<1>4. Counts(wk[w])' = Counts(wk[w])
  BY <1>1 DEF Counts
<1>5. About(wk[w])' = About(wk[w])
  BY <1>1, <1>2 DEF About
<1>6. AllOut' = AllOut
  BY <1>1 DEF AllOut
<1>7. wk'[w].pc \in Busy => ~stop
  BY <1>3 DEF Sole
<1>8. wk'[w].pc \in {"leave", "done"} => stop
  BY <1>3 DEF Sole
<1>9. wk'[w].pc \in {"zero2", "set"} => AllOut
  BY <1>1 DEF Sole
<1> QED BY <1>1, <1>2, <1>4, <1>5, <1>6, <1>7, <1>8, <1>9 DEF Sole

LEMMA MarkSole ==
  ASSUME IInv, AllThere, NEW w \in Workers, Sole(wk[w]), limit' = limit, lines' = lines,
         ReadPending(w) \/ SetStop(w) \/ Leave(w) \/ LimitStop(w) \/ Flush(w)
  PROVE  Sole(wk[w])'
<1>1. wk \in [Workers -> WorkerIn] /\ wk[w] \in WorkerIn
  BY Here
<1>2. printed \in Nat /\ wk[w].local \in Nat /\ limit \in Nat \ {0} /\ Len(lines) \in Nat
  BY SoleTypes
<1>3. AllOut' = AllOut
  BY DEF AllOut
<1>4. CASE ReadPending(w)
  <2>1. wk[w].pc = "zero" /\ printed' = printed /\ stop' = stop
    BY <1>4 DEF ReadPending, At, shared
  <2>2. wk'[w].local = wk[w].local /\ wk'[w].pc = IF pending = 0 THEN "zero2" ELSE "top"
    BY <1>1, <1>4 DEF ReadPending, Goto, WorkerIn
  <2>3. pending = 0 => AllOut
    BY ZeroMeansDone DEF AllOut
  <2>4. Counts(wk[w])' = Counts(wk[w]) /\ About(wk[w])' = 0 /\ About(wk[w]) = 0
    BY <2>1, <2>2 DEF Counts, About
  <2>5. wk'[w].pc \notin Busy \cup {"halt", "leave", "done"}
    BY <2>2 DEF Busy
  <2>6. wk'[w].pc \in {"zero2", "set"} => AllOut
    BY <2>2, <2>3
  <2> QED BY <1>3, <2>1, <2>4, <2>5, <2>6 DEF Sole
<1>5. CASE SetStop(w)
  <2>1. wk[w].pc = "set" /\ printed' = printed /\ stop' = TRUE
    BY <1>5 DEF SetStop, At
  <2>2. wk'[w].local = wk[w].local /\ wk'[w].pc = "top"
    BY <1>1, <1>5 DEF SetStop, Goto, WorkerIn
  <2>3. Counts(wk[w])' = Counts(wk[w]) /\ About(wk[w])' = 0 /\ About(wk[w]) = 0
    BY <2>1, <2>2 DEF Counts, About
  <2>4. AllOut /\ "top" \notin Busy
    BY <2>1 DEF Sole, Busy
  <2> QED BY <1>3, <2>1, <2>2, <2>3, <2>4 DEF Sole
<1>6. CASE Leave(w)
  <2>1. wk[w].pc = "leave" /\ printed' = printed + wk[w].local /\ stop' = stop
    BY <1>6 DEF Leave, At
  <2>2. wk'[w].local = 0 /\ wk'[w].pc = "done"
    BY <1>1, <1>6 DEF Leave, WorkerIn
  <2>3. Counts(wk[w])' = Counts(wk[w]) /\ About(wk[w])' = 0 /\ About(wk[w]) = 0
    BY <1>2, <2>1, <2>2 DEF Counts, About
  <2>4. stop /\ "done" \notin Busy
    BY <2>1 DEF Sole, Busy
  <2> QED BY <1>3, <2>1, <2>2, <2>3, <2>4 DEF Sole
<1>7. CASE LimitStop(w)
  <2>1. wk[w].pc = "halt" /\ printed' = printed /\ stop' = TRUE
    BY <1>7 DEF LimitStop, At
  <2>2. wk'[w].local = wk[w].local /\ wk'[w].pc = "flush"
    BY <1>1, <1>7 DEF LimitStop, Goto, WorkerIn
  <2>3. Counts(wk[w])' = Counts(wk[w]) /\ About(wk[w])' = 1 /\ About(wk[w]) = 1
    BY <2>1, <2>2 DEF Counts, About
  <2>4. Counts(wk[w]) = limit /\ "flush" \notin Busy
    BY <2>1 DEF Sole, Busy
  <2> QED BY <1>3, <2>1, <2>2, <2>3, <2>4 DEF Sole
<1>8. CASE Flush(w)
  <2>1. wk[w].pc = "flush" /\ printed' = printed + wk[w].local /\ stop' = stop
    BY <1>8 DEF Flush, At
  <2>2. wk'[w].local = 0 /\ wk'[w].pc = "print"
    BY <1>1, <1>8 DEF Flush, WorkerIn
  <2>3. Counts(wk[w])' = Counts(wk[w]) /\ About(wk[w])' = 1 /\ About(wk[w]) = 1
    BY <1>2, <2>1, <2>2 DEF Counts, About
  <2>4. "print" \notin Busy
    BY DEF Busy
  <2> QED BY <1>3, <2>1, <2>2, <2>3, <2>4 DEF Sole
<1> QED BY <1>4, <1>5, <1>6, <1>7, <1>8

\* A line is counted: before it the count was below the limit.
LEMMA LeafSole ==
  ASSUME IInv, NEW w \in Workers, Sole(wk[w]), limit' = limit, CnfLeaf(w)
  PROVE  Sole(wk[w])'
<1>1. wk \in [Workers -> WorkerIn] /\ wk[w] \in WorkerIn
  BY Here
<1>2. printed \in Nat /\ wk[w].local \in Nat /\ limit \in Nat \ {0} /\ Len(lines) \in Nat
  BY SoleTypes
<1> DEFINE n == wk[w].local + 1
           p == IF printed + n >= limit THEN "halt" ELSE IF n >= PrintBatch THEN "flush" ELSE "print"
<1>3. /\ wk' = [wk EXCEPT ![w] = [@ EXCEPT !.local = n, !.pc = p]]
      /\ printed' = printed /\ stop' = stop /\ lines' = lines /\ wk[w].pc = "cnf"
  BY DEF CnfLeaf, CnfDone, At, shared
<1>4. p \in {"halt", "flush", "print"} /\ (p = "halt" <=> printed + n >= limit)
  OBVIOUS
<1> HIDE DEF p
<1>5. wk'[w].local = wk[w].local + 1 /\ wk'[w].pc = p
  BY <1>1, <1>3 DEF WorkerIn
<1>6. ~stop /\ Counts(wk[w]) # limit /\ Counts(wk[w]) <= limit /\ Counts(wk[w]) = Len(lines)
  <2>1. "cnf" \in Busy
    BY DEF Busy
  <2>2. About(wk[w]) = 0
    BY <1>3 DEF About
  <2> QED BY <1>2, <1>3, <2>1, <2>2 DEF Sole
<1>7. About(wk[w])' = 1
  BY <1>4, <1>5 DEF About
<1>8. Counts(wk[w])' = Counts(wk[w]) + 1 /\ Counts(wk[w]) \in Nat
  BY <1>2, <1>3, <1>5 DEF Counts
<1>9. p = "halt" <=> Counts(wk[w])' >= limit
  BY <1>2, <1>4, <1>8 DEF Counts
<1>10. Counts(wk[w])' <= limit /\ Counts(wk[w])' = Len(lines) + 1
  BY <1>2, <1>6, <1>8
<1>11. p \notin {"zero2", "set", "leave", "done"}
  BY <1>4
<1>12. Counts(wk[w])' = limit <=> p = "halt"
  BY <1>2, <1>8, <1>9, <1>10
<1> QED BY <1>3, <1>5, <1>6, <1>7, <1>10, <1>11, <1>12 DEF Sole

\* A counted line goes out: with one worker it is never above the limit.
LEMMA PrintSole ==
  ASSUME IInv, IInv', OnceInv, AllThere, NEW w \in Workers, Sole(wk[w]), limit' = limit,
         PrintLine(w)
  PROVE  (Sole(wk[w]) /\ AllThere)'
<1>1. /\ printed' = printed /\ stop' = stop /\ wk'[w].local = wk[w].local
      /\ wk'[w].pc \in {"top", "seek"} /\ wk[w].pc = "print" /\ wk[w].at \in Locs
      /\ lines' = IF printed + wk[w].local <= limit THEN Append(lines, wk[w].at) ELSE lines
  BY Prints
<1>2. /\ AllDue(Places) \subseteq AllDue(Places') \cup {wk[w].at}
      /\ ToSet(lines') = IF printed + wk[w].local <= limit
                         THEN ToSet(lines) \cup {wk[w].at} ELSE ToSet(lines)
  BY PrintedIs
<1>3. printed + wk[w].local <= limit
  BY DEF Sole, Counts
<1>4. lines \in Seq(Locs) /\ Len(lines) \in Nat
  BY SoleTypes
<1>5. Len(lines') = Len(lines) + 1 /\ ToSet(lines') = ToSet(lines) \cup {wk[w].at}
  <2>1. lines' = Append(lines, wk[w].at)
    BY <1>1, <1>3
  <2>2. Len(Append(lines, wk[w].at)) = Len(lines) + 1
    BY <1>1, <1>4
  <2> QED BY <1>2, <1>3, <2>1, <2>2
<1>6. AllThere'
  BY <1>2, <1>5 DEF AllThere
<1>7. AllOut => AllOut'
  BY <1>5 DEF AllOut
<1>8. Counts(wk[w])' = Counts(wk[w]) /\ About(wk[w])' = 0 /\ About(wk[w]) = 1
  BY <1>1 DEF Counts, About
<1>9. wk'[w].pc \notin Busy \cup {"halt", "zero2", "set", "leave", "done"}
  BY <1>1 DEF Busy
<1>10. Counts(wk[w])' = Len(lines') + About(wk[w])'
  BY <1>4, <1>5, <1>8 DEF Sole
<1> QED BY <1>1, <1>6, <1>7, <1>8, <1>9, <1>10 DEF Sole

LEMMA OneNext == IInv /\ IInv' /\ OnceInv /\ OneInv /\ [Next]_vars => OneInv'
<1> SUFFICES ASSUME IInv, IInv', OnceInv, OneInv, [Next]_vars, N = 1 PROVE OneInv'
  BY DEF OneInv
<1>1. limit' = limit
  BY DEF Next, Worker, Joined, vars
<1>2. \A u, w \in Workers : u = w
  BY CollapseAssumption DEF Workers, Q!Workers
<1>3. \A w \in Workers : Sole(wk[w]) /\ AllThere
  BY AloneIs DEF OneInv
<1> SUFFICES ASSUME NEW w \in Workers PROVE (Sole(wk[w]) /\ AllThere)'
  BY AloneThen DEF OneInv
<1>4. CASE UNCHANGED vars
  <2>1. /\ bank' = bank /\ wk' = wk /\ fr' = fr /\ lines' = lines /\ printed' = printed
        /\ stop' = stop
    BY <1>4 DEF vars, queue, shared
  <2>2. Places' = Places
    BY <2>1 DEF Places, Load
  <2> QED BY <1>1, <1>3, <2>1, <2>2 DEF Sole, Counts, About, AllOut, AllThere
<1>5. CASE Queueing(w)
  <2>1. /\ wk' = wk /\ lines' = lines /\ printed' = printed /\ stop' = stop
    BY <1>5 DEF Queueing, shared
  <2>2. Keeps
    BY <1>5, QueueKeeps DEF OnceInv
  <2> QED BY <1>1, <1>3, <2>1, <2>2 DEF Sole, Counts, About, AllOut, AllThere, Keeps
<1>6. CASE Collapsing(w)
  <2> USE <1>1, <1>3
  <2>1. CASE GoStopped(w)
    <3>1. stop /\ wk[w].pc = "go" /\ "go" \in Busy
      BY <2>1 DEF GoStopped, At, Busy
    <3> QED BY <3>1 DEF Sole
  <2>2. CASE PrintLine(w)
    BY <2>2, PrintSole
  <2>3. CASE ~GoStopped(w) /\ ~PrintLine(w)
    <3>1. Worker(w)
      BY <1>6 DEF Worker
    <3>2. lines' = lines /\ Keeps
      BY <2>3, <3>1, StepKeeps DEF OnceInv
    <3>3. AllThere'
      BY <3>2 DEF AllThere, Keeps
    <3>4. CASE Only(w) /\ Calm(w)
      BY <1>6, <3>3, <3>4, CalmSole
    <3>5. CASE ReadPending(w) \/ SetStop(w) \/ Leave(w) \/ LimitStop(w) \/ Flush(w)
      BY <3>2, <3>3, <3>5, MarkSole
    <3>6. CASE CnfLeaf(w)
      BY <3>3, <3>6, LeafSole
    <3> QED BY <1>6, <2>3, <3>4, <3>5, <3>6, Kinds DEF Quietly
  <2> QED BY <2>1, <2>2, <2>3
<1> QED BY <1>2, <1>4, <1>5, <1>6 DEF Next, Worker, Joined

LEMMA OneInit == ZeroInit => OneInv
<1> SUFFICES ASSUME ZeroInit, N = 1, NEW w \in Workers PROVE Sole(wk[w]) /\ AllThere
  BY AloneIs DEF OneInv
<1>1. Init /\ ~stop /\ lines = <<>> /\ printed = 0 /\ limit \in Nat \ {0}
  BY CollapseAssumption DEF ZeroInit, Init
<1>2. wk[w].pc = "top" /\ wk[w].local = 0
  BY <1>1 DEF Init, Fresh
<1>3. Counts(wk[w]) = 0 /\ About(wk[w]) = 0 /\ Len(lines) = 0
  BY <1>1, <1>2 DEF Counts, About
<1>4. AllThere
  BY <1>1, DueAtFirst
<1> QED BY <1>1, <1>2, <1>3, <1>4 DEF Sole

THEOREM OneInvariance == ZeroSpec => []OneInv
<1>1. ZeroInit => IInv /\ OnceInv /\ OneInv
  BY IInvInit, OnceInit, OneInit DEF ZeroInit
<1>2. IInv /\ OnceInv /\ OneInv /\ [Next]_vars => (IInv /\ OnceInv /\ OneInv)'
  BY IInvNext, OnceNext, OneNext
<1> QED BY <1>1, <1>2, PTL DEF ZeroSpec

LEMMA InjectiveLength ==
  ASSUME NEW S, NEW q \in Seq(S), IsInjective(q)
  PROVE  Cardinality(ToSet(q)) = Len(q)
<1>1. Len(q) \in Nat /\ DOMAIN q = 1..Len(q)
  OBVIOUS
<1>2. q \in Bijection(1..Len(q), ToSet(q))
  BY <1>1 DEF Bijection, Injection, Surjection, IsInjective, ToSet
<1> QED BY <1>1, <1>2, FS_CountingElements DEF ExistsBijection

\* A single worker prints exactly as many lines as were asked for, or all there
\* are when these are fewer, for any tree, key queue, limit and print batch.
THEOREM StopsAtTheLimit == ZeroSpec => []ExactLimit
<1>1. IInv /\ OnceInv /\ OneInv => ExactLimit
  <2> SUFFICES ASSUME IInv, OnceInv, OneInv, N = 1, Halted
               PROVE  \/ Len(lines) = limit /\ limit <= Cardinality(Leaves)
                      \/ Len(lines) = Cardinality(Leaves) /\ Len(lines) < limit
    BY DEF ExactLimit
  <2>1. PICK w \in Workers : wk[w].pc = "done"
    BY CollapseAssumption DEF Halted, At, Workers, Q!Workers
  <2>2. Sole(wk[w]) /\ limit \in Nat /\ Len(lines) \in Nat /\ lines \in Seq(Locs)
    BY AloneIs, SoleTypes DEF OneInv
  <2>3. stop /\ Len(lines) = Counts(wk[w]) /\ Len(lines) <= limit
    <3>1. About(wk[w]) = 0
      BY <2>1 DEF About
    <3> QED BY <2>1, <2>2, <3>1 DEF Sole
  <2>4. Len(lines) = limit \/ AllOut
    BY <2>2, <2>3 DEF Sole
  <2>5. /\ ToSet(lines) \subseteq Leaves /\ IsFiniteSet(Leaves)
        /\ Cardinality(ToSet(lines)) = Len(lines)
    BY <2>2, LeavesFinite, InjectiveLength DEF OnceInv, PrintedOnce
  <2>6. /\ Cardinality(Leaves) \in Nat /\ Len(lines) <= Cardinality(Leaves)
    BY <2>5, FS_Subset, FS_CardinalityType
  <2>7. CASE Len(lines) = limit
    BY <2>6, <2>7
  <2>8. CASE Len(lines) # limit
    <3>1. ToSet(lines) = Leaves
      BY <2>4, <2>5, <2>8 DEF AllOut
    <3> QED BY <2>2, <2>3, <2>5, <2>8, <3>1
  <2> QED BY <2>7, <2>8
<1>2. ZeroInit => IInv /\ OnceInv /\ OneInv
  BY IInvInit, OnceInit, OneInit DEF ZeroInit
<1>3. IInv /\ OnceInv /\ OneInv /\ [Next]_vars => (IInv /\ OnceInv /\ OneInv)'
  BY IInvNext, OnceNext, OneNext
<1> QED BY <1>1, <1>2, <1>3, PTL DEF ZeroSpec

-----------------------------------------------------------------------------
(* The single worker searches best first.                                  *)

\* The branches a worker is about to push to bucket c: the one in the hand of
\* the queue, then the second one.
First(g, f, c) ==
  IF g.pc \in {"second", "pushed"} /\ f.x # 0 /\ f.b = c THEN <<f.x>> ELSE <<>>
Second(g, c) ==
  IF g.pc = "second" /\ Q!Bucket(g.key + 1) = c THEN <<Kids[g.at][2]>> ELSE <<>>

LEMMA FrontierIs ==
  /\ DOMAIN Frontier = Q!Buckets
  /\ \A c \in Q!Buckets : Frontier[c] = bank[0][c] \o First(wk[0], fr[0], c) \o Second(wk[0], c)
BY DEF Frontier, First, Second

LEMMA FrontierThen ==
  /\ DOMAIN Frontier' = Q!Buckets
  /\ \A c \in Q!Buckets :
       Frontier'[c] = bank'[0][c] \o First(wk'[0], fr'[0], c) \o Second(wk'[0], c)
BY DEF Frontier, First, Second

\* The pieces are sequences of terms.
LEMMA Pieces ==
  ASSUME IInv, NEW w \in Workers, NEW c \in Q!Buckets
  PROVE  /\ bank[w][c] \in Seq(Locs) /\ <<>> \in Seq(Locs)
         /\ First(wk[w], fr[w], c) \in Seq(Locs) /\ Second(wk[w], c) \in Seq(Locs)
<1>1. /\ wk[w] \in WorkerIn /\ fr[w] \in FrameIn /\ WorkerFits(wk[w], fr[w], bank[w])
  BY Here
<1>2. bank[w][c] \in Seq(Locs) /\ <<>> \in Seq(Locs)
  BY DEF IInv, Types, Workers
<1>3. First(wk[w], fr[w], c) \in Seq(Locs)
  BY <1>1, <1>2 DEF First, FrameIn
<1>4. ASSUME wk[w].pc = "second" PROVE <<Kids[wk[w].at][2]>> \in Seq(Locs)
  <2>1. Kind[wk[w].at] = "SUP" /\ wk[w].at \in Locs
    BY <1>1, <1>4 DEF WorkerFits, WorkerIn, InHand
  <2>2. Kids[wk[w].at][2] \in Locs
    BY <2>1, KidsAre
  <2> QED BY <2>2
<1>5. Second(wk[w], c) \in Seq(Locs)
  BY <1>2, <1>4 DEF Second
<1> QED BY <1>2, <1>3, <1>5

\* A worker that pushes nothing has only its bank before it.
LEMMA FrontierBank ==
  ASSUME IInv, 0 \in Workers, wk[0].pc \notin {"second", "pushed"}
  PROVE  \A c \in Q!Buckets : Frontier[c] = bank[0][c]
<1> SUFFICES ASSUME NEW c \in Q!Buckets PROVE Frontier[c] = bank[0][c]
  OBVIOUS
<1>1. First(wk[0], fr[0], c) = <<>> /\ Second(wk[0], c) = <<>>
  BY DEF First, Second
<1>2. bank[0][c] \in Seq(Locs)
  BY Pieces
<1>3. bank[0][c] \o <<>> = bank[0][c]
  BY <1>2, ConcatEmptySeq
<1> QED BY <1>1, <1>3, FrontierIs

LEMMA FrontierBankThen ==
  (IInv /\ 0 \in Workers /\ wk[0].pc \notin {"second", "pushed"}
     => \A c \in Q!Buckets : Frontier[c] = bank[0][c])'
<1>1. IInv /\ 0 \in Workers /\ wk[0].pc \notin {"second", "pushed"}
        => \A c \in Q!Buckets : Frontier[c] = bank[0][c]
  BY FrontierBank
<1> QED BY <1>1, PTL

\* Two frontiers are the same if they are bucket by bucket.
LEMMA FrontierSame ==
  ASSUME \A c \in Q!Buckets : Frontier'[c] = Frontier[c]
  PROVE  Frontier' = Frontier
BY FrontierIs, FrontierThen DEF Frontier

LEMMA BankSame ==
  ASSUME IInv, IInv', 0 \in Workers, bank' = bank, lines' = lines, Held' = Held,
         wk[0].pc \notin {"second", "pushed"}, wk'[0].pc \notin {"second", "pushed"}
  PROVE  UNCHANGED Search!vars
<1>1. \A c \in Q!Buckets : Frontier[c] = bank[0][c]
  BY FrontierBank
<1>2. \A c \in Q!Buckets : Frontier'[c] = bank'[0][c]
  BY FrontierBankThen
<1>3. Frontier' = Frontier
  BY <1>1, <1>2, FrontierSame
<1> QED BY <1>3 DEF Search!vars

\* The steps of eval_collapse_process_loc with a term in hand.
Looking == {"go", "cnf", "halt", "flush", "print"}
NoTerm == [at |-> 0, key |-> 0]

LEMMA HeldIs ==
  /\ wk[0].pc = "pop" /\ fr[0].x # 0 => Held = [at |-> fr[0].x, key |-> fr[0].b]
  /\ wk[0].pc = "pop" /\ fr[0].x = 0 => Held = NoTerm
  /\ wk[0].pc \in Looking => Held = [at |-> wk[0].at, key |-> wk[0].key]
  /\ wk[0].pc \notin Looking \cup {"pop"} => Held = NoTerm
BY DEF Held, Looking, NoTerm

LEMMA HeldThen ==
  /\ wk'[0].pc = "pop" /\ fr'[0].x # 0 => Held' = [at |-> fr'[0].x, key |-> fr'[0].b]
  /\ wk'[0].pc = "pop" /\ fr'[0].x = 0 => Held' = NoTerm
  /\ wk'[0].pc \in Looking => Held' = [at |-> wk'[0].at, key |-> wk'[0].key]
  /\ wk'[0].pc \notin Looking \cup {"pop"} => Held' = NoTerm
BY DEF Held, Looking, NoTerm

\* Away from the terms.
Away == {"top", "seek", "enter", "steal", "stealing", "help", "retire", "zero", "zero2", "set",
         "leave", "done", "try", "stole", "aid"}

LEMMA AwaySame ==
  ASSUME IInv, IInv', 0 \in Workers, wk[0].pc \in Away, wk'[0].pc \in Away,
         bank' = bank, lines' = lines
  PROVE  UNCHANGED Search!vars
<1>1. /\ wk[0].pc \notin Looking \cup {"pop", "second", "pushed"}
      /\ wk'[0].pc \notin Looking \cup {"pop", "second", "pushed"}
  BY DEF Away, Looking
<1>2. Held = NoTerm /\ Held' = NoTerm
  BY <1>1, HeldIs, HeldThen
<1> QED BY <1>1, <1>2, BankSame

LEMMA LookingSame ==
  ASSUME IInv, IInv', 0 \in Workers, wk[0].pc \in Looking, wk'[0].pc \in Looking,
         wk'[0].at = wk[0].at, wk'[0].key = wk[0].key, bank' = bank, lines' = lines
  PROVE  UNCHANGED Search!vars
<1>1. Held' = Held
  BY HeldIs, HeldThen
<1>2. wk[0].pc \notin {"second", "pushed"} /\ wk'[0].pc \notin {"second", "pushed"}
  BY DEF Looking
<1> QED BY <1>1, <1>2, BankSame

LEMMA Lone ==
  ASSUME N = 1
  PROVE  0 \in Workers /\ \A w \in Workers : w = 0
BY CollapseAssumption DEF Workers, Q!Workers

\* Most steps of the single worker leave the search as it is.
LEMMA LoneQuiet ==
  ASSUME IInv, IInv', 0 \in Workers, 
         \/ Stopped(0) \/ SeekOn(0) \/ SeekNone(0) \/ SeekFound(0) \/ Enter(0) \/ Steal(0)
         \/ Stole(0) \/ Retire(0) \/ ReadPending(0) \/ ReadCnfPending(0) \/ SetStop(0)
         \/ Leave(0) \/ HelpOff(0) \/ HelpDrop(0) \/ HelpNone(0) \/ HelpCount(0) \/ HelpDone(0)
  PROVE  UNCHANGED Search!vars
<1>1. wk \in [Workers -> WorkerIn] /\ wk[0] \in WorkerIn
  BY Here
<1>2. bank' = bank /\ lines' = lines
  BY DEF Stopped, SeekOn, SeekNone, SeekFound, Enter, Steal, Stole, Retire, ReadPending,
         ReadCnfPending, SetStop, Leave, HelpOff, HelpDrop, HelpNone, HelpCount, HelpDone,
         Q!StealCall, Q!Return, queue, shared
<1>3. wk[0].pc \in Away
  BY DEF Stopped, SeekOn, SeekNone, SeekFound, Enter, Steal, Stole, Retire, ReadPending,
         ReadCnfPending, SetStop, Leave, HelpOff, HelpDrop, HelpNone, HelpCount, HelpDone, At,
         Away
<1>4. PICK p \in Away : wk'[0].pc = p
  <2>1. CASE Stopped(0)
    <3>1. wk'[0].pc = "leave"
      BY <1>1, <2>1 DEF Stopped, At, Goto, WorkerIn
    <3> QED BY <3>1 DEF Away
  <2>2. CASE SeekOn(0)
    <3>1. wk'[0].pc = "seek"
      BY <1>1, <2>2 DEF SeekOn, At, Goto, WorkerIn
    <3> QED BY <3>1 DEF Away
  <2>3. CASE SeekNone(0)
    <3>1. wk'[0].pc = "help"
      BY <1>1, <2>3 DEF SeekNone, At, Goto, WorkerIn
    <3> QED BY <3>1 DEF Away
  <2>4. CASE SeekFound(0)
    <3>1. wk'[0].pc \in {"steal", "enter"}
      BY <1>1, <2>4 DEF SeekFound, At, Goto, WorkerIn
    <3> QED BY <3>1 DEF Away
  <2>5. CASE Enter(0)
    <3>1. wk'[0].pc = "steal"
      BY <1>1, <2>5 DEF Enter, At, Goto, WorkerIn
    <3> QED BY <3>1 DEF Away
  <2>6. CASE Steal(0)
    <3>1. wk'[0].pc = "stealing"
      BY <1>1, <2>6 DEF Steal, At, Goto, WorkerIn
    <3> QED BY <3>1 DEF Away
  <2>7. CASE Stole(0)
    <3>1. wk'[0].pc \in {"top", "help"}
      BY <1>1, <2>7 DEF Stole, At, Goto, WorkerIn
    <3> QED BY <3>1 DEF Away
  <2>8. CASE Retire(0)
    <3>1. \/ wk' = [wk EXCEPT ![0] = [@ EXCEPT !.pc = "zero", !.active = FALSE]]
          \/ wk' = [wk EXCEPT ![0].pc = "zero"]
      BY <2>8 DEF Retire, Goto
    <3>2. wk'[0].pc = "zero"
      BY <1>1, <3>1 DEF WorkerIn
    <3> QED BY <3>2 DEF Away
  <2>9. CASE ReadPending(0)
    <3>1. wk'[0].pc \in {"zero2", "top"}
      BY <1>1, <2>9 DEF ReadPending, At, Goto, WorkerIn
    <3> QED BY <3>1 DEF Away
  <2>10. CASE ReadCnfPending(0)
    <3>1. wk'[0].pc \in {"set", "top"}
      BY <1>1, <2>10 DEF ReadCnfPending, At, Goto, WorkerIn
    <3> QED BY <3>1 DEF Away
  <2>11. CASE SetStop(0)
    <3>1. wk'[0].pc = "top"
      BY <1>1, <2>11 DEF SetStop, At, Goto, WorkerIn
    <3> QED BY <3>1 DEF Away
  <2>12. CASE Leave(0)
    <3>1. wk'[0].pc = "done"
      BY <1>1, <2>12 DEF Leave, At, Goto, WorkerIn
    <3> QED BY <3>1 DEF Away
  <2>13. CASE HelpOff(0)
    <3>1. wk'[0].pc = "retire"
      BY <1>1, <2>13 DEF HelpOff, At, Goto, WorkerIn
    <3> QED BY <3>1 DEF Away
  <2>14. CASE HelpDrop(0)
    <3>1. wk'[0].pc = "try"
      BY <1>1, <2>14 DEF HelpDrop, At, Goto, WorkerIn
    <3> QED BY <3>1 DEF Away
  <2>15. CASE HelpNone(0)
    <3>1. wk'[0].pc = "retire"
      BY <1>1, <2>15 DEF HelpNone, At, Goto, WorkerIn
    <3> QED BY <3>1 DEF Away
  <2>16. CASE HelpCount(0)
    <3>0. PICK n \in 0..Fields :
            wk' = [wk EXCEPT ![0] = [@ EXCEPT !.pc = "aid", !.pool = TRUE, !.tasks = n]]
      BY <2>16 DEF HelpCount
    <3>1. wk'[0].pc = "aid"
      BY <1>1, <3>0 DEF WorkerIn
    <3> QED BY <3>1 DEF Away
  <2>17. CASE HelpDone(0)
    <3>1. wk'[0].pc = "top"
      BY <1>1, <2>17 DEF HelpDone, At, Goto, WorkerIn
    <3> QED BY <3>1 DEF Away
  <2> QED BY <2>1, <2>2, <2>3, <2>4, <2>5, <2>6, <2>7, <2>8, <2>9, <2>10, <2>11, <2>12,
             <2>13, <2>14, <2>15, <2>16, <2>17
<1> QED BY <1>1, <1>2, <1>3, <1>4, AwaySame

-----------------------------------------------------------------------------
(* The steps inside a queue operation.                                     *)

\* The calls of eval_collapse_process_loc are pushes; a single worker's push
\* is never part of a steal.
Pushes == {"none", "push", "full", "mask", "dead"}
Pushing ==
  N = 1 => \A w \in Workers : wk[w].pc \in {"second", "pushed"} => fr[w].op \in Pushes

LEMMA PushingNext == IInv /\ Pushing /\ [Next]_vars => Pushing'
<1> SUFFICES ASSUME IInv, Pushing, [Next]_vars, N = 1,
                    wk'[0].pc \in {"second", "pushed"}
             PROVE  fr'[0].op \in Pushes
  BY Lone DEF Pushing
<1>1. 0 \in Workers /\ \A w \in Workers : w = 0
  BY Lone
<1>2. wk[0].pc \in {"second", "pushed"} => fr[0].op \in Pushes
  BY <1>1 DEF Pushing
<1>3. fr \in [Workers -> FrameIn] /\ fr[0] \in FrameIn /\ fr[0].from = 0 /\ 0 \in Q!Workers
  <2>1. fr \in [Workers -> FrameIn] /\ fr[0] \in FrameIn /\ 0 \in Q!Workers
    BY <1>1, Here
  <2>2. fr[0].from \in Workers
    BY <2>1 DEF FrameIn
  <2> QED BY <1>1, <2>1, <2>2
<1>4. CASE UNCHANGED vars
  BY <1>2, <1>4 DEF vars, queue
<1>5. CASE Queueing(0)
  <2>1. fr[0].op \in Pushes
    BY <1>2, <1>5 DEF Queueing
  <2>2. fr[0].op \notin {"pop", "clear", "look", "take"}
    BY <2>1 DEF Pushes
  <2>3. CASE Q!PushWrite(0)
    <3>1. fr'[0].op = "mask"
      BY <1>1, <1>3, <2>3 DEF Q!PushWrite, FrameIn
    <3> QED BY <3>1 DEF Pushes
  <2>4. CASE Q!MaskSet(0)
    <3>1. fr' = [fr EXCEPT ![0] = Q!Free(0)]
      BY <1>3, <2>4 DEF Q!MaskSet
    <3>2. fr'[0].op = "none"
      BY <1>1, <1>3, <3>1 DEF Q!Free
    <3> QED BY <3>2 DEF Pushes
  <2>5. CASE Q!FullCheck(0)
    <3>1. fr'[0].op = "full"
      BY <1>1, <1>3, <2>5 DEF Q!FullCheck, FrameIn
    <3> QED BY <3>1 DEF Pushes
  <2>6. CASE Q!FullYes(0)
    <3>1. fr'[0].op = "full"
      BY <1>1, <1>3, <2>6 DEF Q!FullYes, FrameIn
    <3> QED BY <3>1 DEF Pushes
  <2>7. CASE Q!FullNo(0)
    <3>1. fr'[0].op = "push"
      BY <1>1, <1>3, <2>7 DEF Q!FullNo, FrameIn
    <3> QED BY <3>1 DEF Pushes
  <2>8. CASE Q!Crash(0)
    <3>1. fr'[0].op = "dead"
      BY <1>1, <1>3, <2>8 DEF Q!Crash, FrameIn
    <3> QED BY <3>1 DEF Pushes
  <2>9. CASE \/ Q!PopTake(0) \/ Q!PopMiss(0) \/ Q!MaskClear(0) \/ Q!PopNone(0)
             \/ Q!StealSkip(0) \/ Q!StealPick(0) \/ Q!StealTake(0)
             \/ Q!StealStop(0) \/ Q!StealMiss(0) \/ Q!StealNone(0)
    <3>1. fr[0].op \in {"pop", "clear", "look", "take"}
      BY <2>9 DEF Q!PopTake, Q!PopMiss, Q!MaskClear, Q!PopNone, Q!StealSkip, Q!StealPick,
                  Q!StealTake, Q!StealStop, Q!StealMiss, Q!StealNone
    <3> QED BY <2>2, <3>1
  <2> QED BY <1>5, <2>3, <2>4, <2>5, <2>6, <2>7, <2>8, <2>9 DEF Queueing, Q!Step
<1>6. CASE Collapsing(0)
  <2>1. CnfSup(0) \/ CnfSupSecond(0)
    BY <1>1, <1>6, Hops
  <2>2. PICK b, x : fr' = [fr EXCEPT ![0] = [@ EXCEPT !.op = "push", !.b = b, !.x = x]]
    BY <2>1 DEF CnfSup, CnfSupSecond, Q!PushCall
  <2>3. fr'[0].op = "push"
    BY <1>1, <1>3, <2>2 DEF FrameIn
  <2> QED BY <2>3 DEF Pushes
<1> QED BY <1>1, <1>4, <1>5, <1>6 DEF Next, Worker, Joined

LEMMA PushingInit == Init => Pushing
<1> SUFFICES ASSUME Init, NEW w \in Workers PROVE wk[w].pc = "top"
  BY DEF Pushing
<1> QED BY DEF Init, Fresh

\* A step of the queue that leaves the bank and the hand alone.
LEMMA HandSame ==
  ASSUME 0 \in Workers, wk' = wk, lines' = lines, bank' = bank,
         fr'[0].x = fr[0].x, fr'[0].b = fr[0].b
  PROVE  UNCHANGED Search!vars
<1>1. \A c \in Q!Buckets : First(wk'[0], fr'[0], c) = First(wk[0], fr[0], c)
  BY DEF First
<1>2. \A c \in Q!Buckets : Second(wk'[0], c) = Second(wk[0], c)
  BY DEF Second
<1>3. Frontier' = Frontier
  BY <1>1, <1>2, FrontierIs, FrontierThen, FrontierSame
<1>4. Held' = Held
  BY DEF Held
<1> QED BY <1>3, <1>4 DEF Search!vars

LEMMA NoHandSame ==
  ASSUME 0 \in Workers, wk' = wk, lines' = lines, bank' = bank, fr[0].x = 0, fr'[0].x = 0
  PROVE  UNCHANGED Search!vars
<1>1. \A c \in Q!Buckets : First(wk'[0], fr'[0], c) = First(wk[0], fr[0], c)
  BY DEF First
<1>2. \A c \in Q!Buckets : Second(wk'[0], c) = Second(wk[0], c)
  BY DEF Second
<1>3. Frontier' = Frontier
  BY <1>1, <1>2, FrontierIs, FrontierThen, FrontierSame
<1>4. Held' = Held
  BY DEF Held
<1> QED BY <1>3, <1>4 DEF Search!vars

\* The first operand of a push is written behind its bucket, where the search
\* had it already.
LEMMA PushWriteSame ==
  ASSUME IInv, IInv', N = 1, 0 \in Workers, Q!PushWrite(0), wk' = wk, lines' = lines
  PROVE  UNCHANGED Search!vars
<1> DEFINE b == fr[0].b
           x == fr[0].x
<1>1. /\ wk \in [Workers -> WorkerIn] /\ fr \in [Workers -> FrameIn]
      /\ fr[0] \in FrameIn /\ WorkerFits(wk[0], fr[0], bank[0])
      /\ QueueFits(0, wk[0], fr[0], bank[0], mask[0])
      /\ bank \in [Workers -> [Q!Buckets -> Seq(Locs)]]
  BY Here DEF IInv, Types
<1>2. /\ fr[0].op = "push" /\ bank' = [bank EXCEPT ![0][b] = Append(@, x)]
      /\ fr' = [fr EXCEPT ![0] = [@ EXCEPT !.op = "mask", !.x = 0]]
  BY DEF Q!PushWrite, Q!Put
<1>3. b \in Q!Buckets /\ x \in Locs
  <2>1. x # 0
    BY <1>1, <1>2 DEF QueueFits
  <2> QED BY <1>1, <2>1 DEF FrameIn
<1>4. wk[0].pc \in {"second", "pushed"}
  <2>1. wk[0].pc \in Calling
    BY <1>1, <1>2 DEF WorkerFits
  <2>2. wk[0].pc # "pop"
    BY <1>1, <1>2 DEF WorkerFits
  <2>3. wk[0].pc # "stealing"
    <3>1. fr[0].from = 0
      BY <1>1, Lone DEF FrameIn
    <3> QED BY <1>1, <1>2, <3>1 DEF QueueFits
  <2> QED BY <2>1, <2>2, <2>3 DEF Calling
<1>5. fr'[0].x = 0
  BY <1>1, <1>2 DEF FrameIn
<1> HIDE DEF b, x
<1>6. ASSUME NEW c \in Q!Buckets PROVE Frontier'[c] = Frontier[c]
  <2>1. /\ bank[0][c] \in Seq(Locs) /\ Second(wk[0], c) \in Seq(Locs) /\ <<>> \in Seq(Locs)
        /\ bank[0][b] \in Seq(Locs)
    BY <1>3, Pieces
  <2>2. Second(wk'[0], c) = Second(wk[0], c) /\ First(wk'[0], fr'[0], c) = <<>>
    BY <1>5 DEF First, Second
  <2>3. Frontier'[c] = bank'[0][c] \o <<>> \o Second(wk[0], c)
    BY <2>2, FrontierThen
  <2>4. CASE c = b
    <3>1. bank'[0][c] = Append(bank[0][c], x)
      BY <1>1, <1>2, <1>3, <2>4
    <3>2. First(wk[0], fr[0], c) = <<x>>
      <4>1. x # 0
        BY <1>3, CollapseAssumption
      <4> QED BY <1>4, <2>4, <4>1 DEF First, x, b
    <3>3. Append(bank[0][c], x) = bank[0][c] \o <<x>> /\ Append(bank[0][c], x) \in Seq(Locs)
      BY <1>3, <2>1, AppendIsConcat, AppendProperties
    <3>4. bank'[0][c] \o <<>> = bank[0][c] \o <<x>>
      BY <3>1, <3>3, ConcatEmptySeq
    <3> QED BY <2>3, <3>2, <3>4, FrontierIs
  <2>5. CASE c # b
    <3>1. bank'[0][c] = bank[0][c]
      BY <1>1, <1>2, <1>3, <2>5
    <3>2. First(wk[0], fr[0], c) = <<>>
      BY <2>5 DEF First, b
    <3> QED BY <2>3, <3>1, <3>2, FrontierIs
  <2> QED BY <2>4, <2>5
<1>7. Held' = Held
  <2>1. wk[0].pc \notin Looking \cup {"pop"}
    BY <1>4 DEF Looking
  <2> QED BY <2>1, HeldIs, HeldThen
<1> QED BY <1>6, <1>7, FrontierSame DEF Search!vars

\* The pop of the only worker takes the oldest term with the least key.
LEMMA PopTakeTakes ==
  ASSUME IInv, IInv', Pushing, N = 1, 0 \in Workers, Q!PopTake(0), wk' = wk, lines' = lines
  PROVE  Search!Next
<1>1. /\ wk \in [Workers -> WorkerIn] /\ fr \in [Workers -> FrameIn]
      /\ fr[0] \in FrameIn /\ WorkerFits(wk[0], fr[0], bank[0])
      /\ QueueFits(0, wk[0], fr[0], bank[0], mask[0])
      /\ bank \in [Workers -> [Q!Buckets -> Seq(Locs)]]
  BY Here DEF IInv, Types
<1>2. PICK c \in fr[0].m :
        /\ fr[0].op = "pop" /\ Q!Lowest(c, fr[0].m) /\ bank[0][c] # <<>>
        /\ fr' = [fr EXCEPT ![0] = [@ EXCEPT !.op = "popped", !.b = c,
                                             !.x = Head(bank[0][c]), !.m = {}]]
        /\ bank' = [bank EXCEPT ![0][c] = Tail(@)]
  BY DEF Q!PopTake, Q!Taken, Q!Left
<1>3. c \in Q!Buckets /\ fr[0].m \subseteq Q!Buckets
  BY <1>1 DEF FrameIn
<1>4. wk[0].pc = "pop"
  <2>1. wk[0].pc \in Calling
    BY <1>1, <1>2 DEF WorkerFits
  <2>2. wk[0].pc # "stealing"
    BY <1>1, <1>2 DEF WorkerFits
  <2>3. wk[0].pc \notin {"second", "pushed"}
    BY <1>2 DEF Pushing, Pushes
  <2> QED BY <2>1, <2>2, <2>3 DEF Calling
<1>5. Held = NoTerm
  BY <1>1, <1>2, <1>4, HeldIs DEF QueueFits
<1>6. \A d \in Q!Buckets : Frontier[d] = bank[0][d] /\ Frontier'[d] = bank'[0][d]
  BY <1>4, FrontierBank, FrontierBankThen
<1>7. Head(bank[0][c]) \in Locs /\ Head(bank[0][c]) # 0
  BY <1>1, <1>2, <1>3, CollapseAssumption
<1>8. fr'[0].x = Head(bank[0][c]) /\ fr'[0].b = c
  BY <1>1, <1>2 DEF FrameIn
<1>9. Held' = [at |-> Head(bank[0][c]), key |-> c]
  BY <1>4, <1>7, <1>8, HeldThen
<1>10. \A d \in 0..(c - 1) : bank[0][d] = <<>>
  <2> SUFFICES ASSUME NEW d \in 0..(c - 1), bank[0][d] # <<>> PROVE FALSE
    OBVIOUS
  <2>1. d \in Q!Buckets /\ d < c
    BY <1>3, CollapseAssumption DEF Q!Buckets
  <2>2. d \in fr[0].m
    BY <1>1, <1>2, <2>1 DEF QueueFits, Within
  <2>3. c <= d
    BY <1>2, <2>2 DEF Q!Lowest
  <2> QED BY <1>3, <2>1, <2>3, CollapseAssumption DEF Q!Buckets
<1>11. Frontier' = [Frontier EXCEPT ![c] = Tail(@)]
  <2>1. \A d \in Q!Buckets : bank'[0][d] = IF d = c THEN Tail(bank[0][c]) ELSE bank[0][d]
    BY <1>1, <1>2, <1>3
  <2>2. \A d \in Q!Buckets :
          Frontier'[d] = IF d = c THEN Tail(Frontier[c]) ELSE Frontier[d]
    BY <1>3, <1>6, <2>1
  <2>3. Frontier' = [d \in Q!Buckets |-> Frontier'[d]] /\ DOMAIN Frontier = Q!Buckets
    BY FrontierThen, FrontierIs DEF Frontier
  <2> QED BY <2>2, <2>3
<1>12. c \in 0..(Brackets - 1) /\ \A j \in 0..(c - 1) : j \in Q!Buckets
  BY <1>3, CollapseAssumption DEF Q!Buckets
<1>13. Search!Take(c)
  <2>1. Frontier[c] # <<>> /\ \A j \in 0..(c - 1) : Frontier[j] = <<>>
    BY <1>2, <1>3, <1>6, <1>10, <1>12
  <2>2. Held' = [at |-> Head(Frontier[c]), key |-> c]
    BY <1>3, <1>6, <1>9
  <2> QED BY <1>5, <1>11, <2>1, <2>2 DEF Search!Take, Search!None, NoTerm
<1> QED BY <1>12, <1>13 DEF Search!Next

\* Every step of the queue is the one that takes a term, or none.
LEMMA QueueSearches ==
  ASSUME IInv, IInv', Pushing, N = 1, 0 \in Workers, Queueing(0)
  PROVE  [Search!Next]_(Search!vars)
<1>1. /\ wk \in [Workers -> WorkerIn] /\ fr \in [Workers -> FrameIn]
      /\ fr[0] \in FrameIn /\ WorkerFits(wk[0], fr[0], bank[0])
      /\ QueueFits(0, wk[0], fr[0], bank[0], mask[0]) /\ fr[0].from = 0
  <2>1. fr[0].from \in Workers
    BY Here DEF FrameIn
  <2> QED BY <2>1, Here, Lone
<1>2. wk' = wk /\ lines' = lines
  BY DEF Queueing
<1>3. CASE Q!PushWrite(0)
  BY <1>2, <1>3, PushWriteSame
<1>4. CASE Q!PopTake(0)
  BY <1>2, <1>4, PopTakeTakes
<1>5. CASE Q!FullCheck(0) \/ Q!FullYes(0) \/ Q!FullNo(0) \/ Q!Crash(0)
  <2>1. bank' = bank
    BY <1>5 DEF Q!FullCheck, Q!FullYes, Q!FullNo, Q!Crash
  <2>2. CASE Q!FullCheck(0)
    <3>1. fr'[0].x = fr[0].x /\ fr'[0].b = fr[0].b
      BY <1>1, <2>2 DEF Q!FullCheck, FrameIn
    <3> QED BY <1>2, <2>1, <3>1, HandSame
  <2>3. CASE Q!FullYes(0)
    <3>1. fr'[0].x = fr[0].x /\ fr'[0].b = fr[0].b
      BY <1>1, <2>3 DEF Q!FullYes, FrameIn
    <3> QED BY <1>2, <2>1, <3>1, HandSame
  <2>4. CASE Q!FullNo(0)
    <3>1. fr'[0].x = fr[0].x /\ fr'[0].b = fr[0].b
      BY <1>1, <2>4 DEF Q!FullNo, FrameIn
    <3> QED BY <1>2, <2>1, <3>1, HandSame
  <2>5. CASE Q!Crash(0)
    <3>1. fr'[0].x = fr[0].x /\ fr'[0].b = fr[0].b
      BY <1>1, <2>5, Here DEF Q!Crash, FrameIn
    <3> QED BY <1>2, <2>1, <3>1, HandSame
  <2> QED BY <1>5, <2>2, <2>3, <2>4, <2>5
<1>6. CASE Q!MaskSet(0)
  <2>1. bank' = bank /\ fr' = [fr EXCEPT ![0] = Q!Free(0)] /\ fr[0].op = "mask"
    BY <1>1, <1>6 DEF Q!MaskSet
  <2>2. fr[0].x = 0 /\ fr'[0].x = 0
    BY <1>1, <2>1 DEF QueueFits, Q!Free
  <2> QED BY <1>2, <2>1, <2>2, NoHandSame
<1>7. CASE Q!PopMiss(0) \/ Q!MaskClear(0) \/ Q!PopNone(0)
  <2>1. bank' = bank /\ fr[0].op \in {"pop", "clear"}
    BY <1>7 DEF Q!PopMiss, Q!MaskClear, Q!PopNone
  <2>2. fr[0].x = 0
    BY <1>1, <2>1 DEF QueueFits
  <2>3. CASE Q!PopMiss(0)
    <3>1. PICK c : fr' = [fr EXCEPT ![0] = [@ EXCEPT !.op = "clear", !.b = c]]
      BY <2>3 DEF Q!PopMiss
    <3>2. fr'[0].x = fr[0].x
      BY <1>1, <3>1 DEF FrameIn
    <3> QED BY <1>2, <2>1, <2>2, <3>2, NoHandSame
  <2>4. CASE Q!MaskClear(0)
    <3>1. fr'[0].x = fr[0].x
      BY <1>1, <2>4 DEF Q!MaskClear, FrameIn
    <3> QED BY <1>2, <2>1, <2>2, <3>1, NoHandSame
  <2>5. CASE Q!PopNone(0)
    <3>1. fr'[0].x = fr[0].x
      BY <1>1, <2>5 DEF Q!PopNone, FrameIn
    <3> QED BY <1>2, <2>1, <2>2, <3>1, NoHandSame
  <2> QED BY <1>7, <2>3, <2>4, <2>5
<1>8. CASE \/ Q!StealSkip(0) \/ Q!StealPick(0) \/ Q!StealMiss(0)
           \/ Q!StealStop(0) \/ Q!StealNone(0)
  <2>1. bank' = bank /\ fr[0].op \in {"look", "take"}
    BY <1>8 DEF Q!StealSkip, Q!StealPick, Q!StealMiss, Q!StealStop, Q!StealNone
  <2>2. fr[0].x = 0
    BY <1>1, <2>1 DEF QueueFits
  <2>3. CASE Q!StealSkip(0)
    <3>1. fr'[0].x = fr[0].x
      BY <1>1, <2>3 DEF Q!StealSkip, FrameIn
    <3> QED BY <1>2, <2>1, <2>2, <3>1, NoHandSame
  <2>4. CASE Q!StealPick(0)
    <3>1. PICK c, v : fr' = [fr EXCEPT ![0] = [@ EXCEPT !.op = "take", !.from = v, !.b = c]]
      BY <2>4 DEF Q!StealPick
    <3>2. fr'[0].x = fr[0].x
      BY <1>1, <3>1 DEF FrameIn
    <3> QED BY <1>2, <2>1, <2>2, <3>2, NoHandSame
  <2>5. CASE Q!StealMiss(0)
    <3>1. fr'[0].x = fr[0].x
      BY <1>1, <2>5 DEF Q!StealMiss, FrameIn
    <3> QED BY <1>2, <2>1, <2>2, <3>1, NoHandSame
  <2>6. CASE Q!StealStop(0) \/ Q!StealNone(0)
    <3>1. fr' = [fr EXCEPT ![0] = [Q!Free(0) EXCEPT !.op = "stolen", !.got = fr[0].got]]
      BY <2>6 DEF Q!StealStop, Q!StealNone, Q!Stolen
    <3>2. fr'[0].x = 0
      BY <1>1, <3>1 DEF Q!Free
    <3> QED BY <1>2, <2>1, <2>2, <3>2, NoHandSame
  <2> QED BY <1>8, <2>3, <2>4, <2>5, <2>6
<1>9. ~Q!StealTake(0)
  <2>1. ASSUME fr[0].op = "take" PROVE FALSE
    <3>1. wk[0].pc \in Calling
      BY <1>1, <2>1 DEF WorkerFits
    <3>2. wk[0].pc # "stealing"
      BY <1>1, <2>1 DEF QueueFits
    <3>3. wk[0].pc # "pop"
      BY <1>1, <2>1 DEF WorkerFits
    <3>4. wk[0].pc \notin {"second", "pushed"}
      BY <2>1 DEF Pushing, Pushes
    <3> QED BY <3>1, <3>2, <3>3, <3>4 DEF Calling
  <2> QED BY <2>1 DEF Q!StealTake
<1> QED BY <1>3, <1>4, <1>5, <1>6, <1>7, <1>8, <1>9 DEF Queueing, Q!Step

-----------------------------------------------------------------------------
(* The steps with a term.                                                  *)

\* The hand of the queue becomes that of eval_collapse_process_loc.
LEMMA PopSearches ==
  ASSUME IInv, IInv', 0 \in Workers, Pop(0) \/ Popped(0) \/ PoppedNone(0)
  PROVE  UNCHANGED Search!vars
<1>1. /\ wk \in [Workers -> WorkerIn] /\ fr \in [Workers -> FrameIn] /\ wk[0] \in WorkerIn
      /\ fr[0] \in FrameIn /\ WorkerFits(wk[0], fr[0], bank[0])
      /\ QueueFits(0, wk[0], fr[0], bank[0], mask[0])
  BY Here
<1>2. bank' = bank /\ lines' = lines
  BY DEF Pop, Popped, PoppedNone, Q!PopCall, Q!Return
<1>3. CASE Pop(0)
  <2>1. wk[0].pc = "top" /\ wk'[0].pc = "pop"
    BY <1>1, <1>3 DEF Pop, At, Goto, WorkerIn
  <2>2. fr[0].op = "none" /\ fr' = [fr EXCEPT ![0] = [@ EXCEPT !.op = "pop", !.m = mask[0]]]
    BY <1>3 DEF Pop, Q!PopCall
  <2>3. fr[0].x = 0
    BY <1>1, <2>2 DEF QueueFits
  <2>4. fr'[0].x = 0
    BY <1>1, <2>2, <2>3 DEF FrameIn
  <2>5. Held = NoTerm /\ Held' = NoTerm
    <3>1. wk[0].pc \notin Looking \cup {"pop"}
      BY <2>1 DEF Looking
    <3> QED BY <2>1, <2>4, <3>1, HeldIs, HeldThen
  <2> QED BY <1>2, <2>1, <2>5, BankSame
<1>4. CASE Popped(0)
  <2>1. /\ wk[0].pc = "pop" /\ fr[0].op = "popped"
        /\ wk' = [wk EXCEPT ![0] = [@ EXCEPT !.pc = "go", !.at = fr[0].x, !.key = fr[0].b,
                                             !.popped = TRUE]]
    BY <1>4 DEF Popped, At
  <2>2. fr[0].x # 0
    BY <1>1, <2>1 DEF QueueFits
  <2>3. wk'[0].pc = "go" /\ wk'[0].at = fr[0].x /\ wk'[0].key = fr[0].b
    BY <1>1, <2>1 DEF WorkerIn
  <2>4. Held' = Held
    <3>1. wk'[0].pc \in Looking
      BY <2>3 DEF Looking
    <3> QED BY <2>1, <2>2, <2>3, <3>1, HeldIs, HeldThen
  <2> QED BY <1>2, <2>1, <2>3, <2>4, BankSame
<1>5. CASE PoppedNone(0)
  <2>1. /\ wk[0].pc = "pop" /\ fr[0].op = "nothing"
        /\ wk' = [wk EXCEPT ![0] = [@ EXCEPT !.pc = "seek", !.k = 1, !.popped = FALSE,
                                             !.iter = Period]]
    BY <1>5 DEF PoppedNone, At
  <2>2. fr[0].x = 0
    BY <1>1, <2>1 DEF QueueFits
  <2>3. wk'[0].pc = "seek"
    BY <1>1, <2>1 DEF WorkerIn
  <2>4. Held = NoTerm /\ Held' = NoTerm
    <3>1. wk'[0].pc \notin Looking \cup {"pop"}
      BY <2>3 DEF Looking
    <3> QED BY <2>1, <2>2, <3>1, HeldIs, HeldThen
  <2> QED BY <1>2, <2>1, <2>3, <2>4, BankSame
<1> QED BY <1>3, <1>4, <1>5

LEMMA LookSearches ==
  ASSUME IInv, IInv', 0 \in Workers,
         Go(0) \/ CnfLeaf(0) \/ LimitStop(0) \/ Flush(0)
  PROVE  UNCHANGED Search!vars
<1>1. wk \in [Workers -> WorkerIn] /\ wk[0] \in WorkerIn
  BY Here
<1>2. bank' = bank /\ lines' = lines
  BY DEF Go, CnfLeaf, LimitStop, Flush, queue
<1>3. wk[0].pc \in Looking
  BY DEF Go, CnfLeaf, LimitStop, Flush, CnfDone, At, Looking
<1>4. wk'[0].pc \in Looking /\ wk'[0].at = wk[0].at /\ wk'[0].key = wk[0].key
  <2>1. CASE Go(0)
    <3>1. PICK n : wk' = [wk EXCEPT ![0] = [@ EXCEPT !.pc = "cnf", !.tasks = n]]
      BY <2>1 DEF Go
    <3>2. wk'[0].pc = "cnf" /\ wk'[0].at = wk[0].at /\ wk'[0].key = wk[0].key
      BY <1>1, <3>1 DEF WorkerIn
    <3> QED BY <3>2 DEF Looking
  <2>2. CASE CnfLeaf(0)
    <3>1. PICK n, p : /\ wk' = [wk EXCEPT ![0] = [@ EXCEPT !.local = n, !.pc = p]]
                      /\ p \in {"halt", "flush", "print"}
      BY <2>2 DEF CnfLeaf
    <3>2. wk'[0].pc = p /\ wk'[0].at = wk[0].at /\ wk'[0].key = wk[0].key
      BY <1>1, <3>1 DEF WorkerIn
    <3> QED BY <3>1, <3>2 DEF Looking
  <2>3. CASE LimitStop(0)
    <3>1. wk'[0].pc = "flush" /\ wk'[0].at = wk[0].at /\ wk'[0].key = wk[0].key
      BY <1>1, <2>3 DEF LimitStop, Goto, WorkerIn
    <3> QED BY <3>1 DEF Looking
  <2>4. CASE Flush(0)
    <3>1. wk'[0].pc = "print" /\ wk'[0].at = wk[0].at /\ wk'[0].key = wk[0].key
      BY <1>1, <2>4 DEF Flush, WorkerIn
    <3> QED BY <3>1 DEF Looking
  <2> QED BY <2>1, <2>2, <2>3, <2>4
<1> QED BY <1>2, <1>3, <1>4, LookingSame

\* A join is inside cnf, or inside the task of another's.
LEMMA JoinSearches ==
  ASSUME IInv, IInv', 0 \in Workers, JoinDrop(0) \/ JoinTake(0)
  PROVE  UNCHANGED Search!vars
<1>1. wk \in [Workers -> WorkerIn] /\ wk[0] \in WorkerIn
  BY Here
<1>2. bank' = bank /\ lines' = lines
  BY DEF JoinDrop, JoinTake, queue
<1>3. wk[0].pc \in {"cnf", "aid"}
  BY DEF JoinDrop, JoinTake, Waits, At
<1>4. wk'[0].pc = wk[0].pc /\ wk'[0].at = wk[0].at /\ wk'[0].key = wk[0].key
  <2>1. CASE JoinDrop(0)
    BY <1>1, <2>1 DEF JoinDrop, WorkerIn
  <2>2. CASE JoinTake(0)
    BY <1>1, <2>2 DEF JoinTake, WorkerIn
  <2> QED BY <2>1, <2>2
<1>5. CASE wk[0].pc = "cnf"
  <2>1. wk[0].pc \in Looking /\ wk'[0].pc \in Looking
    BY <1>4, <1>5 DEF Looking
  <2> QED BY <1>2, <1>4, <2>1, LookingSame
<1>6. CASE wk[0].pc = "aid"
  <2>1. wk[0].pc \in Away /\ wk'[0].pc \in Away
    BY <1>4, <1>6 DEF Away
  <2> QED BY <1>2, <2>1, AwaySame
<1> QED BY <1>3, <1>5, <1>6

\* A worker that has done with its term has none, and its step is away.
LEMMA EmptyHanded ==
  ASSUME IInv, 0 \in Workers, Finish(0, wk[0])
  PROVE  Held' = NoTerm /\ wk'[0].pc \notin {"second", "pushed"}
<1>1. wk \in [Workers -> WorkerIn] /\ wk[0] \in WorkerIn
  BY Here
<1>2. wk'[0].pc \in {"top", "seek"}
  BY <1>1 DEF Finish, WorkerIn
<1>3. wk'[0].pc \notin Looking \cup {"pop"}
  BY <1>2 DEF Looking
<1> QED BY <1>2, <1>3, HeldThen

LEMMA IncRaises ==
  ASSUME IInv, IInv', 0 \in Workers, CnfInc(0)
  PROVE  Search!Raise
<1> DEFINE key == IF wk[0].key > 0 THEN wk[0].key - 1 ELSE wk[0].key
<1>1. wk \in [Workers -> WorkerIn] /\ wk[0] \in WorkerIn /\ WorkerFits(wk[0], fr[0], bank[0])
  BY Here
<1>2. /\ wk[0].pc = "cnf" /\ Kind[wk[0].at] = "INC" /\ bank' = bank /\ lines' = lines
      /\ wk' = [wk EXCEPT ![0] = [@ EXCEPT !.pc = "go", !.at = Kids[wk[0].at][1],
                                           !.key = key, !.tasks = 0]]
  BY DEF CnfInc, CnfDone, At, Is, queue
<1>3. key = Search!Better(wk[0].key)
  BY DEF Search!Better
<1> HIDE DEF key
<1>4. wk'[0].pc = "go" /\ wk'[0].at = Kids[wk[0].at][1] /\ wk'[0].key = key
  BY <1>1, <1>2 DEF WorkerIn
<1>5. Held = [at |-> wk[0].at, key |-> wk[0].key]
  BY <1>2, HeldIs DEF Looking
<1>6. Held' = [at |-> Kids[wk[0].at][1], key |-> key]
  BY <1>4, HeldThen DEF Looking
<1>7. wk[0].at # 0
  BY <1>1, <1>2 DEF WorkerFits, InHand
<1>8. Held # Search!None /\ Kind[Held.at] = "INC"
  BY <1>2, <1>5, <1>7 DEF Search!None
<1>9. Frontier' = Frontier
  <2>1. wk[0].pc \notin {"second", "pushed"} /\ wk'[0].pc \notin {"second", "pushed"}
    BY <1>2, <1>4
  <2> QED BY <1>2, <2>1, FrontierBank, FrontierBankThen, FrontierSame
<1> QED BY <1>2, <1>3, <1>5, <1>6, <1>8, <1>9 DEF Search!Raise, Search!Holds

LEMMA EraDrops ==
  ASSUME IInv, IInv', 0 \in Workers, CnfEra(0)
  PROVE  Search!Drop
<1>1. wk \in [Workers -> WorkerIn] /\ wk[0] \in WorkerIn /\ WorkerFits(wk[0], fr[0], bank[0])
  BY Here
<1>2. /\ wk[0].pc = "cnf" /\ Kind[wk[0].at] = "ERA" /\ bank' = bank /\ lines' = lines
      /\ Finish(0, wk[0])
  BY DEF CnfEra, CnfDone, At, Is, queue
<1>3. Held' = NoTerm /\ wk'[0].pc \notin {"second", "pushed"}
  BY <1>2, EmptyHanded
<1>4. Held = [at |-> wk[0].at, key |-> wk[0].key]
  BY <1>2, HeldIs DEF Looking
<1>5. wk[0].at # 0
  BY <1>1, <1>2 DEF WorkerFits, InHand
<1>6. Held # Search!None /\ Kind[Held.at] = "ERA"
  BY <1>2, <1>4, <1>5 DEF Search!None
<1>7. Frontier' = Frontier
  <2>1. wk[0].pc \notin {"second", "pushed"}
    BY <1>2
  <2> QED BY <1>2, <1>3, <2>1, FrontierBank, FrontierBankThen, FrontierSame
<1> QED BY <1>2, <1>3, <1>6, <1>7 DEF Search!Drop, Search!Holds, Search!None, NoTerm

\* The line that is counted is printed: the count is at most the limit.
LEMMA PrintIsLine ==
  ASSUME IInv, IInv', 0 \in Workers, Sole(wk[0]), PrintLine(0)
  PROVE  Search!Line
<1>1. wk \in [Workers -> WorkerIn] /\ wk[0] \in WorkerIn /\ WorkerFits(wk[0], fr[0], bank[0])
  BY Here
<1>2. /\ wk[0].pc = "print" /\ bank' = bank /\ Finish(0, wk[0])
      /\ lines' = IF printed + wk[0].local <= limit THEN Append(lines, wk[0].at) ELSE lines
  BY DEF PrintLine, At, queue
<1>3. lines' = Append(lines, wk[0].at)
  BY <1>2 DEF Sole, Counts
<1>4. Held' = NoTerm /\ wk'[0].pc \notin {"second", "pushed"}
  BY <1>2, EmptyHanded
<1>5. Held = [at |-> wk[0].at, key |-> wk[0].key]
  BY <1>2, HeldIs DEF Looking
<1>6. wk[0].at # 0 /\ Kind[wk[0].at] = "LEAF"
  BY <1>1, <1>2 DEF WorkerFits, InHand
<1>7. Held # Search!None /\ Kind[Held.at] = "LEAF"
  BY <1>5, <1>6 DEF Search!None
<1>8. Frontier' = Frontier
  <2>1. wk[0].pc \notin {"second", "pushed"}
    BY <1>2
  <2> QED BY <1>2, <1>4, <2>1, FrontierBank, FrontierBankThen, FrontierSame
<1> QED BY <1>3, <1>4, <1>5, <1>7, <1>8 DEF Search!Line, Search!Holds, Search!None, NoTerm

LEMMA Pair ==
  ASSUME NEW S, NEW q \in Seq(S), Len(q) = 2
  PROVE  /\ <<q[1]>> \in Seq(S) /\ <<q[2]>> \in Seq(S)
         /\ <<q[1]>> \o <<q[2]>> = q
<1> DEFINE a == <<q[1]>>
           b == <<q[2]>>
<1>1. q[1] \in S /\ q[2] \in S
  BY ElementOfSeq
<1>2. a \in Seq(S) /\ b \in Seq(S) /\ Len(a) = 1 /\ Len(b) = 1 /\ a[1] = q[1] /\ b[1] = q[2]
  BY <1>1
<1> HIDE DEF a, b
<1>3. /\ a \o b \in Seq(S) /\ Len(a \o b) = 2
      /\ (a \o b)[1] = a[1] /\ (a \o b)[2] = b[1]
  <2>1. /\ a \o b \in Seq(S) /\ Len(a \o b) = Len(a) + Len(b)
        /\ \A i \in 1..(Len(a) + Len(b)) :
             (a \o b)[i] = IF i <= Len(a) THEN a[i] ELSE b[i - Len(a)]
    BY <1>2, ConcatProperties
  <2>2. Len(a) + Len(b) = 2 /\ 1 \in 1..2 /\ 2 \in 1..2 /\ 2 - Len(a) = 1
    BY <1>2
  <2>3. (a \o b)[1] = IF 1 <= Len(a) THEN a[1] ELSE b[1 - Len(a)]
    BY <2>1, <2>2
  <2>4. (a \o b)[2] = IF 2 <= Len(a) THEN a[2] ELSE b[2 - Len(a)]
    BY <2>1, <2>2
  <2> QED BY <1>2, <2>1, <2>2, <2>3, <2>4
<1>4. \A i \in 1..2 : (a \o b)[i] = q[i]
  BY <1>2, <1>3
<1>5. a \o b = q
  BY <1>3, <1>4, SeqEqual
<1> QED BY <1>2, <1>5 DEF a, b

\* With the call of the first push both branches are behind their bucket.
LEMMA SupBranches ==
  ASSUME IInv, IInv', 0 \in Workers, CnfSup(0)
  PROVE  Search!Branch
<1> DEFINE at == wk[0].at
           b == Q!Bucket(wk[0].key + 1)
<1>1. /\ wk \in [Workers -> WorkerIn] /\ wk[0] \in WorkerIn
      /\ WorkerFits(wk[0], fr[0], bank[0])
      /\ fr \in [Workers -> FrameIn] /\ fr[0] \in FrameIn
  BY Here
<1>2. /\ wk[0].pc = "cnf" /\ Kind[at] = "SUP" /\ bank' = bank /\ lines' = lines
      /\ wk' = [wk EXCEPT ![0] = [@ EXCEPT !.pc = "second", !.tasks = 0]]
      /\ fr' = [fr EXCEPT ![0] = [@ EXCEPT !.op = "push", !.b = b, !.x = Kids[at][1]]]
  BY DEF CnfSup, CnfDone, At, Is, Q!PushCall
<1>3. at \in Locs
  BY <1>1, <1>2 DEF WorkerFits, InHand, WorkerIn
<1>4. /\ Kids[at] \in Seq(Locs) /\ Len(Kids[at]) = 2
      /\ Kids[at][1] \in Locs /\ Kids[at][2] \in Locs
  BY <1>2, <1>3, CollapseAssumption
<1>5. b = Search!Worse(wk[0].key) /\ b \in Q!Buckets
  <2>1. wk[0].key \in 0..Brackets
    BY <1>1 DEF WorkerIn
  <2> QED BY <2>1, CollapseAssumption DEF Q!Bucket, Q!Buckets, Search!Worse
<1>6. wk'[0].pc = "second" /\ wk'[0].at = at /\ wk'[0].key = wk[0].key
  BY <1>1, <1>2 DEF WorkerIn
<1>7. fr'[0].x = Kids[at][1] /\ fr'[0].b = b
  BY <1>1, <1>2 DEF FrameIn
<1>8. Held = [at |-> at, key |-> wk[0].key]
  BY <1>2, HeldIs DEF Looking
<1>9. Held' = NoTerm
  <2>1. wk'[0].pc \notin Looking \cup {"pop"}
    BY <1>6 DEF Looking
  <2> QED BY <2>1, HeldThen
<1>10. at # 0 /\ Kids[at][1] # 0
  BY <1>3, <1>4, CollapseAssumption
<1>11. Held # Search!None /\ Kind[Held.at] = "SUP"
  BY <1>2, <1>8, <1>10 DEF Search!None
<1>12. ASSUME NEW c \in Q!Buckets
       PROVE  Frontier'[c] = IF c = b THEN Frontier[c] \o Kids[at] ELSE Frontier[c]
  <2>1. Frontier[c] = bank[0][c] /\ bank[0][c] \in Seq(Locs) /\ <<>> \in Seq(Locs)
    <3>1. wk[0].pc \notin {"second", "pushed"}
      BY <1>2
    <3> QED BY <3>1, FrontierBank, Pieces
  <2>2. Frontier'[c] = bank[0][c] \o First(wk'[0], fr'[0], c) \o Second(wk'[0], c)
    BY <1>2, FrontierThen
  <2>3. CASE c = b
    <3>1. First(wk'[0], fr'[0], c) = <<Kids[at][1]>>
      BY <1>6, <1>7, <1>10, <2>3 DEF First
    <3>2. Second(wk'[0], c) = <<Kids[at][2]>>
      BY <1>6, <2>3 DEF Second
    <3>3. /\ <<Kids[at][1]>> \in Seq(Locs) /\ <<Kids[at][2]>> \in Seq(Locs)
          /\ <<Kids[at][1]>> \o <<Kids[at][2]>> = Kids[at]
      BY <1>4, Pair
    <3> DEFINE p == bank[0][c]
               q == <<Kids[at][1]>>
               r == <<Kids[at][2]>>
    <3> HIDE DEF p, q, r
    <3>4. (p \o q) \o r = p \o (q \o r)
      <4>1. p \in Seq(Locs) /\ q \in Seq(Locs) /\ r \in Seq(Locs)
        BY <2>1, <3>3 DEF p, q, r
      <4> QED BY <4>1, ConcatAssociative
    <3>5. p \o q \o r = p \o Kids[at]
      BY <3>3, <3>4 DEF q, r
    <3> QED BY <2>1, <2>2, <2>3, <3>1, <3>2, <3>5 DEF p, q, r
  <2>4. CASE c # b
    <3>1. First(wk'[0], fr'[0], c) = <<>>
      BY <1>7, <2>4 DEF First
    <3>2. Second(wk'[0], c) = <<>>
      BY <1>6, <2>4 DEF Second
    <3>3. bank[0][c] \o <<>> = bank[0][c]
      BY <2>1, ConcatEmptySeq
    <3> QED BY <2>1, <2>2, <2>4, <3>1, <3>2, <3>3
  <2> QED BY <2>3, <2>4
<1>13. Frontier' = [Frontier EXCEPT ![b] = @ \o Kids[at]]
  <2>1. Frontier' = [c \in Q!Buckets |-> Frontier'[c]] /\ DOMAIN Frontier = Q!Buckets
    BY FrontierThen, FrontierIs DEF Frontier
  <2> QED BY <1>5, <1>12, <2>1
<1> QED BY <1>2, <1>5, <1>8, <1>9, <1>11, <1>13 DEF Search!Branch, Search!Holds, Search!None, NoTerm

LEMMA SecondSearches ==
  ASSUME IInv, IInv', 0 \in Workers, CnfSupSecond(0) \/ CnfSupPushed(0)
  PROVE  UNCHANGED Search!vars
<1>1. /\ wk \in [Workers -> WorkerIn] /\ wk[0] \in WorkerIn
      /\ fr \in [Workers -> FrameIn] /\ fr[0] \in FrameIn
      /\ QueueFits(0, wk[0], fr[0], bank[0], mask[0])
  BY Here
<1>2. fr[0].op = "none" /\ bank' = bank /\ lines' = lines
  BY DEF CnfSupSecond, CnfSupPushed, Q!PushCall, queue
<1>3. fr[0].x = 0
  BY <1>1, <1>2 DEF QueueFits
<1>4. CASE CnfSupSecond(0)
  <2> DEFINE b == Q!Bucket(wk[0].key + 1)
             x == Kids[wk[0].at][2]
  <2>1. /\ wk[0].pc = "second" /\ x # 0 /\ wk' = [wk EXCEPT ![0].pc = "pushed"]
        /\ fr' = [fr EXCEPT ![0] = [@ EXCEPT !.op = "push", !.b = b, !.x = x]]
    BY <1>4 DEF CnfSupSecond, At, Goto, Q!PushCall
  <2>2. wk'[0].pc = "pushed"
    BY <1>1, <2>1 DEF WorkerIn
  <2>3. fr'[0].x = x /\ fr'[0].b = b
    BY <1>1, <2>1 DEF FrameIn
  <2>4. Held = NoTerm /\ Held' = NoTerm
    <3>1. wk[0].pc \notin Looking \cup {"pop"} /\ wk'[0].pc \notin Looking \cup {"pop"}
      BY <2>1, <2>2 DEF Looking
    <3> QED BY <3>1, HeldIs, HeldThen
  <2>5. ASSUME NEW c \in Q!Buckets PROVE Frontier'[c] = Frontier[c]
    <3>1. First(wk[0], fr[0], c) = <<>> /\ Second(wk'[0], c) = <<>>
      BY <1>3, <2>2 DEF First, Second
    <3>2. First(wk'[0], fr'[0], c) = Second(wk[0], c)
      BY <2>1, <2>2, <2>3 DEF First, Second
    <3>3. /\ bank[0][c] \in Seq(Locs) /\ Second(wk[0], c) \in Seq(Locs)
          /\ bank[0][c] \o Second(wk[0], c) \in Seq(Locs)
      BY Pieces, ConcatProperties
    <3>4. /\ bank[0][c] \o <<>> = bank[0][c]
          /\ (bank[0][c] \o Second(wk[0], c)) \o <<>> = bank[0][c] \o Second(wk[0], c)
      BY <3>3, ConcatEmptySeq
    <3>5. Frontier[c] = bank[0][c] \o Second(wk[0], c)
      BY <3>1, <3>4, FrontierIs
    <3>6. Frontier'[c] = bank[0][c] \o Second(wk[0], c)
      BY <1>2, <3>1, <3>2, <3>4, FrontierThen
    <3> QED BY <3>5, <3>6
  <2> QED BY <1>2, <2>4, <2>5, FrontierSame DEF Search!vars
<1>5. CASE CnfSupPushed(0)
  <2>1. wk[0].pc = "pushed" /\ Finish(0, wk[0])
    BY <1>5 DEF CnfSupPushed, At
  <2>2. Held' = NoTerm /\ wk'[0].pc \notin {"second", "pushed"}
    BY <2>1, EmptyHanded
  <2>3. Held = NoTerm
    <3>1. wk[0].pc \notin Looking \cup {"pop"}
      BY <2>1 DEF Looking
    <3> QED BY <3>1, HeldIs
  <2>4. ASSUME NEW c \in Q!Buckets PROVE Frontier'[c] = Frontier[c]
    <3>1. First(wk[0], fr[0], c) = <<>> /\ Second(wk[0], c) = <<>>
      BY <1>3, <2>1 DEF First, Second
    <3>2. bank[0][c] \in Seq(Locs) /\ bank[0][c] \o <<>> = bank[0][c]
      BY Pieces, ConcatEmptySeq
    <3>3. Frontier[c] = bank[0][c]
      BY <3>1, <3>2, FrontierIs
    <3>4. Frontier'[c] = bank'[0][c]
      BY <2>2, FrontierBankThen
    <3> QED BY <1>2, <3>3, <3>4
  <2> QED BY <1>2, <2>2, <2>3, <2>4, FrontierSame DEF Search!vars
<1> QED BY <1>4, <1>5

LEMMA OneSearches ==
  ASSUME IInv, IInv', OneInv, Pushing, N = 1, [Next]_vars
  PROVE  [Search!Next]_(Search!vars)
<1>1. 0 \in Workers /\ \A w \in Workers : w = 0
  BY Lone
<1>2. Sole(wk[0])
  BY <1>1, AloneIs DEF OneInv
<1>3. CASE UNCHANGED vars
  <2>1. wk' = wk /\ lines' = lines /\ bank' = bank /\ fr' = fr
    BY <1>3 DEF vars, queue
  <2> QED BY <1>1, <2>1, HandSame
<1>4. CASE Queueing(0)
  BY <1>1, <1>4, QueueSearches
<1>5. CASE Collapsing(0)
  <2>1. CASE \/ Stopped(0) \/ SeekOn(0) \/ SeekNone(0) \/ SeekFound(0) \/ Enter(0) \/ Steal(0)
             \/ Stole(0) \/ Retire(0) \/ ReadPending(0) \/ ReadCnfPending(0) \/ SetStop(0)
             \/ Leave(0) \/ HelpOff(0) \/ HelpDrop(0) \/ HelpNone(0) \/ HelpCount(0)
             \/ HelpDone(0)
    BY <1>1, <2>1, LoneQuiet
  <2>2. CASE Pop(0) \/ Popped(0) \/ PoppedNone(0)
    BY <1>1, <2>2, PopSearches
  <2>3. CASE Go(0) \/ CnfLeaf(0) \/ LimitStop(0) \/ Flush(0)
    BY <1>1, <2>3, LookSearches
  <2>4. CASE CnfSupSecond(0) \/ CnfSupPushed(0)
    BY <1>1, <2>4, SecondSearches
  <2>5. CASE CnfInc(0)
    BY <1>1, <2>5, IncRaises DEF Search!Next
  <2>6. CASE CnfSup(0)
    BY <1>1, <2>6, SupBranches DEF Search!Next
  <2>7. CASE CnfEra(0)
    BY <1>1, <2>7, EraDrops DEF Search!Next
  <2>8. CASE PrintLine(0)
    BY <1>1, <1>2, <2>8, PrintIsLine DEF Search!Next
  <2>9. ~GoStopped(0)
    <3>1. "go" \in Busy
      BY DEF Busy
    <3> QED BY <1>2, <3>1 DEF GoStopped, At, Sole
  <2>10. ~HelpSteal(0)
    BY <1>1 DEF HelpSteal
  <2>11. CASE JoinDrop(0) \/ JoinTake(0)
    BY <1>1, <2>11, JoinSearches
  <2> QED BY <1>5, <2>1, <2>2, <2>3, <2>4, <2>5, <2>6, <2>7, <2>8, <2>9, <2>10, <2>11 DEF Collapsing
<1> QED BY <1>1, <1>3, <1>4, <1>5 DEF Next, Worker, Joined

\* At first the root alone is before the worker.
LEMMA SearchInit == N = 1 /\ Init => Search!Init
<1> SUFFICES ASSUME N = 1, Init PROVE Search!Init
  OBVIOUS
<1>1. 0 \in Workers
  BY Lone
<1>2. /\ wk[0].pc = "top" /\ lines = <<>>
      /\ bank = [w \in Workers |-> [c \in Q!Buckets |-> IF w = 0 /\ c = 0 THEN <<Root>> ELSE <<>>]]
  BY <1>1 DEF Init, Fresh
<1>3. Held = NoTerm
  <2>1. wk[0].pc \notin Looking \cup {"pop"}
    BY <1>2 DEF Looking
  <2> QED BY <2>1, HeldIs
<1>4. \A c \in Q!Buckets : Frontier[c] = bank[0][c]
  <2>1. wk[0].pc \notin {"second", "pushed"}
    BY <1>2
  <2> QED BY <1>1, <2>1, FrontierBank, IInvInit
<1>5. \A c \in Q!Buckets : bank[0][c] = IF c = 0 THEN <<Root>> ELSE <<>>
  BY <1>1, <1>2
<1>6. Frontier = [c \in Q!Buckets |-> Frontier[c]]
  BY DEF Frontier
<1>7. Frontier = [k \in 0..(Brackets - 1) |-> IF k = 0 THEN <<Root>> ELSE <<>>]
  BY <1>4, <1>5, <1>6 DEF Q!Buckets
<1> QED BY <1>2, <1>3, <1>7 DEF Search!Init, Search!None, NoTerm

\* A single worker is the best-first search of the tree: of the terms with the
\* least key the one that has waited longest is next, and what is printed is
\* printed when it is looked at.
THEOREM PrintsInOrder ==
  ASSUME N = 1
  PROVE  ZeroSpec => InOrder
<1>1. ZeroInit => IInv /\ OnceInv /\ OneInv /\ Pushing /\ Search!Init
  BY IInvInit, OnceInit, OneInit, PushingInit, SearchInit DEF ZeroInit
<1>2. IInv /\ OnceInv /\ OneInv /\ Pushing /\ [Next]_vars
        => (IInv /\ OnceInv /\ OneInv /\ Pushing)'
  BY IInvNext, OnceNext, OneNext, PushingNext
<1>3. IInv /\ IInv' /\ OneInv /\ Pushing /\ [Next]_vars => [Search!Next]_(Search!vars)
  BY OneSearches
<1> QED BY <1>1, <1>2, <1>3, PTL DEF ZeroSpec, InOrder, Search!Spec
=============================================================================
