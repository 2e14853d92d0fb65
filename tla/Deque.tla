------------------------------- MODULE Deque -------------------------------
(***************************************************************************)
(* What src/clang/data/wsq.c promises its callers: a bounded double-ended  *)
(* queue on which every operation takes effect at one instant.  Its owner  *)
(* pushes and pops at the bottom (the end of the sequence), thieves take   *)
(* from the top (its head).  An operation of the owner leaves its outcome  *)
(* in ret, so that an implementation of this module must also justify      *)
(* every failure it reports: "full" only of a full deque and "empty" only  *)
(* of an empty one.  A steal may fail at any time, which is a stutter.     *)
(*                                                                         *)
(* The tasks are the numbers 1, 2, ... in the order they are pushed.       *)
(***************************************************************************)
EXTENDS Naturals, Sequences, SequencesExt

CONSTANTS Cap,      \* slots of the ring
          MaxPush   \* bound: tasks pushed in one behaviour

VARIABLES dq,       \* the tasks held, oldest (top) first
          pushed,   \* number of tasks pushed so far
          takes,    \* takes[k]: how often task k was handed to a caller
          ret       \* outcome of the owner's last operation

vars == <<dq, pushed, takes, ret>>

Outcomes == {"none", "pushed", "full", "popped", "empty"}

Init ==
  /\ dq = <<>>
  /\ pushed = 0
  /\ takes = [k \in 1..MaxPush |-> 0]
  /\ ret = "none"

Hand(k) == takes' = [takes EXCEPT ![k] = @ + 1]

Push ==
  /\ Len(dq) < Cap
  /\ pushed < MaxPush
  /\ pushed' = pushed + 1
  /\ dq' = Append(dq, pushed + 1)
  /\ ret' = "pushed"
  /\ UNCHANGED takes

PushFull ==
  /\ Len(dq) = Cap
  /\ ret' = "full"
  /\ UNCHANGED <<dq, pushed, takes>>

Pop ==
  /\ dq # <<>>
  /\ Hand(Last(dq))
  /\ dq' = Front(dq)
  /\ ret' = "popped"
  /\ UNCHANGED pushed

PopEmpty ==
  /\ dq = <<>>
  /\ ret' = "empty"
  /\ UNCHANGED <<dq, pushed, takes>>

Steal ==
  /\ dq # <<>>
  /\ Hand(Head(dq))
  /\ dq' = Tail(dq)
  /\ UNCHANGED <<pushed, ret>>

Next == Push \/ PushFull \/ Pop \/ PopEmpty \/ Steal

Spec == Init /\ [][Next]_vars
=============================================================================
