------------------------------- MODULE MCWspq -------------------------------
(* Two workers, each with two buckets of one slot, and three tasks: a      *)
(* bucket fills, a thief pushes what it stole to a bank that may be full.  *)
EXTENDS Wspq
=============================================================================
