---------------------------- MODULE MCVirtualWorld ----------------------------
(* Instances of VirtualWorld for TLC: a session with a few tool requests. *)
EXTENDS VirtualWorld, TLC

CONSTANTS b1, b2, c1, p1, pid, w1, w2

ExecutorSymmetry == Permutations(Executor)

===============================================================================
