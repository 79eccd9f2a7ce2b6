------------------------------- MODULE MCGates -------------------------------
(* An instance of Gates for TLC: one proposal of each kind and one request. *)
EXTENDS Gates, TLC

CONSTANTS r1, r2, p1, p2, f1, q1, v1, c1, c2

GateJobs == ({"analyse", "gate"} \X {f1, q1}) \cup ({"create"} \X {f1})
              \cup ({"verify"} \X {c1, c2})
GateSymmetry == Permutations({r1, r2}) \cup Permutations({p1, p2})
Unserialised == {}
==============================================================================
