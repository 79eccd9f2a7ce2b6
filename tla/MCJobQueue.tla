------------------------------ MODULE MCJobQueue ------------------------------
(***************************************************************************)
(* Instances of JobQueue for TLC.                                          *)
(***************************************************************************)
EXTENDS JobQueue, TLC

CONSTANTS r1, r2, b1, p1, key

RunnerSymmetry == Permutations(Runner)

\* Two serialized jobs of one branch, 1 and 2, and two jobs of one provider
\* with limit one, 1 and 3; 2 and 3 are calls with the same key, so only one
\* of them is ever enqueued.
TrioBranch == [j \in Job |-> IF j = 3 THEN Nobody ELSE b1]
TrioProvider == [j \in Job |-> IF j = 2 THEN Nobody ELSE p1]
TrioKey == [j \in Job |-> IF j = 1 THEN Nobody ELSE key]
TrioPriority == [j \in Job |-> IF j = 3 THEN 1 ELSE 0]
TrioMaxAttempts == [j \in Job |-> IF j = 1 THEN 3 ELSE 1]
LimitOne == [p \in {p1} |-> 1]

===============================================================================
