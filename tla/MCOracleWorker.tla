---------------------------- MODULE MCOracleWorker ----------------------------
(***************************************************************************)
(* Instances of OracleWorker for TLC.                                      *)
(***************************************************************************)
EXTENDS OracleWorker, TLC

CONSTANTS r1, r2, b1

RunnerSymmetry == Permutations(Runner)

OneBranch == [j \in Job |-> b1]
NoProvider == [j \in Job |-> Nobody]
NoKey == [j \in Job |-> Nobody]
SamePriority == [j \in Job |-> 0]
TwoAttempts == [j \in Job |-> 2]
TwoAndOne == [j \in Job |-> IF j = 1 THEN 2 ELSE 1]
NoLimit == [p \in {} |-> 1]

===============================================================================
