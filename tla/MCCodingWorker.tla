---------------------------- MODULE MCCodingWorker ----------------------------
(***************************************************************************)
(* Instances of CodingWorker for TLC.                                      *)
(***************************************************************************)
EXTENDS CodingWorker, TLC

CONSTANTS r1, r2, b1, f1, f2

RunnerSymmetry == Permutations(Runner)

OneBranch == [j \in Job |-> b1]
NoProvider == [j \in Job |-> Nobody]
NoKey == [j \in Job |-> Nobody]
SamePriority == [j \in Job |-> 0]
TwoAttempts == [j \in Job |-> 2]
NoLimit == [p \in {} |-> 1]

===============================================================================
