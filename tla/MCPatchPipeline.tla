---------------------------- MODULE MCPatchPipeline ----------------------------
(* Instances of PatchPipeline for TLC: one patch, its application, its         *)
(* validation, and a retry of the application.                                 *)
EXTENDS PatchPipeline, TLC

CONSTANTS r1, r2, b1, c1

RunnerSymmetry == Permutations({r1, r2})

OneBranch == [j \in Job |-> b1]
NoProvider == [j \in Job |-> Nobody]
NoKey == [j \in Job |-> Nobody]
SamePriority == [j \in Job |-> 0]
OneAttempt == [j \in Job |-> 1]
NoLimit == [p \in {} |-> 1]
OnePatch == [j \in Job |-> c1]
RetriesTwoLater == [j \in Job |-> IF j > 2 THEN j - 2 ELSE NoJob]

===============================================================================
