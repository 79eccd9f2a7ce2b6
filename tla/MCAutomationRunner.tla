-------------------------- MODULE MCAutomationRunner --------------------------
(***************************************************************************)
(* Instances of AutomationRunner for TLC.                                  *)
(***************************************************************************)
EXTENDS AutomationRunner, TLC

CONSTANTS r1, r2, b1

OneBranch == [j \in Job |-> b1]
NoProvider == [j \in Job |-> Nobody]
NoKey == [j \in Job |-> Nobody]
SamePriority == [j \in Job |-> 0]
OneAttempt == [j \in Job |-> 1]
NoLimit == [p \in {} |-> 1]

===============================================================================
