------------------------------ MODULE MCToolLoop ------------------------------
(* An instance of ToolLoop for TLC: a tool, its continuations, the next tools. *)
EXTENDS ToolLoop, TLC

CONSTANTS r1, r2, s1, s2

ChainSymmetry == Permutations({r1, r2}) \cup Permutations({s1, s2})

OneBranch == Job \X Job
\* A chain that starts, and two tool requests late in a chain.
FreshOrDeep == {<<0, 4>>, <<1, 2>>, <<2, 1>>}

\* A chain meets a fault or an expired lease, one that is late in its budget both.
FewTroubles == faults + overdue <= 1 \/ event[Root].depth # 0

===============================================================================
