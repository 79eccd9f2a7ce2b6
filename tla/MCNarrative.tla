----------------------------- MODULE MCNarrative -----------------------------
(***************************************************************************)
(* Instances of Narrative for TLC: a session with one answered question,   *)
(* to which a few events of each type are added.                           *)
(***************************************************************************)
EXTENDS Narrative, TLC

CONSTANTS b1, b2, b3, cli, tui, runner

AtMost(n, types) == [types |-> types, max |-> n]
None(types) == {AtMost(0, types)}
OnceEach(types) == {AtMost(1, {t}) : t \in types}

Chain == {"oracle.request", "oracle.output", "analysis.claim_detected"}
Canon == {"analysis.canon_candidate", "human.keep"}
Others == Types \ (Chain \cup Canon \cup {"claim.promoted", "session.forked"})

\* A fork, a nomination with its approval, a promotion that is made twice, another
\* answer, and one more event.
StoryLimit == OnceEach(Chain \cup Canon \cup {"session.forked"})
                \cup {AtMost(2, {"claim.promoted"}), AtMost(1, Others)}

===============================================================================
