----------------------------- MODULE MCWorkerRun -----------------------------
(* Instances of WorkerRun for TLC. *)
EXTENDS WorkerRun, TLC

CONSTANTS n1

\* The bound of the model on what comes together: the operator edits the source, or the
\* tool changes, its calls fail and the process dies. Sandboxes are made and taken away in
\* both.
VARIABLE story
Together ==
  IF story = "edits" THEN UNCHANGED <<tool, faults, crashes>> ELSE UNCHANGED source

MCInit ==
  /\ WorkerInit
  /\ story \in {"edits", "failures"}
  /\ story = "failures" => \A part \in Part : source[part] = 1
MCNext == WorkerNext /\ Together /\ UNCHANGED story

MCSpec == MCInit /\ [][MCNext]_<<workerVars, story>> /\ WorkerFairness
===============================================================================
