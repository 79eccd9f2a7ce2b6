------------------------------ MODULE Supervisor ------------------------------
(***************************************************************************)
(* A command that is run with a time limit and an output limit:            *)
(*   agent_adapters.py         BaseAgentAdapter._run_bounded_process       *)
(*   docker_sbx_isolation.py   SubprocessCommandRunner.run                 *)
(*                                                                         *)
(* The command is a process, and perhaps another one it leaves in its      *)
(* process group; both may hold the pipe the supervisor reads.  The two    *)
(* streams share one limit and are one here; output is counted in blocks.  *)
(***************************************************************************)
EXTENDS Naturals

CONSTANTS
  OutputCap,      \* max_output_bytes
  MaxOutput       \* bound of the model on what a command writes

ASSUME SupervisorAssumption == OutputCap \in Nat /\ MaxOutput \in Nat

VARIABLE cmd

\* `owned`: the supervisor also stops what a command leaves behind, as
\* _run_bounded_process does.  A process is "open" while it holds the pipe, "quiet" when
\* it does not.  `late`: the loop has seen the deadline pass.
Command ==
  [step : {"none", "loop", "wait", "group", "kill", "drain", "done"},
   owned : BOOLEAN, main : {"open", "quiet", "gone"}, rest : {"open", "quiet", "gone"},
   written : 0 .. MaxOutput, piped : 0 .. MaxOutput, captured : 0 .. OutputCap,
   late : BOOLEAN, timedOut : BOOLEAN, limited : BOOLEAN, ok : BOOLEAN]

NoCommand ==
  [step |-> "none", owned |-> FALSE, main |-> "gone", rest |-> "gone", written |-> 0,
   piped |-> 0, captured |-> 0, late |-> FALSE, timedOut |-> FALSE, limited |-> FALSE,
   ok |-> FALSE]

Started(owned) == [NoCommand EXCEPT !.step = "loop", !.main = "open", !.owned = owned]

Returned == cmd.step = "done"
Completed == Returned /\ cmd.ok /\ ~ cmd.timedOut /\ ~ cmd.limited

-----------------------------------------------------------------------------
(* The command *)

Alive == cmd.main # "gone" \/ cmd.rest # "gone"
HoldsPipe == "open" \in {cmd.main, cmd.rest}

Outputs ==
  /\ HoldsPipe /\ cmd.written < MaxOutput
  /\ cmd' = [cmd EXCEPT !.written = @ + 1, !.piped = @ + 1]

Spawns ==
  /\ cmd.main # "gone" /\ cmd.rest = "gone"
  /\ \E how \in {cmd.main, "quiet"} : cmd' = [cmd EXCEPT !.rest = how]

ClosesOutput == cmd.main = "open" /\ cmd' = [cmd EXCEPT !.main = "quiet"]

Exits ==
  \/ /\ cmd.main # "gone"
     /\ \E ok \in BOOLEAN : cmd' = [cmd EXCEPT !.main = "gone", !.ok = ok]
  \/ cmd.rest # "gone" /\ cmd' = [cmd EXCEPT !.rest = "gone"]

CommandStep == Outputs \/ Spawns \/ ClosesOutput \/ Exits

-----------------------------------------------------------------------------
(* The supervisor *)

\* consume_ready: what is over the limit is dropped.
Consumed ==
  IF cmd.captured = OutputCap
  THEN [cmd EXCEPT !.piped = @ - 1, !.limited = TRUE]
  ELSE [cmd EXCEPT !.piped = @ - 1, !.captured = @ + 1]

Read ==
  /\ cmd.piped > 0 /\ cmd.step \in {"loop", "drain"}
  /\ cmd.step = "loop" => ~ cmd.late
  /\ cmd' = [Consumed EXCEPT !.step = IF @ = "loop" /\ Consumed.limited THEN "kill" ELSE @]

\* A bug: the command's exit ends the loop.
EndOfExit ==
  /\ cmd.step \in {"loop", "drain"} /\ cmd.main = "gone"
  /\ cmd' = [cmd EXCEPT !.step = IF @ = "loop" THEN "wait" ELSE "done"]

\* The pipe is at its end when nobody holds it any more, whether the command has
\* exited or not.
EndOfFile ==
  /\ cmd.step \in {"loop", "drain"} /\ cmd.piped = 0 /\ ~ HoldsPipe
  /\ cmd' = [cmd EXCEPT !.step = IF @ = "loop" THEN "wait" ELSE "done"]

Deadline == cmd.step \in {"loop", "wait"} /\ ~ cmd.late /\ cmd' = [cmd EXCEPT !.late = TRUE]

\* A bug: once the pipe is at its end, the exit is waited for without a limit.
TimesOutReading ==
  /\ cmd.late /\ cmd.step = "loop"
  /\ cmd' = [cmd EXCEPT !.timedOut = TRUE, !.step = "kill"]

TimesOut ==
  /\ cmd.late
  /\ cmd.step = "loop" \/ (cmd.step = "wait" /\ cmd.main # "gone")
  /\ cmd' = [cmd EXCEPT !.timedOut = TRUE, !.step = "kill"]

Reap ==
  /\ cmd.step = "wait" /\ cmd.main = "gone"
  /\ cmd' = [cmd EXCEPT !.step = IF cmd.owned THEN "group" ELSE "done"]

\* _terminate_process_group; after a failure, what is in the pipe is still read.
StopGroup ==
  /\ cmd.step \in {"group", "kill"}
  /\ cmd' = [cmd EXCEPT !.main = "gone", !.rest = "gone",
                        !.step = IF @ = "kill" THEN "drain" ELSE "done"]

DrainIsOver == cmd.step = "drain" /\ cmd' = [cmd EXCEPT !.step = "done"]

SupervisorStep ==
  Read \/ EndOfFile \/ TimesOut \/ Reap \/ StopGroup \/ DrainIsOver

-----------------------------------------------------------------------------
(* The inductive invariant of the proofs *)

\* What the pipe holds was written; unless output was dropped, what was written is there
\* or captured.
NoOutputInvented ==
  /\ cmd.piped <= cmd.written
  /\ ~ cmd.limited => cmd.captured + cmd.piped = cmd.written

\* A command is killed for a reason, and one that is not has ended its output before its
\* exit is looked at.
EndsInOrder ==
  /\ cmd.step \in {"kill", "drain"} => cmd.timedOut \/ cmd.limited
  /\ \/ cmd.step \in {"wait", "group"}
     \/ Returned /\ ~ cmd.timedOut /\ ~ cmd.limited
     => cmd.piped = 0 /\ ~ HoldsPipe

\* A group that was stopped is gone, and one the supervisor owns is stopped before it
\* returns.
GroupStopped == cmd.step = "drain" \/ (Returned /\ cmd.owned) => ~ Alive

SupervisorInv == NoOutputInvented /\ EndsInOrder /\ GroupStopped

===============================================================================
