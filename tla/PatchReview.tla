------------------------------ MODULE PatchReview ------------------------------
(***************************************************************************)
(* What the review of candidate patches promises: a human judges a         *)
(* candidate once, an approved one gets one result, an applied one gets    *)
(* one verdict, and nothing is ever taken back.  PatchPipeline implements  *)
(* this with jobs that may be retried, overlap and die.                    *)
(***************************************************************************)
CONSTANT Patch

VARIABLES
  status,         \* candidate_patches.status of src/src/oracle_lab/store.py
  verdict         \* candidate_patches.validation_status

Result == {"applied", "conflicted"}
Verdict == {"passed", "failed"}

ReviewInit ==
  /\ status = [p \in Patch |-> "pending_human"]
  /\ verdict = [p \in Patch |-> "none"]

Judge(p) ==
  /\ status[p] = "pending_human"
  /\ \E s \in {"approved", "rejected"} : status' = [status EXCEPT ![p] = s]
  /\ UNCHANGED verdict

Settle(p) ==
  /\ status[p] = "approved"
  /\ \E s \in Result : status' = [status EXCEPT ![p] = s]
  /\ UNCHANGED verdict

Verify(p) ==
  /\ status[p] = "applied" /\ verdict[p] = "none"
  /\ \E v \in Verdict : verdict' = [verdict EXCEPT ![p] = v]
  /\ UNCHANGED status

ReviewNext == \E p \in Patch : Judge(p) \/ Settle(p) \/ Verify(p)

ReviewSpec == ReviewInit /\ [][ReviewNext]_<<status, verdict>>

===============================================================================
