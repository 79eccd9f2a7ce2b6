----------------------------- MODULE ClaimService -----------------------------
(***************************************************************************)
(* What the job queue promises the runners, without deadlines, attempts,   *)
(* priorities or the lifecycle log: jobs are claimed by one runner at a    *)
(* time, rivals are never claimed together, and a settled job is settled   *)
(* for good.  JobQueue implements it (JobQueue!ImplementsClaims).                 *)
(***************************************************************************)
CONSTANTS
  Job, Runner, NoRunner,
  Rivals          \* the pairs of jobs that exclude each other

VARIABLES
  phase,          \* "new", "waiting", "claimed", "parked" or "settled"
  holder          \* the runner that has the claim, or NoRunner

claimVars == <<phase, holder>>

Rival(j, k) == <<j, k>> \in Rivals

ClaimInit ==
  /\ phase = [j \in Job |-> "new"]
  /\ holder = [j \in Job |-> NoRunner]

Submit(j) ==
  /\ phase[j] = "new"
  /\ phase' = [phase EXCEPT ![j] = "waiting"]
  /\ UNCHANGED holder

\* The phases once the claims of `back` and `dead` have lapsed.
Lapsed(back, dead) ==
  [j \in Job |-> IF j \in back THEN "waiting"
                 ELSE IF j \in dead THEN "parked" ELSE phase[j]]

LapsedHolder(back, dead) ==
  [j \in Job |-> IF j \in back \cup dead THEN NoRunner ELSE holder[j]]

Lapsing(back, dead) ==
  back \cup dead \subseteq {j \in Job : phase[j] = "claimed"}

\* Any set of claims may lapse at once.
Lapse(back, dead) ==
  /\ Lapsing(back, dead)
  /\ phase' = Lapsed(back, dead)
  /\ holder' = LapsedHolder(back, dead)

\* A runner claims a waiting job none of whose rivals is claimed.  The same
\* step may first let other claims lapse.
Claim(w, j, back, dead) ==
  /\ Lapsing(back, dead)
  /\ Lapsed(back, dead)[j] = "waiting"
  /\ \A k \in Job : Rival(j, k) => Lapsed(back, dead)[k] # "claimed"
  /\ phase' = [Lapsed(back, dead) EXCEPT ![j] = "claimed"]
  /\ holder' = [LapsedHolder(back, dead) EXCEPT ![j] = w]

\* A claim that is held is given up with an outcome.
Release(w, j, outcome) ==
  /\ phase[j] = "claimed" /\ holder[j] = w
  /\ phase' = [phase EXCEPT ![j] = outcome]
  /\ holder' = [holder EXCEPT ![j] = NoRunner]

Withdraw(j) ==
  /\ phase[j] \in {"waiting", "claimed"}
  /\ phase' = [phase EXCEPT ![j] = "settled"]
  /\ holder' = [holder EXCEPT ![j] = NoRunner]

Revive(j) ==
  /\ phase[j] = "parked"
  /\ phase' = [phase EXCEPT ![j] = "waiting"]
  /\ UNCHANGED holder

ClaimNext ==
  \/ \E j \in Job : Submit(j) \/ Withdraw(j) \/ Revive(j)
  \/ \E back \in SUBSET Job, dead \in SUBSET Job : Lapse(back, dead)
  \/ \E w \in Runner, j \in Job, back \in SUBSET Job, dead \in SUBSET Job :
       Claim(w, j, back, dead)
  \/ \E w \in Runner, j \in Job, outcome \in {"waiting", "parked", "settled"} :
       Release(w, j, outcome)

ClaimSpec == ClaimInit /\ [][ClaimNext]_claimVars

===============================================================================
