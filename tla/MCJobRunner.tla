----------------------------- MODULE MCJobRunner -----------------------------
(***************************************************************************)
(* The instances of JobRunner that TLC explores.                           *)
(***************************************************************************)
EXTENDS JobRunner, TLC

(* Runner ids are only compared for equality. *)
Symmetry == Permutations(Runner)

Created(s, at) ==
  [status |-> s, run_at |-> at, claimed_by |-> None, claimed_at |-> None, attempts |-> 0,
   max_attempts |-> CHOOSE m \in AttemptCaps : TRUE, max_seconds |-> None]

(* A state of JobRunner in which clients have created the jobs and every runner has *)
(* entered: job 1 scheduled for the last instant, the others pending.               *)
StartedInit ==
  /\ now = 0
  /\ row = [j \in Job |-> IF j = 1 THEN Created("SCHEDULED", MaxTime) ELSE Created("PENDING", None)]
  /\ issued = Job
  /\ pc = [r \in Runner |-> "asleep"]
  /\ moment = [r \in Runner |-> 0]
  /\ todo = [r \in Runner |-> NoRows]
  /\ writes = [r \in Runner |-> NoRows]
  /\ tries = [r \in Runner |-> 0]
  /\ claimed = [r \in Runner |-> {}]
  /\ task = [r \in Runner |-> Idle]
  /\ faults = 0
  /\ edits = 0

StartedFairSpec == StartedInit /\ [][Next]_vars /\ Fairness

=============================================================================
