------------------------------- MODULE JobRows -------------------------------
(***************************************************************************)
(* The rows of the `jobs` table (jobs/jobs_model.py) and the conditions    *)
(* the runner and the REST view put on their writes.  Every write of a job *)
(* is `JobsService.update(payload, condition)`: one UPDATE whose WHERE is  *)
(* the id, the caller's condition and "not terminal".                      *)
(***************************************************************************)
EXTENDS Integers

CONSTANTS
  Job,           \* job ids; a number stands for the id's place in the id order
  Runner,        \* runner ids (one uuid4 per JobRunner object)
  None,          \* SQL NULL
  NoRow,         \* the absence of a row
  MaxTime,       \* bound: the last instant of the modelled clock
  DueTimes,      \* the values a client gives run_at (None included or not)
  AttemptCaps,   \* the values a client gives max_attempts
  RunBounds,     \* the values a client gives max_seconds_for_run
  DefaultBound   \* jobs_default_max_seconds_for_run

Time == 0 .. MaxTime

Terminal == {"COMPLETED", "ERROR", "CANCELLED"}

ClientStatuses == {"PENDING", "SCHEDULED", "CANCELLED"}

JobStatus == ClientStatuses \cup Terminal \cup {"RUNNING"}

Row == [ status       : JobStatus,
         run_at       : Time \cup {None},
         claimed_by   : Runner \cup {None},
         claimed_at   : Time \cup {None},
         attempts     : Nat,
         max_attempts : AttemptCaps,
         max_seconds  : RunBounds \cup {None} ]

RowOrNone == Row \cup {NoRow}

ASSUME RowAssumption ==
  /\ Job \subseteq Nat
  /\ MaxTime \in Nat
  /\ DueTimes \subseteq Time \cup {None}
  /\ AttemptCaps \subseteq Int
  /\ RunBounds \subseteq Nat
  /\ DefaultBound \in Nat
  /\ None \notin Runner \cup Nat
  /\ NoRow \notin Row

-----------------------------------------------------------------------------
(* What a reader of a row asks of it. *)

HasStatus(v, s) == v # NoRow /\ v.status = s

(* Mutant: the claim is a plain UPDATE by id. *)
Runnable_Unconditional(v) == v # NoRow

(* `claimable`, the search filter and the condition of a claim. *)
Runnable(v) == HasStatus(v, "PENDING")

(* _claim_condition: RUNNING and claimed by `owner`. *)
ClaimedBy(v, owner) == HasStatus(v, "RUNNING") /\ v.claimed_by = owner

(* Mutant: the service folds no guard. *)
NotTerminal_Unguarded(v) == v # NoRow

(* The guard JobsService.update folds into every write. *)
NotTerminal(v) == v # NoRow /\ v.status \notin Terminal

(* The stale-claim verdict, on the row as the sweep read it. *)
Stale(v, moment) ==
  /\ v.claimed_at # None
  /\ moment - v.claimed_at > IF v.max_seconds = None THEN DefaultBound ELSE v.max_seconds

(* The schedule gate; a NULL run_at is due. *)
Due(v, moment) == v.run_at = None \/ v.run_at <= moment

-----------------------------------------------------------------------------
(* What a write makes of a row. *)

Requeued(v) == [v EXCEPT !.status = "PENDING", !.claimed_by = None, !.claimed_at = None]

Promoted(v) == [v EXCEPT !.status = "PENDING"]

(* Mutant: an outcome JobStatus does not have. *)
Exhausted_Unknown(v) ==
  [v EXCEPT !.status = "EXHAUSTED", !.claimed_by = None, !.claimed_at = None]

Exhausted(v) == [v EXCEPT !.status = "ERROR", !.claimed_by = None, !.claimed_at = None]

(* Mutant: the claim does not say when it was made. *)
Claimed_Undated(v, r, moment, seen) ==
  [v EXCEPT !.status = "RUNNING", !.claimed_by = r, !.attempts = seen.attempts + 1]

(* attempts is written from the row the sweep read, not from the row written. *)
Claimed(v, r, moment, seen) ==
  [v EXCEPT !.status = "RUNNING", !.claimed_by = r, !.claimed_at = moment,
            !.attempts = seen.attempts + 1]

=============================================================================
