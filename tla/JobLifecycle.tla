---------------------------- MODULE JobLifecycle ----------------------------
(***************************************************************************)
(* What the jobs framework promises about each job, whatever the number of *)
(* runners and however their transactions interleave: the lifecycle of     *)
(* JobStatus and who holds the claim.  specs/jobs.qnt states these as laws *)
(* of single calls; here they are laws of the committed table over time.   *)
(***************************************************************************)
CONSTANTS Job, Runner, None

VARIABLES
  status,   \* [Job -> the job's status, "absent" before it and "deleted" after]
  holder    \* [Job -> the runner whose claim is the row's claimed_by, or None]

jobVars == <<status, holder>>

Init ==
  /\ status = [j \in Job |-> "absent"]
  /\ holder = [j \in Job |-> None]

In(S, s) == \A j \in S : status[j] = s

Move(S, s) == status' = [j \in Job |-> IF j \in S THEN s ELSE status[j]]

Hold(S, h) == holder' = [j \in Job |-> IF j \in S THEN h ELSE holder[j]]

(* A job starts as a client may write it. *)
Create(j) ==
  /\ status[j] = "absent"
  /\ \E s \in {"PENDING", "SCHEDULED", "CANCELLED"} : Move({j}, s)
  /\ UNCHANGED holder

(* A client moves a job that is not terminal; the claim columns are not its. *)
ClientMove(j) ==
  /\ status[j] \in {"PENDING", "SCHEDULED", "RUNNING"}
  /\ \E s \in {"PENDING", "SCHEDULED", "CANCELLED"} : Move({j}, s)
  /\ UNCHANGED holder

Delete(j) ==
  /\ status[j] \notin {"absent", "deleted"}
  /\ Move({j}, "deleted")
  /\ Hold({j}, None)

(* A sweep's transaction promotes, claims or recovers several jobs at once. *)
Promote(S) ==
  /\ In(S, "SCHEDULED")
  /\ Move(S, "PENDING")
  /\ UNCHANGED holder

Claim(r, S) ==
  /\ In(S, "PENDING")
  /\ Move(S, "RUNNING")
  /\ Hold(S, r)

Recover(S, T) ==
  /\ S \cap T = {}
  /\ In(S \cup T, "RUNNING")
  /\ status' = [j \in Job |-> IF j \in S THEN "PENDING"
                              ELSE IF j \in T THEN "ERROR" ELSE status[j]]
  /\ Hold(S \cup T, None)

(* Only the holder ends a run. *)
Complete(r, j) ==
  /\ status[j] = "RUNNING" /\ holder[j] = r
  /\ \E s \in {"COMPLETED", "ERROR"} : Move({j}, s)
  /\ UNCHANGED holder

(* A failed run with attempts left, or a shutdown, gives the job back. *)
GiveBack(r, j) ==
  /\ status[j] = "RUNNING" /\ holder[j] = r
  /\ Move({j}, "PENDING")
  /\ Hold({j}, None)

Next ==
  \/ \E j \in Job : Create(j) \/ ClientMove(j) \/ Delete(j)
  \/ \E S, T \in SUBSET Job : Recover(S, T)
  \/ \E S \in SUBSET Job : Promote(S) \/ \E r \in Runner : Claim(r, S)
  \/ \E r \in Runner, j \in Job : Complete(r, j) \/ GiveBack(r, j)

Spec == Init /\ [][Next]_jobVars

=============================================================================
