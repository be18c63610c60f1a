------------------------------ MODULE JobRunner ------------------------------
(***************************************************************************)
(* The durable-job runner (jobs/jobs_runner.py) of several processes over  *)
(* one `jobs` table, and the REST clients that edit the same rows.         *)
(*                                                                         *)
(* A sweep is three transactions (recover, promote, claim), each a SELECT  *)
(* followed by conditional UPDATEs and one commit.  The database runs them *)
(* at READ COMMITTED: a SELECT sees what is committed and the transaction's *)
(* own writes; an UPDATE waits for the row's lock, then evaluates its WHERE *)
(* on the latest row; locks are held to the commit.  A transaction of one  *)
(* statement is one step here.                                             *)
(***************************************************************************)
EXTENDS JobRows, FiniteSets

CONSTANTS
  MaxConcurrent,   \* jobs_max_concurrent_jobs
  ClaimFactor,     \* _CLAIM_ATTEMPT_FACTOR
  ClaimLimit,      \* bound: claims of one row that the model explores
  MaxFaults,       \* bound: crashes, failed database calls and shutdowns
  MaxEdits         \* bound: client writes after a job's creation

Slot == 1 .. MaxConcurrent

ASSUME RunnerAssumption ==
  /\ MaxConcurrent \in Nat \ {0}
  /\ ClaimFactor \in Nat \ {0}
  /\ ClaimLimit \in Nat
  /\ MaxFaults \in Nat
  /\ MaxEdits \in Nat

VARIABLES
  now,       \* the clock every runner reads
  row,       \* the committed table
  issued,    \* the ids ever created
  pc,        \* where each runner's loop, or its exit, stands
  moment,    \* `now` as the current sweep captured it
  todo,      \* the rows the current SELECT returned and the phase still has to visit
  writes,    \* the uncommitted writes of the sweep's transaction: also its row locks
  tries,     \* claim attempts of the current sweep
  claimed,   \* `claimed`, or on exit the jobs still to release
  task,      \* _in_flight / _running_jobs: the started bodies
  faults,    \* crashes, failures and shutdowns so far
  edits      \* client writes so far

vars == <<now, row, issued, pc, moment, todo, writes, tries, claimed, task, faults, edits>>

table == <<row, issued>>
sweep == <<moment, todo, writes, tries, claimed>>
budget == <<faults, edits>>

-----------------------------------------------------------------------------
(* Tasks and transactions *)

(* A body: `loaded` once _load has read the row; attempts and cap are the row's *)
(* then, which _finish decides the retry by.                                    *)
Task == [job : Job, loaded : BOOLEAN, attempts : Nat, cap : AttemptCaps \cup {0}]

NoTask == [job |-> None, loaded |-> FALSE, attempts |-> 0, cap |-> 0]

NoRows == [j \in Job |-> NoRow]

Idle == [s \in Slot |-> NoTask]

Busy(r) == {s \in Slot : task[r][s] # NoTask}

Present(f) == {j \in Job : f[j] # NoRow}

(* The rows of a page come in id order. *)
FirstOf(f) == {j \in Present(f) : \A k \in Present(f) : j <= k}

Where(f, s) == [j \in Job |-> IF HasStatus(f[j], s) THEN f[j] ELSE NoRow]

(* What runner r's transaction reads: its own writes over the committed rows. *)
Seen(r) == [j \in Job |-> IF writes[r][j] # NoRow THEN writes[r][j] ELSE row[j]]

Locked(j) == \E r \in Runner : writes[r][j] # NoRow

(* The row the next UPDATE of r's sweep names, if its next step is an UPDATE. *)
Target(r) ==
  {j \in FirstOf(todo[r]) :
     \/ pc[r] = "recover" /\ Stale(todo[r][j], moment[r])
     \/ pc[r] = "promote" /\ Due(todo[r][j], moment[r])
     \/ pc[r] = "claim_row"}

WaitsFor(r, o) == o # r /\ \E j \in Target(r) : writes[o][j] # NoRow

Blocked(r) == \E o \in Runner : WaitsFor(r, o)

(* A cycle of waits, which the database breaks by failing one of its statements. *)
Deadlocked(r) ==
  \E C \in SUBSET Runner :
    r \in C /\ \A a \in C : \E b \in C : WaitsFor(a, b)

Commit(r) == row' = Seen(r)

Capacity(r) == Cardinality(Busy(r)) + Cardinality(claimed[r]) < MaxConcurrent

-----------------------------------------------------------------------------
Phases == {"recover", "promote", "claim", "claim_row", "start"}

Up == Phases \cup {"asleep"}

Init ==
  /\ now = 0
  /\ row = NoRows
  /\ issued = {}
  /\ pc = [r \in Runner |-> "out"]
  /\ moment = [r \in Runner |-> 0]
  /\ todo = [r \in Runner |-> NoRows]
  /\ writes = [r \in Runner |-> NoRows]
  /\ tries = [r \in Runner |-> 0]
  /\ claimed = [r \in Runner |-> {}]
  /\ task = [r \in Runner |-> Idle]
  /\ faults = 0
  /\ edits = 0

Goto(r, label) == pc' = [pc EXCEPT ![r] = label]

(* Mutant: the session of a failed sweep is neither rolled back nor closed. *)
EndSweep_OpenTransaction(r) ==
  /\ moment' = [moment EXCEPT ![r] = 0]
  /\ todo' = [todo EXCEPT ![r] = NoRows]
  /\ tries' = [tries EXCEPT ![r] = 0]
  /\ UNCHANGED writes

(* The locals of a sweep end with it; its transaction, if still open, rolls back. *)
EndSweep(r) ==
  /\ moment' = [moment EXCEPT ![r] = 0]
  /\ todo' = [todo EXCEPT ![r] = NoRows]
  /\ writes' = [writes EXCEPT ![r] = NoRows]
  /\ tries' = [tries EXCEPT ![r] = 0]

-----------------------------------------------------------------------------
(* The sweep loop *)

(* __aenter__ of an enabled runner. *)
Enter(r) ==
  /\ pc[r] = "out"
  /\ Goto(r, "asleep")
  /\ UNCHANGED <<now, table, sweep, task, budget>>

(* _run_loop calls sweep, which captures the moment; _recover_stale enumerates the *)
(* RUNNING rows.                                                                    *)
StartSweep(r) ==
  /\ pc[r] = "asleep"
  /\ Goto(r, "recover")
  /\ moment' = [moment EXCEPT ![r] = now]
  /\ todo' = [todo EXCEPT ![r] = Where(row, "RUNNING")]
  /\ UNCHANGED <<now, table, writes, tries, claimed, task, budget>>

(* Mutant: a claim at the cap is left as it is. *)
Recovered_UnderCapOnly(seen, v) ==
  IF seen.attempts < seen.max_attempts THEN Requeued(v) ELSE v

Recovered(seen, v) ==
  IF seen.attempts < seen.max_attempts THEN Requeued(v) ELSE Exhausted(v)

(* One row of the enumeration: skipped unless it was stale when it was read. *)
RecoverNext(r) ==
  /\ pc[r] = "recover"
  /\ ~Blocked(r)
  /\ \E j \in FirstOf(todo[r]) :
       LET seen == todo[r][j]
           v == Seen(r)[j]
           hit == /\ Stale(seen, moment[r])
                  /\ ClaimedBy(v, seen.claimed_by) /\ NotTerminal(v)
       IN  /\ todo' = [todo EXCEPT ![r][j] = NoRow]
           /\ writes' = IF hit THEN [writes EXCEPT ![r][j] = Recovered(seen, v)] ELSE writes
  /\ UNCHANGED <<now, table, pc, moment, tries, claimed, task, budget>>

(* The commit, and _promote_due_scheduled enumerates the SCHEDULED rows. *)
EndRecover(r) ==
  /\ pc[r] = "recover"
  /\ Present(todo[r]) = {}
  /\ Commit(r)
  /\ writes' = [writes EXCEPT ![r] = NoRows]
  /\ todo' = [todo EXCEPT ![r] = Where(Seen(r), "SCHEDULED")]
  /\ Goto(r, "promote")
  /\ UNCHANGED <<now, issued, moment, tries, claimed, task, budget>>

(* One row of it: skipped unless its run_at was due when it was read. *)
PromoteNext(r) ==
  /\ pc[r] = "promote"
  /\ ~Blocked(r)
  /\ \E j \in FirstOf(todo[r]) :
       LET v == Seen(r)[j]
           hit == /\ Due(todo[r][j], moment[r])
                  /\ HasStatus(v, "SCHEDULED") /\ NotTerminal(v)
       IN  /\ todo' = [todo EXCEPT ![r][j] = NoRow]
           /\ writes' = IF hit THEN [writes EXCEPT ![r][j] = Promoted(v)] ELSE writes
  /\ UNCHANGED <<now, table, pc, moment, tries, claimed, task, budget>>

EndPromote(r) ==
  /\ pc[r] = "promote"
  /\ Present(todo[r]) = {}
  /\ Commit(r)
  /\ writes' = [writes EXCEPT ![r] = NoRows]
  /\ Goto(r, "claim")
  /\ UNCHANGED <<now, issued, moment, todo, tries, claimed, task, budget>>

-----------------------------------------------------------------------------
(* _claim_and_start *)

Claimable(r) == {j \in Job : Runnable(Seen(r)[j]) /\ Seen(r)[j].attempts < ClaimLimit}

TriesLeft(r) == tries[r] < MaxConcurrent * ClaimFactor

(* search(PENDING, limit=1): the PENDING row with the least id. *)
ClaimSearch(r) ==
  /\ pc[r] = "claim"
  /\ Capacity(r) /\ TriesLeft(r)
  /\ \E j \in Claimable(r) :
       /\ \A k \in Claimable(r) : j <= k
       /\ todo' = [todo EXCEPT ![r][j] = Seen(r)[j]]
  /\ tries' = [tries EXCEPT ![r] = @ + 1]
  /\ Goto(r, "claim_row")
  /\ UNCHANGED <<now, table, moment, writes, claimed, task, budget>>

(* The conditional claim: a row another runner has taken meanwhile is a miss. *)
ClaimRow(r) ==
  /\ pc[r] = "claim_row"
  /\ ~Blocked(r)
  /\ \E j \in FirstOf(todo[r]) :
       LET v == Seen(r)[j]
           hit == Runnable(v) /\ NotTerminal(v)
       IN  /\ todo' = [todo EXCEPT ![r][j] = NoRow]
           /\ writes' = IF hit
                        THEN [writes EXCEPT ![r][j] = Claimed(v, r, moment[r], todo[r][j])]
                        ELSE writes
           /\ claimed' = IF hit THEN [claimed EXCEPT ![r] = @ \cup {j}] ELSE claimed
  /\ Goto(r, "claim")
  /\ UNCHANGED <<now, table, moment, tries, task, budget>>

EndClaim(r) ==
  /\ pc[r] = "claim"
  /\ ~Capacity(r) \/ ~TriesLeft(r) \/ Claimable(r) = {}
  /\ Commit(r)
  /\ writes' = [writes EXCEPT ![r] = NoRows]
  /\ Goto(r, "start")
  /\ UNCHANGED <<now, issued, moment, todo, tries, claimed, task, budget>>

(* _start, for every claimed job; tasks fill the lowest free slots in id order. *)
Placements(r) ==
  LET free == Slot \ Busy(r)
  IN  {at \in [claimed[r] -> free] :
         /\ \A i, j \in claimed[r] : i < j => at[i] < at[j]
         /\ \A j \in claimed[r] : \A s \in free : s < at[j] => \E i \in claimed[r] : at[i] = s}

StartClaimed(r) ==
  /\ pc[r] = "start"
  /\ \E at \in Placements(r) :
       task' = [task EXCEPT ![r] =
                 [s \in Slot |->
                    IF \E j \in claimed[r] : at[j] = s
                    THEN [NoTask EXCEPT !.job = CHOOSE j \in claimed[r] : at[j] = s]
                    ELSE task[r][s]]]
  /\ claimed' = [claimed EXCEPT ![r] = {}]
  /\ EndSweep(r)
  /\ Goto(r, "asleep")
  /\ UNCHANGED <<now, table, budget>>

(* The database fails one statement of a deadlock; _run_loop logs it and sleeps. *)
DeadlockAbort(r) ==
  /\ Deadlocked(r)
  /\ claimed' = [claimed EXCEPT ![r] = {}]
  /\ EndSweep(r)
  /\ Goto(r, "asleep")
  /\ UNCHANGED <<now, table, task, budget>>

(* A database call of the sweep raises.  From "start": the commit took effect and *)
(* its reply was lost, so the claimed rows have no body.                          *)
SweepFails(r) ==
  /\ pc[r] \in Phases
  /\ faults < MaxFaults
  /\ faults' = faults + 1
  /\ claimed' = [claimed EXCEPT ![r] = {}]
  /\ EndSweep(r)
  /\ Goto(r, "asleep")
  /\ UNCHANGED <<now, table, task, edits>>

-----------------------------------------------------------------------------
(* The bodies: _run_job *)

EndTask(r, s) == task' = [task EXCEPT ![r][s] = NoTask]

(* _load; a row that is gone ends the task. *)
Load(r, s) ==
  /\ task[r][s] # NoTask /\ ~task[r][s].loaded
  /\ LET v == row[task[r][s].job]
     IN  task' = [task EXCEPT ![r][s] =
                    IF v = NoRow THEN NoTask
                    ELSE [@ EXCEPT !.loaded = TRUE, !.attempts = v.attempts,
                                   !.cap = v.max_attempts]]
  /\ UNCHANGED <<now, table, pc, sweep, budget>>

(* Mutant: a failure under the cap is left to the stale-claim sweep. *)
Outcome_RetryByRecovery(t, outcome, v) ==
  IF outcome = "ERROR" /\ t.attempts < t.cap THEN v ELSE [v EXCEPT !.status = outcome]

(* What _finish writes for an outcome, by the row as _load read it. *)
Outcome(t, outcome, v) ==
  IF outcome = "ERROR" /\ t.attempts < t.cap THEN Requeued(v) ELSE [v EXCEPT !.status = outcome]

(* The body returns or raises, and _finish writes if the claim is still the runner's. *)
Finish(r, s, outcome) ==
  /\ task[r][s].loaded
  /\ LET t == task[r][s]
         v == row[t.job]
     IN  /\ ~Locked(t.job)
         /\ row' = IF ClaimedBy(v, r) /\ NotTerminal(v)
                   THEN [row EXCEPT ![t.job] = Outcome(t, outcome, v)]
                   ELSE row
  /\ EndTask(r, s)
  /\ UNCHANGED <<now, issued, pc, sweep, budget>>

(* _load or _finish raises: the task ends and the row stays as it is. *)
TaskFails(r, s) ==
  /\ task[r][s] # NoTask
  /\ faults < MaxFaults
  /\ faults' = faults + 1
  /\ EndTask(r, s)
  /\ UNCHANGED <<now, table, pc, sweep, edits>>

-----------------------------------------------------------------------------
(* Shutdown and crash *)

(* __aexit__: the loop and the bodies are cancelled; an open transaction rolls back. *)
Leave(r) ==
  /\ pc[r] \in Up
  /\ faults < MaxFaults
  /\ faults' = faults + 1
  /\ claimed' = [claimed EXCEPT ![r] = {task[r][s].job : s \in Busy(r)}]
  /\ task' = [task EXCEPT ![r] = Idle]
  /\ EndSweep(r)
  /\ Goto(r, "leaving")
  /\ UNCHANGED <<now, table, edits>>

(* _release of one of the cancelled bodies' jobs. *)
Release(r, j) ==
  /\ pc[r] = "leaving" /\ j \in claimed[r]
  /\ ~Locked(j)
  /\ row' = IF ClaimedBy(row[j], r) /\ NotTerminal(row[j])
            THEN [row EXCEPT ![j] = Requeued(row[j])] ELSE row
  /\ claimed' = [claimed EXCEPT ![r] = @ \ {j}]
  /\ UNCHANGED <<now, issued, pc, moment, todo, writes, tries, task, budget>>

(* A release that raises is suppressed. *)
ReleaseFails(r, j) ==
  /\ pc[r] = "leaving" /\ j \in claimed[r]
  /\ faults < MaxFaults
  /\ faults' = faults + 1
  /\ claimed' = [claimed EXCEPT ![r] = @ \ {j}]
  /\ UNCHANGED <<now, table, pc, moment, todo, writes, tries, task, edits>>

Left(r) ==
  /\ pc[r] = "leaving" /\ claimed[r] = {}
  /\ Goto(r, "out")
  /\ UNCHANGED <<now, table, sweep, task, budget>>

(* The process dies; a new process has a new runner id. *)
Crash(r) ==
  /\ pc[r] \in Up \cup {"leaving"}
  /\ faults < MaxFaults
  /\ faults' = faults + 1
  /\ claimed' = [claimed EXCEPT ![r] = {}]
  /\ task' = [task EXCEPT ![r] = Idle]
  /\ EndSweep(r)
  /\ Goto(r, "dead")
  /\ UNCHANGED <<now, table, edits>>

-----------------------------------------------------------------------------
(* Clients, through jobs_view, and the clock *)

(* POST /jobs, or JobRunner.enqueue with a status that a client may ask for; enqueue *)
(* takes any, of which its callers in the repository use the default.                *)
ClientCreate(j) ==
  /\ j \notin issued
  /\ \E s \in ClientStatuses, at \in DueTimes, m \in AttemptCaps, b \in RunBounds \cup {None} :
       row' = [row EXCEPT ![j] =
                 [status |-> s, run_at |-> at, claimed_by |-> None, claimed_at |-> None,
                  attempts |-> 0, max_attempts |-> m, max_seconds |-> b]]
  /\ issued' = issued \cup {j}
  /\ UNCHANGED <<now, pc, sweep, task, budget>>

(* PATCH /jobs/{id}: the fields the view lets a client write. *)
ClientUpdate(j) ==
  /\ edits < MaxEdits
  /\ NotTerminal(row[j]) /\ ~Locked(j)
  /\ \E s \in ClientStatuses \cup {row[j].status},
        at \in DueTimes \cup {row[j].run_at}, m \in AttemptCaps, b \in RunBounds \cup {None} :
       row' = [row EXCEPT ![j].status = s, ![j].run_at = at,
                          ![j].max_attempts = m, ![j].max_seconds = b]
  /\ edits' = edits + 1
  /\ UNCHANGED <<now, issued, pc, sweep, task, faults>>

ClientDelete(j) ==
  /\ edits < MaxEdits
  /\ row[j] # NoRow /\ ~Locked(j)
  /\ row' = [row EXCEPT ![j] = NoRow]
  /\ edits' = edits + 1
  /\ UNCHANGED <<now, issued, pc, sweep, task, faults>>

Tick ==
  /\ now < MaxTime
  /\ now' = now + 1
  /\ UNCHANGED <<table, pc, sweep, task, budget>>

-----------------------------------------------------------------------------
SweepStep(r) ==
  \/ StartSweep(r)
  \/ RecoverNext(r) \/ EndRecover(r)
  \/ PromoteNext(r) \/ EndPromote(r)
  \/ ClaimSearch(r) \/ ClaimRow(r) \/ EndClaim(r) \/ StartClaimed(r)
  \/ DeadlockAbort(r)

ExitStep(r) == Left(r) \/ \E j \in Job : Release(r, j)

TaskStep(r, s) == Load(r, s) \/ \E o \in {"COMPLETED", "ERROR"} : Finish(r, s, o)

Fault(r) ==
  \/ SweepFails(r) \/ Leave(r) \/ Crash(r)
  \/ \E s \in Slot : TaskFails(r, s)
  \/ \E j \in Job : ReleaseFails(r, j)

Client(j) == ClientCreate(j) \/ ClientUpdate(j) \/ ClientDelete(j)

Next ==
  \/ \E r \in Runner : Enter(r) \/ SweepStep(r) \/ ExitStep(r) \/ Fault(r)
  \/ \E r \in Runner, s \in Slot : TaskStep(r, s)
  \/ \E j \in Job : Client(j)
  \/ Tick

Spec == Init /\ [][Next]_vars

-----------------------------------------------------------------------------
(* Every variable stays in its range, and a transaction's writes are rows. *)
TypeOK ==
  /\ now \in Time
  /\ row \in [Job -> RowOrNone]
  /\ issued \subseteq Job
  /\ pc \in [Runner -> Up \cup {"out", "leaving", "dead"}]
  /\ moment \in [Runner -> Time]
  /\ todo \in [Runner -> [Job -> RowOrNone]]
  /\ writes \in [Runner -> [Job -> RowOrNone]]
  /\ tries \in [Runner -> Nat]
  /\ claimed \in [Runner -> SUBSET Job]
  /\ task \in [Runner -> [Slot -> Task \cup {NoTask}]]
  /\ faults \in 0 .. MaxFaults
  /\ edits \in 0 .. MaxEdits

-----------------------------------------------------------------------------
(* Safety *)

(* _recover_stale passes over a row without claimed_at and matches on claimed_by: *)
(* no RUNNING row may lack either, or its job would be RUNNING for ever.          *)
RunningHasClaim ==
  \A j \in Job : HasStatus(row[j], "RUNNING") =>
                  row[j].claimed_by \in Runner /\ row[j].claimed_at \in Time

(* While nothing has failed, every committed claim has a body of the claiming *)
(* runner, running or about to be started: recovery by anybody, the runner    *)
(* itself included, and a late _finish never leave a claim with no body.      *)
ClaimHasBody ==
  faults = 0 =>
    \A j \in Job, r \in Runner :
      ClaimedBy(row[j], r) =>
        \/ \E s \in Slot : task[r][s].job = j
        \/ pc[r] = "start" /\ j \in claimed[r]

(* A sweep decides on rows it read and writes them at its commit.  Whatever the     *)
(* others do meanwhile, a row it is about to overwrite still is in the status its   *)
(* UPDATE asked for, and nobody else is about to overwrite it: no update is lost.   *)
WriteIsCurrent(r, j) ==
  LET v == row[j]
      w == writes[r][j]
  IN  \/ pc[r] = "recover" /\ HasStatus(v, "RUNNING") /\ w \in {Requeued(v), Exhausted(v)}
      \/ pc[r] = "promote" /\ HasStatus(v, "SCHEDULED") /\ w = Promoted(v)
      \/ /\ pc[r] \in {"claim", "claim_row"} /\ HasStatus(v, "PENDING")
         /\ w # NoRow /\ w = Claimed(v, r, moment[r], [v EXCEPT !.attempts = w.attempts - 1])

NoLostUpdate ==
  \A r \in Runner, j \in Job :
    writes[r][j] # NoRow =>
      WriteIsCurrent(r, j) /\ \A o \in Runner \ {r} : writes[o][j] = NoRow

(* TERMINAL_STATUSES "never transitions again": a terminal row is deleted or is *)
(* left exactly as it is, by a late completion, a recovery or a client.         *)
TerminalSticky ==
  [][\A j \in Job : row[j] # NoRow /\ row[j].status \in Terminal => row'[j] \in {row[j], NoRow}]_vars

(* The committed table is that of the abstract lifecycle: one winner of a claim, *)
(* a completion by the holder only, a promotion from SCHEDULED only.             *)
LifecycleStatus ==
  [j \in Job |-> IF row[j] # NoRow THEN row[j].status
                 ELSE IF j \in issued THEN "deleted" ELSE "absent"]

LifecycleHolder == [j \in Job |-> IF row[j] # NoRow THEN row[j].claimed_by ELSE None]

Lifecycle == INSTANCE JobLifecycle WITH status <- LifecycleStatus, holder <- LifecycleHolder

ImplementsLifecycle == Lifecycle!Spec

-----------------------------------------------------------------------------
(* Liveness *)

(* The event loop of a live process keeps scheduling its sweep and the first step *)
(* of its bodies, the database grants a row lock to an UPDATE that keeps waiting  *)
(* for it (SF), and time passes.  Nothing makes a body return, a client act or a  *)
(* stopped runner start again.                                                    *)
UpdateStep(r) == RecoverNext(r) \/ PromoteNext(r) \/ ClaimRow(r)

Fairness ==
  /\ \A r \in Runner : WF_vars(SweepStep(r)) /\ SF_vars(UpdateStep(r)) /\ SF_vars(ExitStep(r))
  /\ \A r \in Runner, s \in Slot : WF_vars(Load(r, s))
  /\ WF_vars(Tick)

FairSpec == Spec /\ Fairness

(* specs/jobs.qnt, staleRecoverable: "no job is ever stuck RUNNING", though its   *)
(* body hangs, its process dies between the claim and the start, or its release   *)
(* fails.  Some runner must keep sweeping: the run has more runners than faults.  *)
StaleInTime(v) == HasStatus(v, "RUNNING") /\ Stale(v, MaxTime)

NoJobStuckRunning ==
  \A j \in Job : StaleInTime(row[j]) ~> ~HasStatus(row[j], "RUNNING")

(* No sweep waits for ever: whoever holds the rows it wants commits or rolls back, *)
(* two runners that claim in opposite orders included.                             *)
SweepEnds == \A r \in Runner : pc[r] \in Phases ~> pc[r] \notin Phases

=============================================================================
