-------------------------- MODULE JobRunnerProofs --------------------------
(***************************************************************************)
(* Theorems about JobRunner, for every number of jobs, runners, slots and  *)
(* clock instants.                                                         *)
(***************************************************************************)
EXTENDS JobRunner, TLAPS

-----------------------------------------------------------------------------
(* Rows and what a write makes of them *)

(* Requeued, Promoted and Exhausted turn a row of the table into a row of it. *)
LEMMA WrittenRow ==
  ASSUME NEW v \in Row
  PROVE  /\ Requeued(v) \in Row /\ Requeued(v).status = "PENDING"
         /\ Exhausted(v) \in Row /\ Exhausted(v).status = "ERROR"
         /\ Promoted(v) \in Row /\ Promoted(v).status = "PENDING"
  BY DEF Row, Requeued, Exhausted, Promoted, JobStatus, ClientStatuses, Terminal

(* A claim makes a row RUNNING, with an owner and a date. *)
LEMMA ClaimedFields ==
  ASSUME NEW v \in Row, NEW seen, NEW r, NEW t
  PROVE  /\ Claimed(v, r, t, seen).status = "RUNNING"
         /\ Claimed(v, r, t, seen).claimed_by = r
         /\ Claimed(v, r, t, seen).claimed_at = t
         /\ Claimed(v, r, t, seen).attempts = seen.attempts + 1
  BY DEF Row, Claimed

LEMMA ClaimedRow ==
  ASSUME NEW v \in Row, NEW seen \in Row, NEW r \in Runner, NEW t \in Time
  PROVE  Claimed(v, r, t, seen) \in Row
  <1>1. "RUNNING" \in JobStatus
    BY DEF JobStatus
  <1>2. seen.attempts + 1 \in Nat
    BY DEF Row
  <1> QED
    BY <1>1, <1>2 DEF Row, Claimed

(* NULL, the absent row and an empty slot are none of the values they stand beside. *)
LEMMA Nulls ==
  /\ NoRow \notin Row
  /\ None \notin Runner /\ None \notin Job
  /\ NoTask \notin Task
  /\ NoRows \in [Job -> RowOrNone]
  /\ NoRow \in RowOrNone /\ Row \subseteq RowOrNone
  BY RowAssumption DEF NoTask, Task, NoRows, RowOrNone

(* Writing one row of one runner's table leaves tables of rows. *)
LEMMA WriteOne ==
  ASSUME NEW f \in [Runner -> [Job -> RowOrNone]],
         NEW r \in Runner, NEW j \in Job, NEW v \in RowOrNone
  PROVE  [f EXCEPT ![r][j] = v] \in [Runner -> [Job -> RowOrNone]]
  OBVIOUS

(* A sweep reads rows of the table, its own writes included. *)
LEMMA SeenType ==
  ASSUME TypeOK, NEW r \in Runner
  PROVE  /\ Seen(r) \in [Job -> RowOrNone]
         /\ \A s : Where(Seen(r), s) \in [Job -> RowOrNone]
         /\ \A s : Where(row, s) \in [Job -> RowOrNone]
  BY DEF TypeOK, Seen, Where, RowOrNone

-----------------------------------------------------------------------------
(* Type correctness *)

LEMMA InitType == Init => TypeOK
  <1> SUFFICES ASSUME Init PROVE TypeOK
    OBVIOUS
  <1>1. Idle \in [Slot -> Task \cup {NoTask}]
    BY DEF Idle
  <1> QED
    BY <1>1, Nulls, RowAssumption, RunnerAssumption DEF Init, TypeOK, Time, Up, RowOrNone, NoRows

(* The end of a sweep resets its locals to values of their types. *)
LEMMA EndSweepType ==
  ASSUME TypeOK, NEW r \in Runner, EndSweep(r)
  PROVE  /\ moment' \in [Runner -> Time]
         /\ todo' \in [Runner -> [Job -> RowOrNone]]
         /\ writes' \in [Runner -> [Job -> RowOrNone]]
         /\ tries' \in [Runner -> Nat]
  BY Nulls, RowAssumption DEF TypeOK, EndSweep, Time

(* The steps of the sweep up to its third transaction keep the types. *)
LEMMA SweepType ==
  ASSUME TypeOK, NEW r \in Runner,
         \/ StartSweep(r) \/ RecoverNext(r) \/ EndRecover(r)
         \/ PromoteNext(r) \/ EndPromote(r)
  PROVE  TypeOK'
  <1>1. CASE StartSweep(r)
    BY <1>1, SeenType DEF TypeOK, StartSweep, Goto, table, budget, Up, Phases
  <1>2. CASE RecoverNext(r)
    <2>1. PICK j \in FirstOf(todo[r]) :
            /\ todo' = [todo EXCEPT ![r][j] = NoRow]
            /\ \/ writes' = writes
               \/ /\ ClaimedBy(Seen(r)[j], todo[r][j].claimed_by)
                  /\ writes' = [writes EXCEPT ![r][j] = Recovered(todo[r][j], Seen(r)[j])]
      BY <1>2 DEF RecoverNext
    <2>2. j \in Job
      BY DEF FirstOf, Present
    <2>3. ClaimedBy(Seen(r)[j], todo[r][j].claimed_by) => Recovered(todo[r][j], Seen(r)[j]) \in Row
      BY <2>2, SeenType, WrittenRow DEF ClaimedBy, HasStatus, Recovered, RowOrNone
    <2>4. todo' \in [Runner -> [Job -> RowOrNone]]
      BY <2>1, <2>2, Nulls, WriteOne DEF TypeOK
    <2>5. ClaimedBy(Seen(r)[j], todo[r][j].claimed_by)
          => [writes EXCEPT ![r][j] = Recovered(todo[r][j], Seen(r)[j])] \in [Runner -> [Job -> RowOrNone]]
      BY <2>2, <2>3, Nulls, WriteOne DEF TypeOK
    <2>6. writes' \in [Runner -> [Job -> RowOrNone]]
      BY <2>1, <2>5 DEF TypeOK
    <2> QED
      BY <1>2, <2>4, <2>6 DEF TypeOK, RecoverNext, table, budget
  <1>3. CASE EndRecover(r)
    BY <1>3, SeenType, Nulls DEF TypeOK, EndRecover, Commit, Goto, budget, Up, Phases
  <1>4. CASE PromoteNext(r)
    <2>1. PICK j \in FirstOf(todo[r]) :
            /\ todo' = [todo EXCEPT ![r][j] = NoRow]
            /\ \/ writes' = writes
               \/ /\ HasStatus(Seen(r)[j], "SCHEDULED")
                  /\ writes' = [writes EXCEPT ![r][j] = Promoted(Seen(r)[j])]
      BY <1>4 DEF PromoteNext
    <2>2. j \in Job
      BY DEF FirstOf, Present
    <2>3. HasStatus(Seen(r)[j], "SCHEDULED") => Promoted(Seen(r)[j]) \in Row
      BY <2>2, SeenType, WrittenRow DEF HasStatus, RowOrNone
    <2>4. todo' \in [Runner -> [Job -> RowOrNone]]
      BY <2>1, <2>2, Nulls, WriteOne DEF TypeOK
    <2>5. HasStatus(Seen(r)[j], "SCHEDULED")
          => [writes EXCEPT ![r][j] = Promoted(Seen(r)[j])] \in [Runner -> [Job -> RowOrNone]]
      BY <2>2, <2>3, Nulls, WriteOne DEF TypeOK
    <2>6. writes' \in [Runner -> [Job -> RowOrNone]]
      BY <2>1, <2>5 DEF TypeOK
    <2> QED
      BY <1>4, <2>4, <2>6 DEF TypeOK, PromoteNext, table, budget
  <1>5. CASE EndPromote(r)
    BY <1>5, SeenType, Nulls DEF TypeOK, EndPromote, Commit, Goto, budget, Up, Phases
  <1> QED
    BY <1>1, <1>2, <1>3, <1>4, <1>5

(* The claims keep the types. *)
LEMMA ClaimType ==
  ASSUME TypeOK, NEW r \in Runner,
         \/ ClaimSearch(r) \/ ClaimRow(r) \/ EndClaim(r) \/ StartClaimed(r)
         \/ DeadlockAbort(r) \/ SweepFails(r)
  PROVE  TypeOK'
  <1>1. CASE ClaimSearch(r)
    <2>1. PICK j \in Job : todo' = [todo EXCEPT ![r][j] = Seen(r)[j]]
      BY <1>1 DEF ClaimSearch, Claimable
    <2>2. todo' \in [Runner -> [Job -> RowOrNone]]
      BY <2>1, SeenType, WriteOne DEF TypeOK
    <2> QED
      BY <1>1, <2>2 DEF TypeOK, ClaimSearch, Goto, table, budget, Up, Phases
  <1>2. CASE ClaimRow(r)
    <2>1. PICK j \in FirstOf(todo[r]) :
            /\ todo' = [todo EXCEPT ![r][j] = NoRow]
            /\ \/ writes' = writes
               \/ /\ Runnable(Seen(r)[j])
                  /\ writes' = [writes EXCEPT ![r][j] = Claimed(Seen(r)[j], r, moment[r], todo[r][j])]
            /\ \/ claimed' = claimed
               \/ claimed' = [claimed EXCEPT ![r] = @ \cup {j}]
      BY <1>2 DEF ClaimRow
    <2>2. j \in Job /\ todo[r][j] \in Row
      BY DEF FirstOf, Present, TypeOK, RowOrNone
    <2>3. Runnable(Seen(r)[j])
          => Claimed(Seen(r)[j], r, moment[r], todo[r][j]) \in Row
      BY <2>2, SeenType, ClaimedRow DEF TypeOK, Runnable, HasStatus, RowOrNone
    <2>4. todo' \in [Runner -> [Job -> RowOrNone]]
      BY <2>1, <2>2, Nulls, WriteOne DEF TypeOK
    <2>5. Runnable(Seen(r)[j])
          => [writes EXCEPT ![r][j] = Claimed(Seen(r)[j], r, moment[r], todo[r][j])]
               \in [Runner -> [Job -> RowOrNone]]
      BY <2>2, <2>3, Nulls, WriteOne DEF TypeOK
    <2>6. writes' \in [Runner -> [Job -> RowOrNone]]
      BY <2>1, <2>5 DEF TypeOK
    <2>7. claimed' \in [Runner -> SUBSET Job]
      BY <2>1, <2>2 DEF TypeOK
    <2> QED
      BY <1>2, <2>4, <2>6, <2>7 DEF TypeOK, ClaimRow, Goto, table, budget, Up, Phases
  <1>3. CASE EndClaim(r)
    BY <1>3, SeenType, Nulls DEF TypeOK, EndClaim, Commit, Goto, budget, Up, Phases
  <1>4. CASE StartClaimed(r)
    <2>1. PICK at \in Placements(r) :
            task' = [task EXCEPT ![r] =
                      [s \in Slot |->
                         IF \E j \in claimed[r] : at[j] = s
                         THEN [NoTask EXCEPT !.job = CHOOSE j \in claimed[r] : at[j] = s]
                         ELSE task[r][s]]]
      BY <1>4 DEF StartClaimed
    <2>2. ASSUME NEW j \in Job
          PROVE  [NoTask EXCEPT !.job = j] \in Task
      BY DEF NoTask, Task
    <2>3. task' \in [Runner -> [Slot -> Task \cup {NoTask}]]
      BY <2>1, <2>2 DEF TypeOK
    <2> QED
      BY <1>4, <2>3, EndSweepType DEF TypeOK, StartClaimed, Goto, table, budget, Up
  <1>5. CASE DeadlockAbort(r)
    BY <1>5, EndSweepType DEF TypeOK, DeadlockAbort, Goto, table, budget, Up
  <1>6. CASE SweepFails(r)
    BY <1>6, EndSweepType, RunnerAssumption DEF TypeOK, SweepFails, Goto, table, Up
  <1> QED
    BY <1>1, <1>2, <1>3, <1>4, <1>5, <1>6

(* The bodies keep the types. *)
LEMMA TaskType ==
  ASSUME TypeOK, NEW r \in Runner, NEW s \in Slot,
         TaskStep(r, s) \/ TaskFails(r, s)
  PROVE  TypeOK'
  <1>1. CASE Load(r, s)
    <2>1. task[r][s] \in Task /\ task[r][s].job \in Job
      BY <1>1 DEF TypeOK, Load, Task
    <2>2. row[task[r][s].job] # NoRow => row[task[r][s].job] \in Row
      BY <2>1 DEF TypeOK, RowOrNone
    <2>3. row[task[r][s].job] # NoRow
          => [task[r][s] EXCEPT !.loaded = TRUE, !.attempts = row[task[r][s].job].attempts,
                                !.cap = row[task[r][s].job].max_attempts] \in Task
      BY <2>1, <2>2 DEF Task, Row
    <2>4. task' \in [Runner -> [Slot -> Task \cup {NoTask}]]
      BY <1>1, <2>3 DEF TypeOK, Load
    <2> QED
      BY <1>1, <2>4 DEF TypeOK, Load, table, sweep, budget
  <1>2. ASSUME NEW o \in {"COMPLETED", "ERROR"}, Finish(r, s, o)
        PROVE  TypeOK'
    <2>1. task[r][s] \in Task /\ task[r][s].job \in Job
      BY <1>2 DEF TypeOK, Finish, Task, NoTask
    <2> DEFINE j == task[r][s].job
    <2>2. ASSUME ClaimedBy(row[j], r)
          PROVE  Outcome(task[r][s], o, row[j]) \in Row
      <3>1. row[j] \in Row
        BY <2>1, <2>2 DEF TypeOK, ClaimedBy, HasStatus, RowOrNone
      <3>2. [row[j] EXCEPT !.status = o] \in Row
        BY <3>1 DEF Row, JobStatus, Terminal
      <3> QED
        BY <3>1, <3>2, WrittenRow DEF Outcome
    <2>3. \/ row' = row
          \/ ClaimedBy(row[j], r) /\ row' = [row EXCEPT ![j] = Outcome(task[r][s], o, row[j])]
      BY <1>2 DEF Finish
    <2>4. row' \in [Job -> RowOrNone]
      BY <2>1, <2>2, <2>3, Nulls DEF TypeOK
    <2> QED
      BY <1>2, <2>4 DEF TypeOK, Finish, EndTask, sweep, budget
  <1>3. CASE TaskFails(r, s)
    BY <1>3, RunnerAssumption DEF TypeOK, TaskFails, EndTask, table, sweep
  <1> QED
    BY <1>1, <1>2, <1>3 DEF TaskStep

(* Shutdown and crash keep the types. *)
LEMMA ExitType ==
  ASSUME TypeOK, NEW r \in Runner,
         \/ Enter(r) \/ Leave(r) \/ Left(r) \/ Crash(r)
         \/ \E j \in Job : Release(r, j) \/ ReleaseFails(r, j)
  PROVE  TypeOK'
  <1>1. CASE Enter(r) \/ Left(r)
    BY <1>1 DEF TypeOK, Enter, Left, Goto, table, sweep, budget, Up
  <1>2. CASE Leave(r)
    <2>1. {task[r][s].job : s \in Busy(r)} \subseteq Job
      BY DEF TypeOK, Busy, Task
    <2>2. Idle \in [Slot -> Task \cup {NoTask}]
      BY DEF Idle
    <2> QED
      BY <1>2, <2>1, <2>2, EndSweepType, RunnerAssumption DEF TypeOK, Leave, Goto, table
  <1>3. CASE Crash(r)
    <2>1. Idle \in [Slot -> Task \cup {NoTask}]
      BY DEF Idle
    <2> QED
      BY <1>3, <2>1, EndSweepType, RunnerAssumption DEF TypeOK, Crash, Goto, table
  <1>4. ASSUME NEW j \in Job, Release(r, j)
        PROVE  TypeOK'
    <2>1. ClaimedBy(row[j], r) => Requeued(row[j]) \in Row
      BY WrittenRow DEF TypeOK, ClaimedBy, HasStatus, RowOrNone
    <2>2. row' \in [Job -> RowOrNone]
      BY <1>4, <2>1, Nulls DEF TypeOK, Release
    <2> QED
      BY <1>4, <2>2 DEF TypeOK, Release, budget
  <1>5. ASSUME NEW j \in Job, ReleaseFails(r, j)
        PROVE  TypeOK'
    BY <1>5, RunnerAssumption DEF TypeOK, ReleaseFails, table
  <1> QED
    BY <1>1, <1>2, <1>3, <1>4, <1>5

(* Clients and the clock keep the types. *)
LEMMA ClientType ==
  ASSUME TypeOK, Tick \/ \E j \in Job : Client(j)
  PROVE  TypeOK'
  <1>1. ASSUME NEW j \in Job, ClientCreate(j)
        PROVE  TypeOK'
    <2>1. PICK s \in ClientStatuses, at \in DueTimes, m \in AttemptCaps, b \in RunBounds \cup {None} :
            row' = [row EXCEPT ![j] =
                      [status |-> s, run_at |-> at, claimed_by |-> None, claimed_at |-> None,
                       attempts |-> 0, max_attempts |-> m, max_seconds |-> b]]
      BY <1>1 DEF ClientCreate
    <2>2. [status |-> s, run_at |-> at, claimed_by |-> None, claimed_at |-> None,
           attempts |-> 0, max_attempts |-> m, max_seconds |-> b] \in Row
      BY RowAssumption DEF Row, JobStatus
    <2>3. row' \in [Job -> RowOrNone]
      BY <2>1, <2>2, Nulls DEF TypeOK
    <2> QED
      BY <1>1, <2>3 DEF TypeOK, ClientCreate, sweep, budget
  <1>2. ASSUME NEW j \in Job, ClientUpdate(j)
        PROVE  TypeOK'
    <2>1. row[j] \in Row
      BY <1>2 DEF TypeOK, ClientUpdate, NotTerminal, RowOrNone
    <2>2. PICK s \in ClientStatuses \cup {row[j].status}, at \in DueTimes \cup {row[j].run_at},
               m \in AttemptCaps, b \in RunBounds \cup {None} :
            row' = [row EXCEPT ![j].status = s, ![j].run_at = at,
                               ![j].max_attempts = m, ![j].max_seconds = b]
      BY <1>2 DEF ClientUpdate
    <2>3. [row[j] EXCEPT !.status = s, !.run_at = at, !.max_attempts = m, !.max_seconds = b] \in Row
      BY <2>1, RowAssumption DEF Row, JobStatus
    <2>4. row' \in [Job -> RowOrNone]
      BY <2>2, <2>3, Nulls DEF TypeOK
    <2> QED
      BY <1>2, <2>4, RunnerAssumption DEF TypeOK, ClientUpdate, sweep
  <1>3. ASSUME NEW j \in Job, ClientDelete(j)
        PROVE  TypeOK'
    BY <1>3, Nulls, RunnerAssumption DEF TypeOK, ClientDelete, sweep
  <1>4. CASE Tick
    BY <1>4, RowAssumption DEF TypeOK, Tick, Time, table, sweep, budget
  <1> QED
    BY <1>1, <1>2, <1>3, <1>4 DEF Client

LEMMA NextType == TypeOK /\ [Next]_vars => TypeOK'
  <1> SUFFICES ASSUME TypeOK, [Next]_vars PROVE TypeOK'
    OBVIOUS
  <1>1. CASE UNCHANGED vars
    BY <1>1 DEF TypeOK, vars
  <1>2. CASE Next
    BY <1>2, SweepType, ClaimType, TaskType, ExitType, ClientType
    DEF Next, SweepStep, ExitStep, Fault
  <1> QED
    BY <1>1, <1>2

(* The table, the transactions and the bodies of every runner stay well formed, *)
(* however many runners sweep, crash and shut down.                              *)
THEOREM TypeInvariant == Spec => []TypeOK
  <1>1. Init => TypeOK
    BY InitType
  <1>2. TypeOK /\ [Next]_vars => TypeOK'
    BY NextType
  <1> QED
    BY <1>1, <1>2, PTL DEF Spec

-----------------------------------------------------------------------------
(* The inductive invariant *)

(* A row has an id that was issued. *)
RowsIssued == \A j \in Job : row[j] # NoRow => j \in issued

(* NoLostUpdate is what makes the rest inductive: a commit replaces rows by writes  *)
(* that were decided several steps earlier.                                         *)
IInv == TypeOK /\ NoLostUpdate /\ RunningHasClaim /\ RowsIssued

Holds(r) == \E j \in Job : writes[r][j] # NoRow

(* Only a runner inside a transaction of its sweep has writes. *)
LEMMA HoldersSweep ==
  ASSUME IInv, NEW r \in Runner, Holds(r)
  PROVE  pc[r] \in {"recover", "promote", "claim", "claim_row"}
  BY DEF IInv, NoLostUpdate, WriteIsCurrent, Holds

(* A step that writes nothing in a transaction and no locked row. *)
LEMMA QuietStep ==
  ASSUME IInv, writes' = writes,
         \A r \in Runner : Holds(r) =>
            /\ moment'[r] = moment[r]
            /\ \/ pc'[r] = pc[r]
               \/ {pc[r], pc'[r]} = {"claim", "claim_row"},
         \A j \in Job : Locked(j) => row'[j] = row[j]
  PROVE  NoLostUpdate'
  <1> SUFFICES ASSUME NEW r \in Runner, NEW j \in Job, writes[r][j] # NoRow
               PROVE  WriteIsCurrent(r, j)' /\ \A o \in Runner \ {r} : writes[o][j] = NoRow
    BY DEF NoLostUpdate
  <1>1. Holds(r) /\ row'[j] = row[j]
    BY DEF Holds, Locked
  <1>2. WriteIsCurrent(r, j) /\ \A o \in Runner \ {r} : writes[o][j] = NoRow
    BY DEF IInv, NoLostUpdate
  <1> QED
    BY <1>1, <1>2 DEF WriteIsCurrent

(* A transaction that ends: it commits its writes or drops them. *)
LEMMA EndStep ==
  ASSUME IInv, NEW r \in Runner,
         writes' = [writes EXCEPT ![r] = NoRows],
         \A o \in Runner \ {r} : pc'[o] = pc[o] /\ moment'[o] = moment[o],
         row' = row \/ row' = Seen(r)
  PROVE  NoLostUpdate'
  <1> SUFFICES ASSUME NEW a \in Runner, NEW j \in Job, writes'[a][j] # NoRow
               PROVE  WriteIsCurrent(a, j)' /\ \A o \in Runner \ {a} : writes'[o][j] = NoRow
    BY DEF NoLostUpdate
  <1>1. writes'[r][j] = NoRow /\ \A o \in Runner \ {r} : writes'[o] = writes[o]
    BY DEF IInv, TypeOK, NoRows
  <1>2. a # r
    BY <1>1
  <1>3. WriteIsCurrent(a, j) /\ \A o \in Runner \ {a} : writes[o][j] = NoRow
    BY <1>1, <1>2 DEF IInv, NoLostUpdate
  <1>4. row'[j] = row[j]
    BY <1>2, <1>3 DEF Seen
  <1> QED
    BY <1>1, <1>2, <1>3, <1>4 DEF WriteIsCurrent

(* An UPDATE that hits, on a row no other transaction has locked. *)
LEMMA WriteStep ==
  ASSUME IInv, NEW r \in Runner, NEW j \in Job, NEW w,
         writes' = [writes EXCEPT ![r][j] = w],
         row' = row, moment' = moment,
         pc' = pc \/ (pc[r] = "claim_row" /\ pc' = [pc EXCEPT ![r] = "claim"]),
         \A o \in Runner \ {r} : writes[o][j] = NoRow,
         WriteIsCurrent(r, j)'
  PROVE  NoLostUpdate'
  <1>1. /\ writes'[r][j] = w
        /\ \A o \in Runner, k \in Job : o # r \/ k # j => writes'[o][k] = writes[o][k]
    BY DEF IInv, TypeOK
  <1> SUFFICES ASSUME NEW a \in Runner, NEW k \in Job, writes'[a][k] # NoRow, a # r \/ k # j
               PROVE  WriteIsCurrent(a, k)' /\ \A o \in Runner \ {a} : writes'[o][k] = NoRow
    BY <1>1 DEF NoLostUpdate
  <1>2. k # j
    BY <1>1
  <1>3. WriteIsCurrent(a, k) /\ \A o \in Runner \ {a} : writes[o][k] = NoRow
    BY <1>1 DEF IInv, NoLostUpdate
  <1>4. \/ pc'[a] = pc[a]
        \/ pc[a] = "claim_row" /\ pc'[a] = "claim"
    BY DEF IInv, TypeOK
  <1> QED
    BY <1>1, <1>2, <1>3, <1>4 DEF WriteIsCurrent

(* The three UPDATEs of a sweep, when they hit a row nobody else has locked. *)
LEMMA RecoverHit ==
  ASSUME IInv, NEW r \in Runner, NEW j \in Job, NEW seen, pc[r] = "recover",
         HasStatus(Seen(r)[j], "RUNNING"), row' = row, pc' = pc,
         writes' = [writes EXCEPT ![r][j] = Recovered(seen, Seen(r)[j])]
  PROVE  WriteIsCurrent(r, j)'
  <1>1. writes[r][j] = NoRow
    <2> SUFFICES ASSUME writes[r][j] # NoRow PROVE FALSE
      OBVIOUS
    <2>1. row[j] \in Row /\ writes[r][j] \in {Requeued(row[j]), Exhausted(row[j])}
      BY DEF IInv, TypeOK, NoLostUpdate, WriteIsCurrent, HasStatus, RowOrNone
    <2>2. Seen(r)[j] = writes[r][j]
      BY DEF Seen
    <2> QED
      BY <2>1, <2>2, WrittenRow DEF HasStatus
  <1>2. Seen(r)[j] = row[j]
    BY <1>1 DEF Seen
  <1>3. writes'[r][j] \in {Requeued(row[j]), Exhausted(row[j])}
    BY <1>2 DEF IInv, TypeOK, Recovered
  <1> QED
    BY <1>2, <1>3 DEF WriteIsCurrent

LEMMA PromoteHit ==
  ASSUME IInv, NEW r \in Runner, NEW j \in Job, pc[r] = "promote",
         HasStatus(Seen(r)[j], "SCHEDULED"), row' = row, pc' = pc,
         writes' = [writes EXCEPT ![r][j] = Promoted(Seen(r)[j])]
  PROVE  WriteIsCurrent(r, j)'
  <1>1. writes[r][j] = NoRow
    <2> SUFFICES ASSUME writes[r][j] # NoRow PROVE FALSE
      OBVIOUS
    <2>1. row[j] \in Row /\ writes[r][j] = Promoted(row[j])
      BY DEF IInv, TypeOK, NoLostUpdate, WriteIsCurrent, HasStatus, RowOrNone
    <2>2. Seen(r)[j] = writes[r][j]
      BY DEF Seen
    <2> QED
      BY <2>1, <2>2, WrittenRow DEF HasStatus
  <1>2. Seen(r)[j] = row[j]
    BY <1>1 DEF Seen
  <1>3. writes'[r][j] = Promoted(row[j])
    BY <1>2 DEF IInv, TypeOK
  <1> QED
    BY <1>2, <1>3 DEF WriteIsCurrent

LEMMA ClaimHit ==
  ASSUME IInv, NEW r \in Runner, NEW j \in Job, NEW seen \in Row, pc[r] = "claim_row",
         HasStatus(Seen(r)[j], "PENDING"), row' = row, moment' = moment, pc'[r] = "claim",
         writes' = [writes EXCEPT ![r][j] = Claimed(Seen(r)[j], r, moment[r], seen)]
  PROVE  WriteIsCurrent(r, j)'
  <1>1. writes[r][j] = NoRow
    <2> SUFFICES ASSUME writes[r][j] # NoRow PROVE FALSE
      OBVIOUS
    <2>1. row[j] \in Row
      BY DEF IInv, TypeOK, NoLostUpdate, WriteIsCurrent, HasStatus, RowOrNone
    <2>2. PICK w : writes[r][j] = Claimed(row[j], r, moment[r], w)
      BY DEF IInv, NoLostUpdate, WriteIsCurrent
    <2>3. Seen(r)[j] = writes[r][j]
      BY DEF Seen
    <2> QED
      BY <2>1, <2>2, <2>3, ClaimedFields DEF HasStatus
  <1>2. Seen(r)[j] = row[j]
    BY <1>1 DEF Seen
  <1>3. row[j] \in Row
    BY <1>2 DEF IInv, TypeOK, HasStatus, RowOrNone
  <1> DEFINE w == Claimed(row[j], r, moment[r], seen)
             last == [row[j] EXCEPT !.attempts = w.attempts - 1]
  <1>4. writes'[r][j] = w
    BY <1>2 DEF IInv, TypeOK
  <1>5. w.attempts = seen.attempts + 1 /\ seen.attempts \in Nat /\ w \in Row
    BY <1>3, ClaimedFields, ClaimedRow DEF IInv, TypeOK, Row
  <1>6. last.attempts = seen.attempts
    BY <1>3, <1>5 DEF Row
  <1>7. w = Claimed(row[j], r, moment[r], last)
    BY <1>6 DEF Claimed
  <1>8. w # NoRow
    BY <1>5, Nulls
  <1> QED
    BY <1>2, <1>4, <1>7, <1>8 DEF WriteIsCurrent

(* A commit makes a job RUNNING only with a claim, and issues no id. *)
LEMMA CommitStep ==
  ASSUME IInv, NEW r \in Runner, row' = Seen(r), issued' = issued
  PROVE  RunningHasClaim' /\ RowsIssued'
  <1> SUFFICES ASSUME NEW j \in Job
               PROVE  /\ HasStatus(row'[j], "RUNNING") =>
                             row'[j].claimed_by \in Runner /\ row'[j].claimed_at \in Time
                      /\ row'[j] # NoRow => j \in issued
    BY DEF RunningHasClaim, RowsIssued
  <1>1. CASE writes[r][j] = NoRow
    BY <1>1 DEF Seen, IInv, RunningHasClaim, RowsIssued
  <1>2. CASE writes[r][j] # NoRow
    <2>1. row'[j] = writes[r][j] /\ row[j] \in Row /\ moment[r] \in Time
      BY <1>2 DEF Seen, IInv, TypeOK, NoLostUpdate, WriteIsCurrent, HasStatus, RowOrNone
    <2>2. \/ row'[j].status # "RUNNING"
          \/ row'[j].claimed_by = r /\ row'[j].claimed_at = moment[r]
      <3>1. \/ writes[r][j] \in {Requeued(row[j]), Exhausted(row[j]), Promoted(row[j])}
            \/ \E seen : writes[r][j] = Claimed(row[j], r, moment[r], seen)
        BY <1>2 DEF IInv, NoLostUpdate, WriteIsCurrent
      <3>2. CASE writes[r][j] \in {Requeued(row[j]), Exhausted(row[j]), Promoted(row[j])}
        BY <2>1, <3>2, WrittenRow
      <3>3. CASE \E seen : writes[r][j] = Claimed(row[j], r, moment[r], seen)
        BY <2>1, <3>3, ClaimedFields
      <3> QED
        BY <3>1, <3>2, <3>3
    <2>3. row[j] # NoRow
      BY <2>1, Nulls
    <2> QED
      BY <2>1, <2>2, <2>3 DEF HasStatus, IInv, RowsIssued
  <1> QED
    BY <1>1, <1>2

(* The row a sweep's UPDATE names is locked by nobody else when it runs. *)
LEMMA UpdateUnblocked ==
  ASSUME NEW r \in Runner, NEW j \in Target(r), ~Blocked(r)
  PROVE  \A o \in Runner \ {r} : writes[o][j] = NoRow
  BY DEF Blocked, WaitsFor

(* A step that leaves the table alone keeps what is said of its rows. *)
LEMMA SameTable ==
  ASSUME IInv, row' = row, issued' = issued
  PROVE  RunningHasClaim' /\ RowsIssued'
  BY DEF IInv, RunningHasClaim, RowsIssued

LEMMA InitIInv == Init => IInv
  <1> SUFFICES ASSUME Init PROVE IInv
    OBVIOUS
  <1>1. \A j \in Job : row[j] = NoRow /\ \A r \in Runner : writes[r][j] = NoRow
    BY DEF Init, NoRows
  <1> QED
    BY <1>1, InitType DEF IInv, NoLostUpdate, RunningHasClaim, HasStatus, RowsIssued

(* One step of a sweep. *)
LEMMA SweepIInv ==
  ASSUME IInv, NEW r \in Runner,
         SweepStep(r) \/ SweepFails(r)
  PROVE  NoLostUpdate' /\ RunningHasClaim' /\ RowsIssued'
  <1> USE DEF table
  <1>1. CASE StartSweep(r)
    <2>1. ~Holds(r)
      BY <1>1, HoldersSweep DEF StartSweep
    <2>2. \A o \in Runner \ {r} : pc'[o] = pc[o] /\ moment'[o] = moment[o]
      BY <1>1 DEF IInv, TypeOK, StartSweep, Goto
    <2>3. NoLostUpdate'
      BY <1>1, <2>1, <2>2, QuietStep DEF StartSweep
    <2> QED
      BY <1>1, <2>3, SameTable DEF StartSweep
  <1>2. CASE RecoverNext(r)
    <2>1. PICK j \in FirstOf(todo[r]) :
            \/ writes' = writes
            \/ /\ Stale(todo[r][j], moment[r])
               /\ HasStatus(Seen(r)[j], "RUNNING")
               /\ writes' = [writes EXCEPT ![r][j] = Recovered(todo[r][j], Seen(r)[j])]
      BY <1>2 DEF RecoverNext, ClaimedBy
    <2>2. CASE writes' = writes
      <3>1. NoLostUpdate'
        BY <1>2, <2>2, QuietStep DEF RecoverNext
      <3> QED
        BY <1>2, <3>1, SameTable DEF RecoverNext
    <2>3. CASE writes' # writes
      <3>1. j \in Job /\ j \in Target(r)
        BY <1>2, <2>1, <2>3 DEF RecoverNext, Target, FirstOf, Present
      <3>2. WriteIsCurrent(r, j)'
        BY <1>2, <2>1, <2>3, <3>1, RecoverHit DEF RecoverNext
      <3>3. NoLostUpdate'
        BY <1>2, <2>1, <2>3, <3>1, <3>2, UpdateUnblocked, WriteStep DEF RecoverNext
      <3> QED
        BY <1>2, <3>3, SameTable DEF RecoverNext
    <2> QED
      BY <2>2, <2>3
  <1>3. CASE EndRecover(r)
    <2>1. \A o \in Runner \ {r} : pc'[o] = pc[o] /\ moment'[o] = moment[o]
      BY <1>3 DEF IInv, TypeOK, EndRecover, Goto
    <2>2. NoLostUpdate'
      BY <1>3, <2>1, EndStep DEF EndRecover, Commit
    <2> QED
      BY <1>3, <2>2, CommitStep DEF EndRecover, Commit
  <1>4. CASE PromoteNext(r)
    <2>1. PICK j \in FirstOf(todo[r]) :
            \/ writes' = writes
            \/ /\ Due(todo[r][j], moment[r])
               /\ HasStatus(Seen(r)[j], "SCHEDULED")
               /\ writes' = [writes EXCEPT ![r][j] = Promoted(Seen(r)[j])]
      BY <1>4 DEF PromoteNext
    <2>2. CASE writes' = writes
      <3>1. NoLostUpdate'
        BY <1>4, <2>2, QuietStep DEF PromoteNext
      <3> QED
        BY <1>4, <3>1, SameTable DEF PromoteNext
    <2>3. CASE writes' # writes
      <3>1. j \in Job /\ j \in Target(r)
        BY <1>4, <2>1, <2>3 DEF PromoteNext, Target, FirstOf, Present
      <3>2. WriteIsCurrent(r, j)'
        BY <1>4, <2>1, <2>3, <3>1, PromoteHit DEF PromoteNext
      <3>3. NoLostUpdate'
        BY <1>4, <2>1, <2>3, <3>1, <3>2, UpdateUnblocked, WriteStep DEF PromoteNext
      <3> QED
        BY <1>4, <3>3, SameTable DEF PromoteNext
    <2> QED
      BY <2>2, <2>3
  <1>5. CASE EndPromote(r)
    <2>1. \A o \in Runner \ {r} : pc'[o] = pc[o] /\ moment'[o] = moment[o]
      BY <1>5 DEF IInv, TypeOK, EndPromote, Goto
    <2>2. NoLostUpdate'
      BY <1>5, <2>1, EndStep DEF EndPromote, Commit
    <2> QED
      BY <1>5, <2>2, CommitStep DEF EndPromote, Commit
  <1>6. CASE ClaimSearch(r)
    <2>1. \A o \in Runner : \/ pc'[o] = pc[o]
                            \/ {pc[o], pc'[o]} = {"claim", "claim_row"}
      BY <1>6 DEF IInv, TypeOK, ClaimSearch, Goto
    <2>2. NoLostUpdate'
      BY <1>6, <2>1, QuietStep DEF ClaimSearch
    <2> QED
      BY <1>6, <2>2, SameTable DEF ClaimSearch
  <1>7. CASE ClaimRow(r)
    <2>1. PICK j \in FirstOf(todo[r]) :
            \/ writes' = writes
            \/ /\ HasStatus(Seen(r)[j], "PENDING")
               /\ writes' = [writes EXCEPT ![r][j] = Claimed(Seen(r)[j], r, moment[r], todo[r][j])]
      BY <1>7 DEF ClaimRow, Runnable
    <2>2. /\ pc'[r] = "claim"
          /\ \A o \in Runner \ {r} : pc'[o] = pc[o]
          /\ pc[r] = "claim_row"
      BY <1>7 DEF IInv, TypeOK, ClaimRow, Goto
    <2>3. CASE writes' = writes
      <3>1. \A o \in Runner : \/ pc'[o] = pc[o]
                              \/ {pc[o], pc'[o]} = {"claim", "claim_row"}
        BY <2>2
      <3>2. NoLostUpdate'
        BY <1>7, <2>3, <3>1, QuietStep DEF ClaimRow
      <3> QED
        BY <1>7, <3>2, SameTable DEF ClaimRow
    <2>4. CASE writes' # writes
      <3>1. j \in Job /\ j \in Target(r) /\ todo[r][j] \in Row
        BY <2>2 DEF Target, FirstOf, Present, IInv, TypeOK, RowOrNone
      <3>2. WriteIsCurrent(r, j)'
        BY <1>7, <2>1, <2>2, <2>4, <3>1, ClaimHit DEF ClaimRow
      <3>3. NoLostUpdate'
        BY <1>7, <2>1, <2>2, <2>4, <3>1, <3>2, UpdateUnblocked, WriteStep DEF ClaimRow, Goto
      <3> QED
        BY <1>7, <3>3, SameTable DEF ClaimRow
    <2> QED
      BY <2>3, <2>4
  <1>8. CASE EndClaim(r)
    <2>1. \A o \in Runner \ {r} : pc'[o] = pc[o] /\ moment'[o] = moment[o]
      BY <1>8 DEF IInv, TypeOK, EndClaim, Goto
    <2>2. NoLostUpdate'
      BY <1>8, <2>1, EndStep DEF EndClaim, Commit
    <2> QED
      BY <1>8, <2>2, CommitStep DEF EndClaim, Commit
  <1>9. CASE StartClaimed(r) \/ DeadlockAbort(r) \/ SweepFails(r)
    <2>1. EndSweep(r) /\ Goto(r, "asleep") /\ row' = row /\ issued' = issued
      BY <1>9 DEF StartClaimed, DeadlockAbort, SweepFails
    <2>2. \A o \in Runner \ {r} : pc'[o] = pc[o] /\ moment'[o] = moment[o]
      BY <2>1 DEF IInv, TypeOK, EndSweep, Goto
    <2>3. NoLostUpdate'
      BY <2>1, <2>2, EndStep DEF EndSweep
    <2> QED
      BY <2>1, <2>3, SameTable
  <1> QED
    BY <1>1, <1>2, <1>3, <1>4, <1>5, <1>6, <1>7, <1>8, <1>9 DEF SweepStep

(* What a body, a shutdown or a client makes of one unlocked row keeps the claims. *)
LEMMA OneRow ==
  ASSUME IInv, NEW j \in Job, NEW v \in RowOrNone,
         ~Locked(j), writes' = writes, pc' = pc, moment' = moment,
         row' = row \/ row' = [row EXCEPT ![j] = v],
         v = NoRow \/ j \in issued', issued \subseteq issued',
         HasStatus(v, "RUNNING") => v.claimed_by \in Runner /\ v.claimed_at \in Time
  PROVE  NoLostUpdate' /\ RunningHasClaim' /\ RowsIssued'
  <1>1. \A k \in Job : k # j => row'[k] = row[k]
    BY DEF IInv, TypeOK
  <1>2. row'[j] \in {row[j], v}
    BY DEF IInv, TypeOK
  <1>3. NoLostUpdate'
    BY <1>1, QuietStep
  <1>4. RunningHasClaim'
    BY <1>1, <1>2 DEF IInv, RunningHasClaim
  <1>5. RowsIssued'
    BY <1>1, <1>2 DEF IInv, RowsIssued
  <1> QED
    BY <1>3, <1>4, <1>5

(* One step of a body, or its failure. *)
LEMMA TaskIInv ==
  ASSUME IInv, NEW r \in Runner, NEW s \in Slot,
         TaskStep(r, s) \/ TaskFails(r, s)
  PROVE  NoLostUpdate' /\ RunningHasClaim' /\ RowsIssued'
  <1>1. CASE Load(r, s) \/ TaskFails(r, s)
    <2>1. row' = row /\ issued' = issued /\ writes' = writes /\ pc' = pc /\ moment' = moment
      BY <1>1 DEF Load, TaskFails, table, sweep
    <2> QED
      BY <2>1, QuietStep, SameTable
  <1>2. ASSUME NEW o \in {"COMPLETED", "ERROR"}, Finish(r, s, o)
        PROVE  NoLostUpdate' /\ RunningHasClaim' /\ RowsIssued'
    <2>1. task[r][s].job \in Job
      BY <1>2 DEF IInv, TypeOK, Finish, Task, NoTask
    <2> DEFINE j == task[r][s].job
               v == Outcome(task[r][s], o, row[j])
    <2>2. /\ ~Locked(j) /\ writes' = writes /\ pc' = pc /\ moment' = moment /\ issued' = issued
          /\ \/ row' = row
             \/ ClaimedBy(row[j], r) /\ row' = [row EXCEPT ![j] = v]
      BY <1>2 DEF Finish, sweep
    <2>3. CASE row' = row
      BY <2>2, <2>3, QuietStep, SameTable
    <2>4. CASE ClaimedBy(row[j], r) /\ row' = [row EXCEPT ![j] = v]
      <3>1. row[j] \in Row /\ row[j] # NoRow
        BY <2>1, <2>4 DEF IInv, TypeOK, ClaimedBy, HasStatus, RowOrNone
      <3>2. v \in RowOrNone /\ v.status # "RUNNING"
        BY <3>1, WrittenRow, Nulls DEF Outcome, Row, JobStatus, Terminal
      <3>3. j \in issued
        BY <2>1, <3>1 DEF IInv, RowsIssued
      <3> HIDE DEF v
      <3> QED
        BY <2>1, <2>2, <2>4, <3>2, <3>3, OneRow DEF HasStatus
    <2> QED
      BY <2>2, <2>3, <2>4
  <1> QED
    BY <1>1, <1>2 DEF TaskStep

(* Shutdown and crash. *)
LEMMA ExitIInv ==
  ASSUME IInv, NEW r \in Runner,
         \/ Enter(r) \/ Leave(r) \/ Left(r) \/ Crash(r)
         \/ \E j \in Job : Release(r, j) \/ ReleaseFails(r, j)
  PROVE  NoLostUpdate' /\ RunningHasClaim' /\ RowsIssued'
  <1>1. CASE Enter(r) \/ Left(r)
    <2>1. row' = row /\ issued' = issued /\ writes' = writes /\ moment' = moment
      BY <1>1 DEF Enter, Left, table, sweep
    <2>2. ~Holds(r)
      BY <1>1, HoldersSweep DEF Enter, Left
    <2>3. \A o \in Runner \ {r} : pc'[o] = pc[o]
      BY <1>1 DEF IInv, TypeOK, Enter, Left, Goto
    <2> QED
      BY <2>1, <2>2, <2>3, QuietStep, SameTable
  <1>2. CASE Leave(r) \/ Crash(r)
    <2>1. EndSweep(r) /\ row' = row /\ issued' = issued
      BY <1>2 DEF Leave, Crash, table
    <2>2. \A o \in Runner \ {r} : pc'[o] = pc[o] /\ moment'[o] = moment[o]
      BY <1>2 DEF IInv, TypeOK, Leave, Crash, EndSweep, Goto
    <2>3. NoLostUpdate'
      BY <2>1, <2>2, EndStep DEF EndSweep
    <2> QED
      BY <2>1, <2>3, SameTable
  <1>3. ASSUME NEW j \in Job, Release(r, j)
        PROVE  NoLostUpdate' /\ RunningHasClaim' /\ RowsIssued'
    <2>1. /\ ~Locked(j) /\ writes' = writes /\ pc' = pc /\ moment' = moment /\ issued' = issued
          /\ \/ row' = row
             \/ ClaimedBy(row[j], r) /\ row' = [row EXCEPT ![j] = Requeued(row[j])]
      BY <1>3 DEF Release
    <2>2. CASE row' = row
      BY <2>1, <2>2, QuietStep, SameTable
    <2>3. CASE ClaimedBy(row[j], r) /\ row' = [row EXCEPT ![j] = Requeued(row[j])]
      <3>1. row[j] \in Row /\ row[j] # NoRow
        BY <2>3 DEF IInv, TypeOK, ClaimedBy, HasStatus, RowOrNone
      <3>2. Requeued(row[j]) \in RowOrNone /\ Requeued(row[j]).status # "RUNNING"
        BY <3>1, WrittenRow, Nulls
      <3>3. j \in issued
        BY <3>1 DEF IInv, RowsIssued
      <3> QED
        BY <2>1, <2>3, <3>2, <3>3, OneRow DEF HasStatus
    <2> QED
      BY <2>1, <2>2, <2>3
  <1>4. ASSUME NEW j \in Job, ReleaseFails(r, j)
        PROVE  NoLostUpdate' /\ RunningHasClaim' /\ RowsIssued'
    BY <1>4, QuietStep, SameTable DEF ReleaseFails, table
  <1> QED
    BY <1>1, <1>2, <1>3, <1>4

(* Clients and the clock. *)
LEMMA ClientIInv ==
  ASSUME IInv, Tick \/ \E j \in Job : Client(j)
  PROVE  NoLostUpdate' /\ RunningHasClaim' /\ RowsIssued'
  <1>1. ASSUME NEW j \in Job, ClientCreate(j)
        PROVE  NoLostUpdate' /\ RunningHasClaim' /\ RowsIssued'
    <2>1. PICK s \in ClientStatuses, at \in DueTimes, m \in AttemptCaps, b \in RunBounds \cup {None} :
            row' = [row EXCEPT ![j] =
                      [status |-> s, run_at |-> at, claimed_by |-> None, claimed_at |-> None,
                       attempts |-> 0, max_attempts |-> m, max_seconds |-> b]]
      BY <1>1 DEF ClientCreate
    <2> DEFINE v == [status |-> s, run_at |-> at, claimed_by |-> None, claimed_at |-> None,
                     attempts |-> 0, max_attempts |-> m, max_seconds |-> b]
    <2>2. v \in RowOrNone /\ v.status # "RUNNING"
      BY RowAssumption, Nulls DEF Row, JobStatus, ClientStatuses
    <2>3. row[j] = NoRow
      BY <1>1 DEF ClientCreate, IInv, RowsIssued
    <2>4. ~Locked(j)
      BY <2>3 DEF Locked, IInv, NoLostUpdate, WriteIsCurrent, HasStatus
    <2>5. /\ issued \subseteq issued' /\ j \in issued'
          /\ writes' = writes /\ pc' = pc /\ moment' = moment
      BY <1>1 DEF ClientCreate, sweep
    <2>6. row' = [row EXCEPT ![j] = v]
      BY <2>1
    <2> HIDE DEF v
    <2> QED
      BY <2>2, <2>4, <2>5, <2>6, OneRow DEF HasStatus
  <1>2. ASSUME NEW j \in Job, ClientUpdate(j)
        PROVE  NoLostUpdate' /\ RunningHasClaim' /\ RowsIssued'
    <2>1. row[j] \in Row /\ row[j] # NoRow
      BY <1>2 DEF IInv, TypeOK, ClientUpdate, NotTerminal, RowOrNone
    <2>2. PICK s \in ClientStatuses \cup {row[j].status}, at \in DueTimes \cup {row[j].run_at},
               m \in AttemptCaps, b \in RunBounds \cup {None} :
            row' = [row EXCEPT ![j].status = s, ![j].run_at = at,
                               ![j].max_attempts = m, ![j].max_seconds = b]
      BY <1>2 DEF ClientUpdate
    <2> DEFINE v == [row[j] EXCEPT !.status = s, !.run_at = at, !.max_attempts = m, !.max_seconds = b]
    <2>3. v \in Row
      BY <2>1, RowAssumption DEF Row, JobStatus
    <2>4. /\ v.status = s
          /\ v.claimed_by = row[j].claimed_by /\ v.claimed_at = row[j].claimed_at
      BY <2>1 DEF Row
    <2>5. s = "RUNNING" => row[j].claimed_by \in Runner /\ row[j].claimed_at \in Time
      BY <2>1 DEF ClientStatuses, IInv, RunningHasClaim, HasStatus
    <2>6. row' = [row EXCEPT ![j] = v]
      BY <2>1, <2>2 DEF IInv, TypeOK
    <2>7. /\ ~Locked(j) /\ writes' = writes /\ pc' = pc /\ moment' = moment /\ issued' = issued
          /\ j \in issued
      BY <1>2, <2>1 DEF ClientUpdate, sweep, IInv, RowsIssued
    <2> HIDE DEF v
    <2> QED
      BY <2>3, <2>4, <2>5, <2>6, <2>7, Nulls, OneRow DEF HasStatus
  <1>3. ASSUME NEW j \in Job, ClientDelete(j)
        PROVE  NoLostUpdate' /\ RunningHasClaim' /\ RowsIssued'
    BY <1>3, Nulls, OneRow DEF ClientDelete, sweep, HasStatus
  <1>4. CASE Tick
    BY <1>4, QuietStep, SameTable DEF Tick, table, sweep
  <1> QED
    BY <1>1, <1>2, <1>3, <1>4 DEF Client

LEMMA NextIInv == IInv /\ [Next]_vars => IInv'
  <1> SUFFICES ASSUME IInv, [Next]_vars PROVE IInv'
    OBVIOUS
  <1>1. TypeOK'
    BY NextType DEF IInv
  <1>2. NoLostUpdate' /\ RunningHasClaim' /\ RowsIssued'
    <2>1. CASE UNCHANGED vars
      BY <2>1, QuietStep, SameTable DEF vars
    <2>2. CASE Next
      BY <2>2, SweepIInv, TaskIInv, ExitIInv, ClientIInv
      DEF Next, ExitStep, Fault
    <2> QED
      BY <2>1, <2>2
  <1> QED
    BY <1>1, <1>2 DEF IInv

THEOREM InductiveInvariant == Spec => []IInv
  <1> QED
    BY InitIInv, NextIInv, PTL DEF Spec

(* No update is lost: whatever a sweep is about to commit was decided on a row that *)
(* is still as the sweep's UPDATE found it, and that no other sweep is writing.     *)
THEOREM NothingLost == Spec => []NoLostUpdate
  <1>1. IInv => NoLostUpdate
    BY DEF IInv
  <1> QED
    BY <1>1, InductiveInvariant, PTL

(* A RUNNING row always carries the owner and the date its recovery asks for. *)
THEOREM RunningIsRecoverable == Spec => []RunningHasClaim
  <1>1. IInv => RunningHasClaim
    BY DEF IInv
  <1> QED
    BY <1>1, InductiveInvariant, PTL

-----------------------------------------------------------------------------
(* What a step makes of the table *)

(* The runner that holds the claim ends its run, or gives the job back. *)
HolderWrites(r, j) ==
  /\ ClaimedBy(row[j], r) /\ issued' = issued
  /\ \/ row' = [row EXCEPT ![j] = Requeued(row[j])]
     \/ \E o \in {"COMPLETED", "ERROR"} : row' = [row EXCEPT ![j].status = o]

(* Every step leaves the table alone, commits a sweep's transaction, is a write of  *)
(* a claim's holder, or is a client's.                                               *)
LEMMA TableStep ==
  ASSUME IInv, [Next]_vars
  PROVE  \/ row' = row /\ issued' = issued
         \/ \E r \in Runner : row' = Seen(r) /\ issued' = issued
         \/ \E r \in Runner, j \in Job : HolderWrites(r, j)
         \/ \E j \in Job : Client(j)
  <1>1. ASSUME NEW r \in Runner, SweepStep(r)
        PROVE  (row' = row /\ issued' = issued) \/ (row' = Seen(r) /\ issued' = issued)
    BY <1>1 DEF SweepStep, StartSweep, RecoverNext, EndRecover, PromoteNext, EndPromote,
       ClaimSearch, ClaimRow, EndClaim, StartClaimed, DeadlockAbort, Commit, table
  <1>2. ASSUME NEW r \in Runner, Enter(r) \/ Left(r) \/ Fault(r)
        PROVE  row' = row /\ issued' = issued
    BY <1>2 DEF Enter, Left, Fault, SweepFails, Leave, Crash, TaskFails, ReleaseFails, table
  <1>3. ASSUME NEW r \in Runner, NEW j \in Job, Release(r, j)
        PROVE  (row' = row /\ issued' = issued) \/ HolderWrites(r, j)
    BY <1>3 DEF Release, HolderWrites
  <1>4. ASSUME NEW r \in Runner, NEW s \in Slot, TaskStep(r, s)
        PROVE  \/ row' = row /\ issued' = issued
               \/ \E j \in Job : HolderWrites(r, j)
    <2>1. CASE Load(r, s)
      BY <2>1 DEF Load, table
    <2>2. ASSUME NEW o \in {"COMPLETED", "ERROR"}, Finish(r, s, o)
          PROVE  \/ row' = row /\ issued' = issued
                 \/ \E j \in Job : HolderWrites(r, j)
      <3>1. task[r][s].job \in Job
        BY <2>2 DEF IInv, TypeOK, Finish, Task, NoTask
      <3> DEFINE j == task[r][s].job
      <3>2. \/ row' = row
            \/ ClaimedBy(row[j], r) /\ row' = [row EXCEPT ![j] = Outcome(task[r][s], o, row[j])]
        BY <2>2 DEF Finish
      <3>3. issued' = issued
        BY <2>2 DEF Finish
      <3>4. Outcome(task[r][s], o, row[j]) \in {Requeued(row[j]), [row[j] EXCEPT !.status = o]}
        BY DEF Outcome
      <3>5. [row EXCEPT ![j].status = o] = [row EXCEPT ![j] = [row[j] EXCEPT !.status = o]]
        BY <3>1 DEF IInv, TypeOK
      <3> QED
        BY <3>1, <3>2, <3>3, <3>4, <3>5 DEF HolderWrites
    <2> QED
      BY <1>4, <2>1, <2>2 DEF TaskStep
  <1>5. CASE Tick \/ UNCHANGED vars
    BY <1>5 DEF Tick, vars, table
  <1> QED
    BY <1>1, <1>2, <1>3, <1>4, <1>5 DEF Next, ExitStep

(* No commit writes a terminal row. *)
LEMMA CommitOpen ==
  ASSUME IInv, NEW r \in Runner, NEW j \in Job, writes[r][j] # NoRow
  PROVE  row[j] \in Row /\ row[j] # NoRow /\ row[j].status \notin Terminal
  BY DEF IInv, TypeOK, NoLostUpdate, WriteIsCurrent, HasStatus, RowOrNone, Terminal

(* A terminal job stays exactly as it is until a client deletes its row. *)
THEOREM TerminalStays == Spec => TerminalSticky
  <1>1. ASSUME IInv, [Next]_vars, NEW j \in Job, row[j] # NoRow, row[j].status \in Terminal
        PROVE  row'[j] \in {row[j], NoRow}
    <2>1. CASE \E r \in Runner : row' = Seen(r)
      BY <1>1, <2>1, CommitOpen DEF Seen
    <2>2. ASSUME NEW r \in Runner, NEW k \in Job, HolderWrites(r, k)
          PROVE  row'[j] = row[j]
      <3>1. k # j
        BY <1>1, <2>2 DEF HolderWrites, ClaimedBy, HasStatus, Terminal
      <3> QED
        BY <1>1, <2>2, <3>1 DEF HolderWrites, IInv, TypeOK
    <2>3. ASSUME NEW k \in Job, Client(k)
          PROVE  row'[j] \in {row[j], NoRow}
      <3>1. CASE k # j
        BY <1>1, <2>3, <3>1 DEF Client, ClientCreate, ClientUpdate, ClientDelete, IInv, TypeOK
      <3>2. CASE k = j
        <4>1. ~ClientCreate(k) /\ ~ClientUpdate(k)
          BY <1>1, <3>2 DEF ClientCreate, ClientUpdate, NotTerminal, IInv, RowsIssued
        <4>2. ClientDelete(k)
          BY <2>3, <4>1 DEF Client
        <4>3. row' = [row EXCEPT ![j] = NoRow]
          BY <3>2, <4>2 DEF ClientDelete
        <4> QED
          BY <1>1, <4>3 DEF IInv, TypeOK
      <3> QED
        BY <3>1, <3>2
    <2> QED
      BY <1>1, <2>1, <2>2, <2>3, TableStep
  <1>2. IInv /\ [Next]_vars
        => [\A j \in Job : row[j] # NoRow /\ row[j].status \in Terminal
                          => row'[j] \in {row[j], NoRow}]_vars
    BY <1>1
  <1> QED
    BY <1>2, InductiveInvariant, PTL DEF Spec, TerminalSticky

-----------------------------------------------------------------------------
(* Refinement: the committed table is that of JobLifecycle *)

(* The abstract values of a job with a row. *)
LEMMA Abstraction ==
  ASSUME NEW j \in Job
  PROVE  /\ row[j] # NoRow => /\ LifecycleStatus[j] = row[j].status
                              /\ LifecycleHolder[j] = row[j].claimed_by
         /\ row'[j] # NoRow => /\ LifecycleStatus'[j] = row'[j].status
                               /\ LifecycleHolder'[j] = row'[j].claimed_by
         /\ row'[j] = row[j] /\ (j \in issued' <=> j \in issued)
              => /\ LifecycleStatus'[j] = LifecycleStatus[j]
                 /\ LifecycleHolder'[j] = LifecycleHolder[j]
  BY DEF LifecycleStatus, LifecycleHolder

LEMMA InitLifecycle == Init => Lifecycle!Init
  BY DEF Init, Lifecycle!Init, LifecycleStatus, LifecycleHolder, NoRows

(* A commit is a recovery, a promotion or a claim of all the jobs it writes. *)
LEMMA CommitLifecycle ==
  ASSUME IInv, NEW r \in Runner, row' = Seen(r), issued' = issued
  PROVE  Lifecycle!Next \/ UNCHANGED <<LifecycleStatus, LifecycleHolder>>
  <1> DEFINE W == {j \in Job : writes[r][j] # NoRow}
             T == {j \in W : writes[r][j] = Exhausted(row[j])}
             S == W \ T
  <1>1. ASSUME NEW j \in Job \ W
        PROVE  LifecycleStatus'[j] = LifecycleStatus[j] /\ LifecycleHolder'[j] = LifecycleHolder[j]
    BY <1>1, Abstraction DEF Seen
  <1>2. ASSUME NEW j \in W
        PROVE  /\ row[j] \in Row /\ row'[j] = writes[r][j] /\ WriteIsCurrent(r, j)
               /\ LifecycleStatus[j] = row[j].status /\ LifecycleHolder[j] = row[j].claimed_by
               /\ LifecycleStatus'[j] = writes[r][j].status
               /\ LifecycleHolder'[j] = writes[r][j].claimed_by
    <2>1. row[j] \in Row /\ row[j] # NoRow
      BY CommitOpen
    <2>2. row'[j] = writes[r][j] /\ writes[r][j] # NoRow
      BY DEF Seen
    <2>3. WriteIsCurrent(r, j)
      BY DEF IInv, NoLostUpdate
    <2> QED
      BY <2>1, <2>2, <2>3, Abstraction
  <1>3. /\ LifecycleStatus = [j \in Job |-> LifecycleStatus[j]]
        /\ LifecycleHolder = [j \in Job |-> LifecycleHolder[j]]
        /\ LifecycleStatus' = [j \in Job |-> LifecycleStatus'[j]]
        /\ LifecycleHolder' = [j \in Job |-> LifecycleHolder'[j]]
    BY DEF LifecycleStatus, LifecycleHolder
  <1> HIDE DEF W
  <1>4. W \in SUBSET Job
    BY DEF W
  <1>5. CASE W = {}
    BY <1>1, <1>3, <1>5
  <1>6. CASE pc[r] = "recover"
    <2>1. ASSUME NEW j \in S
          PROVE  /\ LifecycleStatus[j] = "RUNNING" /\ LifecycleStatus'[j] = "PENDING"
                 /\ LifecycleHolder'[j] = None
      <3>1. HasStatus(row[j], "RUNNING") /\ writes[r][j] = Requeued(row[j])
        BY <1>2, <1>6 DEF WriteIsCurrent
      <3> QED
        BY <1>2, <3>1 DEF HasStatus, Requeued, Row
    <2>2. ASSUME NEW j \in T
          PROVE  /\ LifecycleStatus[j] = "RUNNING" /\ LifecycleStatus'[j] = "ERROR"
                 /\ LifecycleHolder'[j] = None
      <3>1. HasStatus(row[j], "RUNNING") /\ writes[r][j] = Exhausted(row[j])
        BY <1>2, <1>6 DEF WriteIsCurrent
      <3> QED
        BY <1>2, <3>1 DEF HasStatus, Exhausted, Row
    <2> HIDE DEF T
    <2>3. /\ S \cap T = {} /\ S \cup T = W \cup T
          /\ S \in SUBSET Job /\ T \in SUBSET Job
      BY <1>4 DEF T
    <2>4. Lifecycle!Recover(S, T)
      <3> HIDE DEF S
      <3>1. ASSUME NEW j \in Job, j \notin S, j \notin T
            PROVE  j \in Job \ W
        BY <3>1 DEF S
      <3>2. LifecycleStatus' = [j \in Job |-> IF j \in S THEN "PENDING"
                                              ELSE IF j \in T THEN "ERROR" ELSE LifecycleStatus[j]]
        BY <1>1, <1>3, <2>1, <2>2, <2>3, <3>1
      <3>3. LifecycleHolder' = [j \in Job |-> IF j \in S \cup T THEN None ELSE LifecycleHolder[j]]
        BY <1>1, <1>3, <2>1, <2>2, <2>3, <3>1
      <3>4. \A j \in S \cup T : LifecycleStatus[j] = "RUNNING"
        BY <2>1, <2>2
      <3> QED
        BY <2>3, <3>2, <3>3, <3>4 DEF Lifecycle!Recover, Lifecycle!In, Lifecycle!Hold
    <2> QED
      BY <2>3, <2>4 DEF Lifecycle!Next
  <1>7. CASE pc[r] = "promote"
    <2>1. ASSUME NEW j \in W
          PROVE  /\ LifecycleStatus[j] = "SCHEDULED" /\ LifecycleStatus'[j] = "PENDING"
                 /\ LifecycleHolder'[j] = LifecycleHolder[j]
      <3>1. HasStatus(row[j], "SCHEDULED") /\ writes[r][j] = Promoted(row[j])
        BY <1>2, <1>7 DEF WriteIsCurrent
      <3> QED
        BY <1>2, <3>1 DEF HasStatus, Promoted, Row
    <2>2. LifecycleStatus' = [j \in Job |-> IF j \in W THEN "PENDING" ELSE LifecycleStatus[j]]
      BY <1>1, <1>3, <2>1
    <2>3. LifecycleHolder' = LifecycleHolder
      BY <1>1, <1>3, <2>1
    <2>4. Lifecycle!Promote(W)
      BY <2>1, <2>2, <2>3 DEF Lifecycle!Promote, Lifecycle!In, Lifecycle!Move
    <2> QED
      BY <1>4, <2>4 DEF Lifecycle!Next
  <1>8. CASE pc[r] \in {"claim", "claim_row"}
    <2>1. ASSUME NEW j \in W
          PROVE  /\ LifecycleStatus[j] = "PENDING" /\ LifecycleStatus'[j] = "RUNNING"
                 /\ LifecycleHolder'[j] = r
      <3>1. HasStatus(row[j], "PENDING") /\ \E seen : writes[r][j] = Claimed(row[j], r, moment[r], seen)
        BY <1>2, <1>8 DEF WriteIsCurrent
      <3>2. writes[r][j].status = "RUNNING" /\ writes[r][j].claimed_by = r
        BY <1>2, <3>1, ClaimedFields
      <3> QED
        BY <1>2, <3>1, <3>2 DEF HasStatus
    <2>2. LifecycleStatus' = [j \in Job |-> IF j \in W THEN "RUNNING" ELSE LifecycleStatus[j]]
      BY <1>1, <1>3, <2>1
    <2>3. LifecycleHolder' = [j \in Job |-> IF j \in W THEN r ELSE LifecycleHolder[j]]
      BY <1>1, <1>3, <2>1
    <2>4. Lifecycle!Claim(r, W)
      BY <2>1, <2>2, <2>3 DEF Lifecycle!Claim, Lifecycle!In, Lifecycle!Move, Lifecycle!Hold
    <2> QED
      BY <1>4, <2>4 DEF Lifecycle!Next
  <1>9. W # {} => pc[r] \in {"recover", "promote", "claim", "claim_row"}
    BY <1>2 DEF WriteIsCurrent
  <1> QED
    BY <1>5, <1>6, <1>7, <1>8, <1>9

(* A step that changes one job's row changes one job of the lifecycle. *)
LEMMA OneJob ==
  ASSUME NEW j \in Job,
         \A k \in Job \ {j} : row'[k] = row[k] /\ (k \in issued' <=> k \in issued)
  PROVE  /\ LifecycleStatus' = [k \in Job |-> IF k \in {j} THEN LifecycleStatus'[j]
                                              ELSE LifecycleStatus[k]]
         /\ LifecycleHolder' = [k \in Job |-> IF k \in {j} THEN LifecycleHolder'[j]
                                              ELSE LifecycleHolder[k]]
         /\ LifecycleHolder'[j] = LifecycleHolder[j] => LifecycleHolder' = LifecycleHolder
         /\ LifecycleStatus'[j] = LifecycleStatus[j] => LifecycleStatus' = LifecycleStatus
  BY DEF LifecycleStatus, LifecycleHolder

LEMMA HolderLifecycle ==
  ASSUME IInv, NEW r \in Runner, NEW j \in Job, HolderWrites(r, j)
  PROVE  Lifecycle!Next
  <1>1. row[j] \in Row /\ row[j] # NoRow /\ row[j].status = "RUNNING" /\ row[j].claimed_by = r
    BY DEF IInv, TypeOK, HolderWrites, ClaimedBy, HasStatus, RowOrNone
  <1>2. LifecycleStatus[j] = "RUNNING" /\ LifecycleHolder[j] = r
    BY <1>1, Abstraction
  <1>3. \A k \in Job \ {j} : row'[k] = row[k] /\ (k \in issued' <=> k \in issued)
    BY DEF IInv, TypeOK, HolderWrites
  <1>4. CASE row' = [row EXCEPT ![j] = Requeued(row[j])]
    <2>1. row'[j] = Requeued(row[j]) /\ row'[j] # NoRow
      BY <1>1, <1>4, WrittenRow, Nulls DEF IInv, TypeOK
    <2>2. LifecycleStatus'[j] = "PENDING" /\ LifecycleHolder'[j] = None
      BY <1>1, <2>1, Abstraction DEF Requeued, Row
    <2>3. Lifecycle!GiveBack(r, j)
      BY <1>2, <1>3, <2>2, OneJob DEF Lifecycle!GiveBack, Lifecycle!Move, Lifecycle!Hold
    <2> QED
      BY <2>3 DEF Lifecycle!Next
  <1>5. ASSUME NEW o \in {"COMPLETED", "ERROR"}, row' = [row EXCEPT ![j].status = o]
        PROVE  Lifecycle!Next
    <2>1. row'[j] = [row[j] EXCEPT !.status = o]
      BY <1>5 DEF IInv, TypeOK
    <2>2. [row[j] EXCEPT !.status = o] \in Row
      BY <1>1 DEF Row, JobStatus, Terminal
    <2>3. LifecycleStatus'[j] = o /\ LifecycleHolder'[j] = LifecycleHolder[j]
      BY <1>1, <1>2, <2>1, <2>2, Nulls, Abstraction DEF Row
    <2>4. Lifecycle!Complete(r, j)
      BY <1>2, <1>3, <2>3, OneJob DEF Lifecycle!Complete, Lifecycle!Move
    <2> QED
      BY <2>4 DEF Lifecycle!Next
  <1> QED
    BY <1>4, <1>5 DEF HolderWrites

LEMMA ClientLifecycle ==
  ASSUME IInv, NEW j \in Job, Client(j)
  PROVE  Lifecycle!Next \/ UNCHANGED <<LifecycleStatus, LifecycleHolder>>
  <1>1. \A k \in Job \ {j} : row'[k] = row[k] /\ (k \in issued' <=> k \in issued)
    BY DEF IInv, TypeOK, Client, ClientCreate, ClientUpdate, ClientDelete
  <1>2. CASE ClientCreate(j)
    <2>1. LifecycleStatus[j] = "absent" /\ LifecycleHolder[j] = None
      BY <1>2 DEF ClientCreate, LifecycleStatus, LifecycleHolder, IInv, RowsIssued
    <2>2. PICK s \in ClientStatuses, at \in DueTimes, m \in AttemptCaps, b \in RunBounds \cup {None} :
            row' = [row EXCEPT ![j] =
                      [status |-> s, run_at |-> at, claimed_by |-> None, claimed_at |-> None,
                       attempts |-> 0, max_attempts |-> m, max_seconds |-> b]]
      BY <1>2 DEF ClientCreate
    <2> DEFINE v == [status |-> s, run_at |-> at, claimed_by |-> None, claimed_at |-> None,
                     attempts |-> 0, max_attempts |-> m, max_seconds |-> b]
    <2>3. v \in Row /\ v.status = s /\ v.claimed_by = None
      BY RowAssumption DEF Row, JobStatus
    <2>4. row'[j] = v
      BY <2>2 DEF IInv, TypeOK
    <2> HIDE DEF v
    <2>5. LifecycleStatus'[j] = s /\ LifecycleHolder'[j] = None
      BY <2>3, <2>4, Nulls, Abstraction
    <2>6. Lifecycle!Create(j)
      BY <1>1, <2>1, <2>5, OneJob DEF Lifecycle!Create, Lifecycle!Move, ClientStatuses
    <2> QED
      BY <2>6 DEF Lifecycle!Next
  <1>3. CASE ClientUpdate(j)
    <2>1. row[j] \in Row /\ row[j] # NoRow /\ row[j].status \notin Terminal
      BY <1>3 DEF IInv, TypeOK, ClientUpdate, NotTerminal, RowOrNone
    <2>2. PICK s \in ClientStatuses \cup {row[j].status}, at \in DueTimes \cup {row[j].run_at},
               m \in AttemptCaps, b \in RunBounds \cup {None} :
            row' = [row EXCEPT ![j].status = s, ![j].run_at = at,
                               ![j].max_attempts = m, ![j].max_seconds = b]
      BY <1>3 DEF ClientUpdate
    <2> DEFINE v == [row[j] EXCEPT !.status = s, !.run_at = at, !.max_attempts = m, !.max_seconds = b]
    <2>3. v \in Row /\ v.status = s /\ v.claimed_by = row[j].claimed_by
      BY <2>1, RowAssumption DEF Row, JobStatus
    <2>4. row'[j] = v
      BY <2>1, <2>2 DEF IInv, TypeOK
    <2> HIDE DEF v
    <2>5. /\ LifecycleStatus[j] = row[j].status /\ LifecycleStatus'[j] = s
          /\ LifecycleHolder'[j] = LifecycleHolder[j]
      BY <2>1, <2>3, <2>4, Nulls, Abstraction
    <2>6. row[j].status \in {"PENDING", "SCHEDULED", "RUNNING"}
      BY <2>1 DEF Row, JobStatus, ClientStatuses, Terminal
    <2>7. CASE s = row[j].status
      BY <1>1, <2>5, <2>7, OneJob
    <2>8. CASE s \in ClientStatuses
      <3>1. Lifecycle!ClientMove(j)
        BY <1>1, <2>5, <2>6, <2>8, OneJob DEF Lifecycle!ClientMove, Lifecycle!Move, ClientStatuses
      <3> QED
        BY <3>1 DEF Lifecycle!Next
    <2> QED
      BY <2>7, <2>8
  <1>4. CASE ClientDelete(j)
    <2>1. row[j] # NoRow /\ row[j] \in Row /\ row'[j] = NoRow /\ issued' = issued /\ j \in issued
      BY <1>4 DEF ClientDelete, IInv, TypeOK, RowsIssued, RowOrNone
    <2>2. LifecycleStatus[j] \notin {"absent", "deleted"}
      BY <2>1, Abstraction DEF Row, JobStatus, ClientStatuses, Terminal
    <2>3. LifecycleStatus'[j] = "deleted" /\ LifecycleHolder'[j] = None
      BY <2>1 DEF LifecycleStatus, LifecycleHolder
    <2>4. Lifecycle!Delete(j)
      BY <1>1, <2>2, <2>3, OneJob DEF Lifecycle!Delete, Lifecycle!Move, Lifecycle!Hold
    <2> QED
      BY <2>4 DEF Lifecycle!Next
  <1> QED
    BY <1>2, <1>3, <1>4 DEF Client

LEMMA NextLifecycle ==
  IInv /\ [Next]_vars => [Lifecycle!Next]_<<LifecycleStatus, LifecycleHolder>>
  <1> SUFFICES ASSUME IInv, [Next]_vars
               PROVE  Lifecycle!Next \/ UNCHANGED <<LifecycleStatus, LifecycleHolder>>
    OBVIOUS
  <1>1. CASE row' = row /\ issued' = issued
    BY <1>1 DEF LifecycleStatus, LifecycleHolder
  <1> QED
    BY <1>1, TableStep, CommitLifecycle, HolderLifecycle, ClientLifecycle

(* However many runners sweep the table and whatever faults and clients do, the     *)
(* committed table goes through the abstract lifecycle: one runner wins a claim,    *)
(* only the holder of a claim ends its run, only SCHEDULED jobs are promoted.       *)
THEOREM RunnerImplementsLifecycle == Spec => ImplementsLifecycle
  <1>1. Init => Lifecycle!Init
    BY InitLifecycle
  <1>2. IInv /\ [Next]_vars => [Lifecycle!Next]_<<LifecycleStatus, LifecycleHolder>>
    BY NextLifecycle
  <1> QED
    BY <1>1, <1>2, InductiveInvariant, PTL
    DEF Spec, ImplementsLifecycle, Lifecycle!Spec, Lifecycle!jobVars

-----------------------------------------------------------------------------
(* Claims and bodies *)

(* A claim not yet committed is in the list of the bodies to start. *)
ClaimsListed ==
  \A r \in Runner, j \in Job :
    pc[r] \in {"claim", "claim_row"} /\ writes[r][j] # NoRow => j \in claimed[r]

BodyInv == IInv /\ ClaimHasBody /\ (faults = 0 => ClaimsListed)

HasBody(r, j) ==
  \/ \E s \in Slot : task[r][s].job = j
  \/ pc[r] = "start" /\ j \in claimed[r]

(* A step that takes no body and no entry of the list away, and commits no claim. *)
LEMMA KeepBodies ==
  ASSUME BodyInv, faults = 0,
         \A r \in Runner, j \in Job : ClaimedBy(row'[j], r) => ClaimedBy(row[j], r),
         \A r \in Runner, j \in Job : ClaimedBy(row[j], r) /\ HasBody(r, j) => HasBody(r, j)'
  PROVE  ClaimHasBody'
  BY DEF BodyInv, ClaimHasBody, HasBody

(* Outside the claim phase a commit makes no job RUNNING. *)
LEMMA CommitNoClaim ==
  ASSUME IInv, NEW r \in Runner, row' = Seen(r), pc[r] \in {"recover", "promote"}
  PROVE  \A o \in Runner, j \in Job : ClaimedBy(row'[j], o) => ClaimedBy(row[j], o)
  <1> SUFFICES ASSUME NEW o \in Runner, NEW j \in Job, ClaimedBy(row'[j], o), writes[r][j] # NoRow
               PROVE  FALSE
    BY DEF Seen
  <1>1. row'[j] = writes[r][j] /\ row[j] \in Row
    BY CommitOpen DEF Seen
  <1>2. writes[r][j] \in {Requeued(row[j]), Exhausted(row[j]), Promoted(row[j])}
    BY DEF IInv, NoLostUpdate, WriteIsCurrent
  <1> QED
    BY <1>1, <1>2, WrittenRow DEF ClaimedBy, HasStatus

(* _start gives every job of the list a slot of its own. *)
LEMMA StartedBodies ==
  ASSUME TypeOK, NEW r \in Runner, StartClaimed(r)
  PROVE  /\ \A j \in claimed[r] : \E s \in Slot : task'[r][s].job = j
         /\ \A s \in Slot : task[r][s] # NoTask => task'[r][s] = task[r][s]
         /\ \A o \in Runner \ {r} : task'[o] = task[o]
  <1>1. PICK at \in Placements(r) :
          task' = [task EXCEPT ![r] =
                    [s \in Slot |->
                       IF \E j \in claimed[r] : at[j] = s
                       THEN [NoTask EXCEPT !.job = CHOOSE j \in claimed[r] : at[j] = s]
                       ELSE task[r][s]]]
    BY DEF StartClaimed
  <1>2. at \in [claimed[r] -> Slot \ Busy(r)] /\ claimed[r] \subseteq Nat
    BY RowAssumption DEF Placements, TypeOK
  <1>3. \A i, j \in claimed[r] : at[i] = at[j] => i = j
    <2> SUFFICES ASSUME NEW i \in claimed[r], NEW j \in claimed[r], at[i] = at[j], i # j
                 PROVE  FALSE
      OBVIOUS
    <2>1. i < j \/ j < i
      BY <1>2
    <2>2. at[i] < at[j] \/ at[j] < at[i]
      BY <2>1 DEF Placements
    <2>3. at[i] \in Int
      BY <1>2 DEF Slot
    <2> QED
      BY <2>2, <2>3
  <1>4. \A s \in Slot : task'[r][s] = IF \E j \in claimed[r] : at[j] = s
                                     THEN [NoTask EXCEPT !.job = CHOOSE j \in claimed[r] : at[j] = s]
                                     ELSE task[r][s]
    BY <1>1 DEF TypeOK
  <1>5. ASSUME NEW j \in claimed[r]
        PROVE  \E s \in Slot : task'[r][s].job = j
    <2>1. at[j] \in Slot
      BY <1>2
    <2>2. (CHOOSE k \in claimed[r] : at[k] = at[j]) = j
      BY <1>3
    <2>3. task'[r][at[j]] = [NoTask EXCEPT !.job = j]
      BY <1>4, <2>1, <2>2
    <2> QED
      BY <2>1, <2>3 DEF NoTask
  <1>6. \A s \in Slot : task[r][s] # NoTask => task'[r][s] = task[r][s]
    <2> SUFFICES ASSUME NEW s \in Slot, task[r][s] # NoTask
                 PROVE  task'[r][s] = task[r][s]
      OBVIOUS
    <2>1. s \in Busy(r)
      BY DEF Busy
    <2>2. \A j \in claimed[r] : at[j] # s
      BY <1>2, <2>1
    <2> QED
      BY <1>4, <2>2
  <1>7. \A o \in Runner \ {r} : task'[o] = task[o]
    BY <1>1 DEF TypeOK
  <1> QED
    BY <1>5, <1>6, <1>7

(* A claim goes on the list in the step that writes it. *)
LEMMA ListStep ==
  ASSUME BodyInv, faults' = 0, [Next]_vars, faults = 0
  PROVE  ClaimsListed'
  <1> SUFFICES ASSUME NEW a \in Runner, NEW k \in Job,
                      pc'[a] \in {"claim", "claim_row"}, writes'[a][k] # NoRow
               PROVE  k \in claimed'[a]
    BY DEF ClaimsListed
  <1> USE DEF BodyInv, IInv, TypeOK
  <1>1. ASSUME pc'[a] = pc[a] \/ {pc[a], pc'[a]} = {"claim", "claim_row"},
               writes'[a][k] = writes[a][k], claimed[a] \subseteq claimed'[a]
        PROVE  k \in claimed'[a]
    BY <1>1 DEF ClaimsListed
  <1>2. ASSUME NEW r \in Runner, SweepStep(r)
        PROVE  k \in claimed'[a]
    <2>1. CASE StartSweep(r) \/ RecoverNext(r) \/ EndRecover(r) \/ PromoteNext(r)
      <3>1. pc'[r] \notin {"claim", "claim_row"} /\ claimed' = claimed
        BY <2>1 DEF StartSweep, RecoverNext, EndRecover, PromoteNext, Goto
      <3>2. a # r => pc'[a] = pc[a] /\ writes'[a][k] = writes[a][k]
        BY <2>1 DEF StartSweep, RecoverNext, EndRecover, PromoteNext, Goto
      <3> QED
        BY <1>1, <3>1, <3>2
    <2>2. CASE EndPromote(r) \/ EndClaim(r)
      <3>1. writes'[r][k] = NoRow /\ claimed' = claimed
        BY <2>2 DEF EndPromote, EndClaim, NoRows
      <3>2. a # r => pc'[a] = pc[a] /\ writes'[a][k] = writes[a][k]
        BY <2>2 DEF EndPromote, EndClaim, Goto
      <3> QED
        BY <1>1, <3>1, <3>2
    <2>3. CASE ClaimSearch(r)
      <3>1. /\ pc'[a] = pc[a] \/ {pc[a], pc'[a]} = {"claim", "claim_row"}
            /\ writes' = writes /\ claimed' = claimed
        BY <2>3 DEF ClaimSearch, Goto
      <3> QED
        BY <1>1, <3>1
    <2>4. CASE ClaimRow(r)
      <3>1. PICK j \in FirstOf(todo[r]) :
              \/ writes' = writes /\ claimed' = claimed
              \/ /\ writes' = [writes EXCEPT ![r][j] = Claimed(Seen(r)[j], r, moment[r], todo[r][j])]
                 /\ claimed' = [claimed EXCEPT ![r] = @ \cup {j}]
        BY <2>4 DEF ClaimRow
      <3>2. /\ pc'[a] = pc[a] \/ {pc[a], pc'[a]} = {"claim", "claim_row"}
            /\ claimed[a] \subseteq claimed'[a]
        BY <2>4, <3>1 DEF ClaimRow, Goto
      <3>3. (a = r /\ k = j) \/ writes'[a][k] = writes[a][k]
        BY <3>1
      <3>4. a = r /\ k = j /\ writes'[a][k] # writes[a][k] => k \in claimed'[a]
        BY <3>1
      <3> QED
        BY <1>1, <3>2, <3>3, <3>4
    <2>5. CASE StartClaimed(r) \/ DeadlockAbort(r)
      <3>1. pc'[r] = "asleep" /\ \A o \in Runner \ {r} : claimed'[o] = claimed[o]
        BY <2>5 DEF StartClaimed, DeadlockAbort, Goto
      <3>2. a # r => pc'[a] = pc[a] /\ writes'[a][k] = writes[a][k]
        BY <2>5 DEF StartClaimed, DeadlockAbort, EndSweep, Goto
      <3> QED
        BY <1>1, <3>1, <3>2
    <2> QED
      BY <1>2, <2>1, <2>2, <2>3, <2>4, <2>5 DEF SweepStep
  <1>3. ASSUME NEW r \in Runner, Enter(r) \/ ExitStep(r)
        PROVE  k \in claimed'[a]
    <2>1. pc'[r] \notin {"claim", "claim_row"} /\ writes' = writes
      BY <1>3 DEF Enter, ExitStep, Left, Release, Goto, sweep
    <2>2. a # r => pc'[a] = pc[a] /\ claimed'[a] = claimed[a]
      BY <1>3 DEF Enter, ExitStep, Left, Release, Goto, sweep
    <2> QED
      BY <1>1, <2>1, <2>2
  <1>4. ASSUME NEW r \in Runner PROVE ~Fault(r)
    BY DEF Fault, SweepFails, Leave, Crash, TaskFails, ReleaseFails
  <1>5. ASSUME \/ \E r \in Runner, s \in Slot : TaskStep(r, s)
               \/ \E j \in Job : Client(j)
               \/ Tick \/ UNCHANGED vars
        PROVE  k \in claimed'[a]
    <2>1. pc' = pc /\ writes' = writes /\ claimed' = claimed
      BY <1>5 DEF TaskStep, Load, Finish, Client, ClientCreate, ClientUpdate, ClientDelete,
         Tick, sweep, vars
    <2> QED
      BY <1>1, <2>1
  <1> QED
    BY <1>2, <1>3, <1>4, <1>5 DEF Next

(* No step without a fault takes the body of a claim away. *)
LEMMA BodyStep ==
  ASSUME BodyInv, faults' = 0, [Next]_vars, faults = 0
  PROVE  ClaimHasBody'
  <1> USE DEF BodyInv
  <1>1. ASSUME row' = row,
               \A r \in Runner, j \in Job : ClaimedBy(row[j], r) /\ HasBody(r, j) => HasBody(r, j)'
        PROVE  ClaimHasBody'
    BY <1>1, KeepBodies
  <1>2. ASSUME NEW r \in Runner, SweepStep(r)
        PROVE  ClaimHasBody'
    <2>1. CASE StartSweep(r) \/ RecoverNext(r) \/ PromoteNext(r) \/ ClaimSearch(r) \/ ClaimRow(r)
      <3>1. row' = row /\ task' = task
        BY <2>1 DEF StartSweep, RecoverNext, PromoteNext, ClaimSearch, ClaimRow, table
      <3>2. \A o \in Runner : pc[o] = "start" => pc'[o] = "start" /\ claimed'[o] = claimed[o]
        BY <2>1 DEF StartSweep, RecoverNext, PromoteNext, ClaimSearch, ClaimRow, Goto, IInv, TypeOK
      <3> QED
        BY <1>1, <3>1, <3>2 DEF HasBody
    <2>2. CASE EndRecover(r) \/ EndPromote(r)
      <3>1. row' = Seen(r) /\ pc[r] \in {"recover", "promote"} /\ task' = task
        BY <2>2 DEF EndRecover, EndPromote, Commit
      <3>2. \A o \in Runner : pc[o] = "start" => pc'[o] = "start" /\ claimed'[o] = claimed[o]
        BY <2>2 DEF EndRecover, EndPromote, Goto, IInv, TypeOK
      <3>3. \A o \in Runner, j \in Job : HasBody(o, j) => HasBody(o, j)'
        BY <3>1, <3>2 DEF HasBody
      <3> QED
        BY <3>1, <3>3, CommitNoClaim, KeepBodies
    <2>3. CASE EndClaim(r)
      <3> SUFFICES ASSUME NEW o \in Runner, NEW j \in Job, ClaimedBy(row'[j], o)
                   PROVE  HasBody(o, j)'
        BY DEF ClaimHasBody, HasBody
      <3>1. row' = Seen(r) /\ task' = task /\ claimed' = claimed /\ pc[r] = "claim"
        BY <2>3 DEF EndClaim, Commit
      <3>2. pc'[r] = "start" /\ \A a \in Runner \ {r} : pc'[a] = pc[a]
        BY <2>3 DEF EndClaim, Goto, IInv, TypeOK
      <3>3. CASE writes[r][j] = NoRow
        <4>1. HasBody(o, j)
          BY <3>1, <3>3 DEF Seen, ClaimHasBody, HasBody
        <4> QED
          BY <3>1, <3>2, <4>1 DEF HasBody
      <3>4. CASE writes[r][j] # NoRow
        <4>1. row[j] \in Row /\ row'[j] = writes[r][j]
          BY <3>1, <3>4, CommitOpen DEF Seen
        <4>2. \E seen : writes[r][j] = Claimed(row[j], r, moment[r], seen)
          BY <3>1, <3>4 DEF IInv, NoLostUpdate, WriteIsCurrent
        <4>3. o = r
          BY <4>1, <4>2, ClaimedFields DEF ClaimedBy
        <4>4. j \in claimed[r]
          BY <3>1, <3>4 DEF ClaimsListed
        <4> QED
          BY <3>1, <3>2, <4>3, <4>4 DEF HasBody
      <3> QED
        BY <3>3, <3>4
    <2>4. CASE StartClaimed(r)
      <3>1. /\ row' = row /\ claimed' = [claimed EXCEPT ![r] = {}]
            /\ pc[r] = "start" /\ pc' = [pc EXCEPT ![r] = "asleep"]
        BY <2>4 DEF StartClaimed, Goto, table
      <3>2. ASSUME NEW o \in Runner, NEW j \in Job, HasBody(o, j)
            PROVE  HasBody(o, j)'
        <4>1. CASE o # r
          BY <2>4, <3>1, <3>2, <4>1, StartedBodies DEF HasBody, IInv, TypeOK
        <4>2. CASE o = r /\ j \in claimed[r]
          BY <2>4, <4>2, StartedBodies DEF HasBody, IInv
        <4>3. CASE o = r /\ \E s \in Slot : task[r][s].job = j
          <5>1. PICK s \in Slot : task[r][s].job = j
            BY <4>3
          <5>2. task[r][s] # NoTask
            BY <5>1, Nulls DEF NoTask
          <5> QED
            BY <2>4, <4>3, <5>1, <5>2, StartedBodies DEF HasBody, IInv
        <4> QED
          BY <3>2, <4>1, <4>2, <4>3 DEF HasBody
      <3> QED
        BY <1>1, <3>1, <3>2
    <2>5. CASE DeadlockAbort(r)
      <3>1. pc[r] # "start"
        BY <2>5 DEF DeadlockAbort, Deadlocked, WaitsFor, Target
      <3>2. /\ row' = row /\ task' = task
            /\ \A o \in Runner \ {r} : pc'[o] = pc[o] /\ claimed'[o] = claimed[o]
        BY <2>5 DEF DeadlockAbort, Goto, table, IInv, TypeOK
      <3> QED
        BY <1>1, <3>1, <3>2 DEF HasBody
    <2> QED
      BY <1>2, <2>1, <2>2, <2>3, <2>4, <2>5 DEF SweepStep
  <1>3. ASSUME NEW r \in Runner, Enter(r) \/ Left(r)
        PROVE  ClaimHasBody'
    <2>1. row' = row /\ task' = task /\ claimed' = claimed
      BY <1>3 DEF Enter, Left, table, sweep
    <2>2. \A o \in Runner : pc[o] = "start" => pc'[o] = "start"
      BY <1>3 DEF Enter, Left, Goto, IInv, TypeOK
    <2> QED
      BY <1>1, <2>1, <2>2 DEF HasBody
  <1>4. ASSUME NEW r \in Runner, NEW k \in Job, Release(r, k)
        PROVE  ClaimHasBody'
    <2>1. \/ row' = row
          \/ ClaimedBy(row[k], r) /\ row' = [row EXCEPT ![k] = Requeued(row[k])]
      BY <1>4 DEF Release
    <2>2. \A o \in Runner, j \in Job : ClaimedBy(row'[j], o) => ClaimedBy(row[j], o)
      <3>1. ClaimedBy(row[k], r) => Requeued(row[k]).status # "RUNNING"
        BY WrittenRow DEF IInv, TypeOK, ClaimedBy, HasStatus, RowOrNone
      <3> QED
        BY <2>1, <3>1 DEF ClaimedBy, HasStatus, IInv, TypeOK
    <2>3. \A o \in Runner, j \in Job : HasBody(o, j) => HasBody(o, j)'
      BY <1>4 DEF Release, HasBody, IInv, TypeOK
    <2> QED
      BY <2>2, <2>3, KeepBodies
  <1>5. ASSUME NEW r \in Runner PROVE ~Fault(r)
    BY DEF Fault, SweepFails, Leave, Crash, TaskFails, ReleaseFails, IInv, TypeOK
  <1>6. ASSUME NEW r \in Runner, NEW s \in Slot, Load(r, s)
        PROVE  ClaimHasBody'
    <2>1. /\ row' = row /\ pc' = pc /\ claimed' = claimed
          /\ \A o \in Runner, t \in Slot : o # r \/ t # s => task'[o][t] = task[o][t]
          /\ task'[r][s].job = task[r][s].job \/ row[task[r][s].job] = NoRow
      <3>1. task[r][s] \in Task
        BY <1>6 DEF Load, IInv, TypeOK
      <3> QED
        BY <1>6, <3>1 DEF Load, table, sweep, IInv, TypeOK, Task
    <2>2. ASSUME NEW o \in Runner, NEW j \in Job, ClaimedBy(row[j], o), HasBody(o, j)
          PROVE  HasBody(o, j)'
      BY <2>1, <2>2 DEF HasBody, ClaimedBy, HasStatus
    <2> QED
      BY <1>1, <2>1, <2>2
  <1>7. ASSUME NEW r \in Runner, NEW s \in Slot, NEW out \in {"COMPLETED", "ERROR"}, Finish(r, s, out)
        PROVE  ClaimHasBody'
    <2>1. task[r][s].job \in Job
      BY <1>7 DEF IInv, TypeOK, Finish, Task, NoTask
    <2> DEFINE k == task[r][s].job
               v == Outcome(task[r][s], out, row[k])
    <2>2. /\ pc' = pc /\ claimed' = claimed
          /\ \A o \in Runner, t \in Slot : o # r \/ t # s => task'[o][t] = task[o][t]
      BY <1>7 DEF Finish, EndTask, sweep, IInv, TypeOK
    <2>3. CASE ~ClaimedBy(row[k], r)
      <3>1. row' = row
        BY <1>7, <2>3 DEF Finish
      <3>2. ASSUME NEW o \in Runner, NEW j \in Job, ClaimedBy(row[j], o), HasBody(o, j)
            PROVE  HasBody(o, j)'
        BY <2>2, <2>3, <3>2 DEF HasBody
      <3> QED
        BY <1>1, <3>1, <3>2
    <2>4. CASE ClaimedBy(row[k], r)
      <3>1. row[k] \in Row /\ row[k] # NoRow /\ row[k].status = "RUNNING"
        BY <2>1, <2>4 DEF IInv, TypeOK, ClaimedBy, HasStatus, RowOrNone
      <3>2. v.status # "RUNNING"
        BY <3>1, WrittenRow DEF Outcome, Row
      <3>3. row' = [row EXCEPT ![k] = v]
        BY <1>7, <2>4, <3>1 DEF Finish, NotTerminal, Terminal
      <3> HIDE DEF v
      <3>4. ~HasStatus(row'[k], "RUNNING") /\ \A j \in Job \ {k} : row'[j] = row[j]
        BY <2>1, <3>2, <3>3 DEF HasStatus, IInv, TypeOK
      <3> SUFFICES ASSUME NEW o \in Runner, NEW j \in Job, ClaimedBy(row'[j], o)
                   PROVE  HasBody(o, j)'
        BY DEF ClaimHasBody, HasBody
      <3>5. j # k /\ ClaimedBy(row[j], o)
        BY <3>4 DEF ClaimedBy
      <3>6. HasBody(o, j)
        BY <3>5 DEF ClaimHasBody, HasBody
      <3> QED
        BY <2>2, <3>5, <3>6 DEF HasBody
    <2> QED
      BY <2>3, <2>4
  <1>8. ASSUME NEW k \in Job, Client(k)
        PROVE  ClaimHasBody'
    <2>1. pc' = pc /\ claimed' = claimed /\ task' = task
      BY <1>8 DEF Client, ClientCreate, ClientUpdate, ClientDelete, sweep
    <2>2. \A o \in Runner, j \in Job : ClaimedBy(row'[j], o) => ClaimedBy(row[j], o)
      <3>1. ASSUME NEW o \in Runner, NEW j \in Job, ClientCreate(k), ClaimedBy(row'[j], o)
            PROVE  ClaimedBy(row[j], o)
        BY <3>1 DEF ClientCreate, ClaimedBy, HasStatus, ClientStatuses, IInv, TypeOK
      <3>2. ASSUME NEW o \in Runner, NEW j \in Job, ClientDelete(k), ClaimedBy(row'[j], o)
            PROVE  ClaimedBy(row[j], o)
        BY <3>2 DEF ClientDelete, ClaimedBy, HasStatus, IInv, TypeOK
      <3>3. ASSUME NEW o \in Runner, NEW j \in Job, ClientUpdate(k), ClaimedBy(row'[j], o)
            PROVE  ClaimedBy(row[j], o)
        <4>1. row[k] \in Row /\ row[k] # NoRow
          BY <3>3 DEF ClientUpdate, NotTerminal, IInv, TypeOK, RowOrNone
        <4>2. PICK s \in ClientStatuses \cup {row[k].status}, at \in DueTimes \cup {row[k].run_at},
                   m \in AttemptCaps, b \in RunBounds \cup {None} :
                row' = [row EXCEPT ![k].status = s, ![k].run_at = at,
                                   ![k].max_attempts = m, ![k].max_seconds = b]
          BY <3>3 DEF ClientUpdate
        <4>3. j # k => row'[j] = row[j]
          BY <4>2 DEF IInv, TypeOK
        <4>4. row'[k].status = s /\ row'[k].claimed_by = row[k].claimed_by
          BY <4>1, <4>2 DEF IInv, TypeOK, Row
        <4>5. s = "RUNNING" => row[k].status = "RUNNING"
          BY DEF ClientStatuses
        <4> QED
          BY <3>3, <4>1, <4>3, <4>4, <4>5 DEF ClaimedBy, HasStatus
      <3> QED
        BY <1>8, <3>1, <3>2, <3>3 DEF Client
    <2>3. \A o \in Runner, j \in Job : HasBody(o, j) => HasBody(o, j)'
      BY <2>1 DEF HasBody
    <2> QED
      BY <2>2, <2>3, KeepBodies
  <1>9. CASE Tick \/ UNCHANGED vars
    <2>1. row' = row /\ task' = task /\ pc' = pc /\ claimed' = claimed
      BY <1>9 DEF Tick, vars, table, sweep
    <2> QED
      BY <1>1, <2>1 DEF HasBody
  <1> QED
    BY <1>2, <1>3, <1>4, <1>5, <1>6, <1>7, <1>8, <1>9 DEF Next, ExitStep, TaskStep

(* Until something fails, no claim is left without a body: neither a recovery, nor  *)
(* a late end of another body of the same job, takes it away.                        *)
THEOREM ClaimsHaveBodies == Spec => []ClaimHasBody
  <1>1. Init => BodyInv
    <2> SUFFICES ASSUME Init PROVE BodyInv
      OBVIOUS
    <2>1. IInv
      BY InitIInv
    <2>2. \A j \in Job : row[j] = NoRow /\ \A r \in Runner : writes[r][j] = NoRow
      BY DEF Init, NoRows
    <2> QED
      BY <2>1, <2>2 DEF BodyInv, ClaimHasBody, ClaimsListed, ClaimedBy, HasStatus
  <1>2. BodyInv /\ [Next]_vars => BodyInv'
    <2> SUFFICES ASSUME BodyInv, [Next]_vars PROVE BodyInv'
      OBVIOUS
    <2>1. IInv'
      BY NextIInv DEF BodyInv
    <2>2. faults' = 0 => faults = 0
      <3>1. faults' = faults \/ faults' = faults + 1
        BY DEF vars, Next, Enter, SweepStep, StartSweep, RecoverNext, EndRecover, PromoteNext,
           EndPromote, ClaimSearch, ClaimRow, EndClaim, StartClaimed, DeadlockAbort, ExitStep, Left,
           Release, Fault, SweepFails, Leave, Crash, TaskFails, ReleaseFails, TaskStep, Load, Finish,
           Client, ClientCreate, ClientUpdate, ClientDelete, Tick, budget
      <3> QED
        BY <3>1, RunnerAssumption DEF BodyInv, IInv, TypeOK
    <2>3. faults' = 0 => ClaimsListed'
      BY <2>2, ListStep
    <2>4. ClaimHasBody'
      <3>1. CASE faults' = 0
        BY <2>2, <3>1, BodyStep
      <3>2. CASE faults' # 0
        BY <3>2 DEF ClaimHasBody
      <3> QED
        BY <3>1, <3>2
    <2> QED
      BY <2>1, <2>3, <2>4 DEF BodyInv
  <1>3. BodyInv => ClaimHasBody
    BY DEF BodyInv
  <1> QED
    BY <1>1, <1>2, <1>3, PTL DEF Spec

=============================================================================
