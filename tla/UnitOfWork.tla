----------------------------- MODULE UnitOfWork ------------------------------
(***************************************************************************)
(* The unit of work of a request: the services it enters share one session *)
(* per engine through its context (sql/sql_service.py), a batch applies    *)
(* its runs of edits and leaves the services last in, first out            *)
(* (http/batch_routes.py), and triggered resources fire after each run     *)
(* (triggers/), while other requests do the same.  A single write is a     *)
(* batch of one edit.                                                      *)
(*                                                                         *)
(* Databases with transactions run at READ COMMITTED: a statement waits    *)
(* for the transaction that wrote its row, and sees what is committed and  *)
(* its own writes.  The others apply each statement at once.               *)
(***************************************************************************)
EXTENDS Integers, SequencesExt

CONSTANTS
  Request, Resource, Engine, EngineOf, Transactional, Batches, Absent, Seeded,
  Triggered,     \* the resources with triggers
  Inline,        \* those of them whose triggers are awaited (background=False)
  Unwritten,     \* a row the transaction has not written
  MaxFaults      \* bound: raised exceptions and triggers that fail

Kinds == {"create", "update", "delete"}

Edit == [kind : Kinds, res : Resource]

ASSUME UnitAssumption ==
  /\ EngineOf \in [Resource -> Engine] /\ Transactional \subseteq Engine
  /\ Batches \subseteq Seq(Edit) \ {<<>>}
  /\ Inline \subseteq Triggered /\ Triggered \subseteq Resource
  /\ Unwritten \notin {Absent, Seeded} \cup (Request \X Nat)
  /\ MaxFaults \in Nat

VARIABLES
  table,    \* the rows, as committed
  batch,    \* the edits of each request
  pc,       \* where its handler stands
  at,       \* how many edits have run
  first,    \* the first edit of the current run
  hits,     \* the edits that found what they asked for
  stack,    \* the services on the exit stack: their engine, and who owns the session
  open,     \* the engines with a session in the request's context
  writes,   \* the uncommitted writes of its sessions: also their row locks
  failed,   \* an exception is leaving the handler
  taken,    \* the engines whose session has committed
  lost,     \* the engines whose commit raised
  fired,    \* the runs handed to the triggers, in order
  tasks,    \* the trigger runs in flight
  told,     \* the edits an event was published for
  faults    \* bound

vars == <<table, batch, pc, at, first, hits, stack, open, writes, failed, taken, lost,
          fired, tasks, told, faults>>

sessions == <<stack, open, writes>>
run == <<at, first, hits>>
outcome == <<failed, taken, lost>>
triggers == <<fired, tasks, told>>

-----------------------------------------------------------------------------
Labels == {"idle", "enter", "apply", "fire", "await", "leave", "done"}

NoWrites == [x \in Resource |-> Unwritten]

Init ==
  /\ table \in [Resource -> {Absent, Seeded}]
  /\ batch = [r \in Request |-> <<>>]
  /\ pc = [r \in Request |-> "idle"]
  /\ at = [r \in Request |-> 0]
  /\ first = [r \in Request |-> 0]
  /\ hits = [r \in Request |-> {}]
  /\ stack = [r \in Request |-> <<>>]
  /\ open = [r \in Request |-> {}]
  /\ writes = [r \in Request |-> NoWrites]
  /\ failed = [r \in Request |-> FALSE]
  /\ taken = [r \in Request |-> {}]
  /\ lost = [r \in Request |-> {}]
  /\ fired = [r \in Request |-> <<>>]
  /\ tasks = {}
  /\ told = {}
  /\ faults = 0

Goto(r, label) == pc' = [pc EXCEPT ![r] = label]

More(r) == at[r] < Len(batch[r])

(* The edit about to run, its resource and engine. *)
Current(r) == batch[r][at[r] + 1]

(* Mutant: the session is not found in the context. *)
Seen_CommittedOnly(r, x) == table[x]

(* What a statement of request r sees of row x. *)
Seen(r, x) == IF writes[r][x] # Unwritten THEN writes[r][x] ELSE table[x]

WaitsFor(r, o) ==
  o # r /\ pc[r] = "apply" /\ writes[o][Current(r).res] # Unwritten

Blocked(r) == \E o \in Request : WaitsFor(r, o)

(* A cycle of waits within one engine, which that engine breaks. *)
Deadlocked(r) ==
  \E e \in Engine, C \in SUBSET Request :
    /\ r \in C
    /\ \A a \in C : \E b \in C : WaitsFor(a, b) /\ EngineOf[Current(a).res] = e

-----------------------------------------------------------------------------
(* The handler: _apply_batch, _apply_run *)

Accept(r) ==
  /\ pc[r] = "idle"
  /\ \E b \in Batches : batch' = [batch EXCEPT ![r] = b]
  /\ Goto(r, "enter")
  /\ UNCHANGED <<table, run, sessions, outcome, triggers, faults>>

(* build_service and __aenter__ for the next run: the first service on an engine    *)
(* opens the session and owns it, a later one adopts it.  Without transactions there *)
(* is no session.                                                                    *)
Enter(r) ==
  /\ pc[r] = "enter"
  /\ LET e == EngineOf[Current(r).res]
         opened == ({e} \cap Transactional) \ open[r]
     IN  /\ stack' = [stack EXCEPT ![r] = Append(@, [engine |-> e, owns |-> e \in opened])]
         /\ open' = [open EXCEPT ![r] = @ \cup opened]
  /\ first' = [first EXCEPT ![r] = at[r] + 1]
  /\ Goto(r, "apply")
  /\ UNCHANGED <<table, batch, at, hits, writes, outcome, triggers, faults>>

Found(r) == Seen(r, Current(r).res) # Absent

Written(r) == IF Current(r).kind = "delete" THEN Absent ELSE <<r, at[r] + 1>>

(* The run ends where the resource changes. *)
EndOfEdit(r) ==
  /\ at' = [at EXCEPT ![r] = @ + 1]
  /\ Goto(r, IF at[r] + 1 < Len(batch[r]) /\ batch[r][at[r] + 2].res = Current(r).res
             THEN "apply" ELSE "fire")

(* An edit that finds what it asks for: a create no row, the others a row. *)
EditHits(r) ==
  /\ pc[r] = "apply" /\ ~Blocked(r)
  /\ Found(r) = (Current(r).kind # "create")
  /\ LET x == Current(r).res
     IN  IF EngineOf[x] \in Transactional
         THEN writes' = [writes EXCEPT ![r][x] = Written(r)] /\ UNCHANGED table
         ELSE table' = [table EXCEPT ![x] = Written(r)] /\ UNCHANGED writes
  /\ hits' = [hits EXCEPT ![r] = @ \cup {at[r] + 1}]
  /\ EndOfEdit(r)
  /\ UNCHANGED <<batch, first, stack, open, outcome, triggers, faults>>

(* An update or delete of an absent row is a result like another. *)
EditMisses(r) ==
  /\ pc[r] = "apply" /\ ~Blocked(r)
  /\ Current(r).kind # "create" /\ ~Found(r)
  /\ EndOfEdit(r)
  /\ UNCHANGED <<table, batch, first, hits, sessions, outcome, triggers, faults>>

Unwinds(r) ==
  /\ failed' = [failed EXCEPT ![r] = TRUE]
  /\ Goto(r, "leave")

(* A create of a row that exists raises. *)
EditRaises(r) ==
  /\ pc[r] = "apply" /\ ~Blocked(r)
  /\ Current(r).kind = "create" /\ Found(r)
  /\ Unwinds(r)
  /\ UNCHANGED <<table, batch, run, sessions, taken, lost, triggers, faults>>

DeadlockAbort(r) ==
  /\ Deadlocked(r)
  /\ Unwinds(r)
  /\ UNCHANGED <<table, batch, run, sessions, taken, lost, triggers, faults>>

-----------------------------------------------------------------------------
(* The triggers: TriggeredService._fire, TriggerRunner *)

(* Mutant: the batch so far is handed over, not the run. *)
FiredRun_FromFirst(r) == [from |-> 1, to |-> at[r]]

(* Mutant: the results are one longer than the edits. *)
FiredRun_Longer(r) == [from |-> first[r], to |-> at[r] + 1]

FiredRun(r) == [from |-> first[r], to |-> at[r]]

ResourceOf(r, n) == batch[r][fired[r][n].from].res

AfterRun(r) == IF More(r) THEN "enter" ELSE "leave"

(* The run has been applied: its triggers, if it has any, get it as one whole. *)
Fire(r) ==
  /\ pc[r] = "fire"
  /\ IF batch[r][at[r]].res \in Triggered
     THEN /\ fired' = [fired EXCEPT ![r] = Append(@, FiredRun(r))]
          /\ tasks' = tasks \cup {<<r, Len(fired[r]) + 1>>}
     ELSE UNCHANGED <<fired, tasks>>
  /\ Goto(r, IF batch[r][at[r]].res \in Inline THEN "await" ELSE AfterRun(r))
  /\ UNCHANGED <<table, batch, run, sessions, outcome, told, faults>>

Awaited(r) == \E n \in DOMAIN fired[r] : <<r, n>> \in tasks /\ ResourceOf(r, n) \in Inline

Await(r) ==
  /\ pc[r] = "await" /\ ~Awaited(r)
  /\ Goto(r, AfterRun(r))
  /\ UNCHANGED <<table, batch, run, sessions, outcome, triggers, faults>>

(* _build_event: a delete always makes an event, the others only when they hit. *)
Events(r, n) ==
  {<<r, p>> : p \in {p \in fired[r][n].from .. fired[r][n].to :
                       batch[r][p].kind = "delete" \/ p \in hits[r]}}

Deliver(r, n) ==
  /\ <<r, n>> \in tasks
  /\ tasks' = tasks \ {<<r, n>>}
  /\ told' = told \cup Events(r, n)
  /\ UNCHANGED <<table, batch, pc, run, sessions, outcome, fired, faults>>

(* A trigger raises, which is logged, or aclose cancels it. *)
DeliverFails(r, n) ==
  /\ <<r, n>> \in tasks
  /\ faults < MaxFaults
  /\ faults' = faults + 1
  /\ tasks' = tasks \ {<<r, n>>}
  /\ UNCHANGED <<table, batch, pc, run, sessions, outcome, fired, told>>

(* A statement raises, an edit is refused or the client disconnects; triggers that *)
(* the handler awaits are cancelled with it.                                        *)
Raise(r) ==
  /\ pc[r] \in {"enter", "apply", "fire", "await"}
  /\ faults < MaxFaults
  /\ faults' = faults + 1
  /\ tasks' = {t \in tasks : t[1] # r \/ ResourceOf(r, t[2]) \notin Inline}
  /\ Unwinds(r)
  /\ UNCHANGED <<table, batch, run, sessions, taken, lost, fired, told>>

-----------------------------------------------------------------------------
(* The exit stack *)

(* Mutant: each run's service is left when its run has been applied. *)
Leaving_EachRun(r) == pc[r] = "leave" \/ (pc[r] = "enter" /\ at[r] > 0)

Leaving(r) == pc[r] = "leave"

(* Mutant: the services are left in the order they were entered. *)
NextToLeave_First(r) == 1

NextToLeave(r) == Len(stack[r])

Pop(r) == stack' = [stack EXCEPT ![r] = RemoveAt(@, NextToLeave(r))]

(* The service that is left next, if it owns its session. *)
Owner(r, e) ==
  /\ Leaving(r) /\ stack[r] # <<>>
  /\ stack[r][NextToLeave(r)] = [engine |-> e, owns |-> TRUE]

(* Mutant: only a commit ends the transaction. *)
Ended_IfCommitted(r, e) ==
  [x \in Resource |-> IF EngineOf[x] = e /\ ~failed[r] THEN Unwritten ELSE writes[r][x]]

(* The session's writes once its transaction has ended. *)
Ended(r, e) == [x \in Resource |-> IF EngineOf[x] = e THEN Unwritten ELSE writes[r][x]]

EndTransaction(r, e) == writes' = [writes EXCEPT ![r] = Ended(r, e)]

Committed(r, e) == [x \in Resource |-> IF EngineOf[x] = e THEN Seen(r, x) ELSE table[x]]

(* A service that adopted its session, or has none, leaves nothing behind. *)
LeaveUnowned(r) ==
  /\ Leaving(r) /\ stack[r] # <<>>
  /\ ~stack[r][NextToLeave(r)].owns
  /\ Pop(r)
  /\ UNCHANGED <<table, batch, pc, run, open, writes, outcome, triggers, faults>>

Commit(r, e) ==
  /\ Owner(r, e) /\ ~failed[r]
  /\ table' = Committed(r, e)
  /\ taken' = [taken EXCEPT ![r] = @ \cup {e}]
  /\ EndTransaction(r, e)
  /\ open' = [open EXCEPT ![r] = @ \ {e}]
  /\ Pop(r)
  /\ UNCHANGED <<batch, pc, run, failed, lost, triggers, faults>>

Rollback(r, e) ==
  /\ Owner(r, e) /\ failed[r]
  /\ EndTransaction(r, e)
  /\ open' = [open EXCEPT ![r] = @ \ {e}]
  /\ Pop(r)
  /\ UNCHANGED <<table, batch, pc, run, outcome, triggers, faults>>

(* The commit raises, whether or not the database has done it: the services below *)
(* leave with the exception, and this session stays in the context.                *)
CommitRaises(r, e) ==
  /\ Owner(r, e) /\ ~failed[r]
  /\ faults < MaxFaults
  /\ faults' = faults + 1
  /\ \/ UNCHANGED <<table, taken>>
     \/ table' = Committed(r, e) /\ taken' = [taken EXCEPT ![r] = @ \cup {e}]
  /\ failed' = [failed EXCEPT ![r] = TRUE]
  /\ lost' = [lost EXCEPT ![r] = @ \cup {e}]
  /\ EndTransaction(r, e)
  /\ Pop(r)
  /\ UNCHANGED <<batch, pc, run, open, triggers>>

Answer(r) ==
  /\ pc[r] = "leave" /\ stack[r] = <<>>
  /\ Goto(r, "done")
  /\ UNCHANGED <<table, batch, run, sessions, outcome, triggers, faults>>

-----------------------------------------------------------------------------
Exit(r) ==
  \/ LeaveUnowned(r)
  \/ \E e \in Engine : Commit(r, e) \/ Rollback(r, e)
  \/ Answer(r)

Handle(r) ==
  \/ Enter(r)
  \/ EditHits(r) \/ EditMisses(r) \/ EditRaises(r) \/ DeadlockAbort(r)
  \/ Fire(r) \/ Await(r)
  \/ Exit(r)

DeliverSome(r) == \E n \in DOMAIN fired[r] : Deliver(r, n)

Fault(r) ==
  \/ Raise(r)
  \/ \E e \in Engine : CommitRaises(r, e)
  \/ \E n \in DOMAIN fired[r] : DeliverFails(r, n)

Next == \E r \in Request : Accept(r) \/ Handle(r) \/ DeliverSome(r) \/ Fault(r)

Spec == Init /\ [][Next]_vars

-----------------------------------------------------------------------------
Positions(r) == 1 .. Len(batch[r])

Rows == {Absent, Seeded} \cup (Request \X Nat)

Types ==
  /\ table \in [Resource -> Rows]
  /\ batch \in [Request -> Batches \cup {<<>>}]
  /\ pc \in [Request -> Labels]
  /\ at \in [Request -> Nat] /\ first \in [Request -> Nat]
  /\ hits \in [Request -> SUBSET Nat]
  /\ stack \in [Request -> Seq([engine : Engine, owns : BOOLEAN])]
  /\ open \in [Request -> SUBSET Engine]
  /\ writes \in [Request -> [Resource -> Rows \cup {Unwritten}]]
  /\ failed \in [Request -> BOOLEAN]
  /\ taken \in [Request -> SUBSET Engine]
  /\ lost \in [Request -> SUBSET Engine]
  /\ fired \in [Request -> Seq([from : Nat, to : Nat])]
  /\ tasks \subseteq Request \X Nat
  /\ told \subseteq Request \X Nat
  /\ faults \in 0 .. MaxFaults

(* Every variable stays in its range: what has run, has hit and has been fired lies   *)
(* within the batch.                                                                  *)
TypeOK ==
  /\ Types
  /\ \A r \in Request :
       /\ at[r] <= Len(batch[r]) /\ hits[r] \subseteq Positions(r)
       /\ \A n \in DOMAIN fired[r] : {fired[r][n].from, fired[r][n].to} \subseteq Positions(r)

(* "Closing each run as it finished would commit that run, so a later failure could *)
(* not roll it back": an engine has the batch only once all of it has run, and then *)
(* every other engine has it, is about to be left with it, or failed to commit.     *)
NoPartialBatch ==
  \A r \in Request :
    taken[r] # {} /\ lost[r] = {} =>
      /\ at[r] = Len(batch[r])
      /\ \A p \in Positions(r) :
           LET e == EngineOf[batch[r][p].res]
           IN  e \in Transactional => e \in taken[r] \cup open[r]

(* "Whoever opens the storage owns its commit and close": as long as a service is   *)
(* entered, the session it works with is open, and one service of its engine below  *)
(* it on the stack owns it.                                                          *)
SessionOutlivesServices ==
  \A r \in Request : \A i \in DOMAIN stack[r] :
    LET e == stack[r][i].engine
    IN  e \in Transactional =>
        /\ e \in open[r]
        /\ \E k \in 1 .. i : stack[r][k] = [engine |-> e, owns |-> TRUE]

(* specs/triggers.qnt, perOperationNotPerItem and alignment: each applied edit of a *)
(* triggered resource is handed over once, in one run of edits of that resource, by *)
(* the time a batch succeeds.                                                        *)
RunsOf(r, p) == {n \in DOMAIN fired[r] : p \in fired[r][n].from .. fired[r][n].to}

FiredOnce ==
  \A r \in Request : \A p \in Positions(r) :
    /\ \A n, k \in RunsOf(r, p) : n = k /\ ResourceOf(r, n) = batch[r][p].res
    /\ RunsOf(r, p) # {} => p <= at[r] /\ batch[r][p].res \in Triggered
    /\ pc[r] = "done" /\ ~failed[r] /\ batch[r][p].res \in Triggered => RunsOf(r, p) # {}

(* The committed rows are those of atomic batches: nobody sees a part of one, the    *)
(* edits of a batch see the earlier ones, and no concurrent update is lost.          *)
Atomic == INSTANCE AtomicBatches WITH upto <- at

ImplementsAtomicBatches == Atomic!Spec

-----------------------------------------------------------------------------
(* The event loop serves every request that has started and every trigger run, a     *)
(* database grants a row to a statement that keeps waiting for it, and a delivery    *)
(* ends: its client has a timeout.                                                    *)
Fairness ==
  \A r \in Request : SF_vars(Handle(r)) /\ WF_vars(DeliverSome(r))

FairSpec == Spec /\ Fairness

(* Every request is answered: a raise releases what it holds, a cycle of waits within *)
(* an engine is broken, and batches of the instance reach engines in one order.       *)
RequestEnds == \A r \in Request : pc[r] \notin {"idle", "done"} ~> pc[r] = "done"

=============================================================================
