------------------------------ MODULE Scheduler ------------------------------
(***************************************************************************)
(* The background-task scheduler (tasks/scheduler.py): one loop sleeps to  *)
(* the earliest next fire of its active tasks, wakes, starts the tasks     *)
(* that match the minute it woke in and plans again; the runs it started   *)
(* go on beside it.                                                        *)
(*                                                                         *)
(* Time passes in ticks, several to a minute.  The clock on the wall shows *)
(* the ticks that have elapsed, moved by what its zone does: the loop      *)
(* reads the wall, and a sleep lasts as long as it asks for.               *)
(***************************************************************************)
EXTENDS Cron

CONSTANTS
  TicksPerMinute,
  Latency,       \* bound: the ticks by which a wake-up may be late, less than a minute
  Horizon,       \* bound: the ticks that elapse
  ClockChange    \* the zone moves the wall clock by so many ticks at a tick

ASSUME ClockAssumption ==
  /\ TicksPerMinute \in Nat \ {0} /\ Horizon \in Nat
  /\ Latency \in 0 .. TicksPerMinute - 1
  /\ ClockChange \in [at : Nat, by : Int]

VARIABLES
  table,      \* the registered tasks, in order: name, schedule, enabled
  elapsed,    \* the ticks since the process started
  scheduler,  \* entered, its loop, when that wakes and since when it runs
  runs,       \* the runs in flight
  fired       \* the runs its loop has started

schedulerVars == <<table, elapsed, scheduler, runs, fired>>

-----------------------------------------------------------------------------
Unscheduled == [name |-> "unscheduled", fields |-> <<>>]

Names == {table[i].name : i \in DOMAIN table}

(* What the constructor accepts: assert_unique_names and parse_cron. *)
Constructible(tasks) ==
  /\ \A i, j \in DOMAIN tasks : tasks[i].name = tasks[j].name => i = j
  /\ \A i \in DOMAIN tasks :
       tasks[i].schedule = Unscheduled \/ Parses(tasks[i].schedule)

(* The enabled tasks that have a schedule. *)
Active == {i \in DOMAIN table : table[i].enabled /\ table[i].schedule # Unscheduled}

_schedules(i) == parse_cron(table[i].schedule)

Wall(e) == IF e < ClockChange.at THEN e ELSE e + ClockChange.by

WallMinute(e) == Wall(e) \div TicksPerMinute

Loop(state, wakeAt) == [state |-> state, wakeAt |-> wakeAt]

_upcoming(now) == {next_fire(_schedules(i), now) : i \in Active}

(* Where the loop stands when it has planned at tick e.  The sleep is the difference  *)
(* of two readings of the wall.  A CronError of next_fire ends the loop.              *)
Planned(e) ==
  LET upcoming == _upcoming(WallMinute(e))
  IN  IF upcoming = {} THEN Loop("idle", 0)
      ELSE IF NoFire \in upcoming THEN Loop("failed", 0)
      ELSE Loop("asleep", e + (Min(upcoming) * TicksPerMinute - Wall(e)))

Closed == [entered |-> FALSE, loop |-> Loop("none", 0), since |-> 0]

SchedulerInit(tasks) ==
  /\ table = tasks
  /\ elapsed = 0
  /\ scheduler = Closed
  /\ runs = {}
  /\ fired = {}

(* __aenter__ *)
EnterScheduler(starts) ==
  /\ scheduler' = [entered |-> TRUE, since |-> elapsed,
                   loop |-> IF starts THEN Planned(elapsed) ELSE Loop("none", 0)]
  /\ fired' = {}
  /\ UNCHANGED <<table, elapsed, runs>>

(* __aexit__: the loop and the runs in flight are cancelled.  It raises what ended a failed loop. *)
ExitScheduler ==
  /\ scheduler' = Closed
  /\ runs' = {}
  /\ UNCHANGED <<table, elapsed, fired>>

(* The tasks that tick starts at minute now. *)
Starts(now) == {i \in Active : matches(_schedules(i), now)}

(* The loop wakes, ticks and plans its next sleep. *)
Wake ==
  /\ scheduler.loop.state = "asleep"
  /\ elapsed >= scheduler.loop.wakeAt
  /\ LET started == {[task |-> table[i].name, at |-> elapsed] : i \in Starts(WallMinute(elapsed))}
     IN  runs' = runs \cup started /\ fired' = fired \cup started
  /\ scheduler' = [scheduler EXCEPT !.loop = Planned(elapsed)]
  /\ UNCHANGED <<table, elapsed>>

(* A run ends, by returning or by an exception that _invoke logs. *)
EndRun(r) ==
  /\ r \in runs
  /\ runs' = runs \ {r}
  /\ UNCHANGED <<table, elapsed, scheduler, fired>>

(* Time passes, but the loop does not oversleep by more than Latency. *)
Pass ==
  /\ elapsed < Horizon
  /\ scheduler.loop.state = "asleep" => elapsed < scheduler.loop.wakeAt + Latency
  /\ elapsed' = elapsed + 1
  /\ UNCHANGED <<table, scheduler, runs, fired>>

(* run_once: the task of that name, or every enabled one. *)
RunOnceTargets(name) ==
  IF name # "" THEN {i \in DOMAIN table : table[i].name = name}
  ELSE {i \in DOMAIN table : table[i].enabled}

SchedulerNext == Wake \/ Pass \/ \E r \in runs : EndRun(r)

-----------------------------------------------------------------------------
(* What the documents promise *)

(* The values that an item of a field lists. *)
Listed(item, i, v) ==
  IF item.base = "value" THEN v = item.from \/ (i = Weekday /\ v + DaysPerWeek = item.from)
  ELSE \E k \in 0 .. v : v = From(item, i) + k * Step(item) /\ v <= Upto(item, i)

(* The minute is one that the expression names: every field lists its part of the     *)
(* minute, and the days of the month and of the week are alternatives.                *)
Due(expression, t) ==
  LET f == Fields(expression)
      has(i, v) == \E j \in DOMAIN f[i] : Listed(f[i][j], i, v)
      dated == has(3, DateOf(t))
      weekday == has(Weekday, _cron_weekday(t))
  IN  /\ has(1, MinuteOf(t)) /\ has(2, HourOf(t)) /\ has(4, MonthOf(t))
      /\ IF Star \in {f[3], f[5]} THEN dated /\ weekday ELSE dated \/ weekday

(* The ticks since the loop started at which a minute that task i is due in began. *)
DueTicks(i) ==
  {e \in scheduler.since + 1 .. elapsed :
    WallMinute(e) # WallMinute(e - 1) /\ Due(table[i].schedule, WallMinute(e))}

(* The loop fires each active task in every minute its schedule names and in no other *)
(* ("fires each active, scheduled task on its cron schedule", scheduler.py:6-7), once  *)
(* and within the bound on late wake-ups, and never sleeps past its next fire.  Not    *)
(* when one of the schedules names no minute at all: that ends the loop for every task. *)
OnSchedule ==
  scheduler.loop.state \in {"asleep", "idle"} =>
    /\ scheduler.loop.state = "asleep" =>
         elapsed \in scheduler.since .. scheduler.loop.wakeAt + Latency
    /\ \A i \in Active :
         LET ticks == {r.at : r \in {f \in fired : f.task = table[i].name}}
             prompt(a, e) == e <= a /\ a <= e + Latency
         IN  /\ \A e \in DueTicks(i) : e + Latency < elapsed =>
                  \E a \in ticks : prompt(a, e) /\ \A b \in ticks : prompt(b, e) => a = b
             /\ \A a \in ticks : \E e \in DueTicks(i) : prompt(a, e)
=============================================================================
