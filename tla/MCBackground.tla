----------------------------- MODULE MCBackground -----------------------------
(***************************************************************************)
(* Instances of Background: a calendar of hours of two minutes, days of    *)
(* two hours, weeks of two days and years of a month of one day and one of   *)
(* two; applications with a scheduler alone, with the channel and its *)
(* clients, with both a scheduler and triggers, and with tasks that are    *)
(* rejected, never due or disabled.                                        *)
(***************************************************************************)
EXTENDS Background

CONSTANT group

Months == <<1, 2>>

NoChange == [at |-> 0, by |-> 0]
(* In the first hour of the second day, an hour forward. *)
SpringForward == [at |-> 10, by |-> MinutesPerHour * TicksPerMinute]

Task(name, schedule, enabled) == [name |-> name, schedule |-> schedule, enabled |-> enabled]

Cron5(minute, hour, day, month, weekday) ==
  [name |-> "", fields |-> <<minute, hour, day, month, weekday>>]

Short(name) == [name |-> name, fields |-> <<>>]

(* The weekday 2 is the first one, and a range up to it is malformed. *)
Sweep == Task("sweep", Cron5(Every(2), Star, Just(2), Star, Just(2)), TRUE)
Digest == Task("digest", Short("daily"), TRUE)
Backup == Task("backup", Cron5(Just(1), <<Item("range", 0, 1, NoStep)>>,
                               Just(2), Just(1) \o Just(2), Star), TRUE)
Manual == Task("manual", Unscheduled, TRUE)
Paused == Task("paused", Short("hourly"), FALSE)
Never == Task("never", Cron5(Just(0), Just(0), Just(2), Just(1), Star), TRUE)
Broken == Task("broken", Cron5(Star, Star, Star, Star, <<Item("range", 1, 2, NoStep)>>), TRUE)

(* Policies of a resource's readers, by the groups they are bound to. *)
Always(filter) == [groups \in SUBSET Group |-> filter]
Members == [groups \in SUBSET Group |-> IF groups = {} THEN NoMatchFilter ELSE AllFilter]
Policies == {Members} \cup {Always(f) : f \in Filter}

NoDefault == [p \in Path |-> Always(NoMatchFilter)]
AllowAll == [stored |-> FALSE, cached |-> FALSE, policies |-> {Always(AllFilter)},
             default |-> [p \in Path |-> Always(AllFilter)]]
Roles == [stored |-> FALSE, cached |-> FALSE,
          policies |-> {Members} \cup {Always({class}) : class \in Class},
          default |-> [p \in Path |-> Always(Class)]]
Stored == [stored |-> TRUE, cached |-> TRUE, policies |-> {Members}, default |-> NoDefault]

App(managers, resources, tasks, horizon) ==
  [managers |-> managers, resources |-> resources, tasks |-> tasks, enabled |-> TRUE,
   background |-> TRUE, hooked |-> FALSE, references |-> TRUE, posture |-> "optional",
   resolver |-> AllowAll,
   horizon |-> horizon, starts |-> 2]

TaskApps == {
  [App(<<"scheduler">>, <<>>, <<Digest>>, Horizon) EXCEPT !.starts = 1],
  [App(<<"scheduler">>, <<>>, <<Sweep>>, Horizon) EXCEPT !.starts = 1],
  [App(<<"scheduler">>, <<"resource">>, <<Backup, Paused, Manual>>, Horizon) EXCEPT !.starts = 1],
  App(<<"database", "scheduler">>, <<"resource">>, <<Digest, Sweep>>, 14),
  App(<<"database", "scheduler">>, <<>>, <<Digest, Never>>, 6),
  App(<<"scheduler">>, <<>>, <<Digest, Digest>>, 0),
  App(<<"scheduler">>, <<>>, <<Broken>>, 0),
  [App(<<"manager", "database", "scheduler">>, <<"resource">>, <<Digest, Manual>>, 2) EXCEPT !.enabled = FALSE],
  [App(<<>>, <<"resource">>, <<>>, 0) EXCEPT !.references = FALSE]}

TriggerApps == {
  [App(<<"scheduler">>, <<"triggered">>, <<Sweep, Manual>>, 6) EXCEPT !.hooked = TRUE],
  [App(<<"scheduler">>, <<"triggered">>, <<Sweep, Manual>>, 6) EXCEPT
    !.hooked = TRUE, !.background = FALSE],
  [App(<<"builder", "database">>, <<"resource">>, <<>>, 0) EXCEPT !.hooked = TRUE]}

StreamApps == {
  [App(<<"channel">>, <<"triggered">>, <<>>, 0) EXCEPT !.posture = "open", !.starts = 1],
  [App(<<"channel">>, <<"triggered">>, <<>>, 0) EXCEPT !.resolver = Stored, !.starts = 1],
  [App(<<"redis">>, <<"triggered">>, <<>>, 0) EXCEPT !.resolver = Roles],
  [App(<<"channel">>, <<"resource">>, <<>>, 0) EXCEPT !.posture = "required"]}

ConnectionNames == <<"main", "audit">>

Apps == TaskApps \cup TriggerApps \cup StreamApps

DailyApps == {[App(<<"scheduler">>, <<>>, <<Digest>>, Horizon) EXCEPT !.starts = 1]}

Symmetry == Permutations(Client) \cup Permutations(Class)
=============================================================================
