------------------------------ MODULE Background ------------------------------
(***************************************************************************)
(* The life of an application's background parts: a manifest               *)
(* (core/manifest.py) enters its managers and then its resources, in       *)
(* order, and exits them in the reverse order, under the server's lifespan *)
(* (http/app.py) or, without the scheduler and the resources, under the    *)
(* tasks command (tasks/cli.py).  Its parts are the scheduler (Scheduler), *)
(* the channel and a triggered resource or dependency builder (Realtime),  *)
(* the SQL engines (SessionManager), and others that can fail.  Tasks      *)
(* write through the triggered resource too.                               *)
(***************************************************************************)
EXTENDS Scheduler, Realtime, SessionManager

CONSTANTS
  Manifests,  \* what an application declares
  Writers     \* the tasks that write through the triggered resource

(* Bounds of each manifest: the ticks that pass (horizon), how often it is entered    *)
(* (starts).  Another manager and a plain resource may raise when entered or exited. *)
Fallible == {"manager", "resource"}

Part == {"scheduler", "channel", "redis", "database", "builder", "triggered"} \cup Fallible
ResourcePart == {"triggered", "resource"}

FieldItem == [base : {"", "*", "value", "range"}, from : Int, to : Int, step : Nat \cup {NoStep}]

Entry == [name : STRING, enabled : BOOLEAN,
          schedule : [name : STRING, fields : Seq(Seq(FieldItem))]]

ASSUME ManifestAssumption ==
  /\ \A m \in Manifests :
       /\ DOMAIN m = {"managers", "resources", "tasks", "enabled", "background", "hooked",
                      "references", "posture", "resolver", "horizon", "starts"}
       /\ m.managers \in Seq(Part \ ResourcePart) /\ m.resources \in Seq(ResourcePart)
       /\ \A i, j \in DOMAIN m.managers :
            m.managers[i] = m.managers[j] => i = j \/ m.managers[i] \in Fallible
       /\ {m.enabled, m.background, m.hooked, m.references} \subseteq BOOLEAN
       /\ m.tasks \in Seq(Entry) /\ m.horizon \in 0 .. Horizon
       /\ m.posture \in {"open", "optional", "required"} /\ m.resolver \in Resolver
       /\ m.starts \in Nat

VARIABLES
  manifest,  \* the declaration: managers, resources, and how each is set up
  mode,      \* the server, or the tasks command
  phase,     \* of the manifest
  opened,    \* the parts that are entered, in order
  targets,   \* the tasks the command has still to run
  starts     \* bound

lifeVars == <<manifest, mode, phase, opened, targets, starts>>
vars == <<schedulerVars, realtimeVars, sessionVars, lifeVars>>

-----------------------------------------------------------------------------
Phases == {"rejected", "off", "entering", "on", "exiting", "broken"}

Declares(part) == part \in ToSet(manifest.managers \o manifest.resources)

(* The constructor of a scheduler rejects its tasks before there is an application. *)
Init ==
  \E m \in Manifests :
    /\ manifest = m
    /\ SchedulerInit(m.tasks)
    /\ RealtimeInit("redis" \in ToSet(m.managers), m.resolver)
    /\ SessionsInit
    /\ mode = "server"
    /\ phase = IF Constructible(m.tasks) THEN "off" ELSE "rejected"
    /\ opened = <<>>
    /\ targets = <<>>
    /\ starts = 0

Streams == Declares("channel") \/ Declares("redis")

IsOpen(part) == part \in ToSet(opened)

(* The parts to enter, in order: the command leaves out the scheduler and the resources. *)
Sequence == IF mode = "server" THEN manifest.managers \o manifest.resources
            ELSE RemoveFirst(manifest.managers, "scheduler")

(* The tasks command needs a scheduler in the manifest it loads. *)
Modes == {"server"} \cup (IF Declares("scheduler") THEN {"command"} ELSE {})

(* Manifest.__aenter__ is called: it checks the references before it enters anything. *)
Start ==
  /\ phase = "off" /\ starts < manifest.starts
  /\ \E m \in Modes :
       /\ mode' = m
       /\ phase' = IF m = "server" /\ ~manifest.references THEN "broken" ELSE "entering"
  /\ starts' = starts + 1
  /\ UNCHANGED <<schedulerVars, realtimeVars, sessionVars, manifest, opened, targets>>

(* The next part's __aenter__. *)
Enter ==
  /\ phase = "entering" /\ Len(opened) < Len(Sequence)
  /\ LET part == Sequence[Len(opened) + 1]
     IN  /\ opened' = Append(opened, part)
         /\ IF part = "scheduler" THEN EnterScheduler(manifest.enabled) ELSE UNCHANGED schedulerVars
         /\ IF part = "database" THEN EnterSessions ELSE UNCHANGED sessionVars
         /\ IF part = "redis" THEN OpenChannel ELSE UNCHANGED realtimeVars
  /\ UNCHANGED <<manifest, mode, phase, targets, starts>>

(* It raises: __aexit__ is not called, and what was entered before stays entered; the *)
(* command's exit stack unwinds.                                                      *)
FailEnter ==
  /\ phase = "entering" /\ Len(opened) < Len(Sequence)
  /\ Sequence[Len(opened) + 1] \in Fallible
  /\ phase' = IF mode = "server" THEN "broken" ELSE "exiting"
  /\ UNCHANGED <<schedulerVars, realtimeVars, sessionVars, manifest, mode, opened, targets, starts>>

(* Every part is entered: the server serves; the command runs the tasks it was given, *)
(* and an unknown name raises.                                                        *)
Serve ==
  /\ phase = "entering" /\ opened = Sequence
  /\ phase' = "on"
  /\ \E name \in Names \cup {"", "unknown"} :
       targets' = IF mode = "server" THEN <<>>
                  ELSE SetToSortSeq(RunOnceTargets(name), LAMBDA i, j : i < j)
  /\ UNCHANGED <<schedulerVars, realtimeVars, sessionVars, manifest, mode, opened, starts>>

(* Who writes: a request, a task that the command runs, or a run of the scheduler. *)
Request == [task |-> "", at |-> -1]
Command == [task |-> "", at |-> -2]

(* It waits for its triggers. *)
Awaits(writer) == \E d \in deliveries : d.inline /\ d.by = writer

(* run_once: the tasks run one after the other, each to its end. *)
EndTarget ==
  /\ phase = "on" /\ targets # <<>>
  /\ ~Awaits(Command)
  /\ targets' = Tail(targets)
  /\ UNCHANGED <<schedulerVars, realtimeVars, sessionVars, manifest, mode, phase, opened, starts>>

(* The lifespan ends when the requests have been answered, the command when its tasks *)
(* have run.                                                                          *)
Stop ==
  /\ phase = "on" /\ targets = <<>> /\ ~Awaits(Request)
  /\ \A c \in Client, l \in Lookups \ {"socket"} : fetch[c][l] = None
  /\ phase' = "exiting"
  /\ UNCHANGED <<schedulerVars, realtimeVars, sessionVars, manifest, mode, opened, targets, starts>>

(* What a part's __aexit__ does.  The runs a task awaits are cancelled with it. *)
Effect(part, raises) ==
  /\ IF part = "scheduler" THEN ExitScheduler ELSE UNCHANGED schedulerVars
  /\ IF part = "database" THEN ExitSessions(raises) ELSE UNCHANGED sessionVars
  /\ CASE part \in {"channel", "redis"} -> CloseChannel
       [] part \in {"triggered", "builder"} ->
            aclose /\ UNCHANGED <<log, channel, queue, clientVars, rights, edits, messages>>
       [] part = "scheduler" ->
            /\ deliveries' = {d \in deliveries : ~(d.inline /\ d.by \in runs)}
            /\ UNCHANGED <<log, channel, queue, clientVars, rights, edits, messages>>
       [] OTHER -> UNCHANGED realtimeVars

(* Exiting a fallible part or engines may raise, and exiting a failed loop does. *)
MayRaise(part) ==
  IF part = "scheduler" THEN {scheduler.loop.state = "failed"}
  ELSE IF part \in Fallible \cup {"database"} THEN BOOLEAN ELSE {FALSE}

(* The last part's __aexit__.  When it raises the manifest stops there; the command's *)
(* exit stack goes on.                                                                *)
Exit ==
  /\ phase = "exiting" /\ opened # <<>>
  /\ \E raises \in MayRaise(Last(opened)) :
       /\ Effect(Last(opened), raises)
       /\ phase' = IF raises /\ mode = "server" THEN "broken" ELSE "exiting"
  /\ opened' = Front(opened)
  /\ UNCHANGED <<manifest, mode, targets, starts>>

(* Everything is exited.  The command's process ends with all that still runs in it. *)
Off ==
  /\ phase = "exiting" /\ opened = <<>>
  /\ phase' = "off"
  /\ IF mode = "command" THEN deliveries' = {} /\ undisposed' = {}
     ELSE UNCHANGED <<deliveries, undisposed>>
  /\ UNCHANGED <<schedulerVars, sessions, log, channel, queue, clientVars, rights, edits, messages>>
  /\ UNCHANGED <<manifest, mode, opened, targets, starts>>

-----------------------------------------------------------------------------
(* Who can write now: requests while the server serves, the tasks that run. *)
Writing ==
  (IF phase = "on" /\ mode = "server" THEN {Request} ELSE {})
    \cup {r \in runs : r.task \in Writers}
    \cup (IF targets # <<>> /\ table[Head(targets)].name \in Writers THEN {Command} ELSE {})

(* A write of a request or of a task through the service of the triggered resource, or *)
(* of the resource that the builder wraps: it fires when the write has returned.       *)
Write ==
  /\ edits < MaxEdits
  /\ Declares("triggered") \/ Declares("builder")
  /\ \E by \in Writing, kind \in Kinds, p \in Path, class \in Class, found \in BOOLEAN :
       /\ by # Request => ~Awaits(by)
       /\ Fire(by, ~manifest.background,
               IF Streams THEN Events(kind, p, class, found) ELSE <<>>,
               manifest.hooked)
  /\ UNCHANGED <<schedulerVars, sessionVars, lifeVars>>

(* Clients come while the server serves, and only to a hub with a channel. *)
ClientConnects ==
  /\ phase = "on" /\ mode = "server" /\ Streams
  /\ \E c \in Client : Connect(c, manifest.posture)
  /\ UNCHANGED <<schedulerVars, sessionVars, lifeVars>>

(* Bound: what principals may read is looked up by requests, invalidated and changed *)
(* while the server serves.                                                          *)
PrincipalsChange ==
  /\ phase = "on" /\ mode = "server" /\ Streams
  /\ \E c \in Client : PrincipalStep(c)
  /\ UNCHANGED <<schedulerVars, sessionVars, lifeVars>>

(* A request or a task asks for a session: the engine is made the first time. *)
AskSession ==
  /\ runs # {} \/ phase = "on"
  /\ \E name \in Configured \cup {Default} : get_session_maker(name)
  /\ UNCHANGED <<schedulerVars, realtimeVars, lifeVars>>

Lifecycle ==
  Start \/ Enter \/ FailEnter \/ Serve \/ EndTarget \/ Stop \/ Exit \/ Off

Next ==
  \/ Lifecycle
  \/ Write
  \/ AskSession
  \/ ClientConnects
  \/ PrincipalsChange
  \/ /\ SchedulerNext
     /\ elapsed' <= manifest.horizon
     /\ \A r \in runs \ runs' : ~Awaits(r)
     /\ UNCHANGED <<realtimeVars, sessionVars, lifeVars>>
  \/ RealtimeNext /\ UNCHANGED <<schedulerVars, sessionVars, lifeVars>>

Spec == Init /\ [][Next]_vars

-----------------------------------------------------------------------------
TypeOK ==
  /\ phase \in Phases /\ mode \in {"server", "command"}
  /\ IsPrefix(opened, Sequence)
  /\ scheduler.entered <=> IsOpen("scheduler")
  /\ sessions.entered <=> IsOpen("database")
  /\ scheduler.loop.state \in {"none", "asleep", "idle", "failed"}
  /\ runs \subseteq fired
  /\ log \in Seq(Event)
  /\ \A c \in Client :
       /\ Phase(c) \in {"away", "open", "gone", "closed"}
       /\ conn[c].reader \in {"off", "on", "ended"}
       /\ subs[c] \in [Path -> Filter] /\ cache[c] \in [Path -> {None} \cup Filter]
       /\ grants[c] \in GrantsUnder(resolver)
       /\ ToSet(queue[c]) \cup ToSet(told[c]) \cup taken[c] \subseteq DOMAIN log
       /\ queue[c] # <<>> => conn[c].reader = "on"
       /\ c \in channel.members => conn[c].reader = "on"
  /\ \A d \in deliveries : d.posts \in 0 .. Retries + 1 /\ d.events \in Seq(Event)

(* What a part started ends with it: no loop and no run of the scheduler once it is    *)
(* exited, no queue in a closed channel, no engine but one whose disposal raised or    *)
(* came after one that did, and no trigger run that a request started     *)
(* once the runner's owner is exited ("cancelled only at app shutdown",                *)
(* trigger_runner.py:12-13).  The scheduler is a manager and is exited after the       *)
(* resources, so a task may still fire a trigger that nothing cancels: the exception.  *)
NothingOutlivesItsOwner ==
  /\ ~scheduler.entered => scheduler.loop.state = "none" /\ runs = {}
  /\ channel.closed => channel.members = {}
  /\ phase \in {"off", "exiting", "broken"} /\ ~IsOpen("triggered") /\ ~IsOpen("builder") =>
       \A d \in deliveries : d.by # Request
  /\ phase = "off" => \A d \in deliveries : ~d.inline
  /\ ~sessions.entered => sessions.engines = {}
  /\ undisposed # {} => phase = "broken" \/ mode = "command"
=============================================================================
