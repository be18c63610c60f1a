---------------------------- MODULE SessionManager ----------------------------
(***************************************************************************)
(* The manager of the SQL engines (sql/session_manager.py): it makes the   *)
(* engine of a configured connection when a session maker is first asked   *)
(* for, and disposes of them all when it is exited.                        *)
(***************************************************************************)
EXTENDS Sequences

CONSTANTS
  Connections,  \* the names of the configured connections, in order
  Default       \* the name is left out

ASSUME ConnectionsAssumption == Connections \in Seq(STRING)

VARIABLES
  sessions,   \* entered, and the connections with an engine
  undisposed  \* the engines that were forgotten and are open

sessionVars == <<sessions, undisposed>>

-----------------------------------------------------------------------------
Configured == {Connections[i] : i \in DOMAIN Connections}

(* Without a name it is the first connection. *)
_resolve_connection(name) == IF name = Default THEN Connections[1] ELSE name

SessionsInit ==
  /\ sessions = [entered |-> FALSE, engines |-> {}]
  /\ undisposed = {}

EnterSessions ==
  /\ sessions' = [sessions EXCEPT !.entered = TRUE]
  /\ UNCHANGED undisposed

(* It raises outside the lifecycle, without connections and for an unknown name. *)
get_session_maker(name) ==
  /\ sessions.entered
  /\ name \in Configured \cup (IF Connections = <<>> THEN {} ELSE {Default})
  /\ sessions' = [sessions EXCEPT !.engines = @ \cup {_resolve_connection(name)}]
  /\ UNCHANGED undisposed

(* The engines are disposed of one after the other: when one raises, it and the ones   *)
(* after it stay open, and nobody knows them any more.                                 *)
ExitSessions(raises) ==
  /\ raises => sessions.engines # {}
  /\ \E rest \in SUBSET sessions.engines :
       /\ raises = (rest # {})
       /\ undisposed' = undisposed \cup rest
  /\ sessions' = [entered |-> FALSE, engines |-> {}]
=============================================================================
