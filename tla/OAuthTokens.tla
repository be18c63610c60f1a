----------------------------- MODULE OAuthTokens -----------------------------
(***************************************************************************)
(* The stored OAuth credential of one (principal, client) pair             *)
(* (auth/auth_oauth_token.py) and the requests that log in, refresh and    *)
(* revoke it, in one or several processes.                                 *)
(*                                                                         *)
(* Each request is one transaction of its own session, committed when its  *)
(* `async with` block ends and rolled back when it raises.  The database   *)
(* runs at READ COMMITTED: a write waits for the transaction that wrote    *)
(* the row, then evaluates its WHERE on the row as it is.  The only write  *)
(* that is held over an await is the refresh lease; the last statement of  *)
(* a transaction and its commit are one step.                              *)
(***************************************************************************)
EXTENDS Integers

CONSTANTS
  Request,        \* concurrent requests, each served again and again
  None,           \* SQL NULL
  NoRow,          \* the absence of the row
  Lifetime,       \* seconds an access token lives
  Skew,           \* refresh's `skew`
  LeaseSeconds,   \* lease_seconds
  PollAttempts,   \* _REFRESH_POLL_ATTEMPTS
  MaxTime,        \* bound: the last instant of the clock
  MaxTokens,      \* bound: refresh tokens the provider issues
  MaxFaults       \* bound: dead requests, lost answers, answers without a refresh token

Tokens == 1 .. MaxTokens

Time == 0 .. MaxTime

(* A row: its id is the number of the token it was inserted with (uuid4 is unique too). *)
Row == [ id      : Tokens,
         refresh : Tokens \cup {None},
         expires : Nat,
         owner   : Request \cup {None},
         until   : Nat \cup {None} ]

ASSUME TokenAssumption ==
  /\ {Lifetime, Skew, LeaseSeconds, PollAttempts, MaxTime, MaxTokens, MaxFaults} \subseteq Nat
  /\ None \notin Request \cup Nat
  /\ NoRow \notin Row

VARIABLES
  now,       \* the clock
  row,       \* the committed row
  valid,     \* the refresh tokens the provider accepts
  issued,    \* how many it has issued
  pc,        \* where each request stands
  current,   \* what it read: the refresh token, or for a login the row's id
  fetched,   \* the refresh token the provider answered with
  lease,     \* the row with the request's uncommitted lease: also its lock on the row
  polls,     \* polls made by _await_fresh
  faults     \* bound

vars == <<now, row, valid, issued, pc, current, fetched, lease, polls, faults>>

provider == <<valid, issued>>
locals == <<current, fetched, lease, polls>>

-----------------------------------------------------------------------------
Labels == {"idle", "claim", "exchange", "store", "poll", "lookup", "write", "overwrite"}

Init ==
  /\ now = 0
  /\ row = NoRow
  /\ valid = {}
  /\ issued = 0
  /\ pc = [s \in Request |-> "idle"]
  /\ current = [s \in Request |-> None]
  /\ fetched = [s \in Request |-> None]
  /\ lease = [s \in Request |-> NoRow]
  /\ polls = [s \in Request |-> 0]
  /\ faults = 0

Goto(s, label) == pc' = [pc EXCEPT ![s] = label]

LockedFor(s) == \E o \in Request \ {s} : lease[o] # NoRow

(* Mutant: an error leaves the session open, its locks held. *)
EndRequest_SessionLeaks(s) ==
  /\ Goto(s, "idle")
  /\ current' = [current EXCEPT ![s] = None]
  /\ fetched' = [fetched EXCEPT ![s] = None]
  /\ UNCHANGED lease
  /\ polls' = [polls EXCEPT ![s] = 0]

(* The response: the session is closed, its transaction committed or rolled back. *)
EndRequest(s) ==
  /\ Goto(s, "idle")
  /\ current' = [current EXCEPT ![s] = None]
  /\ fetched' = [fetched EXCEPT ![s] = None]
  /\ lease' = [lease EXCEPT ![s] = NoRow]
  /\ polls' = [polls EXCEPT ![s] = 0]

(* Mutant: an answer without expires_in is stored as it is. *)
Stored_NoExpiry(id, token) ==
  [id |-> id, refresh |-> token, expires |-> None, owner |-> None, until |-> None]

(* The values `store` writes: the lease is cleared with them. *)
Stored(id, token) ==
  [id |-> id, refresh |-> token, expires |-> now + Lifetime, owner |-> None, until |-> None]

(* A new row gets an id that no row had: it takes the number of a token of its own. *)
Inserted(s) == Stored(IF fetched[s] = None THEN current[s] ELSE fetched[s], fetched[s])

-----------------------------------------------------------------------------
(* refresh *)

(* get: a missing row is an error and a token outside the skew is returned as it is; *)
(* both end the request and change nothing.                                          *)
ReadStale(s) ==
  /\ pc[s] = "idle"
  /\ row # NoRow /\ row.expires <= now + Skew
  /\ current' = [current EXCEPT ![s] = row.refresh]
  /\ Goto(s, "claim")
  /\ UNCHANGED <<now, row, provider, fetched, lease, polls, faults>>

(* Mutant: the lease is looked at, not taken. *)
Leased_ReadOnly(s) == NoRow

(* The row as the claim leaves it. *)
Leased(s) == [row EXCEPT !.owner = s, !.until = now + LeaseSeconds]

(* _claim: the row count of the conditional UPDATE is the answer. *)
Claim(s) ==
  /\ pc[s] = "claim"
  /\ ~LockedFor(s)
  /\ IF row # NoRow /\ (row.owner = None \/ row.until < now)
     THEN /\ lease' = [lease EXCEPT ![s] = Leased(s)]
          /\ Goto(s, "exchange")
     ELSE /\ Goto(s, "poll")
          /\ UNCHANGED lease
  /\ UNCHANGED <<now, row, provider, current, fetched, polls, faults>>

(* provider.refresh succeeds: the refresh token is single-use, and rotated. *)
Exchange(s) ==
  /\ pc[s] = "exchange"
  /\ current[s] \in valid
  /\ issued < MaxTokens
  /\ issued' = issued + 1
  /\ valid' = (valid \ {current[s]}) \cup {issued'}
  /\ fetched' = [fetched EXCEPT ![s] = issued']
  /\ Goto(s, "store")
  /\ UNCHANGED <<now, row, current, lease, polls, faults>>

(* A provider that keeps the refresh token valid answers without one. *)
ExchangeKept(s) ==
  /\ pc[s] = "exchange"
  /\ current[s] \in valid
  /\ faults < MaxFaults
  /\ faults' = faults + 1
  /\ Goto(s, "store")
  /\ UNCHANGED <<now, row, provider, locals>>

(* The provider refuses the token, or answers with any other error: refresh revokes *)
(* the row and raises, and the session that raises rolls the revocation back.       *)
Refused(s) ==
  /\ pc[s] = "exchange"
  /\ EndRequest(s)
  /\ UNCHANGED <<now, row, provider, faults>>

(* The answer is lost on its way, before or after the provider rotated its token. *)
AnswerLost(s) ==
  /\ pc[s] = "exchange"
  /\ faults < MaxFaults
  /\ faults' = faults + 1
  /\ valid' \in {valid, valid \ {current[s]}}
  /\ EndRequest(s)
  /\ UNCHANGED <<now, row, issued>>

(* Mutant: the refreshed token is stored without the provider's new refresh token. *)
Refreshed_KeepsOld(s) == Stored(row.id, current[s])

(* What the request stores after its exchange. *)
Refreshed(s) == Stored(row.id, fetched[s])

(* store, and the commit.  Its own claim has locked the row it finds. *)
Store(s) ==
  /\ pc[s] = "store"
  /\ ~LockedFor(s)
  /\ row' = IF row = NoRow THEN Inserted(s) ELSE Refreshed(s)
  /\ EndRequest(s)
  /\ UNCHANGED <<now, provider, faults>>

(* _await_fresh, one poll: a missing row or a fresh one ends it, and so does the last. *)
Poll(s) ==
  /\ pc[s] = "poll"
  /\ IF row = NoRow \/ row.expires > now \/ polls[s] + 1 >= PollAttempts
     THEN EndRequest(s)
     ELSE /\ polls' = [polls EXCEPT ![s] = @ + 1]
          /\ UNCHANGED <<pc, current, fetched, lease>>
  /\ UNCHANGED <<now, row, provider, faults>>

-----------------------------------------------------------------------------
(* The login callback *)

(* exchange_code: the provider issues a grant. *)
ExchangeCode(s) ==
  /\ pc[s] = "idle"
  /\ issued < MaxTokens
  /\ issued' = issued + 1
  /\ valid' = valid \cup {issued'}
  /\ fetched' = [fetched EXCEPT ![s] = issued']
  /\ Goto(s, "lookup")
  /\ UNCHANGED <<now, row, current, lease, polls, faults>>

(* _resolve_principal refuses an identity nobody has linked. *)
Unlinked(s) ==
  /\ pc[s] = "lookup"
  /\ EndRequest(s)
  /\ UNCHANGED <<now, row, provider, faults>>

(* store reads the row there is. *)
Lookup(s) ==
  /\ pc[s] = "lookup"
  /\ current' = [current EXCEPT ![s] = IF row = NoRow THEN None ELSE row.id]
  /\ Goto(s, "write")
  /\ UNCHANGED <<now, row, provider, fetched, lease, polls, faults>>

(* The UPDATE of the row that was read; it writes nothing if that row is gone. *)
UpdateById(s) ==
  /\ pc[s] = "write" /\ current[s] # None
  /\ ~LockedFor(s)
  /\ row' = IF row # NoRow /\ row.id = current[s] THEN Stored(row.id, fetched[s]) ELSE row
  /\ EndRequest(s)
  /\ UNCHANGED <<now, provider, faults>>

(* The INSERT in a savepoint, when there was no row. *)
Insert(s) ==
  /\ pc[s] = "write" /\ current[s] = None
  /\ ~LockedFor(s)
  /\ row = NoRow
  /\ row' = Inserted(s)
  /\ EndRequest(s)
  /\ UNCHANGED <<now, provider, faults>>

(* IntegrityError: somebody inserted the pair first. *)
InsertRaced(s) ==
  /\ pc[s] = "write" /\ current[s] = None
  /\ row # NoRow
  /\ Goto(s, "overwrite")
  /\ UNCHANGED <<now, row, provider, locals, faults>>

Overwrite(s) ==
  /\ pc[s] = "overwrite"
  /\ ~LockedFor(s)
  /\ row' = IF row # NoRow THEN Stored(row.id, fetched[s]) ELSE row
  /\ EndRequest(s)
  /\ UNCHANGED <<now, provider, faults>>

-----------------------------------------------------------------------------
(* revoke and revoke_all, and what ends a request from outside *)

Revoke(s) ==
  /\ pc[s] = "idle"
  /\ row # NoRow /\ ~LockedFor(s)
  /\ row' = NoRow
  /\ UNCHANGED <<now, provider, pc, locals, faults>>

(* The client disconnects or the process dies: the transaction rolls back. *)
Die(s) ==
  /\ pc[s] # "idle"
  /\ faults < MaxFaults
  /\ faults' = faults + 1
  /\ EndRequest(s)
  /\ UNCHANGED <<now, row, provider>>

Tick ==
  /\ now < MaxTime
  /\ now' = now + 1
  /\ UNCHANGED <<row, provider, pc, locals, faults>>

-----------------------------------------------------------------------------
RefreshStep(s) ==
  \/ Claim(s) \/ Exchange(s) \/ Refused(s) \/ Store(s) \/ Poll(s)

LoginStep(s) ==
  \/ Unlinked(s) \/ Lookup(s) \/ UpdateById(s) \/ Insert(s) \/ InsertRaced(s) \/ Overwrite(s)

Next ==
  \/ \E s \in Request : ReadStale(s) \/ RefreshStep(s) \/ ExchangeKept(s) \/ AnswerLost(s)
  \/ \E s \in Request : ExchangeCode(s) \/ LoginStep(s)
  \/ \E s \in Request : Revoke(s) \/ Die(s)
  \/ Tick

Spec == Init /\ [][Next]_vars

-----------------------------------------------------------------------------
(* Every variable stays in its range. *)
TypeOK ==
  /\ now \in Time
  /\ row \in Row \cup {NoRow}
  /\ valid \subseteq Tokens
  /\ issued \in 0 .. MaxTokens
  /\ pc \in [Request -> Labels]
  /\ current \in [Request -> Tokens \cup {None}]
  /\ fetched \in [Request -> Tokens \cup {None}]
  /\ lease \in [Request -> Row \cup {NoRow}]
  /\ polls \in [Request -> 0 .. PollAttempts]
  /\ faults \in 0 .. MaxFaults

(* "At most one refresher runs at a time per (principal, client)": two requests never *)
(* both have the provider exchange, or are about to store, a token of the pair.  Nor    *)
(* does a lease outlive its owner: it and what it guards are one transaction, so no     *)
(* other session ever sees a leased row, and nobody waits for it to expire.              *)
LeaseStaysPrivate == row # NoRow => row.owner = None

OneRefresher ==
  /\ \A s, o \in Request :
       {pc[s], pc[o]} \subseteq {"exchange", "store"} => s = o
  /\ LeaseStaysPrivate

(* No rotated token is lost: unless an answer or a request is, or an answer comes      *)
(* without one, the provider accepts the stored refresh token, or the one refresher    *)
(* has its successor in hand.                                                            *)
CredentialAlive ==
  faults = 0 /\ row # NoRow =>
    \/ row.refresh \in valid
    \/ \E s \in Request : pc[s] = "store" /\ fetched[s] \in valid

(* A refresh in flight never brings back a credential that was revoked: only a login   *)
(* makes a row.                                                                         *)
NoResurrection ==
  [][row = NoRow /\ row' # NoRow => \E s \in Request : pc[s] = "write"]_vars

-----------------------------------------------------------------------------
(* A request is served while its process lives, and the database grants a row to a    *)
(* write that keeps waiting for it.                                                     *)
Fairness ==
  \A s \in Request : SF_vars(RefreshStep(s) \/ LoginStep(s))

FairSpec == Spec /\ Fairness

(* No request hangs behind another's refresh, whatever becomes of that one. *)
RequestEnds == \A s \in Request : pc[s] # "idle" ~> pc[s] = "idle"

-----------------------------------------------------------------------------
(* What the documents say and the code does not do *)

(* "A refresh failure (a rotated-and-invalidated token) marks the row revoked and      *)
(* requires re-authentication."                                                         *)
RevokedOnFailure == [][\A s \in Request : Refused(s) => row' = NoRow]_vars

=============================================================================
