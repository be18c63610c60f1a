------------------------------- MODULE Access -------------------------------
(***************************************************************************)
(* Requests to an authorized resource: credentials are authenticated       *)
(* (auth_principal.py, auth_api_key.py, auth_cookie.py), the principal's   *)
(* policies are resolved from roles or from the stored grants, through the *)
(* resolver's cache (auth_role.py, auth_rbac_resolver.py,                  *)
(* auth_rbac_store.py), reduced to a filter (auth_policy.py) and enforced  *)
(* around every operation (auth_authorized_service.py).  Meanwhile keys    *)
(* are revoked and expire, users are disabled, and grants change.  The     *)
(* joins GroupUser -> GroupRole -> RolePermission are one function, from   *)
(* groups to the permissions their roles carry.                            *)
(***************************************************************************)
EXTENDS Integers, FiniteSets, Sequences, SequencesExt

CONSTANTS None,        \* no credential, no row, no principal
          User,        \* user ids: integers
          Group,
          Role,        \* the names of roles that keys carry, some of no role
          Id,          \* the ids rows may have
          Key,         \* the API keys issued
          Client,      \* requests in flight
          Policies,    \* name -> policy: what a role may carry, rows no class reads among them
          Grantable,   \* the names given and taken away while requests run
          RolePolicies,   \* RolePolicyResolver: role -> the names of its policies
          DefaultPolicies,
          Resolvers,   \* of "roles" (RolePolicyResolver) and "grants" (RbacPolicyResolver)
          CacheTtl,    \* RbacPolicyResolver.cache_ttl, 0 for None
          Asks,        \* name -> request: its credentials and what it asks
          Plans,       \* of client -> the names of the requests it may send
          Owners,      \* the owners a written row may have
          Condition,   \* the filters clients send, of a search or on an edit
          InitialRows, InitialKeys, InitialMembers, InitialGrants,
          MaxTime, MaxChanges, MaxInvalidations,   \* bounds
          PolicyFilter(_, _, _, _),     \* what a policy scopes an action to: a search filter
          PolicyAllows(_, _, _, _, _),  \* what a policy says of one row
          OrFilter(_), AndFilter(_),    \* the constructors of search filters
          EmptyFilter,                  \* the filter of no row
          InMemory(_, _),               \* a filter in memory: "true", "false" or "raises"
          InStatement(_, _, _)          \* a filter in a statement, in a polarity

VARIABLES resolver, now, members, grants, keys, users, rows, cache, req, changes, invalidations, past

vars == <<resolver, now, members, grants, keys, users, rows, cache, req, changes, invalidations, past>>

-----------------------------------------------------------------------------
(* Policies.                                                               *)

(* A stored permission of no known class, or malformed, grants nothing.    *)
Readable(p) ==
  Policies[p].kind \in {"AllowAll", "DenyAll", "ReadOnly", "Owner", "GroupMember", "Acl"}

Held == {p \in DOMAIN Policies : Readable(p)}

policies_for(u) == {p \in UNION {grants[g] : g \in members[u]} : Readable(p)}

(* RolePolicyResolver: what the roles carry, the default if that is nothing. *)
PoliciesOfRoles(roles) ==
  LET own == UNION {RolePolicies[r] : r \in roles \cap DOMAIN RolePolicies}
  IN IF own = {} THEN DefaultPolicies ELSE own

(* The reductions of every policy, or-ed: no policy is no row.             *)
Reduced(held, groups, user, action) ==
  OrFilter(SetToSeq({PolicyFilter(Policies[p], groups, user, action) : p \in held}))

Selected(f, x) == InStatement(f, FALSE, x) = "true"

-----------------------------------------------------------------------------
(* What the constants are.                                                 *)

StandardActions == {"create", "read", "update", "delete", "search", "count", "batch_read"}

KeyRow == [owner : User \cup {None}, roles : SUBSET Role, expires_at : Int,
           active : BOOLEAN, ended : 0..MaxChanges]

Row == [id : Id, owner : Owners]

(* A table is a function from the ids of its rows, of which there are finitely many. *)
Tables == {t \in UNION {[ids -> Row] : ids \in SUBSET Id} :
             IsFiniteSet(DOMAIN t) /\ \A i \in DOMAIN t : t[i].id = i}

Edit == [action : {"create", "update", "delete"}, id : Id \cup {None}, owner : Owners,
         condition : Condition \cup {None}]

ASSUME BoundsAssumption == {CacheTtl, MaxTime, MaxChanges, MaxInvalidations} \subseteq Nat

ASSUME NoneAssumption == None \notin User /\ None \notin Id /\ None \notin Condition

ASSUME PoliciesAssumption ==
  /\ InitialMembers \in [User -> SUBSET Group]
  /\ InitialGrants \subseteq [Group -> SUBSET DOMAIN Policies] /\ Grantable \subseteq DOMAIN Policies
  /\ \A r \in DOMAIN RolePolicies : RolePolicies[r] \subseteq Held
  /\ DefaultPolicies \subseteq Held

ASSUME KeysAssumption ==
  InitialKeys \in [Key -> KeyRow] /\ \A k \in Key : InitialKeys[k].ended = MaxChanges

ASSUME AsksAssumption ==
  /\ \A a \in DOMAIN Asks :
       /\ Asks[a].optional \in BOOLEAN
       /\ Asks[a].action \in StandardActions \cup {"custom", "edits"}
       /\ Asks[a].id \in Id /\ Asks[a].owner \in Owners /\ Asks[a].ids \in Seq(Id)
       /\ Asks[a].filter \in Condition \cup {None} /\ Asks[a].edits \in Seq(Edit)
       /\ \A n \in DOMAIN Asks[a].edits :
            Asks[a].edits[n].action = "create" => Asks[a].edits[n].id \in Id
  /\ \A plan \in Plans, c \in Client : plan[c] \subseteq DOMAIN Asks
  /\ InitialRows \in Tables

(* What the filters are: the one that policies reduce to says of a row, in  *)
(* memory and in a statement, what one of the policies says; joined with a  *)
(* client's, that both say yes; and a create is allowed unless it is the    *)
(* filter of no row.                                                       *)
ASSUME FiltersAssumption ==
  \A held \in SUBSET Held, groups \in SUBSET Group, user \in User \cup {None},
     action \in StandardActions \cup {"custom"} :
    LET f == Reduced(held, groups, user, action)
        may(x) == \E p \in held : PolicyAllows(Policies[p], groups, user, action, x)
    IN /\ f # None
       /\ \A x \in Row : /\ InMemory(f, x) = "true" <=> may(x)
                         /\ Selected(f, x) <=> may(x)
                         /\ action = "create" => (f # EmptyFilter <=> may(x))
                         /\ \A g \in Condition :
                              /\ AndFilter(<<f, g>>) # None
                              /\ Selected(AndFilter(<<f, g>>), x) <=> may(x) /\ InMemory(g, x) = "true"

-----------------------------------------------------------------------------
(* Requests.  One has a key, a cookie, both or none, and what it asks.     *)

(* What a session cookie decrypts to: whom it was minted for (nobody when   *)
(* the subject is missing or no id) and the roles that it was minted with.  *)
Claims == [sub : User \cup {None}, roles : SUBSET Role]

Idle(names) == [pc |-> "idle", names |-> names]

Principal(user, roles) == [user |-> user, roles |-> roles]

Anonymous == Principal(None, {})

AuthResult(result, principal) ==
  [result |-> result, user |-> principal.user, roles |-> principal.roles]

Asked(r) == Asks[r.ask]

Init ==
  /\ resolver \in Resolvers
  /\ now = 0
  /\ members = InitialMembers /\ grants \in InitialGrants
  /\ keys = InitialKeys
  /\ users = [u \in User |-> [enabled |-> TRUE, ended |-> MaxChanges]]
  /\ rows = InitialRows
  /\ cache = [u \in User |-> None]
  /\ \E plan \in Plans : req = [c \in Client |-> Idle(plan[c])]
  /\ changes = 0 /\ invalidations = 0
  /\ past = {}

Shared == <<resolver, now, members, grants, keys, users, rows, changes, invalidations, past>>

Answer(status, served) == [status |-> status, rows |-> served]

Answers(c, answer) == req' = [req EXCEPT ![c] = [pc |-> "done", answer |-> answer]]

Goto(c, r) == req' = [req EXCEPT ![c] = r]

(* Mutant: only a key counts as a credential that was presented.            *)
CredentialPresent_Key(r, byKey) == byKey # "absent"

(* CompositeAuthenticator over the key's result and the cookie's, and the   *)
(* posture: who the request acts as, or a 401.                             *)
CredentialPresent(r, byKey) == byKey # "absent" \/ Asked(r).cookie # None

(* Mutant: whatever the cookie holds is taken for the user.                 *)
_principal_from_Unread(cookie) == Principal(cookie, {})

(* A cookie that does not decrypt, or has no subject, has no principal; one *)
(* that does has its subject with the roles it carries, which nothing asks  *)
(* for again.                                                              *)
_principal_from(cookie) ==
  IF cookie \in Claims /\ cookie.sub # None THEN Principal(cookie.sub, cookie.roles) ELSE Anonymous

Combined(r, byKey, found) ==
  LET bySession == _principal_from(Asked(r).cookie)
  IN IF byKey = "valid" THEN AuthResult("valid", Principal(found.owner, found.roles))
     ELSE IF bySession.user # None THEN AuthResult("valid", bySession)
     ELSE AuthResult(IF CredentialPresent(r, byKey) THEN "invalid" ELSE "absent", Anonymous)

Admitted(r, result) == result = "valid" \/ (Asked(r).optional /\ result = "absent")

Authenticated(c, r, byKey, found) ==
  LET who == Combined(r, byKey, found)
  IN IF Admitted(r, who.result)
     THEN Goto(c, [r EXCEPT !.pc = "resolve", !.user = who.user, !.roles = who.roles])
     ELSE Answers(c, Answer(401, <<>>))

Arrived(asked) ==
  [pc |-> "lookup", ask |-> asked, user |-> Anonymous.user, roles |-> Anonymous.roles,
   found |-> None, groups |-> {}, policies |-> {}, since |-> now, asOf |-> invalidations,
   began |-> [at |-> now, changes |-> changes]]

Begin(c) ==
  /\ req[c].pc = "idle"
  /\ \E asked \in req[c].names :
       IF Asks[asked].key = None THEN Authenticated(c, Arrived(asked), "absent", None)
       ELSE Goto(c, Arrived(asked))
  /\ UNCHANGED <<Shared, cache>>

(* find_by_key in a session of its own, then _key_is_live.                 *)
Live(key) == key.active /\ key.expires_at > now

LookupKey(c) ==
  /\ req[c].pc = "lookup"
  /\ LET k == Asked(req[c]).key
     IN IF k \in Key /\ Live(keys[k])
        THEN Goto(c, [req[c] EXCEPT !.pc = "active", !.found = keys[k]])
        ELSE Authenticated(c, req[c], "invalid", None)
  /\ UNCHANGED <<Shared, cache>>

(* principal_is_active: the user's row, read in another session.           *)
Enabled(owner) == owner # None => users[owner].enabled

CheckActive(c) ==
  /\ req[c].pc = "active"
  /\ Authenticated(c, req[c], IF Enabled(req[c].found.owner) THEN "valid" ELSE "invalid",
                   req[c].found)
  /\ UNCHANGED <<Shared, cache>>

-----------------------------------------------------------------------------
(* Resolving policies.  An entry of the cache is used until its expiry.    *)

(* Mutant: an entry is used at its expiry as well.                          *)
Expired_Late(entry) == now > entry.expiry

Expired(entry) == now >= entry.expiry

(* An authenticated request has the policies of its principal resolved.    *)
Resolves(c, kind) == req[c].pc = "resolve" /\ resolver = kind

ResolveCached(c) ==
  /\ Resolves(c, "grants")
  /\ LET u == req[c].user
     IN /\ u # None
        /\ cache[u] # None
        /\ IF Expired(cache[u])
           THEN /\ cache' = [cache EXCEPT ![u] = None]
                /\ UNCHANGED req
           ELSE /\ Goto(c, [req[c] EXCEPT !.pc = "act", !.groups = cache[u].groups,
                                          !.policies = cache[u].policies,
                                          !.since = now, !.asOf = invalidations])
                /\ UNCHANGED cache
  /\ UNCHANGED Shared

(* A principal with no id has no grants.                                   *)
ResolveNobody(c) ==
  /\ Resolves(c, "grants") /\ req[c].user = None
  /\ Goto(c, [req[c] EXCEPT !.pc = "act", !.since = now])
  /\ UNCHANGED <<Shared, cache>>

FetchGroups(c) ==
  /\ Resolves(c, "grants")
  /\ req[c].user # None /\ cache[req[c].user] = None
  /\ Goto(c, [req[c] EXCEPT !.pc = "policies", !.groups = members[req[c].user],
                            !.since = now, !.asOf = invalidations])
  /\ UNCHANGED <<Shared, cache>>

FetchPolicies(c) ==
  /\ req[c].pc = "policies"
  /\ Goto(c, [req[c] EXCEPT !.pc = "store", !.policies = policies_for(req[c].user)])
  /\ UNCHANGED <<Shared, cache>>

CacheEntry(r) ==
  [groups |-> r.groups, policies |-> r.policies, expiry |-> now + CacheTtl]

(* The session is closed between the query and the store: another await.   *)
StoreResolved(c) ==
  /\ req[c].pc = "store"
  /\ Goto(c, [req[c] EXCEPT !.pc = "act"])
  /\ cache' = IF CacheTtl = 0 THEN cache
              ELSE [cache EXCEPT ![req[c].user] = CacheEntry(req[c])]
  /\ UNCHANGED Shared

ResolveRoles(c) ==
  /\ Resolves(c, "roles")
  /\ Goto(c, [req[c] EXCEPT !.pc = "act", !.policies = PoliciesOfRoles(req[c].roles),
                            !.since = now])
  /\ UNCHANGED <<Shared, cache>>

-----------------------------------------------------------------------------
(* Enforcement.                                                            *)

_permission_filter(r, action) == Reduced(r.policies, r.groups, r.user, action)

_combine(filt, condition) == IF condition = None THEN filt ELSE AndFilter(<<filt, condition>>)

Found(i) == i \in DOMAIN rows

NotFound == Answer(404, <<>>)

Responds(c, answer, table) ==
  /\ Answers(c, answer)
  /\ rows' = table
  /\ UNCHANGED <<resolver, now, members, grants, keys, users, changes, invalidations, past, cache>>

With(table, row) ==
  [i \in DOMAIN table \cup {row.id} |-> IF i = row.id THEN row ELSE table[i]]

Without(table, i) == [j \in DOMAIN table \ {i} |-> table[j]]

Acting(c, action) == req[c].pc = "act" /\ Asked(req[c]).action = action

Create(c) ==
  /\ Acting(c, "create")
  /\ Asked(req[c]).id \notin DOMAIN rows
  /\ LET new == [id |-> Asked(req[c]).id, owner |-> Asked(req[c]).owner]
     IN IF _permission_filter(req[c], "create") = EmptyFilter
        THEN Responds(c, Answer(403, <<>>), rows)
        ELSE Responds(c, Answer(201, <<new>>), With(rows, new))

(* The row is read first, then matched in memory: read, and authorize for  *)
(* an action of the resource's own.                                        *)
Read(c) ==
  /\ req[c].pc = "act" /\ Asked(req[c]).action \in {"read", "custom"}
  /\ IF Found(Asked(req[c]).id)
        /\ InMemory(_permission_filter(req[c], Asked(req[c]).action), rows[Asked(req[c]).id]) = "true"
     THEN Responds(c, Answer(200, <<rows[Asked(req[c]).id]>>), rows)
     ELSE Responds(c, NotFound, rows)

(* The policy's filter is part of the statement that writes.               *)
Update(c) ==
  /\ Acting(c, "update")
  /\ LET i == Asked(req[c]).id
         f == _combine(_permission_filter(req[c], "update"), None)
     IN IF Found(i) /\ Selected(f, rows[i])
        THEN LET new == [rows[i] EXCEPT !.owner = Asked(req[c]).owner]
             IN Responds(c, Answer(200, <<new>>), With(rows, new))
        ELSE Responds(c, NotFound, rows)

Delete(c) ==
  /\ Acting(c, "delete")
  /\ LET i == Asked(req[c]).id
         f == _combine(_permission_filter(req[c], "delete"), None)
     IN IF Found(i) /\ Selected(f, rows[i])
        THEN Responds(c, Answer(204, <<>>), Without(rows, i))
        ELSE Responds(c, NotFound, rows)

Search(c) ==
  /\ req[c].pc = "act" /\ Asked(req[c]).action \in {"search", "count"}
  /\ LET f == _combine(_permission_filter(req[c], Asked(req[c]).action), Asked(req[c]).filter)
     IN Responds(c, Answer(200, SetToSeq({rows[i] : i \in {j \in DOMAIN rows :
                                              Selected(f, rows[j])}})), rows)

BatchRead(c) ==
  /\ Acting(c, "batch_read")
  /\ LET f == _permission_filter(req[c], "batch_read")
         served(i) == IF Found(i) /\ InMemory(f, rows[i]) = "true" THEN rows[i] ELSE None
     IN Responds(c, Answer(200, [n \in DOMAIN Asked(req[c]).ids |-> served(Asked(req[c]).ids[n])]), rows)

-----------------------------------------------------------------------------
(* A batch of edits: denied creates and edits without an id are kept out   *)
(* of the batch the inner service gets, and the answers put back in place. *)

Permitted(r, edit) ==
  IF edit.action = "create" THEN _permission_filter(r, "create") # EmptyFilter ELSE edit.id # None

Guarded(r, edit) ==
  IF edit.action = "create" THEN edit
  ELSE [edit EXCEPT !.condition = _combine(_permission_filter(r, edit.action), @)]

(* SqlService.apply_edits, one edit: the row it answers, and the table.    *)
Applied(state, edit) ==
  LET table == state.table
      hit   == /\ edit.id \in DOMAIN table
               /\ edit.condition # None => Selected(edit.condition, table[edit.id])
      new   == [id |-> edit.id, owner |-> edit.owner]
  IN CASE edit.action = "create"         -> [table |-> With(table, new),
                                             results |-> Append(state.results, new)]
       [] edit.action = "update" /\ hit  -> [table |-> With(table, new),
                                             results |-> Append(state.results, new)]
       [] edit.action = "delete" /\ hit  -> [table |-> Without(table, edit.id),
                                             results |-> Append(state.results, None)]
       [] OTHER                          -> [state EXCEPT !.results = Append(@, None)]

(* Mutant: the inner service's answers in its own order, padded.            *)
Realigned_Padded(flags, edited) ==
  [n \in DOMAIN flags |-> IF n \in DOMAIN edited THEN edited[n] ELSE None]

(* The answer of the n-th edit is that of its place among the permitted.   *)
Realigned(flags, edited) ==
  [n \in DOMAIN flags |->
     IF flags[n] THEN edited[Cardinality({k \in 1..n : flags[k]})] ELSE None]

(* The table and the answers of the inner service after each number of edits. *)
EditsApplied(r, flags) ==
  LET edits == Asked(r).edits
      after[n \in 0..Len(edits)] ==
        IF n = 0 THEN [table |-> rows, results |-> <<>>]
        ELSE IF flags[n] THEN Applied(after[n - 1], Guarded(r, edits[n]))
        ELSE after[n - 1]
  IN after

ApplyEdits(c) ==
  /\ Acting(c, "edits")
  /\ LET r     == req[c]
         edits == Asked(r).edits
         flags == [n \in DOMAIN edits |-> Permitted(r, edits[n])]
         done  == EditsApplied(r, flags)[Len(edits)]
     IN /\ \A n \in DOMAIN edits : edits[n].action = "create" => ~Found(edits[n].id)
        /\ Responds(c, Answer(200, Realigned(flags, done.results)), done.table)

-----------------------------------------------------------------------------
(* The world.  A change of what a user holds is remembered: what held       *)
(* before and until when, the changes after which an invalidation covers   *)
(* it, and whether a resolver that might have read it had yet to store.    *)

Resolving(u) == \E c \in Client : req[c].pc \in {"policies", "store"} /\ req[c].user = u

Regrant(newMembers, newGrants) ==
  LET NewPolicies(u) == {p \in UNION {newGrants[g] : g \in newMembers[u]} : Readable(p)}
      Changed == {u \in User : newMembers[u] # members[u] \/ NewPolicies(u) # policies_for(u)}
  IN /\ members' = newMembers /\ grants' = newGrants
     /\ past' = past \cup {[user |-> u, groups |-> members[u], policies |-> policies_for(u),
                            until |-> now, voided |-> MaxInvalidations,
                            overlapped |-> Resolving(u)] : u \in Changed}
     /\ UNCHANGED <<keys, users>>

World == /\ changes < MaxChanges
         /\ changes' = changes + 1
         /\ UNCHANGED <<resolver, now, rows, req, invalidations>>

ChangeMembership ==
  /\ World
  /\ \E u \in User, g \in Group :
       LET toggled == IF g \in members[u] THEN members[u] \ {g} ELSE members[u] \cup {g}
       IN Regrant([members EXCEPT ![u] = toggled], grants)
  /\ UNCHANGED cache

ChangeGrants ==
  /\ World
  /\ \E g \in Group, p \in Grantable :
       LET toggled == IF p \in grants[g] THEN grants[g] \ {p} ELSE grants[g] \cup {p}
       IN Regrant(members, [grants EXCEPT ![g] = toggled])
  /\ UNCHANGED cache

(* The application has changed grants and drops the entries of a user       *)
(* concerned, or all entries.                                              *)
Invalidate ==
  /\ invalidations < MaxInvalidations /\ invalidations' = invalidations + 1
  /\ \E dropped \in UNION {{{p.user}, User} : p \in past} :
       /\ cache' = [u \in User |-> IF u \in dropped THEN None ELSE cache[u]]
       /\ past' = {IF p.user \in dropped /\ p.voided = MaxInvalidations
                   THEN [p EXCEPT !.voided = invalidations] ELSE p : p \in past}
  /\ UNCHANGED <<resolver, now, rows, req, changes, members, grants, keys, users>>

RevokeKey ==
  /\ World
  /\ \E k \in Key : keys[k].active /\ keys' = [keys EXCEPT ![k].active = FALSE, ![k].ended = changes]
  /\ UNCHANGED <<members, grants, users, cache, past>>

(* Its row is disabled or deleted: principal_is_active tells them alike.    *)
DisableUser ==
  /\ World
  /\ \E u \in User :
       users[u].enabled /\ users' = [users EXCEPT ![u] = [enabled |-> FALSE, ended |-> changes]]
  /\ UNCHANGED <<members, grants, keys, cache, past>>

Tick ==
  /\ now < MaxTime
  /\ now' = now + 1
  /\ UNCHANGED <<resolver, members, grants, keys, users, rows, cache, req, changes, invalidations, past>>

Next ==
  \/ \E c \in Client :
       \/ Begin(c) \/ LookupKey(c) \/ CheckActive(c)
       \/ ResolveCached(c) \/ ResolveNobody(c) \/ FetchGroups(c) \/ FetchPolicies(c)
       \/ StoreResolved(c) \/ ResolveRoles(c)
       \/ Create(c) \/ Read(c) \/ Update(c) \/ Delete(c) \/ Search(c) \/ BatchRead(c)
       \/ ApplyEdits(c)
  \/ ChangeMembership \/ ChangeGrants \/ Invalidate \/ RevokeKey \/ DisableUser \/ Tick

Spec == Init /\ [][Next]_vars

-----------------------------------------------------------------------------
(* Properties.                                                             *)

Pcs == {"lookup", "active", "resolve", "policies", "store", "act"}

Request ==
  [pc : Pcs, ask : DOMAIN Asks, user : User \cup {None}, roles : SUBSET Role,
   found : KeyRow \cup {None}, groups : SUBSET Group, policies : SUBSET Held,
   since : 0..MaxTime, asOf : 0..MaxInvalidations,
   began : [at : 0..MaxTime, changes : 0..MaxChanges]]

(* Every request is at a step of the chain, acts as a user the application  *)
(* knows or as nobody, and holds policies that a resolver gives; the rows   *)
(* are keyed by their id.                                                   *)
TypeOK ==
  /\ resolver \in Resolvers /\ now \in 0..MaxTime /\ changes \in 0..MaxChanges
  /\ invalidations \in 0..MaxInvalidations
  /\ members \in [User -> SUBSET Group] /\ grants \in [Group -> SUBSET DOMAIN Policies]
  /\ keys \in [Key -> KeyRow]
  /\ users \in [User -> [enabled : BOOLEAN, ended : 0..MaxChanges]]
  /\ cache \in [User -> {None} \cup [groups : SUBSET Group, policies : SUBSET Held,
                                    expiry : 0..(MaxTime + CacheTtl)]]
  /\ rows \in Tables
  /\ req = [c \in Client |-> req[c]]
  /\ \A c \in Client : \/ (req[c].pc = "idle" /\ req[c].names \subseteq DOMAIN Asks)
                        \/ req[c].pc = "done"
                        \/ req[c] \in Request
  /\ past \subseteq [user : User, groups : SUBSET Group, policies : SUBSET Held,
                    until : 0..MaxTime, voided : 0..MaxInvalidations, overlapped : BOOLEAN]

May(r, action, row) == \E p \in r.policies : PolicyAllows(Policies[p], r.groups, r.user, action, row)

(* One edit on its own, as the single operations answer it.                *)
Alone(r, table, edit) ==
  LET new  == [id |-> edit.id, owner |-> edit.owner]
      mine == /\ edit.id \in DOMAIN table /\ May(r, edit.action, table[edit.id])
              /\ edit.condition # None => InMemory(edit.condition, table[edit.id]) = "true"
  IN CASE edit.action = "create" /\ May(r, "create", new) ->
            [answer |-> new, table |-> [i \in DOMAIN table \cup {edit.id} |->
                                          IF i = edit.id THEN new ELSE table[i]]]
       [] edit.action = "update" /\ mine -> [answer |-> new, table |-> [table EXCEPT ![edit.id] = new]]
       [] edit.action = "delete" /\ mine ->
            [answer |-> None, table |-> [i \in DOMAIN table \ {edit.id} |-> table[i]]]
       [] OTHER -> [answer |-> None, table |-> table]

(* The table after each number of edits, each on its own.                  *)
OneByOne(r) ==
  LET edits == Asked(r).edits
      table[n \in 0..Len(edits)] == IF n = 0 THEN rows ELSE Alone(r, table[n - 1], edits[n]).table
  IN table

Judged(r, served, after) ==
  LET q == Asked(r)
      may(i) == i \in DOMAIN rows /\ May(r, q.action, rows[i])
      table == OneByOne(r)
  IN CASE q.action \in {"read", "custom"} ->
            served = (IF may(q.id) THEN <<rows[q.id]>> ELSE <<>>) /\ after = rows
       [] q.action \in {"search", "count"} ->
            /\ ToSet(served) = {rows[i] : i \in {j \in DOMAIN rows :
                 may(j) /\ (q.filter # None => InMemory(q.filter, rows[j]) = "true")}}
            /\ after = rows
       [] q.action = "batch_read" ->
            /\ \A n \in DOMAIN q.ids : served[n] = IF may(q.ids[n]) THEN rows[q.ids[n]] ELSE None
            /\ Len(served) = Len(q.ids) /\ after = rows
       [] q.action \in {"create", "update", "delete"} ->
            after = Alone(r, rows, [action |-> q.action, id |-> q.id, owner |-> q.owner,
                                    condition |-> None]).table
       [] q.action = "edits" ->
            /\ Len(served) = Len(q.edits)
            /\ \A n \in DOMAIN q.edits : served[n] = Alone(r, table[n - 1], q.edits[n]).answer
            /\ after = table[Len(q.edits)]

(* A request serves, and changes, exactly the rows that a policy it holds   *)
(* allows its caller the action on: none more, and in a batch each answer   *)
(* in the place of what asked for it, a batch of edits doing what its edits *)
(* do one after another.  auth_authorized_service.py:142-307 composes this  *)
(* from filters, conditions on writes and realigned answers.                *)
OnlyPermitted ==
  [][\A c \in Client : (req[c].pc = "act" /\ req'[c].pc = "done")
                        => Judged(req[c], req'[c].answer.rows, rows')]_vars

(* Request c uses what its user holds, or held at a moment that the cache   *)
(* may still answer with.                                                   *)
Honoured(c, mayUse(_)) ==
  LET u == req[c].user
      fresh(held, current, field) ==
        held = current \/ \E p \in past : p.user = u /\ p[field] = held /\ mayUse(p)
  IN /\ fresh(req[c].groups, members[u], "groups")
     /\ fresh(req[c].policies, policies_for(u), "policies")

Resolved == {c \in Client : /\ resolver = "grants"
                            /\ req[c].pc = "act" /\ req[c].user # None}

(* A change of a user's grants is honoured within cache_ttl, and at once     *)
(* after an invalidate, by every request that resolves then, unless a        *)
(* resolver that read the user's grants before the change had not yet stored *)
(* them in the cache (auth_rbac_resolver.py:73-76).                          *)
ChangeHonouredUnlessOverlapped ==
  \A c \in Resolved :
    Honoured(c, LAMBDA p : \/ p.until >= req[c].since
                           \/ req[c].since < p.until + CacheTtl /\ req[c].asOf <= p.voided
                           \/ p.overlapped)

(* A request acts as the user, and with the roles, of one credential that it *)
(* presented: a key that had neither been revoked nor expired, nor its owner *)
(* disabled, before the request began, or else a cookie that decrypts to     *)
(* both; the user of one never acts with the roles of the other.  One served *)
(* as nobody with no roles presented no credential at all, so a broken       *)
(* credential is never a downgrade to anonymous (auth_principal.py:275-309,  *)
(* auth_api_key.py:89-104, auth_cookie.py:65-105).                           *)
CredentialsCount ==
  \A c \in Client : req[c].pc \in {"resolve", "policies", "store", "act"} =>
    LET r      == req[c]
        cookie == Asked(r).cookie
    IN \/ /\ Asked(r).key \in Key
          /\ r.user = keys[Asked(r).key].owner /\ r.roles = keys[Asked(r).key].roles
          /\ keys[Asked(r).key].ended >= r.began.changes /\ keys[Asked(r).key].expires_at > r.began.at
          /\ r.user # None => users[r.user].ended >= r.began.changes
       \/ r.user # None /\ cookie \in Claims /\ r.user = cookie.sub /\ r.roles = cookie.roles
       \/ r.user = None /\ r.roles = {} /\ Asked(r).key = None /\ cookie = None /\ Asked(r).optional
=============================================================================
