---------------------------- MODULE AccessProofs ----------------------------
(***************************************************************************)
(* Theorems about Access, for every set of users, groups, keys, policies    *)
(* and requests, every time to live and every number of changes.            *)
(***************************************************************************)
EXTENDS Access, FiniteSetTheorems, WellFoundedInduction, TLAPS

-----------------------------------------------------------------------------
(* The inductive invariant *)

(* A request's marks of when it began and resolved are of the past. *)
Timely(r) ==
  /\ r.began.at <= now /\ r.began.changes <= changes
  /\ r.since <= now /\ r.asOf <= invalidations

(* The request's key is of that owner with those roles, and counted when it began. *)
KeyCounts(r, owner, roles) ==
  LET k == Asked(r).key
  IN /\ k \in Key /\ keys[k].owner = owner /\ keys[k].roles = roles
     /\ keys[k].ended >= r.began.changes /\ keys[k].expires_at > r.began.at

(* What CredentialsCount says of one request. *)
Counts(r) ==
  \/ /\ KeyCounts(r, r.user, r.roles)
     /\ r.user # None => users[r.user].ended >= r.began.changes
  \/ /\ r.user # None /\ Asked(r).cookie \in Claims
     /\ r.user = Asked(r).cookie.sub /\ r.roles = Asked(r).cookie.roles
  \/ r.user = None /\ r.roles = {} /\ Asked(r).key = None /\ Asked(r).cookie = None /\ Asked(r).optional

Credited(r) ==
  /\ r.pc = "active" => r.found \in KeyRow /\ KeyCounts(r, r.found.owner, r.found.roles)
  /\ r.pc \in {"resolve", "policies", "store", "act"} => Counts(r)

(* What a key or a user lost, it has lost for good: what counts has not ended. *)
Ended ==
  /\ \A k \in Key : keys[k].active => keys[k].ended = MaxChanges
  /\ \A u \in User : users[u].enabled => users[u].ended = MaxChanges

(* What user u held, and may be answered with: by a request that fetched it, by an *)
(* entry of the cache, by a request about to act. *)
Fetched(r) == {p \in past : p.user = r.user /\ p.until >= r.since /\ p.overlapped}

Stored(u, entry) ==
  {p \in past : /\ p.user = u
                /\ \/ p.until + CacheTtl >= entry.expiry /\ p.voided = MaxInvalidations
                   \/ p.overlapped}

Usable(r) ==
  {p \in past : /\ p.user = r.user
                /\ \/ p.until >= r.since
                   \/ r.since < p.until + CacheTtl /\ r.asOf <= p.voided
                   \/ p.overlapped}

GroupsOf(u, held, earlier) == held = members[u] \/ \E p \in earlier : p.groups = held

PoliciesOf(u, held, earlier) == held = policies_for(u) \/ \E p \in earlier : p.policies = held

(* What a request resolved for its user is, or was, what the user holds. *)
Resolution(r) ==
  /\ r.pc \in {"policies", "store"} =>
       r.user \in User /\ GroupsOf(r.user, r.groups, Fetched(r))
  /\ r.pc = "store" => PoliciesOf(r.user, r.policies, Fetched(r))
  /\ r.pc = "act" /\ resolver = "grants" /\ r.user # None =>
       GroupsOf(r.user, r.groups, Usable(r)) /\ PoliciesOf(r.user, r.policies, Usable(r))

Good(r) == Timely(r) /\ Credited(r) /\ Resolution(r)

GoodEntry(u, entry) ==
  /\ GroupsOf(u, entry.groups, Stored(u, entry))
  /\ PoliciesOf(u, entry.policies, Stored(u, entry))
  /\ entry.expiry <= now + CacheTtl

AccessInv ==
  /\ TypeOK /\ Ended
  /\ \A c \in Client : req[c].pc \in Pcs => Good(req[c])
  /\ \A u \in User : cache[u] # None => GoodEntry(u, cache[u])

LEMMA InvShows == AccessInv => ChangeHonouredUnlessOverlapped /\ CredentialsCount
  <1> SUFFICES ASSUME AccessInv PROVE ChangeHonouredUnlessOverlapped /\ CredentialsCount
    OBVIOUS
  <1>1. CredentialsCount
    <2> SUFFICES ASSUME NEW c \in Client, req[c].pc \in {"resolve", "policies", "store", "act"}
                 PROVE  Counts(req[c])
      BY DEF CredentialsCount, Counts, KeyCounts
    <2> QED
      BY DEF AccessInv, Good, Credited, Pcs
  <1>2. ChangeHonouredUnlessOverlapped
    <2> SUFFICES ASSUME NEW c \in Client, resolver = "grants", req[c].pc = "act", req[c].user # None
                 PROVE  Honoured(c, LAMBDA p : \/ p.until >= req[c].since
                                               \/ req[c].since < p.until + CacheTtl
                                                  /\ req[c].asOf <= p.voided
                                               \/ p.overlapped)
      BY DEF ChangeHonouredUnlessOverlapped, Resolved
    <2>1. /\ GroupsOf(req[c].user, req[c].groups, Usable(req[c]))
          /\ PoliciesOf(req[c].user, req[c].policies, Usable(req[c]))
      BY DEF AccessInv, Good, Resolution, Pcs
    <2> QED
      BY <2>1 DEF Honoured, GroupsOf, PoliciesOf, Usable
  <1> QED
    BY <1>1, <1>2

-----------------------------------------------------------------------------
(* One request moves *)

Entry == [groups : SUBSET Group, policies : SUBSET Held, expiry : 0..(MaxTime + CacheTtl)]

(* Everything a request's good standing is about. *)
standing == <<resolver, now, members, grants, keys, users, changes, invalidations, past>>

(* Good standing is about the request and what the application keeps of users and keys. *)
LEMMA StandingHolds ==
  ASSUME UNCHANGED standing
  PROVE  /\ \A r : Good(r) => Good(r)'
         /\ \A u, entry : GoodEntry(u, entry) => GoodEntry(u, entry)'
  <1>1. \A u : policies_for(u)' = policies_for(u)
    BY DEF standing, policies_for
  <1>2. \A r : Good(r) => Good(r)'
    <2> TAKE r
    <2>1. Timely(r) => Timely(r)'
      BY DEF standing, Timely
    <2>2. Credited(r) => Credited(r)'
      BY DEF standing, Credited, Counts, KeyCounts
    <2>3. Resolution(r) => Resolution(r)'
      BY <1>1 DEF standing, Resolution, GroupsOf, PoliciesOf, Fetched, Usable
    <2> QED
      BY <2>1, <2>2, <2>3 DEF Good
  <1>3. \A u, entry : GoodEntry(u, entry) => GoodEntry(u, entry)'
    BY <1>1 DEF standing, GoodEntry, GroupsOf, PoliciesOf, Stored
  <1> QED
    BY <1>2, <1>3

(* A request moves in good standing, the cache keeps its entries or gets a good one. *)
LEMMA RequestMoves ==
  ASSUME AccessInv, NEW c \in Client, NEW r, Goto(c, r), UNCHANGED standing, rows' \in Tables,
         r.pc = "done" \/ (r \in Request /\ Good(r)),
         \/ UNCHANGED cache
         \/ \E u \in User : cache' = [cache EXCEPT ![u] = None]
         \/ \E u \in User, entry \in Entry :
              cache' = [cache EXCEPT ![u] = entry] /\ GoodEntry(u, entry)
  PROVE  AccessInv'
  <1>1. req' = [req EXCEPT ![c] = r] /\ req = [d \in Client |-> req[d]]
    BY DEF Goto, AccessInv, TypeOK
  <1>2. req'[c] = r /\ req' = [d \in Client |-> req'[d]] /\ \A d \in Client \ {c} : req'[d] = req[d]
    BY <1>1
  <1>3. cache \in [User -> {None} \cup Entry]
    BY DEF AccessInv, TypeOK, Entry
  <1>4. cache' \in [User -> {None} \cup Entry]
    BY <1>3
  <1>5. \A u \in User : cache'[u] # None => GoodEntry(u, cache'[u])
    BY <1>3 DEF AccessInv
  <1>6. TypeOK'
    <2>1. \A d \in Client : \/ (req'[d].pc = "idle" /\ req'[d].names \subseteq DOMAIN Asks)
                            \/ req'[d].pc = "done"
                            \/ req'[d] \in Request
      BY <1>2 DEF AccessInv, TypeOK
    <2> QED
      BY <1>2, <1>4, <2>1 DEF AccessInv, TypeOK, standing, Entry
  <1>7. Ended'
    BY DEF AccessInv, Ended, standing
  <1>8. \A d \in Client : req'[d].pc \in Pcs => Good(req'[d])
    BY <1>2 DEF AccessInv, Pcs
  <1>9. \A d \in Client : (req[d].pc \in Pcs => Good(req[d]))'
    BY <1>8, StandingHolds
  <1>10. \A u \in User : (cache[u] # None => GoodEntry(u, cache[u]))'
    BY <1>5, StandingHolds
  <1> QED
    BY <1>6, <1>7, <1>9, <1>10 DEF AccessInv

(* The rows stay keyed while nobody writes them, and a request under way is well-typed. *)
LEMMA UnderWay ==
  ASSUME AccessInv, NEW c \in Client, req[c].pc \in Pcs
  PROVE  req[c] \in Request /\ Good(req[c]) /\ rows \in Tables
  BY DEF AccessInv, TypeOK, Pcs

(* The answer of a refused request. *)
LEMMA AnswerMoves ==
  ASSUME AccessInv, NEW c \in Client, NEW answer, Answers(c, answer),
         UNCHANGED <<standing, cache>>, rows' \in Tables
  PROVE  AccessInv'
  <1> DEFINE r == [pc |-> "done", answer |-> answer]
  <1>1. Goto(c, r) /\ r.pc = "done"
    BY DEF Answers, Goto
  <1> QED
    BY <1>1, RequestMoves

(* Who is admitted presented what counts: a key, a cookie of a user, or nothing. *)
LEMMA AuthenticatedKeeps ==
  ASSUME AccessInv, NEW c \in Client, NEW r \in Request, NEW byKey, NEW found,
         Authenticated(c, r, byKey, found), UNCHANGED <<Shared, cache>>, rows \in Tables,
         Timely(r),
         byKey \in {"absent", "invalid", "valid"},
         byKey = "absent" => Asked(r).key = None,
         byKey = "valid" =>
           /\ found \in KeyRow /\ KeyCounts(r, found.owner, found.roles)
           /\ found.owner # None => users[found.owner].ended >= r.began.changes
  PROVE  AccessInv'
  <1> DEFINE who == Combined(r, byKey, found)
             new == [r EXCEPT !.pc = "resolve", !.user = who.user, !.roles = who.roles]
  <1>1. UNCHANGED standing /\ rows' \in Tables
    BY DEF Shared, standing
  <1>2. CASE Answers(c, Answer(401, <<>>))
    BY <1>1, <1>2, AnswerMoves
  <1>3. CASE Admitted(r, who.result) /\ Goto(c, new)
    <2>1. who.user \in User \cup {None} /\ who.roles \in SUBSET Role
      BY DEF Combined, AuthResult, Principal, Anonymous, _principal_from, Claims, KeyRow
    <2>2. new \in Request /\ new.pc = "resolve" /\ new.user = who.user /\ new.roles = who.roles
          /\ new.ask = r.ask /\ new.began = r.began /\ new.since = r.since /\ new.asOf = r.asOf
      BY <2>1 DEF Request, Pcs
    <2> HIDE DEF new
    <2>3. Asked(new) = Asked(r)
      BY <2>2 DEF Asked
    <2>4. Counts(new)
      <3>1. CASE byKey = "valid"
        <4>1. who.user = found.owner /\ who.roles = found.roles
          BY <3>1 DEF Combined, AuthResult, Principal
        <4> QED
          BY <2>2, <2>3, <3>1, <4>1 DEF Counts, KeyCounts
      <3>2. CASE byKey # "valid" /\ _principal_from(Asked(r).cookie).user # None
        <4>1. /\ Asked(r).cookie \in Claims /\ who.user # None
              /\ who.user = Asked(r).cookie.sub /\ who.roles = Asked(r).cookie.roles
          BY <3>2 DEF Combined, AuthResult, Principal, Anonymous, _principal_from
        <4> QED
          BY <2>2, <2>3, <4>1 DEF Counts
      <3>3. CASE byKey # "valid" /\ _principal_from(Asked(r).cookie).user = None
        <4>1. /\ who.user = None /\ who.roles = {}
              /\ who.result = IF CredentialPresent(r, byKey) THEN "invalid" ELSE "absent"
          BY <3>3 DEF Combined, AuthResult, Principal, Anonymous
        <4>2. Asked(r).optional /\ ~CredentialPresent(r, byKey)
          BY <1>3, <4>1 DEF Admitted
        <4> QED
          BY <2>2, <2>3, <4>1, <4>2 DEF Counts, CredentialPresent
      <3> QED
        BY <3>1, <3>2, <3>3
    <2>5. Good(new)
      BY <2>2, <2>4 DEF Good, Timely, Credited, Resolution
    <2> QED
      BY <1>1, <1>3, <2>2, <2>5, RequestMoves
  <1> QED
    BY <1>2, <1>3 DEF Authenticated

LEMMA BeginKeeps ==
  ASSUME AccessInv, NEW c \in Client, Begin(c)
  PROVE  AccessInv'
  <1>1. PICK asked \in req[c].names :
          IF Asks[asked].key = None THEN Authenticated(c, Arrived(asked), "absent", None)
          ELSE Goto(c, Arrived(asked))
    BY DEF Begin
  <1>2. rows \in Tables /\ req[c].names \subseteq DOMAIN Asks
    BY DEF AccessInv, TypeOK, Begin, Request, Pcs
  <1> DEFINE r == Arrived(asked)
  <1>3. r \in Request
    BY <1>2 DEF Arrived, Request, Pcs, Anonymous, Principal, AccessInv, TypeOK
  <1>4. Timely(r) /\ r.pc = "lookup" /\ r.ask = asked
    BY BoundsAssumption DEF Arrived, Timely, AccessInv, TypeOK
  <1> HIDE DEF r
  <1>5. CASE Asks[asked].key = None
    BY <1>1, <1>2, <1>3, <1>4, <1>5, AuthenticatedKeeps DEF Begin, Asked, r
  <1>6. CASE Asks[asked].key # None
    <2>1. Goto(c, r) /\ Good(r)
      BY <1>1, <1>4, <1>6 DEF r, Good, Credited, Resolution
    <2> QED
      BY <1>2, <1>3, <2>1, RequestMoves DEF Begin, Shared, standing
  <1> QED
    BY <1>5, <1>6

LEMMA LookupKeyKeeps ==
  ASSUME AccessInv, NEW c \in Client, LookupKey(c)
  PROVE  AccessInv'
  <1> DEFINE k == Asked(req[c]).key
             r == [req[c] EXCEPT !.pc = "active", !.found = keys[k]]
  <1>1. req[c] \in Request /\ Good(req[c]) /\ rows \in Tables /\ req[c].pc = "lookup"
    BY UnderWay DEF LookupKey, Pcs
  <1>2. CASE k \in Key /\ Live(keys[k])
    <2>1. Goto(c, r) /\ keys[k] \in KeyRow
      BY <1>2 DEF LookupKey, AccessInv, TypeOK
    <2>2. r \in Request /\ r.pc = "active" /\ r.found = keys[k] /\ r.ask = req[c].ask
          /\ r.began = req[c].began /\ r.since = req[c].since /\ r.asOf = req[c].asOf
      BY <1>1, <2>1 DEF Request, Pcs
    <2>3. keys[k].ended = MaxChanges /\ keys[k].expires_at > now
      BY <1>2 DEF Live, AccessInv, Ended
    <2>4. req[c].began \in [at : 0..MaxTime, changes : 0..MaxChanges] /\ now \in 0..MaxTime
      BY <1>1 DEF Request, AccessInv, TypeOK
    <2>5. req[c].began.at <= now
      BY <1>1 DEF Good, Timely
    <2> HIDE DEF r
    <2>6. keys[k].ended >= r.began.changes /\ keys[k].expires_at > r.began.at
      BY <2>1, <2>2, <2>3, <2>4, <2>5, BoundsAssumption DEF KeyRow
    <2>7. KeyCounts(r, r.found.owner, r.found.roles)
      BY <1>2, <2>2, <2>6 DEF KeyCounts, Asked
    <2>8. Good(r)
      BY <1>1, <2>1, <2>2, <2>7 DEF Good, Timely, Credited, Resolution
    <2> QED
      BY <1>1, <2>1, <2>2, <2>8, RequestMoves DEF LookupKey, Shared, standing
  <1>3. CASE ~(k \in Key /\ Live(keys[k]))
    <2>1. Authenticated(c, req[c], "invalid", None) /\ UNCHANGED <<Shared, cache>>
      BY <1>3 DEF LookupKey
    <2> QED
      BY <1>1, <2>1, AuthenticatedKeeps DEF Good
  <1> QED
    BY <1>2, <1>3

LEMMA CheckActiveKeeps ==
  ASSUME AccessInv, NEW c \in Client, CheckActive(c)
  PROVE  AccessInv'
  <1> DEFINE r == req[c]
             byKey == IF Enabled(r.found.owner) THEN "valid" ELSE "invalid"
  <1>1. r \in Request /\ Good(r) /\ rows \in Tables /\ r.pc = "active"
    BY UnderWay DEF CheckActive, Pcs
  <1>2. Authenticated(c, r, byKey, r.found) /\ UNCHANGED <<Shared, cache>>
    BY DEF CheckActive
  <1>3. r.found \in KeyRow /\ KeyCounts(r, r.found.owner, r.found.roles) /\ Timely(r)
    BY <1>1 DEF Good, Credited
  <1>4. byKey = "valid" /\ r.found.owner # None => users[r.found.owner].ended >= r.began.changes
    BY <1>1, <1>3, BoundsAssumption DEF Enabled, AccessInv, Ended, KeyRow, Request
  <1> QED
    BY <1>1, <1>2, <1>3, <1>4, AuthenticatedKeeps

-----------------------------------------------------------------------------
(* Resolving *)

(* What u holds now was held by it, whatever is remembered. *)
LEMMA HeldNow ==
  ASSUME AccessInv, NEW u \in User
  PROVE  /\ members[u] \in SUBSET Group /\ policies_for(u) \in SUBSET Held
         /\ \A earlier : GroupsOf(u, members[u], earlier) /\ PoliciesOf(u, policies_for(u), earlier)
  BY DEF AccessInv, TypeOK, policies_for, Held, GroupsOf, PoliciesOf

(* An entry that has not expired is usable by a request that takes it now. *)
LEMMA EntryUsable ==
  ASSUME AccessInv, NEW u \in User, cache[u] # None, ~Expired(cache[u]),
         NEW r \in Request, r.user = u, r.since = now, r.asOf = invalidations,
         r.groups = cache[u].groups, r.policies = cache[u].policies
  PROVE  GroupsOf(u, r.groups, Usable(r)) /\ PoliciesOf(u, r.policies, Usable(r))
  <1>1. cache[u] \in Entry /\ GoodEntry(u, cache[u])
    BY DEF AccessInv, TypeOK, Entry
  <1>2. now < cache[u].expiry
    BY <1>1 DEF Expired, Entry, AccessInv, TypeOK
  <1>3. Stored(u, cache[u]) \subseteq Usable(r)
    <2> SUFFICES ASSUME NEW p \in past, p.user = u,
                        p.until + CacheTtl >= cache[u].expiry, p.voided = MaxInvalidations
                 PROVE  r.since < p.until + CacheTtl /\ r.asOf <= p.voided
      BY DEF Stored, Usable
    <2>1. p.until \in Nat /\ now \in Nat /\ cache[u].expiry \in Nat /\ CacheTtl \in Nat
          /\ invalidations \in 0..MaxInvalidations /\ MaxInvalidations \in Nat
      BY <1>1, BoundsAssumption DEF AccessInv, TypeOK, Entry
    <2> QED
      BY <1>2, <2>1
  <1> QED
    BY <1>1, <1>3 DEF GoodEntry, GroupsOf, PoliciesOf

LEMMA ResolveCachedKeeps ==
  ASSUME AccessInv, NEW c \in Client, ResolveCached(c)
  PROVE  AccessInv'
  <1> DEFINE u == req[c].user
             r == [req[c] EXCEPT !.pc = "act", !.groups = cache[u].groups,
                                 !.policies = cache[u].policies,
                                 !.since = now, !.asOf = invalidations]
  <1>1. req[c] \in Request /\ Good(req[c]) /\ rows \in Tables /\ req[c].pc = "resolve"
    BY UnderWay DEF ResolveCached, Resolves, Pcs
  <1>2. u \in User /\ cache[u] # None /\ rows' \in Tables /\ UNCHANGED standing
    BY <1>1 DEF ResolveCached, Request, Shared, standing
  <1>3. CASE Expired(cache[u])
    <2>1. cache' = [cache EXCEPT ![u] = None] /\ UNCHANGED req
      BY <1>3 DEF ResolveCached
    <2>2. Goto(c, req[c])
      BY <2>1 DEF Goto, AccessInv, TypeOK
    <2>3. \E w \in User : cache' = [cache EXCEPT ![w] = None]
      BY <1>2, <2>1
    <2> QED
      BY <1>1, <1>2, <2>2, <2>3, RequestMoves
  <1>4. CASE ~Expired(cache[u])
    <2>1. Goto(c, r) /\ UNCHANGED cache
      BY <1>4 DEF ResolveCached
    <2>2. cache[u] \in Entry /\ now \in 0..MaxTime /\ invalidations \in 0..MaxInvalidations
      BY <1>2 DEF AccessInv, TypeOK, Entry
    <2>3. /\ r \in Request /\ r.pc = "act" /\ r.user = u /\ r.groups = cache[u].groups
          /\ r.policies = cache[u].policies /\ r.since = now /\ r.asOf = invalidations
          /\ r.ask = req[c].ask /\ r.roles = req[c].roles /\ r.began = req[c].began
      BY <1>1, <2>2 DEF Request, Entry, Pcs
    <2> HIDE DEF r
    <2>4. Resolution(r)
      BY <1>2, <1>4, <2>3, EntryUsable DEF Resolution
    <2>5. Good(r)
      BY <1>1, <2>2, <2>3, <2>4, BoundsAssumption
        DEF Good, Timely, Credited, Counts, KeyCounts, Asked
    <2> QED
      BY <1>2, <2>1, <2>3, <2>5, RequestMoves
  <1> QED
    BY <1>3, <1>4

(* A request that goes on with its credentials, and what it resolves now. *)
LEMMA ResolvingKeeps ==
  ASSUME AccessInv, NEW c \in Client, NEW r \in Request, Goto(c, r), UNCHANGED <<Shared, cache>>,
         req[c].pc \in {"resolve", "policies", "store"}, r.pc \in {"policies", "store", "act"},
         r.ask = req[c].ask, r.user = req[c].user, r.roles = req[c].roles, r.began = req[c].began,
         r.since \in {req[c].since, now}, r.asOf \in {req[c].asOf, invalidations},
         Resolution(r)
  PROVE  AccessInv'
  <1>1. Good(req[c]) /\ rows \in Tables
    BY UnderWay DEF Pcs
  <1>2. rows' \in Tables /\ UNCHANGED standing
    BY <1>1 DEF Shared, standing
  <1>3. Timely(r)
    <2>1. now \in Nat /\ invalidations \in Nat
      BY BoundsAssumption DEF AccessInv, TypeOK
    <2> QED
      BY <1>1, <2>1 DEF Good, Timely
  <1>4. Credited(r)
    BY <1>1 DEF Good, Credited, Counts, KeyCounts, Asked
  <1> QED
    BY <1>2, <1>3, <1>4, RequestMoves DEF Good

LEMMA ResolveNobodyKeeps ==
  ASSUME AccessInv, NEW c \in Client, ResolveNobody(c)
  PROVE  AccessInv'
  <1> DEFINE r == [req[c] EXCEPT !.pc = "act", !.since = now]
  <1>1. req[c] \in Request /\ Goto(c, r) /\ req[c].pc = "resolve" /\ req[c].user = None
    BY UnderWay DEF ResolveNobody, Resolves, Pcs
  <1>2. /\ r \in Request /\ r.pc = "act" /\ r.since = now /\ r.asOf = req[c].asOf /\ r.user = None
        /\ r.ask = req[c].ask /\ r.roles = req[c].roles /\ r.began = req[c].began
    BY <1>1 DEF Request, Pcs, AccessInv, TypeOK
  <1> HIDE DEF r
  <1>3. Resolution(r)
    BY <1>2 DEF Resolution
  <1> QED
    BY <1>1, <1>2, <1>3, ResolvingKeeps DEF ResolveNobody

LEMMA FetchGroupsKeeps ==
  ASSUME AccessInv, NEW c \in Client, FetchGroups(c)
  PROVE  AccessInv'
  <1> DEFINE u == req[c].user
             r == [req[c] EXCEPT !.pc = "policies", !.groups = members[u],
                                 !.since = now, !.asOf = invalidations]
  <1>1. req[c] \in Request /\ Goto(c, r) /\ req[c].pc = "resolve" /\ u \in User
    BY UnderWay DEF FetchGroups, Resolves, Pcs, Request
  <1>2. /\ r \in Request /\ r.pc = "policies" /\ r.since = now /\ r.asOf = invalidations
        /\ r.user = u /\ r.groups = members[u]
        /\ r.ask = req[c].ask /\ r.roles = req[c].roles /\ r.began = req[c].began
    BY <1>1, HeldNow DEF Request, Pcs, AccessInv, TypeOK
  <1> HIDE DEF r
  <1>3. Resolution(r)
    BY <1>1, <1>2, HeldNow DEF Resolution
  <1> QED
    BY <1>1, <1>2, <1>3, ResolvingKeeps DEF FetchGroups

LEMMA FetchPoliciesKeeps ==
  ASSUME AccessInv, NEW c \in Client, FetchPolicies(c)
  PROVE  AccessInv'
  <1> DEFINE u == req[c].user
             r == [req[c] EXCEPT !.pc = "store", !.policies = policies_for(u)]
  <1>1. req[c] \in Request /\ Good(req[c]) /\ Goto(c, r) /\ req[c].pc = "policies"
    BY UnderWay DEF FetchPolicies, Pcs
  <1>2. u \in User /\ GroupsOf(u, req[c].groups, Fetched(req[c]))
    BY <1>1 DEF Good, Resolution
  <1>3. /\ r \in Request /\ r.pc = "store" /\ r.since = req[c].since /\ r.asOf = req[c].asOf
        /\ r.user = u /\ r.groups = req[c].groups /\ r.policies = policies_for(u)
        /\ r.ask = req[c].ask /\ r.roles = req[c].roles /\ r.began = req[c].began
    BY <1>1, <1>2, HeldNow DEF Request, Pcs
  <1> HIDE DEF r
  <1>4. Resolution(r)
    BY <1>2, <1>3, HeldNow DEF Resolution, Fetched
  <1> QED
    BY <1>1, <1>3, <1>4, ResolvingKeeps DEF FetchPolicies

LEMMA StoreResolvedKeeps ==
  ASSUME AccessInv, NEW c \in Client, StoreResolved(c)
  PROVE  AccessInv'
  <1> DEFINE u == req[c].user
             r == [req[c] EXCEPT !.pc = "act"]
             entry == CacheEntry(req[c])
  <1>1. req[c] \in Request /\ Good(req[c]) /\ rows \in Tables /\ Goto(c, r) /\ req[c].pc = "store"
    BY UnderWay DEF StoreResolved, Pcs
  <1>2. /\ u \in User /\ GroupsOf(u, req[c].groups, Fetched(req[c]))
        /\ PoliciesOf(u, req[c].policies, Fetched(req[c]))
    BY <1>1 DEF Good, Resolution
  <1>3. /\ r \in Request /\ r.pc = "act" /\ r.since = req[c].since /\ r.asOf = req[c].asOf
        /\ r.user = u /\ r.groups = req[c].groups /\ r.policies = req[c].policies
        /\ r.ask = req[c].ask /\ r.roles = req[c].roles /\ r.began = req[c].began
    BY <1>1 DEF Request, Pcs
  <1>4. Fetched(req[c]) \subseteq Usable(r) /\ Fetched(req[c]) \subseteq Stored(u, entry)
    BY <1>3 DEF Fetched, Usable, Stored
  <1> HIDE DEF r
  <1>5. Resolution(r)
    BY <1>2, <1>3, <1>4 DEF Resolution, GroupsOf, PoliciesOf
  <1>6. Good(r)
    BY <1>1, <1>3, <1>5 DEF Good, Timely, Credited, Counts, KeyCounts, Asked
  <1>7. entry \in Entry /\ GoodEntry(u, entry)
    <2>1. now \in 0..MaxTime /\ CacheTtl \in Nat /\ MaxTime \in Nat
      BY BoundsAssumption DEF AccessInv, TypeOK
    <2>2. /\ entry.groups = req[c].groups /\ entry.policies = req[c].policies
          /\ entry.expiry = now + CacheTtl
      BY DEF CacheEntry
    <2>3. entry \in Entry
      BY <1>1, <2>1 DEF CacheEntry, Entry, Request
    <2> HIDE DEF entry
    <2>4. GroupsOf(u, entry.groups, Stored(u, entry)) /\ PoliciesOf(u, entry.policies, Stored(u, entry))
      BY <1>2, <1>4, <2>2 DEF GroupsOf, PoliciesOf
    <2> QED
      BY <2>1, <2>2, <2>3, <2>4 DEF GoodEntry
  <1>8. \/ UNCHANGED cache
        \/ cache' = [cache EXCEPT ![u] = entry]
    BY DEF StoreResolved
  <1>9. rows' \in Tables /\ UNCHANGED standing
    BY <1>1 DEF StoreResolved, Shared, standing
  <1> HIDE DEF entry
  <1> QED
    BY <1>1, <1>2, <1>3, <1>6, <1>7, <1>8, <1>9, RequestMoves

LEMMA ResolveRolesKeeps ==
  ASSUME AccessInv, NEW c \in Client, ResolveRoles(c)
  PROVE  AccessInv'
  <1> DEFINE r == [req[c] EXCEPT !.pc = "act", !.policies = PoliciesOfRoles(req[c].roles),
                                 !.since = now]
  <1>1. req[c] \in Request /\ Goto(c, r) /\ req[c].pc = "resolve" /\ resolver = "roles"
    BY UnderWay DEF ResolveRoles, Resolves, Pcs
  <1>2. PoliciesOfRoles(req[c].roles) \in SUBSET Held
    BY PoliciesAssumption DEF PoliciesOfRoles
  <1>3. /\ r \in Request /\ r.pc = "act" /\ r.since = now /\ r.asOf = req[c].asOf
        /\ r.user = req[c].user
        /\ r.ask = req[c].ask /\ r.roles = req[c].roles /\ r.began = req[c].began
    BY <1>1, <1>2 DEF Request, Pcs, AccessInv, TypeOK
  <1> HIDE DEF r
  <1>4. Resolution(r)
    BY <1>1, <1>3 DEF Resolution
  <1> QED
    BY <1>1, <1>3, <1>4, ResolvingKeeps DEF ResolveRoles

-----------------------------------------------------------------------------
(* The world moves *)

PastEntry == [user : User, groups : SUBSET Group, policies : SUBSET Held, until : 0..MaxTime,
              voided : 0..MaxInvalidations, overlapped : BOOLEAN]

(* The world moves and no request does: what stands in good standing keeps it. *)
LEMMA WorldMoves ==
  ASSUME AccessInv, UNCHANGED <<resolver, rows, req>>,
         now' \in 0..MaxTime, changes' \in 0..MaxChanges, invalidations' \in 0..MaxInvalidations,
         members' \in [User -> SUBSET Group], grants' \in [Group -> SUBSET DOMAIN Policies],
         keys' \in [Key -> KeyRow],
         users' \in [User -> [enabled : BOOLEAN, ended : 0..MaxChanges]],
         past' \subseteq PastEntry,
         \/ UNCHANGED cache
         \/ \E dropped \in SUBSET User :
              cache' = [u \in User |-> IF u \in dropped THEN None ELSE cache[u]],
         Ended',
         \A c \in Client : req[c].pc \in Pcs => Good(req[c])',
         \A u \in User : cache'[u] # None => GoodEntry(u, cache[u])'
  PROVE  AccessInv'
  <1>1. cache \in [User -> {None} \cup Entry]
    BY DEF AccessInv, TypeOK, Entry
  <1>2. cache' \in [User -> {None} \cup Entry]
    BY <1>1
  <1>3. TypeOK'
    BY <1>2 DEF AccessInv, TypeOK, Entry, PastEntry
  <1> QED
    BY <1>3 DEF AccessInv

(* A client that is resolving u's grants now. *)
LEMMA ResolvingNow ==
  ASSUME NEW c \in Client, req[c].pc \in {"policies", "store"}
  PROVE  Resolving(req[c].user)
  BY DEF Resolving

PoliciesUnder(newMembers, newGrants, u) ==
  {q \in UNION {newGrants[g] : g \in newMembers[u]} : Readable(q)}

(* What changes now is remembered among those. *)
Remembers(u, later) ==
  \A p \in past' : (/\ p.user = u /\ p.until = now /\ p.voided = MaxInvalidations
                    /\ p.overlapped = Resolving(u)) => p \in later

(* After grants change a user holds what it held, or what it held is remembered. *)
LEMMA RegrantRemembers ==
  ASSUME NEW newMembers, NEW newGrants, Regrant(newMembers, newGrants), NEW u \in User,
         NEW later, Remembers(u, later)
  PROVE  \/ newMembers[u] = members[u] /\ PoliciesUnder(newMembers, newGrants, u) = policies_for(u)
         \/ \E p \in later : p.groups = members[u] /\ p.policies = policies_for(u)
  <1> DEFINE p == [user |-> u, groups |-> members[u], policies |-> policies_for(u),
                   until |-> now, voided |-> MaxInvalidations, overlapped |-> Resolving(u)]
             NewPolicies == PoliciesUnder(newMembers, newGrants, u)
  <1>1. SUFFICES ASSUME newMembers[u] # members[u] \/ NewPolicies # policies_for(u)
                 PROVE  \E q \in later : q.groups = members[u] /\ q.policies = policies_for(u)
    OBVIOUS
  <1>2. p \in past'
    BY <1>1 DEF Regrant, PoliciesUnder
  <1>3. p.groups = members[u] /\ p.policies = policies_for(u) /\ p \in later
    BY <1>2 DEF Remembers
  <1> HIDE DEF p
  <1> QED
    BY <1>3

LEMMA RegrantKeeps ==
  ASSUME AccessInv, World, NEW newMembers \in [User -> SUBSET Group],
         NEW newGrants \in [Group -> SUBSET DOMAIN Policies],
         Regrant(newMembers, newGrants), UNCHANGED cache
  PROVE  AccessInv'
  <1>1. /\ members' = newMembers /\ grants' = newGrants
        /\ UNCHANGED <<keys, users, cache, resolver, now, rows, req, invalidations>>
        /\ changes' = changes + 1 /\ changes < MaxChanges
    BY DEF Regrant, World
  <1>2. now \in 0..MaxTime /\ changes \in 0..MaxChanges /\ invalidations \in 0..MaxInvalidations
        /\ CacheTtl \in Nat /\ MaxTime \in Nat /\ MaxChanges \in Nat /\ MaxInvalidations \in Nat
    BY BoundsAssumption DEF AccessInv, TypeOK
  <1>3. past \subseteq past' /\ past' \subseteq PastEntry
    <2>1. past \subseteq PastEntry
      BY DEF AccessInv, TypeOK, PastEntry
    <2>2. \A u \in User : [user |-> u, groups |-> members[u], policies |-> policies_for(u),
                          until |-> now, voided |-> MaxInvalidations,
                          overlapped |-> Resolving(u)] \in PastEntry
      <3> TAKE u \in User
      <3>1. Resolving(u) \in BOOLEAN
        BY DEF Resolving
      <3> QED
        BY <1>2, <3>1, HeldNow DEF PastEntry
    <2> QED
      BY <2>1, <2>2 DEF Regrant
  <1>4. ASSUME NEW c \in Client, NEW r \in Request, r = req[c], Good(r) PROVE Good(r)'
    <2>2. Timely(r)'
      BY <1>1, <1>2, <1>4 DEF Good, Timely, Request
    <2>3. Credited(r)'
      BY <1>1, <1>4 DEF Good, Credited, Counts, KeyCounts, Asked
    <2>4. Timely(r) /\ r.since \in Nat /\ Resolution(r)
      BY <1>4 DEF Good, Request
    <2>5. Resolution(r)'
      <3>1. CASE r.pc \in {"policies", "store"}
        <4>1. r.user \in User /\ GroupsOf(r.user, r.groups, Fetched(r))
              /\ (r.pc = "store" => PoliciesOf(r.user, r.policies, Fetched(r)))
          BY <2>4, <3>1 DEF Resolution
        <4>2. Fetched(r) \subseteq Fetched(r)'
          BY <1>1, <1>3 DEF Fetched
        <4>3. Remembers(r.user, Fetched(r)')
          BY <1>1, <1>4, <2>4, <3>1, ResolvingNow DEF Remembers, Fetched, Timely
        <4>4. /\ r.groups = members'[r.user] \/ \E p \in Fetched(r)' : p.groups = r.groups
              /\ r.pc = "store" => \/ r.policies = PoliciesUnder(newMembers, newGrants, r.user)
                                  \/ \E p \in Fetched(r)' : p.policies = r.policies
          <5>1. \/ newMembers[r.user] = members[r.user] /\ PoliciesUnder(newMembers, newGrants, r.user) = policies_for(r.user)
                \/ \E p \in Fetched(r)' : p.groups = members[r.user] /\ p.policies = policies_for(r.user)
            BY <4>1, <4>3, RegrantRemembers
          <5> QED
            BY <1>1, <4>1, <4>2, <5>1 DEF GroupsOf, PoliciesOf
        <4> QED
          BY <1>1, <3>1, <4>1, <4>4 DEF Resolution, GroupsOf, PoliciesOf, policies_for, PoliciesUnder
      <3>2. CASE r.pc = "act" /\ resolver = "grants" /\ r.user # None
        <4>1. r.user \in User
          BY <3>2 DEF Request
        <4>2. GroupsOf(r.user, r.groups, Usable(r)) /\ PoliciesOf(r.user, r.policies, Usable(r))
          BY <2>4, <3>2 DEF Resolution
        <4>3. Usable(r) \subseteq Usable(r)'
          BY <1>1, <1>3 DEF Usable
        <4>4. Remembers(r.user, Usable(r)')
          BY <1>1, <2>4 DEF Remembers, Usable, Timely
        <4>5. /\ r.groups = members'[r.user] \/ \E p \in Usable(r)' : p.groups = r.groups
              /\ \/ r.policies = PoliciesUnder(newMembers, newGrants, r.user)
                 \/ \E p \in Usable(r)' : p.policies = r.policies
          <5>1. \/ newMembers[r.user] = members[r.user] /\ PoliciesUnder(newMembers, newGrants, r.user) = policies_for(r.user)
                \/ \E p \in Usable(r)' : p.groups = members[r.user] /\ p.policies = policies_for(r.user)
            BY <4>1, <4>4, RegrantRemembers
          <5> QED
            BY <1>1, <4>2, <4>3, <5>1 DEF GroupsOf, PoliciesOf
        <4> QED
          BY <1>1, <3>2, <4>5 DEF Resolution, GroupsOf, PoliciesOf, policies_for, PoliciesUnder
      <3> QED
        BY <1>1, <3>1, <3>2 DEF Resolution
    <2> QED
      BY <2>2, <2>3, <2>5 DEF Good
  <1>5. ASSUME NEW u \in User, NEW entry \in Entry, GoodEntry(u, entry) PROVE GoodEntry(u, entry)'
    <2>1. entry.expiry <= now + CacheTtl /\ entry.expiry \in Nat
      BY <1>2, <1>5 DEF GoodEntry, Entry
    <2>2. Stored(u, entry) \subseteq Stored(u, entry)'
      BY <1>1, <1>3 DEF Stored
    <2>3. Remembers(u, Stored(u, entry)')
      BY <1>1, <1>2, <2>1 DEF Remembers, Stored
    <2>4. /\ entry.groups = members'[u] \/ \E p \in Stored(u, entry)' : p.groups = entry.groups
          /\ \/ entry.policies = PoliciesUnder(newMembers, newGrants, u)
             \/ \E p \in Stored(u, entry)' : p.policies = entry.policies
      <3>1. \/ newMembers[u] = members[u] /\ PoliciesUnder(newMembers, newGrants, u) = policies_for(u)
            \/ \E p \in Stored(u, entry)' : p.groups = members[u] /\ p.policies = policies_for(u)
        BY <2>3, RegrantRemembers
      <3> QED
        BY <1>1, <1>5, <2>2, <3>1 DEF GoodEntry, GroupsOf, PoliciesOf
    <2> QED
      BY <1>1, <1>2, <2>1, <2>4 DEF GoodEntry, GroupsOf, PoliciesOf, policies_for, PoliciesUnder
  <1>6. Ended'
    BY <1>1 DEF AccessInv, Ended
  <1>7. \A c \in Client : req[c].pc \in Pcs => Good(req[c])'
    <2> SUFFICES ASSUME NEW c \in Client, req[c].pc \in Pcs PROVE Good(req[c])'
      OBVIOUS
    <2>1. PICK r \in Request : r = req[c] /\ r = req'[c] /\ Good(r)
      BY <1>1, UnderWay
    <2> QED
      BY <1>4, <2>1
  <1>8. \A u \in User : cache'[u] # None => GoodEntry(u, cache[u])'
    <2> SUFFICES ASSUME NEW u \in User, cache'[u] # None PROVE GoodEntry(u, cache[u])'
      OBVIOUS
    <2>1. PICK entry \in Entry : entry = cache'[u] /\ GoodEntry(u, entry)
      BY <1>1 DEF AccessInv, TypeOK, Entry
    <2> QED
      BY <1>5, <2>1
  <1> QED
    BY <1>1, <1>2, <1>3, <1>6, <1>7, <1>8, WorldMoves DEF AccessInv, TypeOK

LEMMA ChangeMembershipKeeps ==
  ASSUME AccessInv, ChangeMembership
  PROVE  AccessInv'
  <1>1. PICK u \in User, g \in Group :
          LET toggled == IF g \in members[u] THEN members[u] \ {g} ELSE members[u] \cup {g}
          IN Regrant([members EXCEPT ![u] = toggled], grants)
    BY DEF ChangeMembership
  <1> DEFINE toggled == IF g \in members[u] THEN members[u] \ {g} ELSE members[u] \cup {g}
             new == [members EXCEPT ![u] = toggled]
  <1>2. new \in [User -> SUBSET Group] /\ grants \in [Group -> SUBSET DOMAIN Policies]
    BY DEF AccessInv, TypeOK
  <1>3. Regrant(new, grants) /\ World /\ UNCHANGED cache
    BY <1>1 DEF ChangeMembership
  <1> HIDE DEF new
  <1> QED
    BY <1>2, <1>3, RegrantKeeps

LEMMA ChangeGrantsKeeps ==
  ASSUME AccessInv, ChangeGrants
  PROVE  AccessInv'
  <1>1. PICK g \in Group, p \in Grantable :
          LET toggled == IF p \in grants[g] THEN grants[g] \ {p} ELSE grants[g] \cup {p}
          IN Regrant(members, [grants EXCEPT ![g] = toggled])
    BY DEF ChangeGrants
  <1> DEFINE toggled == IF p \in grants[g] THEN grants[g] \ {p} ELSE grants[g] \cup {p}
             new == [grants EXCEPT ![g] = toggled]
  <1>2. new \in [Group -> SUBSET DOMAIN Policies] /\ members \in [User -> SUBSET Group]
    BY PoliciesAssumption DEF AccessInv, TypeOK
  <1>3. Regrant(members, new) /\ World /\ UNCHANGED cache
    BY <1>1 DEF ChangeGrants
  <1> HIDE DEF new
  <1> QED
    BY <1>2, <1>3, RegrantKeeps

LEMMA InvalidateKeeps ==
  ASSUME AccessInv, Invalidate
  PROVE  AccessInv'
  <1>1. PICK dropped \in UNION {{{p.user}, User} : p \in past} :
          /\ cache' = [u \in User |-> IF u \in dropped THEN None ELSE cache[u]]
          /\ past' = {IF p.user \in dropped /\ p.voided = MaxInvalidations
                      THEN [p EXCEPT !.voided = invalidations] ELSE p : p \in past}
    BY DEF Invalidate
  <1>2. /\ invalidations' = invalidations + 1 /\ invalidations < MaxInvalidations
        /\ UNCHANGED <<resolver, now, rows, req, changes, members, grants, keys, users>>
    BY DEF Invalidate
  <1>3. past \subseteq PastEntry /\ cache \in [User -> {None} \cup Entry]
    BY DEF AccessInv, TypeOK, PastEntry, Entry
  <1>4. dropped \in SUBSET User
    BY <1>3 DEF PastEntry
  <1>5. /\ now \in 0..MaxTime /\ changes \in 0..MaxChanges /\ invalidations \in 0..MaxInvalidations
        /\ CacheTtl \in Nat /\ MaxInvalidations \in Nat
    BY BoundsAssumption DEF AccessInv, TypeOK
  <1>6. \A p \in past : \E q \in past' :
          /\ q.user = p.user /\ q.groups = p.groups /\ q.policies = p.policies
          /\ q.until = p.until /\ q.overlapped = p.overlapped
          /\ q.voided \in {p.voided, invalidations} /\ (p.user \notin dropped => q = p)
    <2> TAKE p \in past
    <2> DEFINE q == IF p.user \in dropped /\ p.voided = MaxInvalidations
                    THEN [p EXCEPT !.voided = invalidations] ELSE p
    <2>1. q \in past'
      BY <1>1
    <2>2. p \in PastEntry
      BY <1>3
    <2>3. /\ q.user = p.user /\ q.groups = p.groups /\ q.policies = p.policies
          /\ q.until = p.until /\ q.overlapped = p.overlapped
          /\ q.voided \in {p.voided, invalidations} /\ (p.user \notin dropped => q = p)
      BY <2>2 DEF PastEntry
    <2> HIDE DEF q
    <2> QED
      BY <2>1, <2>3
  <1>7. past' \subseteq PastEntry
    <2>1. \A p \in past : [p EXCEPT !.voided = invalidations] \in PastEntry
      BY <1>3, <1>5 DEF PastEntry
    <2> QED
      BY <1>1, <1>3, <2>1
  <1>8. ASSUME NEW c \in Client, req[c].pc \in Pcs PROVE Good(req[c])'
    <2> DEFINE r == req[c]
    <2>1. r \in Request /\ Timely(r) /\ Credited(r) /\ Resolution(r) /\ r' = r
      BY <1>2, <1>8, UnderWay DEF Good
    <2>2. Timely(r)' /\ Credited(r)'
      BY <1>2, <1>5, <2>1 DEF Timely, Request, Credited, Counts, KeyCounts, Asked
    <2>3. \A p \in Fetched(r) : \E q \in Fetched(r)' : q.groups = p.groups /\ q.policies = p.policies
      BY <1>2, <1>6, <2>1 DEF Fetched
    <2>4. \A p \in Usable(r) : \E q \in Usable(r)' : q.groups = p.groups /\ q.policies = p.policies
      <3> TAKE p \in Usable(r)
      <3>1. p \in past
        BY DEF Usable
      <3>2. PICK q \in past' : /\ q.user = p.user /\ q.groups = p.groups /\ q.policies = p.policies
                               /\ q.until = p.until /\ q.overlapped = p.overlapped
                               /\ q.voided \in {p.voided, invalidations}
        BY <1>6, <3>1
      <3>3. r.asOf <= invalidations
        BY <2>1 DEF Timely
      <3> QED
        BY <1>2, <2>1, <3>2, <3>3 DEF Usable
    <2>5. Resolution(r)'
      BY <1>2, <2>1, <2>3, <2>4 DEF Resolution, GroupsOf, PoliciesOf, policies_for
    <2> QED
      BY <2>2, <2>5 DEF Good
  <1>9. ASSUME NEW u \in User, cache'[u] # None PROVE GoodEntry(u, cache[u])'
    <2>1. u \notin dropped /\ cache'[u] = cache[u] /\ GoodEntry(u, cache[u])
      BY <1>1, <1>9 DEF AccessInv
    <2> DEFINE entry == cache[u]
    <2>2. entry' = entry
      BY <2>1
    <2>3. Stored(u, entry) \subseteq Stored(u, entry)'
      BY <1>2, <1>6, <2>1, <2>2 DEF Stored
    <2> QED
      BY <1>2, <2>1, <2>3 DEF GoodEntry, GroupsOf, PoliciesOf, policies_for
  <1>10. Ended'
    BY <1>2 DEF AccessInv, Ended
  <1>11. invalidations' \in 0..MaxInvalidations
    BY <1>2, <1>5
  <1> QED
    BY <1>1, <1>2, <1>4, <1>7, <1>8, <1>9, <1>10, <1>11, WorldMoves DEF AccessInv, TypeOK

(* Keys, users and the clock leave alone what was resolved. *)
LEMMA ResolvedStands ==
  ASSUME AccessInv, UNCHANGED <<resolver, invalidations, members, grants, past>>,
         now' \in {now, now + 1}
  PROVE  /\ \A r : Resolution(r) => Resolution(r)'
         /\ \A u \in User, entry \in Entry : GoodEntry(u, entry) => GoodEntry(u, entry)'
  <1>1. \A u : policies_for(u)' = policies_for(u)
    BY DEF policies_for
  <1>2. \A r : Resolution(r) => Resolution(r)'
    BY <1>1 DEF Resolution, GroupsOf, PoliciesOf, Fetched, Usable
  <1>3. ASSUME NEW u \in User, NEW entry \in Entry, GoodEntry(u, entry) PROVE GoodEntry(u, entry)'
    <2>1. GroupsOf(u, entry.groups, Stored(u, entry))' /\ PoliciesOf(u, entry.policies, Stored(u, entry))'
      BY <1>1, <1>3 DEF GoodEntry, GroupsOf, PoliciesOf, Stored
    <2>2. entry.expiry \in Nat /\ now \in Nat /\ CacheTtl \in Nat
      BY BoundsAssumption DEF Entry, AccessInv, TypeOK
    <2>3. entry.expiry <= now' + CacheTtl
      BY <1>3, <2>2 DEF GoodEntry
    <2> QED
      BY <2>1, <2>3 DEF GoodEntry
  <1> QED
    BY <1>2, <1>3

(* Nothing but keys, users and the clock moves: whoever is credited must stay so. *)
LEMMA CreditsMove ==
  ASSUME AccessInv, UNCHANGED <<resolver, rows, req, cache, invalidations, members, grants, past>>,
         now' \in {now, now + 1}, now' \in 0..MaxTime,
         changes' \in {changes, changes + 1}, changes' \in 0..MaxChanges,
         keys' \in [Key -> KeyRow],
         users' \in [User -> [enabled : BOOLEAN, ended : 0..MaxChanges]],
         Ended',
         \A r \in Request : Good(r) => Credited(r)'
  PROVE  AccessInv'
  <1>1. now \in 0..MaxTime /\ changes \in 0..MaxChanges /\ invalidations \in 0..MaxInvalidations
    BY DEF AccessInv, TypeOK
  <1>2. ASSUME NEW r \in Request, Good(r) PROVE Good(r)'
    <2>1. Timely(r)'
      BY <1>1, <1>2 DEF Good, Timely, Request
    <2> QED
      BY <1>2, <2>1, ResolvedStands DEF Good
  <1>3. \A c \in Client : req[c].pc \in Pcs => Good(req[c])'
    <2> SUFFICES ASSUME NEW c \in Client, req[c].pc \in Pcs PROVE Good(req[c])'
      OBVIOUS
    <2>1. PICK r \in Request : r = req[c] /\ r = req'[c] /\ Good(r)
      BY UnderWay
    <2> QED
      BY <1>2, <2>1
  <1>4. \A u \in User : cache'[u] # None => GoodEntry(u, cache[u])'
    <2> SUFFICES ASSUME NEW u \in User, cache'[u] # None PROVE GoodEntry(u, cache[u])'
      OBVIOUS
    <2>1. PICK entry \in Entry : entry = cache'[u] /\ GoodEntry(u, entry)
      BY DEF AccessInv, TypeOK, Entry
    <2> QED
      BY <2>1, ResolvedStands
  <1> QED
    BY <1>1, <1>3, <1>4, WorldMoves DEF AccessInv, TypeOK, PastEntry

LEMMA TickKeeps ==
  ASSUME AccessInv, Tick
  PROVE  AccessInv'
  <1>1. now' = now + 1 /\ now' \in 0..MaxTime
    BY BoundsAssumption DEF Tick, AccessInv, TypeOK
  <1>2. Ended'
    BY DEF Tick, AccessInv, Ended
  <1>3. \A r : Credited(r) => Credited(r)'
    BY DEF Tick, Credited, Counts, KeyCounts, Asked
  <1> QED
    BY <1>1, <1>2, <1>3, CreditsMove DEF Tick, AccessInv, TypeOK, Good

LEMMA RevokeKeyKeeps ==
  ASSUME AccessInv, RevokeKey
  PROVE  AccessInv'
  <1>1. PICK k \in Key : /\ keys[k].active
                         /\ keys' = [keys EXCEPT ![k].active = FALSE, ![k].ended = changes]
    BY DEF RevokeKey
  <1>2. changes \in 0..MaxChanges /\ changes' = changes + 1 /\ changes' \in 0..MaxChanges
    BY BoundsAssumption DEF RevokeKey, World, AccessInv, TypeOK
  <1> DEFINE new == [keys[k] EXCEPT !.active = FALSE, !.ended = changes]
  <1>3. keys \in [Key -> KeyRow] /\ keys' = [keys EXCEPT ![k] = new]
    <2>1. keys \in [Key -> KeyRow]
      BY DEF AccessInv, TypeOK
    <2> QED
      BY <1>1, <2>1
  <1>4. /\ new \in KeyRow /\ ~new.active /\ new.ended = changes /\ new.owner = keys[k].owner
        /\ new.roles = keys[k].roles /\ new.expires_at = keys[k].expires_at
    BY <1>2, <1>3 DEF KeyRow
  <1> HIDE DEF new
  <1>5. /\ keys' \in [Key -> KeyRow] /\ keys'[k] = new
        /\ \A j \in Key \ {k} : keys'[j] = keys[j]
    BY <1>3, <1>4
  <1>6. Ended'
    BY <1>4, <1>5 DEF RevokeKey, AccessInv, Ended
  <1>7. ASSUME NEW r \in Request, Good(r) PROVE Credited(r)'
    <2>1. \A owner, roles : KeyCounts(r, owner, roles) => KeyCounts(r, owner, roles)'
      <3>1. r.began.changes <= changes
        BY <1>7 DEF Good, Timely
      <3> QED
        BY <1>4, <1>5, <3>1 DEF KeyCounts, Asked
    <2> QED
      BY <1>7, <2>1 DEF Good, Credited, Counts, RevokeKey, Asked
  <1> QED
    BY <1>2, <1>5, <1>6, <1>7, CreditsMove DEF RevokeKey, World, AccessInv, TypeOK

LEMMA DisableUserKeeps ==
  ASSUME AccessInv, DisableUser
  PROVE  AccessInv'
  <1>1. PICK u \in User : /\ users[u].enabled
                          /\ users' = [users EXCEPT ![u] = [enabled |-> FALSE, ended |-> changes]]
    BY DEF DisableUser
  <1>2. changes \in 0..MaxChanges /\ changes' = changes + 1 /\ changes' \in 0..MaxChanges
    BY BoundsAssumption DEF DisableUser, World, AccessInv, TypeOK
  <1>3. /\ users' \in [User -> [enabled : BOOLEAN, ended : 0..MaxChanges]]
        /\ \A v \in User \ {u} : users'[v] = users[v]
        /\ ~users'[u].enabled /\ users'[u].ended = changes
    BY <1>1, <1>2 DEF AccessInv, TypeOK
  <1>4. Ended'
    BY <1>3 DEF DisableUser, AccessInv, Ended
  <1>5. ASSUME NEW r \in Request, Good(r) PROVE Credited(r)'
    <2>1. r.began.changes <= changes /\ r.user \in User \cup {None} /\ Credited(r)
      BY <1>5 DEF Good, Timely, Request
    <2>2. \A v \in User : users[v].ended >= r.began.changes => users'[v].ended >= r.began.changes
      BY <1>3, <2>1
    <2> QED
      BY <2>1, <2>2 DEF Credited, Counts, KeyCounts, DisableUser, Asked
  <1> QED
    BY <1>2, <1>3, <1>4, <1>5, CreditsMove DEF DisableUser, World, AccessInv, TypeOK

-----------------------------------------------------------------------------
(* Recursion up to a bound, which the library states of operators only *)

(* The least of a set of naturals, from the order being well-founded. *)
LEMMA LeastNat ==
  ASSUME NEW T \in SUBSET Nat, T # {}
  PROVE  \E x \in T : \A y \in T : x <= y
  <1> DEFINE R == OpToRel(<, Nat)
  <1>1. IsWellFoundedOn(R, Nat)
    BY NatLessThanWellFounded
  <1>2. \A x, y \in Nat : <<x, y>> \in R <=> x < y
    BY DEF OpToRel
  <1> HIDE DEF R
  <1>3. PICK x \in T : \A y \in T : ~ (<<y, x>> \in R)
    BY <1>1, WFMin
  <1>4. \A y \in T : ~(y < x)
    BY <1>2, <1>3
  <1>5. T \subseteq Nat
    OBVIOUS
  <1> QED
    BY <1>3, <1>4, <1>5

(* Induction from 0 to N, on the set of what has the property. *)
LEMMA UpTo ==
  ASSUME NEW N \in Nat, NEW T, 0 \in T, \A n \in 1..N : n - 1 \in T => n \in T
  PROVE  0..N \subseteq T
  <1> SUFFICES ASSUME 0..N \ T # {} PROVE FALSE
    OBVIOUS
  <1>1. 0..N \ T \in SUBSET Nat
    OBVIOUS
  <1>2. PICK x \in 0..N \ T : \A y \in 0..N \ T : x <= y
    BY <1>1, LeastNat
  <1>3. x \in 1..N /\ x - 1 \in 0..N /\ ~(x <= x - 1)
    BY <1>2
  <1> QED
    BY <1>2, <1>3

Recurs(f, N, base, step) == f[0] = base /\ \A n \in 1..N : f[n] = step[n][f[n - 1]]

(* A function defined by recursion from 0 to N exists. *)
LEMMA Recursion ==
  ASSUME NEW N \in Nat, NEW S, NEW base \in S, NEW step \in [1..N -> [S -> S]]
  PROVE  \E f \in [0..N -> S] : Recurs(f, N, base, step)
  <1> DEFINE T == {m \in 0..N : \E f \in [0..m -> S] : Recurs(f, m, base, step)}
  <1>0. \A m \in 0..N : m \in T <=> \E f \in [0..m -> S] : Recurs(f, m, base, step)
    OBVIOUS
  <1> HIDE DEF T
  <1>1. 0 \in T
    <2> DEFINE f == [n \in 0..0 |-> base]
    <2>1. f \in [0..0 -> S] /\ Recurs(f, 0, base, step)
      BY DEF Recurs
    <2> HIDE DEF f
    <2>2. 0 \in 0..N
      OBVIOUS
    <2> QED
      BY <1>0, <2>1, <2>2
  <1>2. ASSUME NEW m \in 1..N, m - 1 \in T PROVE m \in T
    <2>1. PICK f \in [0..(m - 1) -> S] : Recurs(f, m - 1, base, step)
      BY <1>0, <1>2
    <2> DEFINE g == [n \in 0..m |-> IF n = m THEN step[m][f[m - 1]] ELSE f[n]]
    <2>2. m - 1 \in 0..(m - 1) /\ \A n \in 0..m : n # m => n \in 0..(m - 1)
      OBVIOUS
    <2>3. f[m - 1] \in S /\ step[m] \in [S -> S]
      BY <2>2
    <2>4. g \in [0..m -> S] /\ g[m] = step[m][f[m - 1]] /\ \A n \in 0..(m - 1) : g[n] = f[n]
      BY <2>2, <2>3
    <2> HIDE DEF g
    <2>5. g[0] = base
      BY <2>1, <2>4 DEF Recurs
    <2>6. ASSUME NEW n \in 1..m PROVE g[n] = step[n][g[n - 1]]
      <3>1. n - 1 \in 0..(m - 1)
        OBVIOUS
      <3> QED
        BY <2>1, <2>4, <3>1 DEF Recurs
    <2>7. Recurs(g, m, base, step)
      BY <2>5, <2>6 DEF Recurs
    <2> QED
      BY <1>0, <2>4, <2>7
  <1>3. \A m \in 1..N : m - 1 \in T => m \in T
    BY <1>2
  <1>4. 0..N \subseteq T
    BY <1>1, <1>3, UpTo
  <1>5. N \in T
    BY <1>4
  <1> QED
    BY <1>0, <1>5

-----------------------------------------------------------------------------
(* Enforcement *)

LEMMA WithKept ==
  ASSUME NEW t \in Tables, NEW row \in Row
  PROVE  With(t, row) \in Tables
  <1> DEFINE new == With(t, row)
  <1>1. /\ DOMAIN new = DOMAIN t \cup {row.id}
        /\ new = [i \in DOMAIN t \cup {row.id} |-> IF i = row.id THEN row ELSE t[i]]
    BY DEF With
  <1>2. PICK ids \in SUBSET Id : t \in [ids -> Row]
    BY DEF Tables
  <1>3. IsFiniteSet(DOMAIN t) /\ \A i \in DOMAIN t : t[i].id = i
    BY DEF Tables
  <1>4. row.id \in Id
    BY DEF Row
  <1> HIDE DEF new
  <1>5. new \in [ids \cup {row.id} -> Row] /\ \A i \in DOMAIN new : new[i].id = i
    BY <1>1, <1>2, <1>3
  <1>6. IsFiniteSet(DOMAIN new)
    BY <1>1, <1>3, FS_AddElement
  <1>7. new \in UNION {[some -> Row] : some \in SUBSET Id}
    BY <1>4, <1>5
  <1> QED
    BY <1>5, <1>6, <1>7 DEF Tables, new

LEMMA WithoutKept ==
  ASSUME NEW t \in Tables, NEW i
  PROVE  Without(t, i) \in Tables
  <1> DEFINE new == Without(t, i)
  <1>1. DOMAIN new = DOMAIN t \ {i} /\ new = [j \in DOMAIN t \ {i} |-> t[j]]
    BY DEF Without
  <1>2. PICK ids \in SUBSET Id : t \in [ids -> Row]
    BY DEF Tables
  <1>3. IsFiniteSet(DOMAIN t) /\ \A j \in DOMAIN t : t[j].id = j
    BY DEF Tables
  <1> HIDE DEF new
  <1>4. new \in [ids \ {i} -> Row] /\ \A j \in DOMAIN new : new[j].id = j
    BY <1>1, <1>2, <1>3
  <1>5. IsFiniteSet(DOMAIN new)
    BY <1>1, <1>3, FS_RemoveElement
  <1>6. new \in UNION {[some -> Row] : some \in SUBSET Id}
    BY <1>4
  <1> QED
    BY <1>4, <1>5, <1>6 DEF Tables, new

LEMMA TableRows ==
  ASSUME NEW t \in Tables
  PROVE  /\ t = [i \in DOMAIN t |-> t[i]] /\ DOMAIN t \subseteq Id /\ IsFiniteSet(DOMAIN t)
         /\ \A i \in DOMAIN t : t[i] \in Row /\ t[i].id = i
  BY DEF Tables

LEMMA RespondsKeeps ==
  ASSUME AccessInv, NEW c \in Client, NEW answer, NEW table \in Tables, Responds(c, answer, table)
  PROVE  AccessInv'
  BY AnswerMoves DEF Responds, standing

(* What the filters of a request's policies say of a row. *)
LEMMA FiltersSay ==
  ASSUME NEW r \in Request, NEW action \in StandardActions \cup {"custom"}, NEW x \in Row
  PROVE  /\ InMemory(_permission_filter(r, action), x) = "true" <=> May(r, action, x)
         /\ action = "create" => (_permission_filter(r, action) # EmptyFilter <=> May(r, action, x))
         /\ \A g \in Condition \cup {None} :
              /\ _combine(_permission_filter(r, action), g) # None
              /\ Selected(_combine(_permission_filter(r, action), g), x) <=>
                   May(r, action, x) /\ (g # None => InMemory(g, x) = "true")
  <1> DEFINE f == Reduced(r.policies, r.groups, r.user, action)
             may(y) == \E p \in r.policies : PolicyAllows(Policies[p], r.groups, r.user, action, y)
  <1>1. r.policies \in SUBSET Held /\ r.groups \in SUBSET Group /\ r.user \in User \cup {None}
    BY DEF Request
  <1>2. /\ f # None
        /\ \A y \in Row : /\ InMemory(f, y) = "true" <=> may(y)
                          /\ Selected(f, y) <=> may(y)
                          /\ action = "create" => (f # EmptyFilter <=> may(y))
                          /\ \A g \in Condition :
                               /\ AndFilter(<<f, g>>) # None
                               /\ Selected(AndFilter(<<f, g>>), y) <=> may(y) /\ InMemory(g, y) = "true"
    BY <1>1, FiltersAssumption
  <1>3. /\ f = _permission_filter(r, action) /\ (may(x) <=> May(r, action, x))
        /\ \A g : _combine(f, g) = IF g = None THEN f ELSE AndFilter(<<f, g>>)
    BY DEF _permission_filter, May, _combine
  <1> HIDE DEF f, may
  <1> QED
    BY <1>2, <1>3, NoneAssumption

LEMMA Asking ==
  ASSUME AccessInv, NEW c \in Client, req[c].pc = "act"
  PROVE  /\ req[c] \in Request
         /\ Asked(req[c]).action \in StandardActions \cup {"custom", "edits"}
         /\ Asked(req[c]).id \in Id /\ Asked(req[c]).owner \in Owners
         /\ Asked(req[c]).ids \in Seq(Id) /\ Asked(req[c]).filter \in Condition \cup {None}
         /\ Asked(req[c]).edits \in Seq(Edit)
         /\ \A n \in DOMAIN Asked(req[c]).edits :
              Asked(req[c]).edits[n].action = "create" => Asked(req[c]).edits[n].id \in Id
         /\ rows \in Tables
  <1>1. req[c] \in Request /\ rows \in Tables
    BY UnderWay DEF Pcs, AccessInv, TypeOK
  <1>2. req[c].ask \in DOMAIN Asks
    BY <1>1 DEF Request
  <1> QED
    BY <1>1, <1>2, AsksAssumption DEF Asked

LEMMA Responded ==
  ASSUME AccessInv, NEW c \in Client, NEW answer, NEW table, Responds(c, answer, table)
  PROVE  req'[c].answer = answer /\ rows' = table
  BY DEF Responds, Answers, AccessInv, TypeOK

LEMMA ReadKeeps ==
  ASSUME AccessInv, NEW c \in Client, Read(c)
  PROVE  AccessInv' /\ Judged(req[c], req'[c].answer.rows, rows')
  <1> DEFINE r == req[c]
             q == Asked(r)
             f == _permission_filter(r, q.action)
  <1>1. /\ r \in Request /\ rows \in Tables /\ q.id \in Id /\ r.pc = "act"
        /\ q.action \in {"read", "custom"}
    BY Asking DEF Read
  <1>2. \A i \in DOMAIN rows : InMemory(f, rows[i]) = "true" <=> May(r, q.action, rows[i])
    BY <1>1, FiltersSay, TableRows DEF StandardActions
  <1>3. CASE Found(q.id) /\ InMemory(f, rows[q.id]) = "true"
    <2>1. Responds(c, Answer(200, <<rows[q.id]>>), rows)
      BY <1>3 DEF Read
    <2>2. req'[c].answer.rows = <<rows[q.id]>> /\ rows' = rows
      BY <2>1, Responded DEF Answer
    <2>3. Judged(r, <<rows[q.id]>>, rows)
      BY <1>1, <1>2, <1>3 DEF Judged, Found
    <2> QED
      BY <1>1, <2>1, <2>2, <2>3, RespondsKeeps
  <1>4. CASE ~(Found(q.id) /\ InMemory(f, rows[q.id]) = "true")
    <2>1. Responds(c, NotFound, rows)
      BY <1>4 DEF Read
    <2>2. req'[c].answer.rows = <<>> /\ rows' = rows
      BY <2>1, Responded DEF Answer, NotFound
    <2>3. Judged(r, <<>>, rows)
      BY <1>1, <1>2, <1>4 DEF Judged, Found
    <2> QED
      BY <1>1, <2>1, <2>2, <2>3, RespondsKeeps
  <1> QED
    BY <1>3, <1>4

(* What an edit on its own is allowed to do, and does. *)
Mine(r, t, edit) ==
  /\ edit.id \in DOMAIN t /\ May(r, edit.action, t[edit.id])
  /\ edit.condition # None => InMemory(edit.condition, t[edit.id]) = "true"

Written(edit) == [id |-> edit.id, owner |-> edit.owner]

LEMMA AloneRefused ==
  ASSUME NEW r, NEW t, NEW edit,
         \/ edit.action = "create" /\ ~May(r, "create", Written(edit))
         \/ edit.action \in {"update", "delete"} /\ ~Mine(r, t, edit)
  PROVE  Alone(r, t, edit) = [answer |-> None, table |-> t]
  BY DEF Alone, Mine, Written

LEMMA AloneWrites ==
  ASSUME NEW r, NEW t \in Tables, NEW edit,
         \/ edit.action = "create" /\ May(r, "create", Written(edit))
         \/ edit.action = "update" /\ Mine(r, t, edit)
  PROVE  Alone(r, t, edit) = [answer |-> Written(edit), table |-> With(t, Written(edit))]
  <1> DEFINE new == Written(edit)
  <1>1. new.id = edit.id
    BY DEF Written
  <1> HIDE DEF new
  <1>2. With(t, new) = [i \in DOMAIN t \cup {edit.id} |-> IF i = edit.id THEN new ELSE t[i]]
    BY <1>1 DEF With
  <1>3. edit.id \in DOMAIN t => With(t, new) = [t EXCEPT ![edit.id] = new]
    BY <1>2, TableRows
  <1>4. CASE edit.action = "create"
    BY <1>2, <1>4 DEF Alone, Written, new
  <1>5. CASE edit.action = "update"
    BY <1>3, <1>5 DEF Alone, Written, Mine, new
  <1> QED
    BY <1>4, <1>5

LEMMA AloneDeletes ==
  ASSUME NEW r, NEW t, NEW edit, edit.action = "delete", Mine(r, t, edit)
  PROVE  Alone(r, t, edit) = [answer |-> None, table |-> Without(t, edit.id)]
  BY DEF Alone, Mine, Without

LEMMA CreateKeeps ==
  ASSUME AccessInv, NEW c \in Client, Create(c)
  PROVE  AccessInv' /\ Judged(req[c], req'[c].answer.rows, rows')
  <1> DEFINE r == req[c]
             q == Asked(r)
             new == [id |-> q.id, owner |-> q.owner]
             edit == [action |-> q.action, id |-> q.id, owner |-> q.owner, condition |-> None]
  <1>1. /\ r \in Request /\ rows \in Tables /\ q.id \in Id /\ q.owner \in Owners
        /\ q.action = "create" /\ r.pc = "act"
    BY Asking DEF Create, Acting
  <1>2. new \in Row /\ edit.action = "create" /\ new = Written(edit)
    BY <1>1 DEF Row, Written
  <1>3. _permission_filter(r, "create") # EmptyFilter <=> May(r, "create", new)
    BY <1>1, <1>2, FiltersSay DEF StandardActions
  <1>4. \A served, after : Judged(r, served, after) <=> after = Alone(r, rows, edit).table
    BY <1>1 DEF Judged
  <1>5. /\ May(r, "create", new) => Alone(r, rows, edit).table = With(rows, new)
        /\ ~May(r, "create", new) => Alone(r, rows, edit).table = rows
    BY <1>1, <1>2, AloneWrites, AloneRefused
  <1>6. CASE May(r, "create", new)
    <2>1. Responds(c, Answer(201, <<new>>), With(rows, new))
      BY <1>3, <1>6 DEF Create
    <2>2. With(rows, new) \in Tables
      BY <1>1, <1>2, WithKept
    <2>3. rows' = With(rows, new)
      BY <2>1, Responded
    <2> QED
      BY <1>4, <1>5, <1>6, <2>1, <2>2, <2>3, RespondsKeeps
  <1>7. CASE ~May(r, "create", new)
    <2>1. Responds(c, Answer(403, <<>>), rows)
      BY <1>3, <1>7 DEF Create
    <2>2. rows' = rows
      BY <2>1, Responded
    <2> QED
      BY <1>1, <1>4, <1>5, <1>7, <2>1, <2>2, RespondsKeeps
  <1> QED
    BY <1>6, <1>7

LEMMA UpdateKeeps ==
  ASSUME AccessInv, NEW c \in Client, Update(c)
  PROVE  AccessInv' /\ Judged(req[c], req'[c].answer.rows, rows')
  <1> DEFINE r == req[c]
             q == Asked(r)
             i == q.id
             f == _combine(_permission_filter(r, "update"), None)
             new == [rows[i] EXCEPT !.owner = q.owner]
             edit == [action |-> q.action, id |-> q.id, owner |-> q.owner, condition |-> None]
  <1>1. /\ r \in Request /\ rows \in Tables /\ q.id \in Id /\ q.owner \in Owners
        /\ q.action = "update" /\ r.pc = "act"
    BY Asking DEF Update, Acting
  <1>2. i \in DOMAIN rows => /\ new \in Row /\ new = Written(edit)
                             /\ Selected(f, rows[i]) <=> May(r, "update", rows[i])
    <2> SUFFICES ASSUME i \in DOMAIN rows
                 PROVE  /\ new \in Row /\ new = Written(edit)
                        /\ Selected(f, rows[i]) <=> May(r, "update", rows[i])
      OBVIOUS
    <2>1. rows[i] \in Row /\ rows[i].id = i
      BY <1>1, TableRows
    <2>2. Selected(f, rows[i]) <=> May(r, "update", rows[i])
      BY <1>1, <2>1, FiltersSay DEF StandardActions
    <2> QED
      BY <1>1, <2>1, <2>2 DEF Row, Written
  <1>3. \A served, after : Judged(r, served, after) <=> after = Alone(r, rows, edit).table
    BY <1>1 DEF Judged
  <1>4. /\ edit.action = "update" /\ edit.id = i
        /\ Mine(r, rows, edit) <=> i \in DOMAIN rows /\ May(r, "update", rows[i])
    BY <1>1 DEF Mine
  <1> HIDE DEF edit, f
  <1>5. CASE i \in DOMAIN rows /\ May(r, "update", rows[i])
    <2>1. Responds(c, Answer(200, <<new>>), With(rows, new))
      BY <1>2, <1>5 DEF Update, Found, f
    <2>2. With(rows, new) \in Tables
      BY <1>1, <1>2, <1>5, WithKept
    <2>3. rows' = With(rows, new)
      BY <2>1, Responded
    <2>4. Alone(r, rows, edit).table = With(rows, new)
      BY <1>1, <1>2, <1>4, <1>5, AloneWrites
    <2> QED
      BY <1>3, <2>1, <2>2, <2>3, <2>4, RespondsKeeps
  <1>6. CASE ~(i \in DOMAIN rows /\ May(r, "update", rows[i]))
    <2>1. Responds(c, NotFound, rows)
      BY <1>2, <1>6 DEF Update, Found, f
    <2>2. rows' = rows
      BY <2>1, Responded
    <2>3. Alone(r, rows, edit) = [answer |-> None, table |-> rows]
      BY <1>4, <1>6, AloneRefused
    <2> QED
      BY <1>1, <1>3, <2>1, <2>2, <2>3, RespondsKeeps
  <1> QED
    BY <1>5, <1>6

LEMMA DeleteKeeps ==
  ASSUME AccessInv, NEW c \in Client, Delete(c)
  PROVE  AccessInv' /\ Judged(req[c], req'[c].answer.rows, rows')
  <1> DEFINE r == req[c]
             q == Asked(r)
             i == q.id
             f == _combine(_permission_filter(r, "delete"), None)
             edit == [action |-> q.action, id |-> q.id, owner |-> q.owner, condition |-> None]
  <1>1. r \in Request /\ rows \in Tables /\ q.id \in Id /\ q.action = "delete" /\ r.pc = "act"
    BY Asking DEF Delete, Acting
  <1>2. i \in DOMAIN rows => (Selected(f, rows[i]) <=> May(r, "delete", rows[i]))
    BY <1>1, TableRows, FiltersSay DEF StandardActions
  <1>3. \A served, after : Judged(r, served, after) <=> after = Alone(r, rows, edit).table
    BY <1>1 DEF Judged
  <1>4. /\ edit.action = "delete" /\ edit.id = i
        /\ Mine(r, rows, edit) <=> i \in DOMAIN rows /\ May(r, "delete", rows[i])
    BY <1>1 DEF Mine
  <1> HIDE DEF edit, f
  <1>5. CASE i \in DOMAIN rows /\ May(r, "delete", rows[i])
    <2>1. Responds(c, Answer(204, <<>>), Without(rows, i))
      BY <1>2, <1>5 DEF Delete, Found, f
    <2>2. Without(rows, i) \in Tables
      BY <1>1, WithoutKept
    <2>3. rows' = Without(rows, i)
      BY <2>1, Responded
    <2>4. Alone(r, rows, edit) = [answer |-> None, table |-> Without(rows, i)]
      BY <1>4, <1>5, AloneDeletes
    <2> QED
      BY <1>3, <2>1, <2>2, <2>3, <2>4, RespondsKeeps
  <1>6. CASE ~(i \in DOMAIN rows /\ May(r, "delete", rows[i]))
    <2>1. Responds(c, NotFound, rows)
      BY <1>2, <1>6 DEF Delete, Found, f
    <2>2. rows' = rows
      BY <2>1, Responded
    <2>3. Alone(r, rows, edit) = [answer |-> None, table |-> rows]
      BY <1>4, <1>6, AloneRefused
    <2> QED
      BY <1>1, <1>3, <2>1, <2>2, <2>3, RespondsKeeps
  <1> QED
    BY <1>5, <1>6

LEMMA SetToSeqHas ==
  ASSUME NEW S, IsFiniteSet(S)
  PROVE  ToSet(SetToSeq(S)) = S
  <1> DEFINE n == Cardinality(S)
  <1>1. n \in Nat /\ ExistsBijection(1..n, S)
    BY FS_CardinalityType
  <1>2. PICK g : g \in Bijection(1..n, S)
    BY <1>1 DEF ExistsBijection
  <1>3. g \in [1..n -> S] /\ IsInjective(g)
    BY <1>2 DEF Bijection, Injection, IsInjective
  <1> DEFINE f == SetToSeq(S)
  <1>4. f \in [1..n -> S] /\ IsInjective(f)
    BY <1>3 DEF SetToSeq
  <1> HIDE DEF f, n
  <1>5. f \in Injection(1..n, S)
    BY <1>4 DEF Injection, IsInjective
  <1>6. Cardinality(1..n) = n /\ n = Cardinality(S)
    BY <1>1, FS_Interval DEF n
  <1>7. f \in Surjection(1..n, S)
    BY <1>5, <1>6, FS_Injection
  <1>8. DOMAIN f = 1..n /\ \A x \in S : \E k \in 1..n : f[k] = x
    BY <1>4, <1>7 DEF Surjection
  <1> QED
    BY <1>4, <1>8 DEF ToSet, f

LEMMA SearchKeeps ==
  ASSUME AccessInv, NEW c \in Client, Search(c)
  PROVE  AccessInv' /\ Judged(req[c], req'[c].answer.rows, rows')
  <1> DEFINE r == req[c]
             q == Asked(r)
             f == _combine(_permission_filter(r, q.action), q.filter)
             selected == {rows[i] : i \in {j \in DOMAIN rows : Selected(f, rows[j])}}
             served == SetToSeq(selected)
  <1>1. /\ r \in Request /\ rows \in Tables /\ q.filter \in Condition \cup {None} /\ r.pc = "act"
        /\ q.action \in {"search", "count"}
    BY Asking DEF Search
  <1>2. \A i \in DOMAIN rows :
          Selected(f, rows[i]) <=> /\ May(r, q.action, rows[i])
                                   /\ q.filter # None => InMemory(q.filter, rows[i]) = "true"
    BY <1>1, FiltersSay, TableRows DEF StandardActions
  <1>3. Responds(c, Answer(200, served), rows)
    BY DEF Search
  <1> HIDE DEF f
  <1>4. IsFiniteSet(selected)
    <2> DEFINE ids == {j \in DOMAIN rows : Selected(f, rows[j])}
               image == [i \in ids |-> rows[i]]
    <2>1. IsFiniteSet(ids)
      BY <1>1, TableRows, FS_Subset
    <2>2. image \in Surjection(ids, selected)
      BY DEF Surjection
    <2> QED
      BY <2>1, <2>2, FS_Surjection
  <1>5. ToSet(served) = selected
    BY <1>4, SetToSeqHas
  <1>6. req'[c].answer.rows = served /\ rows' = rows
    BY <1>3, Responded DEF Answer
  <1> HIDE DEF served
  <1>7. Judged(r, served, rows)
    BY <1>1, <1>2, <1>5 DEF Judged
  <1> QED
    BY <1>1, <1>3, <1>6, <1>7, RespondsKeeps

LEMMA BatchReadKeeps ==
  ASSUME AccessInv, NEW c \in Client, BatchRead(c)
  PROVE  AccessInv' /\ Judged(req[c], req'[c].answer.rows, rows')
  <1> DEFINE r == req[c]
             q == Asked(r)
             f == _permission_filter(r, "batch_read")
             row(i) == IF Found(i) /\ InMemory(f, rows[i]) = "true" THEN rows[i] ELSE None
             served == [n \in DOMAIN q.ids |-> row(q.ids[n])]
  <1>1. /\ r \in Request /\ rows \in Tables /\ q.ids \in Seq(Id) /\ r.pc = "act"
        /\ q.action = "batch_read"
    BY Asking DEF BatchRead, Acting
  <1>2. \A i : row(i) = IF i \in DOMAIN rows /\ May(r, q.action, rows[i]) THEN rows[i] ELSE None
    BY <1>1, FiltersSay, TableRows DEF StandardActions, Found
  <1>3. Responds(c, Answer(200, served), rows)
    BY DEF BatchRead
  <1> HIDE DEF row
  <1>4. Len(served) = Len(q.ids) /\ \A n \in DOMAIN q.ids : served[n] = row(q.ids[n])
    BY <1>1
  <1>5. req'[c].answer.rows = served /\ rows' = rows
    BY <1>3, Responded DEF Answer
  <1> HIDE DEF served
  <1>6. Judged(r, served, rows)
    BY <1>1, <1>2, <1>4 DEF Judged
  <1> QED
    BY <1>1, <1>3, <1>5, <1>6, RespondsKeeps

-----------------------------------------------------------------------------
(* A batch of edits does what its edits do one after another *)

LEMMA AloneKept ==
  ASSUME NEW r \in Request, NEW t \in Tables, NEW edit \in Edit,
         edit.action = "create" => edit.id \in Id
  PROVE  Alone(r, t, edit) \in [answer : Row \cup {None}, table : Tables]
  <1>1. edit.action \in {"create", "update", "delete"} /\ edit.owner \in Owners
    BY DEF Edit
  <1>2. CASE \/ edit.action = "create" /\ ~May(r, "create", Written(edit))
             \/ edit.action \in {"update", "delete"} /\ ~Mine(r, t, edit)
    BY <1>2, AloneRefused
  <1>3. CASE \/ edit.action = "create" /\ May(r, "create", Written(edit))
             \/ edit.action = "update" /\ Mine(r, t, edit)
    <2>1. edit.id \in Id
      BY <1>3, TableRows DEF Mine
    <2>2. Written(edit) \in Row
      BY <1>1, <2>1 DEF Written, Row
    <2> QED
      BY <1>3, <2>2, AloneWrites, WithKept
  <1>4. CASE edit.action = "delete" /\ Mine(r, t, edit)
    BY <1>4, AloneDeletes, WithoutKept
  <1> QED
    BY <1>1, <1>2, <1>3, <1>4

(* The inner service does with a permitted edit, guarded, what the edit does on its own; *)
(* an edit that is kept out would have done nothing. *)
LEMMA EditApplied ==
  ASSUME NEW r \in Request, NEW t \in Tables, NEW results, NEW edit \in Edit,
         edit.action = "create" => edit.id \in Id
  PROVE  /\ Permitted(r, edit) =>
              Applied([table |-> t, results |-> results], Guarded(r, edit)) =
                [table |-> Alone(r, t, edit).table,
                 results |-> Append(results, Alone(r, t, edit).answer)]
         /\ ~Permitted(r, edit) => Alone(r, t, edit) = [answer |-> None, table |-> t]
  <1> DEFINE state == [table |-> t, results |-> results]
             new == Written(edit)
  <1>1. /\ edit.action \in {"create", "update", "delete"} /\ edit.owner \in Owners
        /\ edit.condition \in Condition \cup {None} /\ edit.id \in Id \cup {None}
    BY DEF Edit
  <1>2. CASE edit.action = "create"
    <2>1. new \in Row
      BY <1>1, <1>2 DEF Written, Row
    <2>2. Permitted(r, edit) <=> May(r, "create", new)
      BY <1>2, <2>1, FiltersSay DEF Permitted, StandardActions
    <2>3. Guarded(r, edit) = edit
      BY <1>2 DEF Guarded
    <2>4. Applied(state, edit) = [table |-> With(t, new), results |-> Append(results, new)]
      BY <1>2 DEF Applied, Written
    <2>5. CASE May(r, "create", new)
      <3>1. Alone(r, t, edit) = [answer |-> new, table |-> With(t, new)]
        BY <1>2, <2>5, AloneWrites
      <3> QED
        BY <2>2, <2>3, <2>4, <2>5, <3>1
    <2>6. CASE ~May(r, "create", new)
      BY <1>2, <2>2, <2>6, AloneRefused
    <2> QED
      BY <2>5, <2>6
  <1>3. CASE edit.action \in {"update", "delete"} /\ edit.id = None
    <2>1. ~Permitted(r, edit) /\ ~Mine(r, t, edit)
      BY <1>3, TableRows, NoneAssumption DEF Permitted, Mine
    <2> QED
      BY <1>3, <2>1, AloneRefused
  <1>4. CASE edit.action \in {"update", "delete"} /\ edit.id # None
    <2> DEFINE condition == _combine(_permission_filter(r, edit.action), edit.condition)
               guarded == Guarded(r, edit)
               hit == /\ guarded.id \in DOMAIN t
                      /\ guarded.condition # None => Selected(guarded.condition, t[guarded.id])
    <2>1. /\ guarded.action = edit.action /\ guarded.id = edit.id /\ guarded.owner = edit.owner
          /\ guarded.condition = condition
      BY <1>4 DEF Guarded, Edit
    <2>2. hit <=> Mine(r, t, edit)
      <3>1. CASE edit.id \in DOMAIN t
        <4>1. /\ condition # None
              /\ Selected(condition, t[edit.id]) <=>
                   /\ May(r, edit.action, t[edit.id])
                   /\ edit.condition # None => InMemory(edit.condition, t[edit.id]) = "true"
          BY <1>1, <1>4, <3>1, TableRows, FiltersSay DEF StandardActions
        <4> QED
          BY <2>1, <3>1, <4>1 DEF Mine
      <3>2. CASE edit.id \notin DOMAIN t
        BY <2>1, <3>2 DEF Mine
      <3> QED
        BY <3>1, <3>2
    <2>3. /\ guarded.action = "update" /\ hit =>
               Applied(state, guarded) = [table |-> With(t, new), results |-> Append(results, new)]
          /\ guarded.action = "delete" /\ hit =>
               Applied(state, guarded) = [table |-> Without(t, edit.id),
                                          results |-> Append(results, None)]
          /\ guarded.action \in {"update", "delete"} /\ ~hit =>
               Applied(state, guarded) = [table |-> t, results |-> Append(results, None)]
      BY <2>1 DEF Applied, Written
    <2>4. Permitted(r, edit)
      BY <1>4 DEF Permitted
    <2> HIDE DEF guarded, hit, condition
    <2>5. CASE Mine(r, t, edit) /\ edit.action = "update"
      <3>1. Alone(r, t, edit) = [answer |-> new, table |-> With(t, new)]
        BY <2>5, AloneWrites
      <3> QED
        BY <2>1, <2>2, <2>3, <2>4, <2>5, <3>1 DEF guarded
    <2>6. CASE Mine(r, t, edit) /\ edit.action = "delete"
      <3>1. Alone(r, t, edit) = [answer |-> None, table |-> Without(t, edit.id)]
        BY <2>6, AloneDeletes
      <3> QED
        BY <2>1, <2>2, <2>3, <2>4, <2>6, <3>1 DEF guarded
    <2>7. CASE ~Mine(r, t, edit)
      <3>1. Alone(r, t, edit) = [answer |-> None, table |-> t]
        BY <1>4, <2>7, AloneRefused
      <3> QED
        BY <1>4, <2>1, <2>2, <2>3, <2>4, <2>7, <3>1 DEF guarded
    <2> QED
      BY <1>4, <2>5, <2>6, <2>7
  <1> QED
    BY <1>1, <1>2, <1>3, <1>4

(* How many of the first n flags are set. *)
Count(flags, n) == Cardinality({k \in 1..n : flags[k]})

LEMMA Counting ==
  ASSUME NEW flags, NEW n \in Nat
  PROVE  /\ Count(flags, n) \in Nat /\ Count(flags, 0) = 0
         /\ n > 0 /\ flags[n] => Count(flags, n) = Count(flags, n - 1) + 1
         /\ n > 0 /\ ~flags[n] => Count(flags, n) = Count(flags, n - 1)
  <1> DEFINE Set(m) == {k \in 1..m : flags[k]}
  <1>1. \A m \in Nat : IsFiniteSet(Set(m)) /\ Cardinality(Set(m)) \in Nat
    <2> TAKE m \in Nat
    <2>1. IsFiniteSet(1..m) /\ Set(m) \in SUBSET (1..m)
      BY FS_Interval
    <2> QED
      BY <2>1, FS_Subset, FS_CardinalityType
  <1>2. Set(0) = {}
    OBVIOUS
  <1>3. n > 0 /\ flags[n] => Set(n) = Set(n - 1) \cup {n} /\ n \notin Set(n - 1) /\ n - 1 \in Nat
    OBVIOUS
  <1>4. n > 0 /\ ~flags[n] => Set(n) = Set(n - 1)
    <2> SUFFICES ASSUME n > 0, ~flags[n] PROVE \A k : k \in Set(n) <=> k \in Set(n - 1)
      OBVIOUS
    <2> QED
      OBVIOUS
  <1>5. \A m : Count(flags, m) = Cardinality(Set(m))
    BY DEF Count
  <1> HIDE DEF Set
  <1> QED
    BY <1>1, <1>2, <1>3, <1>4, <1>5, FS_AddElement, FS_EmptySet

(* The table of OneByOne: what its recursion says, which has a solution. *)
LEMMA OneByOneIs ==
  ASSUME NEW r \in Request, rows \in Tables, Asked(r).edits \in Seq(Edit),
         \A n \in DOMAIN Asked(r).edits :
           Asked(r).edits[n].action = "create" => Asked(r).edits[n].id \in Id
  PROVE  /\ OneByOne(r)[0] = rows
         /\ \A n \in 1..Len(Asked(r).edits) :
              OneByOne(r)[n] = Alone(r, OneByOne(r)[n - 1], Asked(r).edits[n]).table
         /\ \A n \in 0..Len(Asked(r).edits) : OneByOne(r)[n] \in Tables
  <1> DEFINE edits == Asked(r).edits
             N == Len(edits)
             table == OneByOne(r)
             step == [n \in 1..N |-> [t \in Tables |-> Alone(r, t, edits[n]).table]]
  <1>1. N \in Nat /\ DOMAIN edits = 1..N /\ \A n \in 1..N : edits[n] \in Edit
    OBVIOUS
  <1>0. /\ 0 \in 0..N
         /\ \A n \in 1..N : n \in 0..N /\ n - 1 \in 0..N /\ n # 0 /\ n \in DOMAIN edits
    BY <1>1
  <1> HIDE DEF N
  <1>2. \A n \in 1..N, t \in Tables :
          Alone(r, t, edits[n]) \in [answer : Row \cup {None}, table : Tables]
    BY <1>1, AloneKept
  <1>3. step \in [1..N -> [Tables -> Tables]]
    BY <1>2
  <1>4. \A n \in 1..N, t \in Tables : step[n][t] = Alone(r, t, edits[n]).table
    OBVIOUS
  <1> HIDE DEF step
  <1>5. PICK f \in [0..N -> Tables] : Recurs(f, N, rows, step)
    BY <1>1, <1>3, Recursion
  <1>6. f = [n \in 0..N |-> IF n = 0 THEN rows ELSE Alone(r, f[n - 1], edits[n]).table]
    <2> SUFFICES ASSUME NEW n \in 0..N
                 PROVE  f[n] = IF n = 0 THEN rows ELSE Alone(r, f[n - 1], edits[n]).table
      BY <1>5
    <2>1. n # 0 => n \in 1..N /\ n - 1 \in 0..N
      BY <1>1
    <2> QED
      BY <1>4, <1>5, <2>1 DEF Recurs
  <1>7. table = [n \in 0..N |-> IF n = 0 THEN rows ELSE Alone(r, table[n - 1], edits[n]).table]
    <2>1. \E g : g = [n \in 0..N |-> IF n = 0 THEN rows ELSE Alone(r, g[n - 1], edits[n]).table]
      BY <1>6
    <2> QED
      BY <2>1, Zenon DEF OneByOne, N
  <1> HIDE DEF table
  <1>8. table[0] = rows /\ \A n \in 1..N : table[n] = Alone(r, table[n - 1], edits[n]).table
    BY <1>0, <1>7
  <1>9. \A n \in 0..N : table[n] \in Tables
    <2> DEFINE T == {n \in 0..N : table[n] \in Tables}
    <2>1. 0 \in T
      BY <1>0, <1>8
    <2>2. \A n \in 1..N : n - 1 \in T => n \in T
      BY <1>0, <1>2, <1>8
    <2> HIDE DEF T
    <2>3. 0..N \subseteq T
      BY <1>1, <2>1, <2>2, UpTo
    <2> QED
      BY <2>3 DEF T
  <1> QED
    BY <1>8, <1>9 DEF table, N

State == [table : Tables, results : Seq(Row \cup {None})]

(* The same of EditsApplied. *)
LEMMA EditsAppliedIs ==
  ASSUME NEW r \in Request, rows \in Tables, Asked(r).edits \in Seq(Edit), NEW flags,
         \A n \in DOMAIN Asked(r).edits :
           /\ Asked(r).edits[n].action = "create" => Asked(r).edits[n].id \in Id
           /\ flags[n] = Permitted(r, Asked(r).edits[n])
  PROVE  /\ EditsApplied(r, flags)[0] = [table |-> rows, results |-> <<>>]
         /\ \A n \in 1..Len(Asked(r).edits) :
              EditsApplied(r, flags)[n] =
                IF flags[n] THEN Applied(EditsApplied(r, flags)[n - 1], Guarded(r, Asked(r).edits[n]))
                ELSE EditsApplied(r, flags)[n - 1]
         /\ \A n \in 0..Len(Asked(r).edits) : EditsApplied(r, flags)[n] \in State
  <1> DEFINE edits == Asked(r).edits
             N == Len(edits)
             base == [table |-> rows, results |-> <<>>]
             after == EditsApplied(r, flags)
             next(n, state) == IF flags[n] THEN Applied(state, Guarded(r, edits[n])) ELSE state
             step == [n \in 1..N |-> [state \in State |-> next(n, state)]]
  <1>1. N \in Nat /\ DOMAIN edits = 1..N /\ \A n \in 1..N : edits[n] \in Edit
    OBVIOUS
  <1>0. /\ 0 \in 0..N
        /\ \A n \in 1..N : n \in 0..N /\ n - 1 \in 0..N /\ n # 0 /\ n \in DOMAIN edits
    BY <1>1
  <1> HIDE DEF N
  <1>2. \A n \in 1..N, state \in State : next(n, state) \in State
    <2> SUFFICES ASSUME NEW n \in 1..N, NEW state \in State, flags[n]
                 PROVE  Applied(state, Guarded(r, edits[n])) \in State
      OBVIOUS
    <2>1. PICK t \in Tables, results \in Seq(Row \cup {None}) :
            state = [table |-> t, results |-> results]
      BY DEF State
    <2>2. edits[n] \in Edit /\ (edits[n].action = "create" => edits[n].id \in Id)
          /\ Permitted(r, edits[n])
      BY <1>0, <1>1
    <2>3. Alone(r, t, edits[n]) \in [answer : Row \cup {None}, table : Tables]
      BY <2>2, AloneKept
    <2>4. Applied(state, Guarded(r, edits[n])) =
            [table |-> Alone(r, t, edits[n]).table,
             results |-> Append(results, Alone(r, t, edits[n]).answer)]
      BY <2>1, <2>2, EditApplied
    <2>5. PICK answer \in Row \cup {None}, new \in Tables :
            Alone(r, t, edits[n]) = [answer |-> answer, table |-> new]
      BY <2>3
    <2>6. Append(results, answer) \in Seq(Row \cup {None})
      BY <2>1, <2>5
    <2>7. Applied(state, Guarded(r, edits[n])) = [table |-> new, results |-> Append(results, answer)]
      BY <2>4, <2>5
    <2> QED
      BY <2>5, <2>6, <2>7 DEF State
  <1>3. step \in [1..N -> [State -> State]] /\ base \in State
    BY <1>2 DEF State
  <1>4. \A n \in 1..N, state \in State : step[n][state] = next(n, state)
    OBVIOUS
  <1> HIDE DEF step, base, next
  <1>5. PICK f \in [0..N -> State] : Recurs(f, N, base, step)
    BY <1>1, <1>3, Recursion
  <1>6. f = [n \in 0..N |-> IF n = 0 THEN base ELSE next(n, f[n - 1])]
    <2> SUFFICES ASSUME NEW n \in 0..N PROVE f[n] = IF n = 0 THEN base ELSE next(n, f[n - 1])
      BY <1>5
    <2>1. n # 0 => n \in 1..N /\ n - 1 \in 0..N
      BY <1>1
    <2> QED
      BY <1>4, <1>5, <2>1 DEF Recurs
  <1>7. after = [n \in 0..N |-> IF n = 0 THEN base ELSE next(n, after[n - 1])]
    <2>1. \E g : g = [n \in 0..N |-> IF n = 0 THEN base ELSE next(n, g[n - 1])]
      BY <1>6
    <2> QED
      BY <2>1, Zenon DEF EditsApplied, N, base, next
  <1> HIDE DEF after
  <1>8. after[0] = base /\ \A n \in 1..N : after[n] = next(n, after[n - 1])
    BY <1>0, <1>7
  <1>9. \A n \in 0..N : after[n] \in State
    <2> DEFINE T == {n \in 0..N : after[n] \in State}
    <2>1. 0 \in T
      BY <1>0, <1>3, <1>8
    <2>2. \A n \in 1..N : n - 1 \in T => n \in T
      BY <1>0, <1>2, <1>8
    <2> HIDE DEF T
    <2>3. 0..N \subseteq T
      BY <1>1, <2>1, <2>2, UpTo
    <2> QED
      BY <2>3 DEF T
  <1> QED
    BY <1>8, <1>9 DEF after, N, base, next

LEMMA ApplyEditsKeeps ==
  ASSUME AccessInv, NEW c \in Client, ApplyEdits(c)
  PROVE  AccessInv' /\ Judged(req[c], req'[c].answer.rows, rows')
  <1> DEFINE r == req[c]
             edits == Asked(r).edits
             N == Len(edits)
             flags == [n \in DOMAIN edits |-> Permitted(r, edits[n])]
             after == EditsApplied(r, flags)
             table == OneByOne(r)
             answer(n) == Alone(r, table[n - 1], edits[n]).answer
             served == Realigned(flags, after[N].results)
  <1>1. /\ r \in Request /\ rows \in Tables /\ edits \in Seq(Edit) /\ r.pc = "act"
        /\ Asked(r).action = "edits"
        /\ \A n \in DOMAIN edits : edits[n].action = "create" => edits[n].id \in Id
    BY Asking DEF ApplyEdits, Acting
  <1>2. /\ N \in Nat /\ DOMAIN edits = 1..N /\ \A n \in 1..N : edits[n] \in Edit
        /\ DOMAIN flags = 1..N
    BY <1>1
  <1>3. Responds(c, Answer(200, served), after[N].table)
    BY DEF ApplyEdits
  <1>4. \A n \in 1..N : flags[n] = Permitted(r, edits[n])
    BY <1>2
  <1>5. /\ 0 \in 0..N /\ N \in 0..N
        /\ \A n \in 1..N : n \in 0..N /\ n - 1 \in 0..N /\ n \in DOMAIN edits /\ n \in Nat /\ n > 0
    BY <1>2
  <1> HIDE DEF flags
  <1>6. /\ table[0] = rows
        /\ \A n \in 1..N : table[n] = Alone(r, table[n - 1], edits[n]).table
        /\ \A n \in 0..N : table[n] \in Tables
    BY <1>1, OneByOneIs
  <1>7. /\ after[0] = [table |-> rows, results |-> <<>>]
        /\ \A n \in 1..N : after[n] = IF flags[n] THEN Applied(after[n - 1], Guarded(r, edits[n]))
                                     ELSE after[n - 1]
        /\ \A n \in 0..N : after[n] \in State
    <2>1. \A n \in DOMAIN edits : /\ edits[n].action = "create" => edits[n].id \in Id
                                  /\ flags[n] = Permitted(r, edits[n])
      BY <1>1, <1>2, <1>4
    <2> QED
      BY <1>1, <2>1, EditsAppliedIs
  <1> HIDE DEF after, table, N
  <1> DEFINE Agree(n) ==
               /\ after[n].table = table[n] /\ Len(after[n].results) = Count(flags, n)
               /\ \A k \in 1..n :
                    /\ flags[k] => /\ Count(flags, k) \in 1..Count(flags, n)
                                   /\ after[n].results[Count(flags, k)] = answer(k)
                    /\ ~flags[k] => answer(k) = None
             T == {n \in 0..N : Agree(n)}
  <1>8. Agree(0)
    BY <1>2, <1>6, <1>7, Counting
  <1>9. ASSUME NEW n \in 1..N, Agree(n - 1) PROVE Agree(n)
    <2> DEFINE t == after[n - 1].table
               results == after[n - 1].results
    <2>1. /\ t \in Tables /\ results \in Seq(Row \cup {None}) /\ t = table[n - 1]
          /\ after[n - 1] = [table |-> t, results |-> results]
          /\ Len(results) = Count(flags, n - 1)
      BY <1>5, <1>7, <1>9 DEF State
    <2>2. edits[n] \in Edit /\ (edits[n].action = "create" => edits[n].id \in Id)
      BY <1>1, <1>2
    <2>3. \A k \in 1..n : k # n => k \in 1..(n - 1)
      OBVIOUS
    <2> HIDE DEF t, results, answer
    <2>4. CASE flags[n]
      <3>1. after[n] = [table |-> Alone(r, t, edits[n]).table,
                        results |-> Append(results, Alone(r, t, edits[n]).answer)]
        <4>1. Permitted(r, edits[n]) /\ after[n] = Applied(after[n - 1], Guarded(r, edits[n]))
          BY <1>4, <1>7, <2>4
        <4> QED
          BY <1>1, <2>1, <2>2, <4>1, EditApplied
      <3>2. Alone(r, t, edits[n]).answer = answer(n)
        BY <2>1 DEF answer
      <3>3. Count(flags, n) = Count(flags, n - 1) + 1 /\ Count(flags, n - 1) \in Nat
        BY <1>5, <2>4, Counting
      <3>4. Alone(r, t, edits[n]).answer \in Row \cup {None}
        BY <1>1, <2>1, <2>2, AloneKept
      <3>5. /\ Len(after[n].results) = Count(flags, n)
            /\ after[n].results[Count(flags, n)] = answer(n)
            /\ \A m \in 1..Count(flags, n - 1) : after[n].results[m] = results[m]
        BY <2>1, <3>1, <3>2, <3>3, <3>4
      <3>6. after[n].table = table[n]
        BY <1>6, <2>1, <3>1
      <3>7. ASSUME NEW k \in 1..n
            PROVE  /\ flags[k] => /\ Count(flags, k) \in 1..Count(flags, n)
                                  /\ after[n].results[Count(flags, k)] = answer(k)
                   /\ ~flags[k] => answer(k) = None
        <4>1. CASE k = n
          BY <2>4, <3>3, <3>5, <4>1
        <4>2. CASE k # n
          BY <1>9, <2>3, <3>3, <3>5, <4>2 DEF results
        <4> QED
          BY <4>1, <4>2
      <3> QED
        BY <3>5, <3>6, <3>7
    <2>5. CASE ~flags[n]
      <3>1. after[n] = after[n - 1] /\ Count(flags, n) = Count(flags, n - 1)
        BY <1>5, <1>7, <2>5, Counting
      <3>2. Alone(r, t, edits[n]) = [answer |-> None, table |-> t]
        BY <1>1, <1>4, <2>1, <2>2, <2>5, EditApplied
      <3>3. answer(n) = None /\ table[n] = table[n - 1]
        BY <1>6, <2>1, <3>2 DEF answer
      <3>4. ASSUME NEW k \in 1..n
            PROVE  /\ flags[k] => /\ Count(flags, k) \in 1..Count(flags, n)
                                  /\ after[n].results[Count(flags, k)] = answer(k)
                   /\ ~flags[k] => answer(k) = None
        <4>1. CASE k = n
          BY <2>5, <3>3, <4>1
        <4>2. CASE k # n
          BY <1>9, <2>3, <3>1, <4>2
        <4> QED
          BY <4>1, <4>2
      <3> QED
        BY <1>9, <3>1, <3>3, <3>4
    <2> QED
      BY <2>4, <2>5
  <1>10. Agree(N)
    <2>1. 0 \in T
      BY <1>5, <1>8
    <2>2. \A n \in 1..N : n - 1 \in T => n \in T
      BY <1>5, <1>9
    <2> HIDE DEF T
    <2>3. 0..N \subseteq T
      BY <1>2, <2>1, <2>2, UpTo
    <2> QED
      BY <1>5, <2>3 DEF T
  <1>11. served = [n \in 1..N |-> IF flags[n] THEN after[N].results[Count(flags, n)] ELSE None]
    BY <1>2 DEF Realigned, Count
  <1> HIDE DEF served, answer
  <1>12. \A n \in 1..N : served[n] = answer(n)
    BY <1>10, <1>11
  <1>13. Len(served) = N
    BY <1>2, <1>11
  <1>14. req'[c].answer.rows = served /\ rows' = after[N].table /\ after[N].table = table[N]
    BY <1>3, <1>10, Responded DEF Answer
  <1>15. Judged(r, served, table[N])
    BY <1>1, <1>2, <1>12, <1>13 DEF Judged, answer, N, table
  <1>16. AccessInv'
    BY <1>3, <1>5, <1>6, <1>14, RespondsKeeps
  <1> QED
    BY <1>14, <1>15, <1>16

-----------------------------------------------------------------------------
(* The theorems *)

LEMMA InitAccess == Init => AccessInv
  <1> SUFFICES ASSUME Init PROVE AccessInv
    OBVIOUS
  <1>1. PICK plan \in Plans : req = [c \in Client |-> Idle(plan[c])]
    BY DEF Init
  <1>2. \A c \in Client : req[c].pc = "idle" /\ req[c].names \subseteq DOMAIN Asks
    BY <1>1, AsksAssumption DEF Idle
  <1>3. req = [c \in Client |-> req[c]]
    BY <1>1
  <1>4. users \in [User -> [enabled : BOOLEAN, ended : 0..MaxChanges]] /\ keys \in [Key -> KeyRow]
    BY BoundsAssumption, KeysAssumption DEF Init
  <1>5. /\ resolver \in Resolvers /\ now \in 0..MaxTime /\ changes \in 0..MaxChanges
        /\ invalidations \in 0..MaxInvalidations
        /\ members \in [User -> SUBSET Group] /\ grants \in [Group -> SUBSET DOMAIN Policies]
        /\ rows \in Tables
    BY BoundsAssumption, PoliciesAssumption, AsksAssumption DEF Init
  <1>6. \A u \in User : cache[u] = None
    BY DEF Init
  <1>7. TypeOK
    BY <1>2, <1>3, <1>4, <1>5 DEF Init, TypeOK
  <1>8. Ended
    BY KeysAssumption DEF Init, Ended
  <1> QED
    BY <1>2, <1>6, <1>7, <1>8 DEF AccessInv, Pcs

(* A step of the chain before the request acts. *)
Approaches(c) ==
  \/ Begin(c) \/ LookupKey(c) \/ CheckActive(c) \/ ResolveCached(c) \/ ResolveNobody(c)
  \/ FetchGroups(c) \/ FetchPolicies(c) \/ StoreResolved(c) \/ ResolveRoles(c)

Enforces(c) ==
  \/ Create(c) \/ Read(c) \/ Update(c) \/ Delete(c) \/ Search(c) \/ BatchRead(c) \/ ApplyEdits(c)

WorldMoved == ChangeMembership \/ ChangeGrants \/ Invalidate \/ RevokeKey \/ DisableUser \/ Tick

LEMMA ApproachesKeeps ==
  ASSUME AccessInv, NEW c \in Client, Approaches(c)
  PROVE  /\ AccessInv'
         /\ req[c].pc # "act" /\ \A d \in Client \ {c} : req'[d] = req[d]
  <1>1. AccessInv'
    BY BeginKeeps, LookupKeyKeeps, CheckActiveKeeps, ResolveCachedKeeps, ResolveNobodyKeeps,
       FetchGroupsKeeps, FetchPoliciesKeeps, StoreResolvedKeeps, ResolveRolesKeeps DEF Approaches
  <1>2. req[c].pc # "act" /\ (UNCHANGED req \/ \E r : req' = [req EXCEPT ![c] = r])
    <2>1. CASE Begin(c)
      BY <2>1 DEF Begin, Authenticated, Answers, Goto
    <2>2. CASE LookupKey(c)
      BY <2>2 DEF LookupKey, Authenticated, Answers, Goto
    <2>3. CASE CheckActive(c)
      BY <2>3 DEF CheckActive, Authenticated, Answers, Goto
    <2>4. CASE ResolveCached(c)
      BY <2>4 DEF ResolveCached, Resolves, Goto
    <2>5. CASE ResolveNobody(c)
      BY <2>5 DEF ResolveNobody, Resolves, Goto
    <2>6. CASE FetchGroups(c)
      BY <2>6 DEF FetchGroups, Resolves, Goto
    <2>7. CASE FetchPolicies(c)
      BY <2>7 DEF FetchPolicies, Goto
    <2>8. CASE StoreResolved(c)
      BY <2>8 DEF StoreResolved, Goto
    <2>9. CASE ResolveRoles(c)
      BY <2>9 DEF ResolveRoles, Resolves, Goto
    <2> QED
      BY <2>1, <2>2, <2>3, <2>4, <2>5, <2>6, <2>7, <2>8, <2>9 DEF Approaches
  <1>3. req = [d \in Client |-> req[d]]
    BY DEF AccessInv, TypeOK
  <1> QED
    BY <1>1, <1>2, <1>3

LEMMA EnforcesKeeps ==
  ASSUME AccessInv, NEW c \in Client, Enforces(c)
  PROVE  /\ AccessInv' /\ Judged(req[c], req'[c].answer.rows, rows')
         /\ \A d \in Client \ {c} : req'[d] = req[d]
  <1>1. AccessInv' /\ Judged(req[c], req'[c].answer.rows, rows')
    BY CreateKeeps, ReadKeeps, UpdateKeeps, DeleteKeeps, SearchKeeps, BatchReadKeeps,
       ApplyEditsKeeps DEF Enforces
  <1>2. \E answer, table : Responds(c, answer, table)
    <2>1. CASE Create(c)
      BY <2>1 DEF Create
    <2>2. CASE Read(c)
      BY <2>2 DEF Read
    <2>3. CASE Update(c)
      BY <2>3 DEF Update
    <2>4. CASE Delete(c)
      BY <2>4 DEF Delete
    <2>5. CASE Search(c)
      BY <2>5 DEF Search
    <2>6. CASE BatchRead(c)
      BY <2>6 DEF BatchRead
    <2>7. CASE ApplyEdits(c)
      BY <2>7 DEF ApplyEdits
    <2> QED
      BY <2>1, <2>2, <2>3, <2>4, <2>5, <2>6, <2>7 DEF Enforces
  <1>3. req = [d \in Client |-> req[d]]
    BY DEF AccessInv, TypeOK
  <1>4. \A d \in Client \ {c} : req'[d] = req[d]
    BY <1>2, <1>3 DEF Responds, Answers
  <1> QED
    BY <1>1, <1>4

LEMMA WorldMovedKeeps ==
  ASSUME AccessInv, WorldMoved
  PROVE  AccessInv' /\ UNCHANGED req
  <1>1. AccessInv'
    BY ChangeMembershipKeeps, ChangeGrantsKeeps, InvalidateKeeps, RevokeKeyKeeps, DisableUserKeeps,
       TickKeeps DEF WorldMoved
  <1>2. UNCHANGED req
    BY DEF WorldMoved, ChangeMembership, ChangeGrants, Invalidate, RevokeKey, DisableUser, Tick, World
  <1> QED
    BY <1>1, <1>2

LEMMA StutterKeeps ==
  ASSUME AccessInv, UNCHANGED vars
  PROVE  AccessInv'
  <1>1. UNCHANGED <<resolver, rows, req, now, changes, invalidations, members, grants, keys, users,
                    past, cache>>
    BY DEF vars
  <1>2. Ended' /\ \A r : Credited(r) => Credited(r)'
    BY <1>1 DEF AccessInv, Ended, Credited, Counts, KeyCounts, Asked
  <1> QED
    BY <1>1, <1>2, CreditsMove DEF AccessInv, TypeOK, Good

(* What OnlyPermitted says of a step. *)
StepPermitted ==
  \A c \in Client : (req[c].pc = "act" /\ req'[c].pc = "done")
                    => Judged(req[c], req'[c].answer.rows, rows')

LEMMA StepKeeps ==
  ASSUME AccessInv, [Next]_vars
  PROVE  AccessInv' /\ (UNCHANGED vars \/ StepPermitted)
  <1>1. CASE UNCHANGED vars
    BY <1>1, StutterKeeps
  <1>2. CASE \E c \in Client : Approaches(c)
    BY <1>2, ApproachesKeeps DEF StepPermitted
  <1>3. CASE \E c \in Client : Enforces(c)
    BY <1>3, EnforcesKeeps DEF StepPermitted
  <1>4. CASE WorldMoved
    BY <1>4, WorldMovedKeeps DEF StepPermitted
  <1>5. Next => \/ \E c \in Client : Approaches(c)
                \/ \E c \in Client : Enforces(c)
                \/ WorldMoved
    BY DEF Next, Approaches, Enforces, WorldMoved
  <1> QED
    BY <1>1, <1>2, <1>3, <1>4, <1>5

(* In every reachable state requests, keys, users and the cache stand in good order. *)
LEMMA AccessInvariant == Spec => []AccessInv
  <1>1. AccessInv /\ [Next]_vars => AccessInv'
    BY StepKeeps
  <1> QED
    BY InitAccess, <1>1, PTL DEF Spec

(* Requests, the cache and the table are what the code's types say at every step of the chain: *)
(* the step of auth_principal.py, auth_rbac_resolver.py or auth_authorized_service.py that a   *)
(* request is at, whom it acts as, and policies that a resolver gives.                         *)
THEOREM AccessTypes == Spec => []TypeOK
  <1>1. AccessInv => TypeOK
    BY DEF AccessInv
  <1> QED
    BY AccessInvariant, <1>1, PTL

(* Whatever the time to live, the grants and the order in which requests, changes of grants and *)
(* invalidations interleave, a change is honoured within cache_ttl and at once after an         *)
(* invalidate, unless a resolver had read before it and not yet stored                          *)
(* (auth_rbac_resolver.py:55-83).                                                               *)
THEOREM ChangesHonoured == Spec => []ChangeHonouredUnlessOverlapped
  <1>1. AccessInv => ChangeHonouredUnlessOverlapped
    BY InvShows
  <1> QED
    BY AccessInvariant, <1>1, PTL

(* A request that resolves or acts has the user and the roles of one credential it presented: a *)
(* key that counted when it began, or a cookie that decrypts to both; or it presented none.  The *)
(* composition of authenticators and the posture neither mix two credentials nor downgrade a     *)
(* broken one (auth_principal.py:275-309, auth_api_key.py:89-104, auth_cookie.py:65-105).        *)
THEOREM OnlyCredentialsCount == Spec => []CredentialsCount
  <1>1. AccessInv => CredentialsCount
    BY InvShows
  <1> QED
    BY AccessInvariant, <1>1, PTL

(* Every answer and every write of the authorized service is what the policies held by the      *)
(* request allow, for any filters that say of a row what the policies do, any rows and batches  *)
(* of edits of any length (auth_authorized_service.py:142-307).                                 *)
THEOREM PermittedOnly == Spec => OnlyPermitted
  <1>1. AccessInv /\ [Next]_vars => [StepPermitted]_vars
    BY StepKeeps
  <1> QED
    BY AccessInvariant, <1>1, PTL DEF Spec, OnlyPermitted, StepPermitted
=============================================================================
