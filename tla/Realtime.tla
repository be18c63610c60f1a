------------------------------- MODULE Realtime -------------------------------
(***************************************************************************)
(* Edits told to the outside: a triggered resource hands each write to its *)
(* runner (triggers/), a run publishes the write's events and posts them   *)
(* to a webhook, the channel, in memory or of Redis, queues an event for   *)
(* each of its subscribers, and the hub (realtime/realtime_routes.py) passes on what a *)
(* websocket client has subscribed to and may read.  What it may read the  *)
(* application's resolver says when the client subscribes: the resolver    *)
(* knows it from roles (auth/auth_role.py), or asks the store, unless an   *)
(* answer it gave before is cached (auth/auth_rbac_resolver.py).           *)
(*                                                                         *)
(* A row is known by its class, all that a filter tells rows apart by.  A  *)
(* filter is the set of the items it admits; only the one of every row     *)
(* admits the event of a deletion, which carries no item.                  *)
(***************************************************************************)
EXTENDS Integers, SequencesExt

CONSTANTS
  Client, Path,  \* websocket clients, and the paths of the exposed resources
  Class,         \* of rows
  NoItem,        \* what a deletion carries
  Anonymous,     \* the principal of a client without a credential, or when nobody asks for one
  Group,         \* groups a principal may be a member of
  Policy,        \* what policies on a path reduce to: a filter, by the groups they are bound to
  Lookups,       \* of one principal at once: the socket's and those of requests
  QueueMaxsize,
  Retries,       \* the delays of the webhook's retry strategy
  MaxEdits,      \* bound: the edits that are told
  MaxMessages,   \* bound: messages of clients, changes of grants and lookups of requests
  None           \* no subscribe message awaited, no lookup, no entry of the cache

(* A create and an update are told alike. *)
Kinds == {"saved", "deleted"}

Event == [path : Path, kind : Kinds, class : Class]

Filter == (SUBSET Class) \cup {Class \cup {NoItem}}

AllFilter == Class \cup {NoItem}
NoMatchFilter == {}

ASSUME RealtimeAssumption ==
  /\ QueueMaxsize \in Nat /\ Retries \in Nat
  /\ MaxEdits \in Nat /\ MaxMessages \in Nat
  /\ NoItem \notin Class /\ Anonymous \notin Client
  /\ Policy \subseteq [SUBSET Group -> Filter]
  /\ "socket" \in Lookups /\ \A x \in Filter \cup Policy : x # None

(* A resolver reads stored grants, with a cache or without; or it knows what everybody's *)
(* roles carry and what is allowed to those, anonymous or not, whose roles carry nothing. *)
Resolver == [stored : BOOLEAN, cached : BOOLEAN, policies : SUBSET Policy, default : [Path -> Policy]]

VARIABLES
  log,         \* the events published so far
  channel,     \* of Redis or in memory; not open; the clients with a queue in it
  queue,       \* the positions in the log that wait for a client
  conn,        \* a client's connection: phase, principal, reader and the request it waits for
  subs,        \* the filter of its subscription to each path
  told,        \* the positions it has been sent, in order
  joined,      \* the length of the log when it got its queue
  taken,       \* the positions its reader took from the queue
  resolver,    \* of the application
  grants,      \* the groups a client's principal is in, and its policies on each path
  cache,       \* the filters that the resolver has cached for it
  fetch,       \* lookups that have read its groups, or its policies too
  recent,      \* its grants since it connected, or since an earlier answer still at hand then
  deliveries,  \* the trigger runs alive
  edits,       \* bound: the edits made
  messages     \* bound

rights == <<resolver, grants, cache, fetch, recent>>
clientVars == <<conn, subs, told, joined, taken>>
realtimeVars == <<log, channel, queue, clientVars, rights, deliveries, edits, messages>>

-----------------------------------------------------------------------------
Away == [phase |-> "away", principal |-> Anonymous, reader |-> "off", asks |-> None]

NoSubscriptions == [p \in Path |-> NoMatchFilter]

(* The channel in memory is open from the start, that of Redis once it is entered. *)
NewChannel(redis) == [redis |-> redis, closed |-> redis, members |-> {}]

(* What a principal may hold: a policy that roles name is bound to no groups. *)
GrantsUnder(r) ==
  [groups : IF r.stored THEN SUBSET Group ELSE {{}}, policies : [Path -> r.policies]]

RealtimeInit(redis, resolver_) ==
  /\ log = <<>>
  /\ channel = NewChannel(redis)
  /\ queue = [c \in Client |-> <<>>]
  /\ conn = [c \in Client |-> Away]
  /\ subs = [c \in Client |-> NoSubscriptions]
  /\ told = [c \in Client |-> <<>>]
  /\ joined = [c \in Client |-> 0]
  /\ taken = [c \in Client |-> {}]
  /\ resolver = resolver_
  /\ grants \in [Client -> GrantsUnder(resolver_)]
  /\ cache = [c \in Client |-> [p \in Path |-> None]]
  /\ fetch = [c \in Client |-> [l \in Lookups |-> None]]
  /\ recent = [c \in Client |-> {grants[c]}]
  /\ deliveries = {}
  /\ edits = 0
  /\ messages = 0

-----------------------------------------------------------------------------
(* Triggers *)

(* The events of one write: the item of a create or an update that found its row, and *)
(* the id of a delete whether it found one or not.                                    *)
Events(kind, path, class, found) ==
  IF found \/ kind = "deleted" THEN <<[path |-> path, kind |-> kind, class |-> class]>>
  ELSE <<>>

(* A run that has published its events and whose post is answered or given up ends. *)
Remaining(d) == IF d.events = <<>> /\ d.posts > Retries THEN {} ELSE {d}

(* TriggeredService._fire: the run of the triggers, in the background or awaited by   *)
(* its caller.                                                                        *)
Fire(by, inline, events, hooked) ==
  /\ edits' = edits + 1
  /\ deliveries' = deliveries \cup
       Remaining([id |-> edits, by |-> by, inline |-> inline, events |-> events,
                  posts |-> IF hooked THEN 0 ELSE Retries + 1])
  /\ UNCHANGED <<log, channel, queue, clientVars, rights, messages>>

(* A queue in memory of a size other than 0. *)
Bounded == ~channel.redis /\ QueueMaxsize # 0

(* Mutant: a full queue drops the event that arrives. *)
_offer_DropsNewest(q, position) ==
  IF Bounded /\ Len(q) = QueueMaxsize THEN q ELSE Append(q, position)

(* A full queue drops its oldest event. *)
_offer(q, position) ==
  Append(IF Bounded /\ Len(q) = QueueMaxsize THEN Tail(q) ELSE q, position)

(* Every subscriber's queue is offered the event. *)
FannedOut(position) ==
  [c \in Client |-> IF c \in channel.members THEN _offer(queue[c], position) ELSE queue[c]]

(* RedisTrigger.callback publishes the next event of the run; without a client it     *)
(* raises, and the run publishes nothing more.                                        *)
Publish(d) ==
  /\ d.events # <<>>
  /\ IF channel.redis /\ channel.closed
     THEN /\ deliveries' = (deliveries \ {d}) \cup Remaining([d EXCEPT !.events = <<>>])
          /\ UNCHANGED <<log, queue>>
     ELSE /\ log' = Append(log, Head(d.events))
          /\ queue' = FannedOut(Len(log) + 1)
          /\ deliveries' = (deliveries \ {d}) \cup Remaining([d EXCEPT !.events = Tail(@)])
  /\ UNCHANGED <<channel, clientVars, rights, edits, messages>>

(* WebhookTrigger._deliver posts: an answer in time ends it, a lost or late one, like  *)
(* a refusal, is followed by the next attempt while the strategy has a delay left.     *)
Post(d) ==
  /\ d.posts <= Retries
  /\ \E answered \in BOOLEAN :
       deliveries' = (deliveries \ {d}) \cup
         Remaining([d EXCEPT !.posts = IF answered THEN Retries + 1 ELSE @ + 1])
  /\ UNCHANGED <<log, channel, queue, clientVars, rights, edits, messages>>

(* Mutant: the set of tasks is cleared and none is cancelled. *)
aclose_Clears == UNCHANGED deliveries

(* TriggerRunner.aclose: the tracked runs are cancelled. *)
aclose == deliveries' = {d \in deliveries : d.inline}

(* RedisChannel.__aenter__ connects; a channel in memory that was closed stays closed. *)
OpenChannel ==
  /\ channel' = [channel EXCEPT !.closed = @ /\ ~channel.redis]
  /\ UNCHANGED <<log, queue, clientVars, rights, deliveries, edits, messages>>

(* The channel's __aexit__ *)
CloseChannel ==
  /\ channel' = [channel EXCEPT !.closed = TRUE, !.members = {}]
  /\ UNCHANGED <<log, queue, clientVars, rights, deliveries, edits, messages>>

-----------------------------------------------------------------------------
(* The hub *)

Credentials == {"valid", "invalid", "absent"}

Phase(c) == conn[c].phase

(* RealtimeHub.authenticate and accept: the posture is "open" without an authenticator, *)
(* which makes everybody anonymous.                                                     *)
Connect(c, posture) ==
  /\ Phase(c) = "away"
  /\ \E credential \in Credentials :
       LET known   == posture # "open" /\ credential = "valid"
           refused == \/ posture # "open" /\ credential = "invalid"
                      \/ posture = "required" /\ ~known
       IN  conn' = [conn EXCEPT ![c] =
             [Away EXCEPT !.phase = IF refused THEN "closed" ELSE "open",
                          !.principal = IF known THEN c ELSE Anonymous]]
  /\ UNCHANGED <<log, channel, queue, subs, told, joined, taken, rights, deliveries, edits, messages>>

(* Mutant: the iterator has no finally. *)
Discarded_Kept(c) == UNCHANGED channel

(* The queue leaves the channel. *)
Discarded(c) == channel' = [channel EXCEPT !.members = @ \ {c}]

(* It has a fresh queue in the channel. *)
Joins(c) ==
  /\ channel' = [channel EXCEPT !.members = @ \cup {c}]
  /\ joined' = [joined EXCEPT ![c] = Len(log)]

(* _deliver begins: the iterator of a closed channel ends at once. *)
StartReader(c) ==
  /\ Phase(c) \in {"open", "gone"} /\ conn[c].reader = "off"
  /\ IF channel.closed
     THEN conn' = [conn EXCEPT ![c].reader = "ended"] /\ UNCHANGED <<channel, joined>>
     ELSE conn' = [conn EXCEPT ![c].reader = "on"] /\ Joins(c)
  /\ UNCHANGED <<log, queue, subs, told, taken, rights, deliveries, edits,
                 messages>>

Payload(e) == IF e.kind = "deleted" THEN NoItem ELSE e.class

(* The reader takes an event and, if a subscription admits it, sends it.  A send that  *)
(* fails ends the reader.                                                              *)
Take(c) ==
  LET position == Head(queue[c])
      e == log[position]
      admitted == Payload(e) \in subs[c][e.path]
      ends == channel.closed \/ (admitted /\ Phase(c) = "gone")
  IN  /\ conn[c].reader = "on" /\ queue[c] # <<>>
      /\ taken' = [taken EXCEPT ![c] = @ \cup {position}]
      /\ told' = IF admitted /\ Phase(c) = "open"
                 THEN [told EXCEPT ![c] = Append(@, position)] ELSE told
      /\ queue' = [queue EXCEPT ![c] = IF ends THEN <<>> ELSE Tail(@)]
      /\ IF ends THEN conn' = [conn EXCEPT ![c].reader = "ended"] /\ Discarded(c)
                 ELSE UNCHANGED <<conn, channel>>
  /\ UNCHANGED <<log, subs, joined, rights, deliveries, edits, messages>>

(* The iterator sees that the channel is closed. *)
EndReader(c) ==
  /\ conn[c].reader = "on" /\ channel.closed
  /\ conn' = [conn EXCEPT ![c].reader = "ended"]
  /\ queue' = [queue EXCEPT ![c] = <<>>]
  /\ UNCHANGED <<log, channel, subs, told, joined, taken, rights,
                 deliveries, edits, messages>>

(* What the resolver answers at once: an anonymous client has the default, where there *)
(* is one, a principal what its roles carry, or what is cached.  None: it asks the     *)
(* store.                                                                              *)
PolicyFilter(principal, path) ==
  CASE principal = Anonymous /\ resolver.stored  -> NoMatchFilter
    [] principal = Anonymous /\ ~resolver.stored -> resolver.default[path][{}]
    [] principal # Anonymous /\ ~resolver.stored -> grants[principal].policies[path][{}]
    [] principal # Anonymous /\ resolver.stored  -> cache[principal][path]

(* The subscription replaces the one to the same path. *)
Subscribed(c, asked, policyFilter) ==
  subs' = [subs EXCEPT ![c][asked.path] = policyFilter \cap asked.filter]

(* The receive loop reads a message. *)
Receive(c) ==
  /\ Phase(c) = "open" /\ conn[c].asks = None
  /\ messages < MaxMessages /\ messages' = messages + 1
  /\ UNCHANGED <<log, channel, queue, told, joined, taken, rights,
                 deliveries, edits>>

(* A subscribe message for a path the hub serves, with the client's own filter: it is   *)
(* answered at once, or RealtimeHub.subscribe awaits the store.                         *)
AskSubscribe(c) ==
  /\ Receive(c)
  /\ \E asked \in [path : Path, filter : Filter \ {NoMatchFilter}] :
       LET found == PolicyFilter(conn[c].principal, asked.path)
       IN  IF found = None THEN conn' = [conn EXCEPT ![c].asks = asked] /\ UNCHANGED subs
                           ELSE Subscribed(c, asked, found) /\ UNCHANGED conn

Unsubscribe(c) ==
  /\ \E p \in Path : subs' = [subs EXCEPT ![c][p] = NoMatchFilter]
  /\ Receive(c) /\ UNCHANGED conn

(* The client goes away; the handler sees it when it next receives. *)
Hangup(c) ==
  /\ Phase(c) = "open"
  /\ conn' = [conn EXCEPT ![c].phase = "gone"]
  /\ UNCHANGED <<log, channel, queue, subs, told, joined, taken, rights,
                 deliveries, edits, messages>>

(* The handler ends: it cancels the reader, whose queue leaves the channel. *)
Disconnect(c) ==
  /\ Phase(c) = "gone" /\ conn[c].asks = None
  /\ conn' = [conn EXCEPT ![c] = [conn[c] EXCEPT !.phase = "closed", !.reader = "off"]]
  /\ subs' = [subs EXCEPT ![c] = NoSubscriptions]
  /\ queue' = [queue EXCEPT ![c] = <<>>]
  /\ Discarded(c)
  /\ UNCHANGED <<log, told, joined, taken, rights, deliveries, edits, messages>>

-----------------------------------------------------------------------------
(* The resolver's lookups, and what they look up *)

(* Nothing about the principal of c is cached or under way. *)
Forgotten(c) ==
  (\A p \in Path : cache[c][p] = None) /\ (\A l \in Lookups : fetch[c][l] = None)

Remembers(c) ==
  recent' = [recent EXCEPT ![c] =
    (IF Phase(c) = "away" /\ Forgotten(c)' THEN {} ELSE @) \cup {grants'[c]}]

hubVars == <<log, channel, queue, told, joined, taken, deliveries, edits>>

(* RbacPolicyResolver.resolve, of a subscription or of a request: it reads the groups, *)
ReadGroups(c, l, path) ==
  /\ resolver.stored /\ fetch[c][l] = None
  /\ fetch' = [fetch EXCEPT ![c][l] = [path |-> path, groups |-> grants[c].groups, policy |-> None]]
  /\ UNCHANGED <<hubVars, conn, subs, resolver, grants, cache>>
  /\ Remembers(c)

FetchGroups(c) ==
  /\ conn[c].asks # None
  /\ ReadGroups(c, "socket", conn[c].asks.path)
  /\ UNCHANGED messages

(* Bound: of interest is who may still come, or is connected as itself. *)
OfInterest(c) == Phase(c) = "away" \/ (Phase(c) = "open" /\ conn[c].principal = c)

Changes(c) == OfInterest(c) /\ messages < MaxMessages /\ messages' = messages + 1

RequestResolves(c) ==
  /\ Changes(c)
  /\ \E l \in Lookups \ {"socket"}, path \in Path : cache[c][path] = None /\ ReadGroups(c, l, path)

(* then the policies in another session, *)
FetchPolicies(c) ==
  /\ \E l \in Lookups :
       /\ fetch[c][l] # None /\ fetch[c][l].policy = None
       /\ fetch' = [fetch EXCEPT ![c][l].policy = grants[c].policies[fetch[c][l].path]]
  /\ UNCHANGED <<hubVars, conn, subs, resolver, grants, cache, messages>>
  /\ Remembers(c)

(* binds them to the groups, and caches what it answers. *)
Answers(c, l, policyFilter) ==
  /\ fetch[c][l] # None /\ fetch[c][l].policy # None
  /\ policyFilter = fetch[c][l].policy[fetch[c][l].groups]
  /\ cache' = IF resolver.cached THEN [cache EXCEPT ![c][fetch[c][l].path] = policyFilter] ELSE cache
  /\ fetch' = [fetch EXCEPT ![c][l] = None]
  /\ UNCHANGED <<hubVars, resolver, grants, messages>>
  /\ Remembers(c)

(* RealtimeHub.subscribe has its answer. *)
Subscribe(c) ==
  /\ conn[c].asks # None
  /\ \E policyFilter \in Filter :
       Answers(c, "socket", policyFilter) /\ Subscribed(c, conn[c].asks, policyFilter)
  /\ conn' = [conn EXCEPT ![c].asks = None]

RequestResolved(c) ==
  /\ \E l \in Lookups \ {"socket"}, policyFilter \in Filter : Answers(c, l, policyFilter)
  /\ UNCHANGED <<conn, subs>>

(* An entry of the cache expires, or is invalidated. *)
Drop(c) ==
  /\ OfInterest(c)
  /\ \E p \in Path : cache[c][p] # None /\ cache' = [cache EXCEPT ![c][p] = None]
  /\ UNCHANGED <<hubVars, conn, subs, resolver, grants, fetch, messages>>
  /\ Remembers(c)

(* Somebody changes the groups or the policies of a principal in the store. *)
ChangeGrants(c) ==
  /\ Changes(c)
  /\ resolver.stored
  /\ \E g \in GrantsUnder(resolver) \ {grants[c]} : grants' = [grants EXCEPT ![c] = g]
  /\ UNCHANGED <<hubVars, conn, subs, resolver, cache, fetch>>
  /\ Remembers(c)

ClientStep(c) ==
  \/ StartReader(c) \/ Take(c) \/ EndReader(c)
  \/ AskSubscribe(c) \/ Subscribe(c) \/ Unsubscribe(c)
  \/ Hangup(c) \/ Disconnect(c)
  \/ FetchGroups(c) \/ FetchPolicies(c) \/ RequestResolved(c)

(* What others do about the principals of clients. *)
PrincipalStep(c) == RequestResolves(c) \/ Drop(c) \/ ChangeGrants(c)

DeliveryStep(d) == Publish(d) \/ Post(d)

RealtimeNext == (\E c \in Client : ClientStep(c)) \/ (\E d \in deliveries : DeliveryStep(d))

-----------------------------------------------------------------------------
Positions(c) == {queue[c][i] : i \in DOMAIN queue[c]}

(* A client with a queue loses an event only to QueueMaxsize newer ones, whatever the  *)
(* other clients do: its queue is the end of the log, and what is in neither was taken *)
(* or pushed out ("at-most-once", realtime_channel.py:20).                             *)
NothingElseLost ==
  \A c \in channel.members :
    /\ queue[c] = SubSeq([i \in DOMAIN log |-> i], Len(log) - Len(queue[c]) + 1, Len(log))
    /\ \A i \in joined[c] + 1 .. Len(log) :
         \/ i \in Positions(c) \cup taken[c]
         \/ Bounded /\ i + QueueMaxsize <= Len(log)

(* What a client is sent comes in the order of publication and at most once. *)
SentInOrder ==
  \A c \in Client : \A i, j \in DOMAIN told[c] : i < j => told[c][i] < told[c][j]

(* What client c may be told of on a path: the default or nothing, if it is anonymous; *)
(* what its roles carry; or what its stored policies were, bound to the groups it was  *)
(* in, since it connected, or before that if a lookup of then was still under way or   *)
(* its answer cached.                                                                  *)
MayRead(c, path) ==
  IF conn[c].principal = Anonymous \/ ~resolver.stored THEN {PolicyFilter(conn[c].principal, path)}
  ELSE {g.policies[path][h.groups] : g, h \in recent[c]}

(* It tells the client only of rows that it may read: a deletion, which has no item to *)
(* match, needs leave to read every row (realtime_routes.py:277-283).  A grant that    *)
(* is taken away is still honoured by a subscription that was made before, and by one  *)
(* that is answered from the cache (realtime_routes.py:158, auth_rbac_resolver.py:70). *)
SentWithinGrants ==
  \A c \in Client : \A i \in DOMAIN told[c] :
    LET e == log[told[c][i]]
    IN  \E f \in MayRead(c, e.path) : Payload(e) \in f

(* The event stream of a client, as far as the channel and the hub answer for it. *)
StreamFaithful == NothingElseLost /\ SentInOrder /\ SentWithinGrants
=============================================================================
