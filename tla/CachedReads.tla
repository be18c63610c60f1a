----------------------------- MODULE CachedReads ------------------------------
(***************************************************************************)
(* One resource behind CachedResource (cache/) and its routes              *)
(* (http/routes.py): callers read through the store and write with         *)
(* eviction, responses carry the strategy's validators and directives, and *)
(* clients and a shared proxy use them.                                    *)
(*                                                                         *)
(* One process with one store; OtherProcess is a write by another one.     *)
(***************************************************************************)
EXTENDS Integers, SequencesExt

CONSTANTS
  Caller, Row,        \* rows are the integers 1 .. n, the order of a search
  Absent, None, All,
  Overrides,          \* strategies a resource may declare itself
  Window,             \* DEFAULT_READ_ONLY_EXPIRE_IN
  Asked,              \* the reads callers ask for
  Edits,              \* the writes callers ask for: "save" or "delete" of some rows
  Elsewhere,          \* those of other processes
  PageSize,
  Second,             \* ticks of the clock in a second
  FetchTime,          \* the longest time from a read of the source to its answer
  MaxTime, MaxReads, MaxWrites  \* bounds

Kinds == {"etag", "lastmod", "optimistic"}

ASSUME CacheAssumption ==
  /\ Row = 1 .. Cardinality(Row) /\ PageSize \in Nat \ {0}
  /\ Overrides \subseteq [kind : Kinds, window : Nat, private : BOOLEAN]
  /\ Second \in Nat \ {0} /\ FetchTime \in Nat /\ MaxTime \in Nat
  /\ MaxReads \in Nat /\ MaxWrites \in Nat /\ Window \in Nat
  /\ All \notin Caller
  /\ Edits \cup Elsewhere \subseteq UNION {[S -> {"save", "delete"}] : S \in (SUBSET Row) \ {{}}}

VARIABLES
  strategy,  \* what the resource declares
  scoped,    \* whether the service's responses are narrowed to their caller
  now,       \* bound
  table,     \* the rows, as committed
  past,      \* the tables it replaced, and when
  store,     \* the cache store
  pc,        \* where each caller's request stands
  key,       \* what it reads
  payload,   \* what it has fetched
  fetched,   \* and when
  writes,    \* what it has written and not committed
  raced,     \* a fetch and a write have overlapped
  copy,      \* the response each caller keeps
  got,       \* the answer the server has just given, if it has
  proxy,     \* a shared cache in front of the server
  asked      \* bound

vars == <<strategy, scoped, now, table, past, store, pc, key, payload, fetched, writes, raced,
          copy, got, proxy, asked>>

declared == <<strategy, scoped>>
rows == <<table, past>>
fetching == <<key, payload, fetched>>
kept == <<copy, proxy>>

-----------------------------------------------------------------------------
(* The strategies *)

DefaultStrategy(readOnly, dated) ==
  IF readOnly THEN [kind |-> "optimistic", window |-> Window, private |-> TRUE]
  ELSE [kind |-> IF dated THEN "lastmod" ELSE "etag", window |-> 0, private |-> FALSE]

(* Mutant: a copy as old as the window is still served. *)
ShouldRead_Late(entry) ==
  strategy.kind # "optimistic" \/ now - entry.read_at > strategy.window

(* Only the freshness window decides without the source. *)
ShouldRead(entry) ==
  strategy.kind # "optimistic" \/ now - entry.read_at >= strategy.window

Present(items) == SelectSeq(items, LAMBDA i : i # Absent)

(* Whole seconds, as Last-Modified has. *)
LatestOf(items) ==
  LET seconds == {i.at \div Second : i \in Range(Present(items))}
  IN  IF seconds = {} THEN -1 ELSE Max(seconds)

(* Mutant: the count is tagged like a list of rows. *)
CountTag_OfItems(p) == <<"items", Present(p.items)>>

CountTag(p) == <<"count", p.count>>

(* Mutant: only the strategy's own flag counts. *)
IsPrivate_OwnFlag == strategy.private

(* A service whose responses are narrowed to their caller makes any strategy private. *)
IsPrivate == strategy.private \/ scoped

ItemsTag(p) == <<"items", Present(p.items)>>

Expiry == IF strategy.window > 0 THEN now + strategy.window ELSE None

(* get_cache_header of a read, a page or a batch, count_cache_header of a count. *)
Header(k, p) ==
  [etag |-> IF strategy.kind = "optimistic" THEN None
            ELSE IF k[1] = "count" THEN CountTag(p)
            ELSE IF strategy.kind = "etag" THEN ItemsTag(p) ELSE None,
   updated |-> IF strategy.kind = "lastmod" /\ k[1] # "count" THEN LatestOf(p.items) ELSE None,
   until |-> Expiry,
   private |-> IsPrivate]

(* is_modified: the ETag decides if there is one, else the date, else it is. *)
NotModified(h, client) ==
  \/ h.etag # None /\ h.etag = client.etag
  \/ h.etag = None /\ h.updated # None /\ client.updated # None /\ h.updated <= client.updated

-----------------------------------------------------------------------------
(* What the source answers *)

Keys == Asked \cap (({"read"} \X Row) \cup ({"search", "batch", "count"} \X {0}))

BatchItems(t) == [r \in Row |-> t[r]]

Found(t) == Present(BatchItems(t))

SearchItems(t) == SubSeq(Found(t), 1, Min({PageSize, Len(Found(t))}))

(* The rows that answer key k: absent ones keep their place in a batch only. *)
Answering(k, t) ==
  CASE k[1] = "read" -> <<t[k[2]]>>
    [] k[1] = "batch" -> BatchItems(t)
    [] k[1] = "search" -> SearchItems(t)
    [] k[1] = "count" -> <<>>

CountOf(t) == Len(Found(t))

Result(k, t, caller) ==
  [items |-> Answering(k, t), more |-> k[1] = "search" /\ CountOf(t) > PageSize,
   count |-> IF k[1] = "count" THEN CountOf(t) ELSE 0,
   to |-> IF scoped THEN caller ELSE All]

Init ==
  /\ strategy \in {DefaultStrategy(r, d) : r, d \in BOOLEAN} \cup Overrides
  /\ scoped \in BOOLEAN
  /\ now = 0
  /\ table \in [Row -> {Absent, [by |-> 0, at |-> 0]}]
  /\ past = {}
  /\ store = [k \in Keys |-> None]
  /\ pc = [c \in Caller |-> "idle"]
  /\ key = [c \in Caller |-> None]
  /\ payload = [c \in Caller |-> None]
  /\ fetched = [c \in Caller |-> 0]
  /\ writes = [c \in Caller |-> <<>>]
  /\ raced = FALSE
  /\ copy = [c \in Caller |-> None]
  /\ got = None
  /\ proxy = [k \in Keys |-> None]
  /\ asked = 0

Goto(c, label) == pc' = [pc EXCEPT ![c] = label]

-----------------------------------------------------------------------------
(* Reads: the routes, CachedService._read_through *)

Ask(c) == pc[c] = "idle" /\ asked < MaxReads /\ asked' = asked + 1

Cacheable == ~scoped

(* A caller that asks again sends the validators of the copy it has. *)
ClientConfirmed(c, k, h) ==
  copy[c] # None /\ copy[c].key = k /\ NotModified(h, copy[c].header)

Shareable(h) == ~h.private /\ h.until # None

(* The route's answer to the payload p: the body, or 304 for a caller whose copy the  *)
(* validators confirm.  The proxy keeps what may be shared while it is fresh.          *)
Respond(c, k, p, origin) ==
  LET h == Header(k, p)
      unchanged == ClientConfirmed(c, k, h)
  IN  /\ copy' = [copy EXCEPT ![c] =
                    [key |-> k, body |-> IF unchanged THEN @.body ELSE p, header |-> h]]
      /\ got' = [caller |-> c, key |-> k, from |-> origin, answer |-> p, tag |-> h.etag,
                 status |-> IF unchanged THEN 304 ELSE 200,
                 body |-> IF unchanged THEN copy[c].body ELSE p]
      /\ proxy' = IF Shareable(h) /\ ~unchanged
                  THEN [proxy EXCEPT ![k] = [body |-> p, header |-> h]] ELSE proxy

(* The proxy answers for the server while what it holds is fresh. *)
FromProxy(c, k) ==
  /\ Ask(c)
  /\ proxy[k] # None /\ now < proxy[k].header.until
  /\ got' = None
  /\ copy' = [copy EXCEPT ![c] = [key |-> k, body |-> proxy[k].body, header |-> proxy[k].header]]
  /\ UNCHANGED <<declared, now, rows, store, pc, fetching, writes, raced, proxy>>

(* A fresh copy in the store. *)
Serve(c, k) ==
  /\ Ask(c)
  /\ Cacheable /\ store[k] # None /\ ~ShouldRead(store[k])
  /\ Respond(c, k, store[k].payload, "store")
  /\ UNCHANGED <<declared, now, rows, store, pc, fetching, writes, raced>>

Writing(c) == writes[c] # <<>>

(* Otherwise the source is read; a row that is absent is an error, which is not kept. *)
Fetch(c, k) ==
  /\ Ask(c)
  /\ Cacheable /\ store[k] # None => ShouldRead(store[k])
  /\ k[1] = "read" => table[k[2]] # Absent
  /\ key' = [key EXCEPT ![c] = k]
  /\ payload' = [payload EXCEPT ![c] = Result(k, table, c)]
  /\ fetched' = [fetched EXCEPT ![c] = now]
  /\ raced' = (raced \/ \E w \in Caller : Writing(w))
  /\ Goto(c, "fetched")
  /\ got' = None
  /\ UNCHANGED <<declared, now, rows, store, writes, kept>>

(* Mutant: the entry is dated by its expiry. *)
Entry_Expiry(p) == [payload |-> p, read_at |-> now + strategy.window]

Entry(p) == [payload |-> p, read_at |-> now]

(* The store is refilled with what was fetched, dated now. *)
Refill(c) ==
  /\ pc[c] = "fetched"
  /\ store' = IF Cacheable
              THEN [store EXCEPT ![key[c]] = Entry(payload[c])]
              ELSE store
  /\ Respond(c, key[c], payload[c], "source")
  /\ key' = [key EXCEPT ![c] = None]
  /\ payload' = [payload EXCEPT ![c] = None]
  /\ fetched' = [fetched EXCEPT ![c] = 0]
  /\ Goto(c, "idle")
  /\ UNCHANGED <<declared, now, rows, writes, raced, asked>>

-----------------------------------------------------------------------------
(* Writes: forwarded, then evict, then the session commits *)

Fetching == \E c \in Caller : pc[c] = "fetched"

Locked(S) == \E w \in Caller : Writing(w) /\ DOMAIN writes[w] \cap S # {}

Written == Cardinality(past) + Cardinality({w \in Caller : Writing(w)})

(* The rows that an edit leaves, dated now. *)
Rewritten(edit) ==
  [r \in DOMAIN edit |-> IF edit[r] = "save" THEN [by |-> Written + 1, at |-> now] ELSE Absent]

(* create, update, delete and apply_edits: a batch writes several rows at once. *)
Write(c, edit) ==
  /\ pc[c] = "idle"
  /\ Written < MaxWrites
  /\ ~Locked(DOMAIN edit)
  /\ writes' = [writes EXCEPT ![c] = Rewritten(edit)]
  /\ raced' = (raced \/ Fetching)
  /\ Goto(c, "evict")
  /\ got' = None
  /\ UNCHANGED <<declared, now, rows, store, fetching, kept, asked>>

(* Mutant: only the reads of single rows are forgotten. *)
Evicted_Reads == [k \in Keys |-> IF k[1] = "read" THEN None ELSE store[k]]

(* Every key of the resource. *)
Evicted == [k \in Keys |-> None]

Evict(c) ==
  /\ pc[c] = "evict"
  /\ store' = Evicted
  /\ Goto(c, "commit")
  /\ got' = None
  /\ UNCHANGED <<declared, now, rows, fetching, writes, raced, kept, asked>>

Replace(new) ==
  /\ table' = [r \in Row |-> IF r \in DOMAIN new THEN new[r] ELSE table[r]]
  /\ past' = past \cup {[table |-> table, until |-> now, nth |-> Cardinality(past)]}

(* The service's exit: its session commits, or is rolled back by a later exception. *)
Commit(c) ==
  /\ pc[c] = "commit"
  /\ Replace(writes[c])
  /\ writes' = [writes EXCEPT ![c] = <<>>]
  /\ Goto(c, "idle")
  /\ got' = None
  /\ UNCHANGED <<declared, now, store, fetching, raced, kept, asked>>

Rollback(c) ==
  /\ pc[c] \in {"evict", "commit"}
  /\ writes' = [writes EXCEPT ![c] = <<>>]
  /\ Goto(c, "idle")
  /\ got' = None
  /\ UNCHANGED <<declared, now, rows, store, fetching, raced, kept, asked>>

(* A write that does not pass this process's store. *)
OtherProcess(edit) ==
  /\ Written < MaxWrites
  /\ ~Locked(DOMAIN edit)
  /\ Replace(Rewritten(edit))
  /\ raced' = TRUE
  /\ got' = None
  /\ UNCHANGED <<declared, now, store, pc, fetching, writes, kept, asked>>

(* Time passes, but what is fetched is answered within FetchTime. *)
Tick ==
  /\ now < MaxTime
  /\ \A c \in Caller : pc[c] = "fetched" => now - fetched[c] < FetchTime
  /\ now' = now + 1
  /\ got' = None
  /\ UNCHANGED <<declared, rows, store, pc, fetching, writes, raced, kept, asked>>

Next ==
  \/ \E c \in Caller, k \in Keys : FromProxy(c, k) \/ Serve(c, k) \/ Fetch(c, k)
  \/ \E c \in Caller : Refill(c) \/ Evict(c) \/ Commit(c) \/ Rollback(c)
  \/ \E c \in Caller, edit \in Edits : Write(c, edit)
  \/ \E edit \in Elsewhere : OtherProcess(edit)
  \/ Tick

Spec == Init /\ [][Next]_vars

-----------------------------------------------------------------------------
Payloads(p) == {"items", "more", "count", "to"} = DOMAIN p /\ p.to \in Caller \cup {All}

(* Every variable stays in its range, and what is dated is not dated in the future. *)
TypeOK ==
  /\ strategy.kind \in Kinds /\ scoped \in BOOLEAN /\ now \in 0 .. MaxTime
  /\ \A r \in Row : table[r] # Absent => table[r].at <= now
  /\ \A h \in past : h.until <= now
  /\ \A k \in Keys : store[k] # None => Payloads(store[k].payload) /\ store[k].read_at \in 0 .. now
  /\ \A c \in Caller :
       /\ pc[c] \in {"idle", "fetched", "evict", "commit"}
       /\ IF pc[c] = "fetched" THEN key[c] \in Keys /\ Payloads(payload[c])
          ELSE key[c] = None /\ payload[c] = None
       /\ (pc[c] \in {"evict", "commit"}) = Writing(c)
       /\ copy[c] # None => Payloads(copy[c].body) /\ copy[c].key \in Keys
  /\ \A k \in Keys : proxy[k] # None => ~proxy[k].header.private

(* The freshness window: what the store serves was committed less than the window,    *)
(* and the time a fetch may take, ago, whoever has written since and evicted or not.   *)
StalenessBounded ==
  got # None /\ got.from = "store" =>
    \E t \in {table} \cup {h.table : h \in {h \in past :
                             h.until > now - strategy.window - FetchTime}} :
      got.answer = Result(got.key, t, got.caller)

(* "Every write is forwarded and then evicts the resource's entries": unless a fetch   *)
(* overlaps a write, or the write is another process's, no entry is out of date.        *)
EvictionSuffices ==
  ~raced => \A k \in Keys : store[k] # None => store[k].payload = Result(k, table, All)

(* A 304 by an ETag confirms rows, or a count, that are what the server would send. *)
ConfirmedRowsCurrent ==
  got # None /\ got.status = 304 /\ got.tag # None =>
    /\ Present(got.body.items) = Present(got.answer.items)
    /\ got.body.count = got.answer.count

(* "sharing a principal-narrowed body across callers would be an authorization leak":  *)
(* neither the store nor a shared proxy hands one caller's response to another.          *)
NarrowedStaysPrivate ==
  /\ \A k \in Keys : store[k] # None => store[k].payload.to = All
  /\ \A c \in Caller : copy[c] # None => copy[c].body.to \in {c, All}

=============================================================================
