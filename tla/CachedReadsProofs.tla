-------------------------- MODULE CachedReadsProofs --------------------------
(***************************************************************************)
(* Theorems about CachedReads, for every number of callers, rows, reads    *)
(* and writes, every strategy, window and page size.                       *)
(***************************************************************************)
EXTENDS CachedReads, TLAPS

-----------------------------------------------------------------------------
(* The inductive invariant *)

(* Every caller has its request, its copy and its writes, every key its place. *)
Indexed ==
  /\ DOMAIN store = Keys /\ DOMAIN proxy = Keys
  /\ DOMAIN pc = Caller /\ DOMAIN key = Caller /\ DOMAIN payload = Caller
  /\ DOMAIN fetched = Caller /\ DOMAIN writes = Caller /\ DOMAIN copy = Caller

(* Each request is where its locals say. *)
Requests ==
  /\ strategy.kind \in Kinds /\ scoped \in BOOLEAN /\ now \in 0 .. MaxTime
  /\ \A c \in Caller :
       /\ pc[c] \in {"idle", "fetched", "evict", "commit"}
       /\ IF pc[c] = "fetched" THEN key[c] \in Keys /\ Payloads(payload[c])
          ELSE key[c] = None /\ payload[c] = None
       /\ (pc[c] \in {"evict", "commit"}) = Writing(c)

(* Nothing is dated in the future, written rows included, and a fetch is not overdue. *)
Dated ==
  /\ strategy.window \in Nat
  /\ \A r \in Row : table[r] # Absent => table[r].at \in 0 .. now
  /\ \A c \in Caller : \A r \in DOMAIN writes[c] :
       writes[c][r] # Absent => writes[c][r].at \in 0 .. now
  /\ \A h \in past : h.until \in 0 .. now
  /\ \A c \in Caller : fetched[c] \in 0 .. now
  /\ \A c \in Caller : pc[c] = "fetched" => now - fetched[c] <= FetchTime

(* The parts of the invariant about one moment's requests, tables and dates. *)
Requested == Indexed /\ Requests /\ Dated

(* A count has no rows, and what is no count counts nothing. *)
Shaped(k, p) == IF k[1] = "count" THEN p.items = <<>> ELSE p.count = 0

(* A response to key k that c may see. *)
Body(k, p, c) == Payloads(p) /\ Shaped(k, p) /\ p.to \in {c, All}

(* The ETag that a header carries, if it carries one, is that of the body it is with. *)
Tagged(k, p, h) ==
  h.etag # None => h.etag = IF k[1] = "count" THEN CountTag(p) ELSE ItemsTag(p)

(* Each caller keeps a response of its own, the shared proxy a response to everybody. *)
KeptBodies ==
  /\ \A c \in Caller : copy[c] # None =>
       /\ copy[c].key \in Keys
       /\ Body(copy[c].key, copy[c].body, c)
       /\ Tagged(copy[c].key, copy[c].body, copy[c].header)
  /\ \A k \in Keys : proxy[k] # None =>
       /\ ~proxy[k].header.private
       /\ Body(k, proxy[k].body, All)
       /\ Tagged(k, proxy[k].body, proxy[k].header)

(* The tables that were the committed one at instant t or later. *)
Since(t) == {table} \cup {h.table : h \in {h \in past : h.until >= t}}

(* What is fetched, or in the store, was the source's answer when it was read. *)
OnceTrue ==
  /\ \A c \in Caller : pc[c] = "fetched" =>
       \E t \in Since(fetched[c]) : payload[c] = Result(key[c], t, c)
  /\ \A k \in Keys : store[k] # None =>
       /\ ~scoped /\ store[k].read_at \in 0 .. now
       /\ \E t \in Since(store[k].read_at - FetchTime) : store[k].payload = Result(k, t, All)

(* Until a fetch and a write overlap they exclude each other, and what is fetched is the *)
(* committed answer; between its eviction and its commit a writer finds the store empty.  *)
Apart ==
  ~raced =>
    /\ \A c, w \in Caller : ~(pc[c] = "fetched" /\ Writing(w))
    /\ \A c \in Caller : pc[c] = "fetched" => payload[c] = Result(key[c], table, c)
    /\ \A c \in Caller : pc[c] = "commit" => \A k \in Keys : store[k] = None
    /\ EvictionSuffices

CacheInv ==
  /\ Requested
  /\ OnceTrue /\ KeptBodies /\ Apart
  /\ StalenessBounded /\ ConfirmedRowsCurrent

-----------------------------------------------------------------------------
(* What the source answers, and what a route makes of it *)

(* An answer of the source has the shape of its key and is for whom it may be shown to. *)
LEMMA ResultShape ==
  ASSUME NEW k, NEW t, NEW c \in Caller \cup {All}
  PROVE  /\ Payloads(Result(k, t, c))
         /\ Shaped(k, Result(k, t, c))
         /\ Result(k, t, c).to = IF scoped THEN c ELSE All
  <1>1. /\ DOMAIN Result(k, t, c) = {"items", "more", "count", "to"}
        /\ Result(k, t, c).to = IF scoped THEN c ELSE All
        /\ Result(k, t, c).items = Answering(k, t)
        /\ Result(k, t, c).count = IF k[1] = "count" THEN CountOf(t) ELSE 0
    BY DEF Result
  <1>2. k[1] = "count" => Answering(k, t) = <<>>
    BY DEF Answering
  <1> QED
    BY <1>1, <1>2 DEF Payloads, Shaped

(* Without narrowing, everybody is answered alike. *)
LEMMA ResultForAll ==
  ASSUME NEW k, NEW t, NEW c, ~scoped
  PROVE  Result(k, t, c) = Result(k, t, All)
  BY DEF Result

(* The header of an answer carries that answer's own tag, or none. *)
LEMMA HeaderTagged ==
  ASSUME NEW k, NEW p
  PROVE  /\ Tagged(k, p, Header(k, p))
         /\ Header(k, p).private = IsPrivate
  BY DEF Header, Tagged

(* A header that confirms a copy with a tag has the tag of that copy. *)
LEMMA ConfirmedTag ==
  ASSUME NEW c, NEW k, NEW h, ClientConfirmed(c, k, h), h.etag # None
  PROVE  copy[c] # None /\ copy[c].key = k /\ copy[c].header.etag = h.etag
  BY DEF ClientConfirmed, NotModified

(* Two bodies of one key that carry the same tag have the same rows and the same count. *)
LEMMA SameTagSameRows ==
  ASSUME NEW k, NEW p, NEW q, NEW h, h.etag # None,
         Tagged(k, p, h), Tagged(k, q, h), Shaped(k, p), Shaped(k, q)
  PROVE  Present(p.items) = Present(q.items) /\ p.count = q.count
  <1>1. CASE k[1] = "count"
    BY <1>1 DEF Tagged, Shaped, CountTag
  <1>2. CASE k[1] # "count"
    BY <1>2 DEF Tagged, Shaped, ItemsTag
  <1> QED
    BY <1>1, <1>2

(* The route's answer: what the caller and the proxy keep of it, and what it confirms. *)
LEMMA RespondKeeps ==
  ASSUME KeptBodies, Indexed, NEW c \in Caller, NEW k \in Keys, NEW p, NEW origin,
         Respond(c, k, p, origin), scoped' = scoped,
         Payloads(p), Shaped(k, p), p.to = IF scoped THEN c ELSE All
  PROVE  /\ KeptBodies' /\ ConfirmedRowsCurrent'
         /\ DOMAIN copy' = Caller /\ DOMAIN proxy' = Keys
         /\ got'.caller = c /\ got'.key = k /\ got'.from = origin /\ got'.answer = p
  <1> DEFINE h == Header(k, p)
             unchanged == ClientConfirmed(c, k, h)
  <1>1. /\ copy' = [copy EXCEPT ![c] = [key |-> k, body |-> IF unchanged THEN copy[c].body ELSE p,
                                        header |-> h]]
        /\ got' = [caller |-> c, key |-> k, from |-> origin, answer |-> p, tag |-> h.etag,
                   status |-> IF unchanged THEN 304 ELSE 200,
                   body |-> IF unchanged THEN copy[c].body ELSE p]
        /\ proxy' = IF Shareable(h) /\ ~unchanged
                    THEN [proxy EXCEPT ![k] = [body |-> p, header |-> h]] ELSE proxy
    BY DEF Respond
  <1> HIDE DEF h, unchanged
  <1>2. Tagged(k, p, h) /\ h.private = IsPrivate
    BY HeaderTagged DEF h
  <1>3. Body(k, p, c) /\ (~scoped => Body(k, p, All))
    BY DEF Body
  <1>4. unchanged => /\ copy[c] # None /\ copy[c].key = k /\ Body(k, copy[c].body, c)
                     /\ Tagged(k, copy[c].body, h)
    <2>1. unchanged => copy[c] # None /\ copy[c].key = k
      BY DEF unchanged, ClientConfirmed
    <2>2. unchanged /\ h.etag # None => copy[c].header.etag = h.etag
      BY ConfirmedTag DEF unchanged
    <2> QED
      BY <2>1, <2>2 DEF KeptBodies, Tagged
  <1>5. DOMAIN copy' = Caller /\ DOMAIN proxy' = Keys
    BY <1>1 DEF Indexed
  <1>6. /\ copy'[c].key = k /\ copy'[c].header = h
        /\ copy'[c].body = IF unchanged THEN copy[c].body ELSE p
        /\ \A o \in Caller \ {c} : copy'[o] = copy[o]
    BY <1>1 DEF Indexed
  <1>7. \A o \in Caller : copy'[o] # None =>
          /\ copy'[o].key \in Keys
          /\ Body(copy'[o].key, copy'[o].body, o)
          /\ Tagged(copy'[o].key, copy'[o].body, copy'[o].header)
    BY <1>2, <1>3, <1>4, <1>6 DEF KeptBodies
  <1>8. \A j \in Keys : proxy'[j] # None =>
          /\ ~proxy'[j].header.private
          /\ Body(j, proxy'[j].body, All)
          /\ Tagged(j, proxy'[j].body, proxy'[j].header)
    <2>1. CASE Shareable(h) /\ ~unchanged
      <3>1. ~h.private /\ ~scoped
        BY <1>2, <2>1 DEF Shareable, IsPrivate
      <3>2. /\ proxy'[k].body = p /\ proxy'[k].header = h
            /\ \A j \in Keys \ {k} : proxy'[j] = proxy[j]
        BY <1>1, <2>1 DEF Indexed
      <3> QED
        BY <1>2, <1>3, <3>1, <3>2 DEF KeptBodies
    <2>2. CASE ~(Shareable(h) /\ ~unchanged)
      BY <1>1, <2>2 DEF KeptBodies
    <2> QED
      BY <2>1, <2>2
  <1>9. KeptBodies'
    BY <1>7, <1>8 DEF KeptBodies, Body, Payloads, Shaped, Tagged, CountTag, ItemsTag, Keys
  <1>10. ConfirmedRowsCurrent'
    <2> SUFFICES ASSUME got'.status = 304, got'.tag # None
                 PROVE  /\ Present(got'.body.items) = Present(got'.answer.items)
                        /\ got'.body.count = got'.answer.count
      BY DEF ConfirmedRowsCurrent
    <2>1. unchanged /\ got'.body = copy[c].body /\ got'.answer = p /\ h.etag # None
      BY <1>1
    <2> QED
      BY <1>2, <1>3, <1>4, <2>1, SameTagSameRows DEF Body
  <1> QED
    BY <1>1, <1>5, <1>9, <1>10

-----------------------------------------------------------------------------
(* Requests and dates *)

LEMMA Bounds ==
  /\ FetchTime \in Nat /\ MaxTime \in Nat /\ Window \in Nat
  /\ \A o \in Overrides : o.kind \in Kinds /\ o.window \in Nat
  /\ \A edit \in Edits \cup Elsewhere : DOMAIN edit # {}
  <1>1. FetchTime \in Nat /\ MaxTime \in Nat /\ Window \in Nat
    BY CacheAssumption
  <1>2. \A o \in Overrides : o.kind \in Kinds /\ o.window \in Nat
    BY CacheAssumption
  <1>3. ASSUME NEW edit \in Edits \cup Elsewhere PROVE DOMAIN edit # {}
    <2>1. PICK S \in (SUBSET Row) \ {{}} : edit \in [S -> {"save", "delete"}]
      BY CacheAssumption
    <2> QED
      BY <2>1
  <1> QED
    BY <1>1, <1>2, <1>3

(* A write changes at least one row, and dates the rows it saves now. *)
LEMMA RewrittenRows ==
  ASSUME now \in Nat, NEW edit \in Edits \cup Elsewhere
  PROVE  /\ Rewritten(edit) # <<>>
         /\ \A r \in DOMAIN Rewritten(edit) :
              Rewritten(edit)[r] # Absent => Rewritten(edit)[r].at \in 0 .. now
  <1>1. DOMAIN Rewritten(edit) # {}
    BY Bounds DEF Rewritten
  <1>2. Rewritten(edit) # <<>>
    BY <1>1
  <1>3. ASSUME NEW r \in DOMAIN Rewritten(edit), Rewritten(edit)[r] # Absent
        PROVE  Rewritten(edit)[r].at \in 0 .. now
    BY <1>3 DEF Rewritten
  <1> QED
    BY <1>2, <1>3

LEMMA InitRequested == Init => Requested
  <1> SUFFICES ASSUME Init PROVE Requested
    OBVIOUS
  <1>1. strategy.kind \in Kinds /\ strategy.window \in Nat
    BY Bounds DEF Init, DefaultStrategy, Kinds
  <1>2. Indexed
    BY DEF Init, Indexed
  <1>3. Requests
    BY <1>1, Bounds DEF Init, Requests, Writing
  <1>4. Dated
    BY <1>1, Bounds DEF Init, Dated
  <1> QED
    BY <1>2, <1>3, <1>4 DEF Requested

(* The reads. *)
LEMMA ReadsRequested ==
  ASSUME Requested, KeptBodies, NEW c \in Caller, NEW k \in Keys,
         FromProxy(c, k) \/ Serve(c, k) \/ Fetch(c, k) \/ Refill(c)
  PROVE  Requested'
  <1>1. DOMAIN copy' = Caller /\ DOMAIN proxy' = Keys
    BY DEF FromProxy, Serve, Fetch, Refill, Respond, Requested, Indexed, kept
  <1>2. DOMAIN store' = Keys
    BY DEF FromProxy, Serve, Fetch, Refill, Requested, Indexed
  <1>3. CASE FromProxy(c, k) \/ Serve(c, k)
    BY <1>1, <1>2, <1>3
    DEF FromProxy, Serve, Requested, Indexed, Requests, Dated, Writing, declared, rows, fetching
  <1>4. CASE Fetch(c, k)
    <2>1. Payloads(Result(k, table, c))
      BY ResultShape
    <2>2. Indexed'
      BY <1>1, <1>2, <1>4 DEF Fetch, Goto, Requested, Indexed
    <2>3. Requests'
      <3>1. /\ pc' = [pc EXCEPT ![c] = "fetched"] /\ key' = [key EXCEPT ![c] = k]
            /\ payload' = [payload EXCEPT ![c] = Result(k, table, c)]
            /\ pc[c] = "idle" /\ now' = now /\ strategy' = strategy /\ scoped' = scoped
            /\ writes' = writes
        BY <1>4 DEF Fetch, Ask, Goto, declared
      <3>2. /\ key'[c] = k /\ payload'[c] = Result(k, table, c) /\ pc'[c] = "fetched"
            /\ \A o \in Caller \ {c} : pc'[o] = pc[o] /\ key'[o] = key[o] /\ payload'[o] = payload[o]
        BY <3>1 DEF Requested, Indexed
      <3>3. Payloads(payload'[c]) /\ (\A o \in Caller \ {c} : pc[o] = "fetched" => Payloads(payload'[o]))
        BY <2>1, <3>2 DEF Requested, Requests
      <3> QED
        BY <3>1, <3>2, <3>3 DEF Requested, Requests, Writing
    <2>4. Dated'
      BY <1>4, Bounds DEF Fetch, Goto, Requested, Indexed, Requests, Dated, declared, rows
    <2> QED
      BY <2>2, <2>3, <2>4 DEF Requested
  <1>5. CASE Refill(c)
    <2>1. Indexed'
      BY <1>1, <1>2, <1>5 DEF Refill, Goto, Requested, Indexed
    <2>2. Requests'
      BY <1>5 DEF Refill, Goto, Requested, Indexed, Requests, Writing, declared
    <2>3. Dated'
      BY <1>5, Bounds DEF Refill, Goto, Requested, Indexed, Requests, Dated, declared, rows
    <2> QED
      BY <2>1, <2>2, <2>3 DEF Requested
  <1> QED
    BY <1>3, <1>4, <1>5

(* The writes, and time. *)
LEMMA WritesRequested ==
  ASSUME Requested,
         \/ \E c \in Caller : Evict(c) \/ Commit(c) \/ Rollback(c) \/ \E e \in Edits : Write(c, e)
         \/ \E e \in Elsewhere : OtherProcess(e)
         \/ Tick
  PROVE  Requested'
  <1>1. ASSUME NEW c \in Caller, NEW e \in Edits, Write(c, e) PROVE Requested'
    <2>1. /\ Rewritten(e) # <<>>
          /\ \A r \in DOMAIN Rewritten(e) : Rewritten(e)[r] # Absent => Rewritten(e)[r].at \in 0 .. now
      BY RewrittenRows, Bounds DEF Requested, Requests
    <2>2. Indexed'
      BY <1>1 DEF Write, Goto, Requested, Indexed, fetching, kept
    <2>3. Requests'
      BY <1>1, <2>1 DEF Write, Goto, Requested, Indexed, Requests, Writing, fetching, declared
    <2>4. Dated'
      BY <1>1, <2>1 DEF Write, Goto, Requested, Indexed, Requests, Dated, fetching, declared, rows
    <2> QED
      BY <2>2, <2>3, <2>4 DEF Requested
  <1>2. ASSUME NEW c \in Caller, Evict(c) PROVE Requested'
    <2>1. Indexed'
      BY <1>2 DEF Evict, Evicted, Goto, Requested, Indexed, fetching, kept
    <2>2. Requests'
      BY <1>2 DEF Evict, Goto, Requested, Indexed, Requests, Writing, fetching, declared
    <2>3. Dated'
      BY <1>2 DEF Evict, Goto, Requested, Indexed, Requests, Dated, fetching, declared, rows
    <2> QED
      BY <2>1, <2>2, <2>3 DEF Requested
  <1>3. ASSUME NEW c \in Caller, Commit(c) PROVE Requested'
    <2>1. Indexed'
      BY <1>3 DEF Commit, Goto, Requested, Indexed, fetching, kept
    <2>2. Requests'
      BY <1>3 DEF Commit, Goto, Requested, Indexed, Requests, Writing, fetching, declared
    <2>3. \A r \in Row : table'[r] # Absent => table'[r].at \in 0 .. now
      BY <1>3 DEF Commit, Replace, Requested, Dated
    <2>4. \A h \in past' : h.until \in 0 .. now
      BY <1>3 DEF Commit, Replace, Requested, Requests, Dated
    <2>5. Dated'
      BY <1>3, <2>3, <2>4 DEF Commit, Goto, Requested, Indexed, Dated, fetching, declared
    <2> QED
      BY <2>1, <2>2, <2>5 DEF Requested
  <1>4. ASSUME NEW c \in Caller, Rollback(c) PROVE Requested'
    <2>1. Indexed'
      BY <1>4 DEF Rollback, Goto, Requested, Indexed, fetching, kept
    <2>2. Requests'
      BY <1>4 DEF Rollback, Goto, Requested, Indexed, Requests, Writing, fetching, declared
    <2>3. Dated'
      BY <1>4 DEF Rollback, Goto, Requested, Indexed, Dated, fetching, declared, rows
    <2> QED
      BY <2>1, <2>2, <2>3 DEF Requested
  <1>5. ASSUME NEW e \in Elsewhere, OtherProcess(e) PROVE Requested'
    <2>1. \A r \in DOMAIN Rewritten(e) : Rewritten(e)[r] # Absent => Rewritten(e)[r].at \in 0 .. now
      BY RewrittenRows, Bounds DEF Requested, Requests
    <2>2. \A r \in Row : table'[r] # Absent => table'[r].at \in 0 .. now
      BY <1>5, <2>1 DEF OtherProcess, Replace, Requested, Dated
    <2>3. \A h \in past' : h.until \in 0 .. now
      BY <1>5 DEF OtherProcess, Replace, Requested, Requests, Dated
    <2> QED
      BY <1>5, <2>2, <2>3
      DEF OtherProcess, Requested, Indexed, Requests, Dated, Writing, fetching, kept, declared
  <1>6. CASE Tick
    <2>1. now' \in 0 .. MaxTime /\ (\A n \in 0 .. now : n \in 0 .. now')
      BY <1>6, Bounds DEF Tick, Requested, Requests
    <2>2. \A c \in Caller : pc[c] = "fetched" => now' - fetched[c] <= FetchTime
      BY <1>6, Bounds DEF Tick, Requested, Requests, Dated
    <2>3. Indexed' /\ Requests'
      BY <1>6, <2>1
      DEF Tick, Requested, Indexed, Requests, Writing, fetching, kept, declared
    <2>4. Dated'
      BY <1>6, <2>1, <2>2 DEF Tick, Requested, Dated, fetching, declared, rows
    <2> QED
      BY <2>3, <2>4 DEF Requested
  <1> QED
    BY <1>1, <1>2, <1>3, <1>4, <1>5, <1>6

-----------------------------------------------------------------------------
(* What is in the store was true once *)

(* A table that was the committed one since t still was, whatever has been committed. *)
LEMMA SinceGrows ==
  ASSUME Dated, now \in Nat, NEW t \in Int, t <= now,
         \/ table' = table /\ past' = past
         \/ \E new : Replace(new)
  PROVE  Since(t) \subseteq Since(t)'
  <1>1. CASE table' = table /\ past' = past
    BY <1>1 DEF Since
  <1>2. ASSUME NEW new, Replace(new) PROVE Since(t) \subseteq Since(t)'
    <2>1. past \subseteq past' /\ [table |-> table, until |-> now, nth |-> Cardinality(past)] \in past'
      BY <1>2 DEF Replace
    <2>2. table \in Since(t)'
      BY <2>1 DEF Since
    <2>3. \A h \in past : h.until >= t => h.table \in Since(t)'
      BY <2>1 DEF Since
    <2> QED
      BY <2>2, <2>3 DEF Since
  <1> QED
    BY <1>1, <1>2

(* The later an instant, the fewer tables have been the committed one since. *)
LEMMA SinceShrinks ==
  ASSUME Dated, now \in Nat, NEW t \in Int, NEW u \in Int, t <= u
  PROVE  Since(u) \subseteq Since(t)
  BY DEF Since, Dated

(* Answers do not change with the state, but for whom they are for. *)
LEMMA ResultStable ==
  ASSUME scoped' = scoped
  PROVE  \A k, t, c : Result(k, t, c)' = Result(k, t, c)
  BY DEF Result

LEMMA InitOnceTrue == Init => OnceTrue
  BY DEF Init, OnceTrue

(* A step that fetches nothing and fills no place of the store keeps both true. *)
LEMMA OnceTrueStays ==
  ASSUME Requested, OnceTrue, scoped' = scoped, now' \in Nat, now <= now',
         \/ table' = table /\ past' = past
         \/ \E new : Replace(new),
         \A c \in Caller : pc'[c] = "fetched" =>
           pc[c] = "fetched" /\ fetched'[c] = fetched[c] /\ key'[c] = key[c] /\ payload'[c] = payload[c],
         \A k \in Keys : store'[k] # None => store'[k] = store[k]
  PROVE  OnceTrue'
  <1>1. now \in Nat /\ FetchTime \in Nat
    BY Bounds DEF Requested, Requests
  <1>2. ASSUME NEW c \in Caller, pc'[c] = "fetched"
        PROVE  \E t \in Since(fetched[c])' : payload'[c] = Result(key[c], t, c)'
    <2>1. PICK t \in Since(fetched[c]) : payload[c] = Result(key[c], t, c)
      BY <1>2 DEF OnceTrue
    <2>2. fetched[c] \in Int /\ fetched[c] <= now
      BY <1>1 DEF Requested, Dated
    <2>3. ASSUME NEW u \in Int, u <= now PROVE Since(u) \subseteq Since(u)'
      BY <1>1, <2>3, SinceGrows DEF Requested
    <2>4. PICK u \in Int : u = fetched[c]
      BY <2>2
    <2>5. t \in Since(u)' /\ fetched'[c] = u
      BY <1>2, <2>1, <2>2, <2>3, <2>4
    <2>6. t \in Since(fetched[c])'
      BY <2>5 DEF Since
    <2>7. payload'[c] = Result(key[c], t, c)'
      BY <1>2, <2>1 DEF Result
    <2> QED
      BY <2>6, <2>7
  <1>3. ASSUME NEW k \in Keys, store'[k] # None
        PROVE  /\ ~scoped' /\ store'[k].read_at \in 0 .. now'
               /\ \E t \in Since(store[k].read_at - FetchTime)' : store'[k].payload = Result(k, t, All)'
    <2>1. PICK u \in Int : u = store[k].read_at - FetchTime
      BY <1>1, <1>3 DEF OnceTrue
    <2>2. store'[k] = store[k] /\ store[k] # None /\ ~scoped /\ store[k].read_at \in 0 .. now /\ u <= now
      BY <1>1, <1>3, <2>1 DEF OnceTrue
    <2>3. PICK t \in Since(u) : store[k].payload = Result(k, t, All)
      BY <1>3, <2>1, <2>2 DEF OnceTrue
    <2>4. t \in Since(u)'
      BY <1>1, <2>2, <2>3, SinceGrows DEF Requested
    <2>5. t \in Since(store[k].read_at - FetchTime)'
      BY <2>1, <2>2, <2>4 DEF Since
    <2>6. store'[k].payload = Result(k, t, All)'
      BY <2>2, <2>3 DEF Result
    <2>7. store'[k].read_at \in 0 .. now'
      BY <1>1, <2>2
    <2> QED
      BY <2>2, <2>5, <2>6, <2>7
  <1> QED
    BY <1>2, <1>3 DEF OnceTrue

(* A fetch takes what is committed now. *)
LEMMA FetchOnceTrue ==
  ASSUME Requested, OnceTrue, NEW c \in Caller, NEW k \in Keys, Fetch(c, k)
  PROVE  OnceTrue'
  <1>1. /\ pc'[c] = "fetched" /\ key'[c] = k /\ payload'[c] = Result(k, table, c)
        /\ \A o \in Caller \ {c} : /\ pc'[o] = pc[o] /\ key'[o] = key[o]
                                    /\ payload'[o] = payload[o] /\ fetched'[o] = fetched[o]
        /\ table' = table /\ past' = past /\ scoped' = scoped /\ store' = store /\ now' = now
    BY DEF Fetch, Goto, Requested, Indexed, declared, rows
  <1>2. \A t : Since(t)' = Since(t)
    BY <1>1 DEF Since
  <1>3. \A j, t, o : Result(j, t, o)' = Result(j, t, o)
    BY <1>1, ResultStable
  <1>4. table \in Since(fetched[c])'
    BY <1>1 DEF Since
  <1>5. payload'[c] = Result(key[c], table, c)'
    BY <1>1 DEF Result
  <1>6. \E t \in Since(fetched[c])' : payload'[c] = Result(key[c], t, c)'
    BY <1>1, <1>4, <1>5
  <1>7. ASSUME NEW o \in Caller \ {c}, pc[o] = "fetched"
        PROVE  \E t \in Since(fetched[o])' : payload'[o] = Result(key[o], t, o)'
    <2>1. PICK t \in Since(fetched[o]) : payload[o] = Result(key[o], t, o)
      BY <1>7 DEF OnceTrue
    <2>2. t \in Since(fetched[o])'
      BY <1>1, <2>1 DEF Since
    <2>3. payload'[o] = Result(key[o], t, o)'
      BY <1>1, <2>1 DEF Result
    <2> QED
      BY <2>2, <2>3
  <1>8. ASSUME NEW j \in Keys, store'[j] # None
        PROVE  /\ ~scoped' /\ store'[j].read_at \in 0 .. now'
               /\ \E t \in Since(store[j].read_at - FetchTime)' : store'[j].payload = Result(j, t, All)'
    <2>1. PICK t \in Since(store[j].read_at - FetchTime) : store[j].payload = Result(j, t, All)
      BY <1>1, <1>8 DEF OnceTrue
    <2>2. t \in Since(store[j].read_at - FetchTime)'
      BY <1>1, <2>1 DEF Since
    <2>3. store'[j].payload = Result(j, t, All)'
      BY <1>1, <2>1 DEF Result
    <2> QED
      BY <1>1, <1>8, <2>2, <2>3 DEF OnceTrue
  <1> QED
    BY <1>1, <1>6, <1>7, <1>8 DEF OnceTrue

(* A refill dates an answer up to FetchTime later than the source gave it. *)
LEMMA RefillOnceTrue ==
  ASSUME Requested, OnceTrue, NEW c \in Caller, Refill(c)
  PROVE  OnceTrue'
  <1>1. /\ pc[c] = "fetched" /\ pc'[c] # "fetched" /\ key[c] \in Keys
        /\ \A o \in Caller \ {c} : /\ pc'[o] = pc[o] /\ key'[o] = key[o]
                                    /\ payload'[o] = payload[o] /\ fetched'[o] = fetched[o]
        /\ table' = table /\ past' = past /\ scoped' = scoped /\ now' = now
        /\ store' = IF ~scoped THEN [store EXCEPT ![key[c]] = Entry(payload[c])] ELSE store
    BY DEF Refill, Goto, Requested, Indexed, Requests, Cacheable, declared, rows
  <1>2. ASSUME NEW o \in Caller, pc'[o] = "fetched"
        PROVE  \E t \in Since(fetched[o])' : payload'[o] = Result(key[o], t, o)'
    <2>1. PICK t \in Since(fetched[o]) : payload[o] = Result(key[o], t, o)
      BY <1>1, <1>2 DEF OnceTrue
    <2>2. t \in Since(fetched[o])'
      BY <1>1, <1>2, <2>1 DEF Since
    <2>3. payload'[o] = Result(key[o], t, o)'
      BY <1>1, <1>2, <2>1 DEF Result
    <2> QED
      BY <2>2, <2>3
  <1>3. ASSUME NEW k \in Keys, store'[k] # None
        PROVE  /\ ~scoped' /\ store'[k].read_at \in 0 .. now'
               /\ \E t \in Since(store[k].read_at - FetchTime)' : store'[k].payload = Result(k, t, All)'
    <2>1. CASE k = key[c] /\ ~scoped
      <3>1. store'[k] = Entry(payload[c])
        BY <1>1, <2>1 DEF Requested, Indexed
      <3>2. store'[k].payload = payload[c] /\ store'[k].read_at = now /\ now \in Nat
        BY <3>1, Bounds DEF Entry, Requested, Requests
      <3>3. PICK t \in Since(fetched[c]) : payload[c] = Result(key[c], t, c)
        BY <1>1 DEF OnceTrue
      <3>4. /\ fetched[c] \in Int /\ now - FetchTime \in Int /\ now - FetchTime <= fetched[c]
        BY <1>1, <3>2, Bounds DEF Requested, Dated
      <3>5. t \in Since(now - FetchTime)
        BY <3>2, <3>3, <3>4, SinceShrinks DEF Requested
      <3>6. t \in Since(store[k].read_at - FetchTime)'
        BY <1>1, <3>2, <3>5 DEF Since
      <3>7. payload[c] = Result(k, t, All)
        BY <2>1, <3>3, ResultForAll
      <3>8. store'[k].payload = Result(k, t, All)'
        BY <1>1, <3>2, <3>7 DEF Result
      <3>9. store'[k].read_at \in 0 .. now'
        BY <1>1, <3>2
      <3> QED
        BY <1>1, <2>1, <3>6, <3>8, <3>9
    <2>2. CASE ~(k = key[c] /\ ~scoped)
      <3>1. store'[k] = store[k]
        BY <1>1, <2>2 DEF Requested, Indexed
      <3>2. PICK t \in Since(store[k].read_at - FetchTime) : store[k].payload = Result(k, t, All)
        BY <1>3, <3>1 DEF OnceTrue
      <3>3. t \in Since(store[k].read_at - FetchTime)'
        BY <1>1, <3>1, <3>2 DEF Since
      <3>4. store'[k].payload = Result(k, t, All)'
        BY <1>1, <3>1, <3>2 DEF Result
      <3> QED
        BY <1>1, <1>3, <3>1, <3>3, <3>4 DEF OnceTrue
    <2> QED
      BY <2>1, <2>2
  <1> QED
    BY <1>2, <1>3 DEF OnceTrue

-----------------------------------------------------------------------------
(* Fetches and writes apart *)

LEMMA InitApart == Init => Apart
  BY DEF Init, Apart, EvictionSuffices, Writing

(* A step that commits nothing, starts no fetch and no write, and fills no place of the  *)
(* store keeps them apart.                                                                 *)
LEMMA ApartStays ==
  ASSUME Requested, Apart, scoped' = scoped, raced' = raced, table' = table,
         \A c \in Caller : pc'[c] = "fetched" =>
           pc[c] = "fetched" /\ key'[c] = key[c] /\ payload'[c] = payload[c],
         \A c \in Caller : Writing(c)' => Writing(c),
         \A c \in Caller : pc'[c] = "commit" => pc[c] = "commit" \/ \A k \in Keys : store'[k] = None,
         \A k \in Keys : store'[k] # None => store'[k] = store[k]
  PROVE  Apart'
  <1> SUFFICES ASSUME ~raced PROVE Apart'
    BY DEF Apart
  <1>1. \A j, t, o : Result(j, t, o)' = Result(j, t, o)
    BY ResultStable
  <1>2. \A c, w \in Caller : ~(pc'[c] = "fetched" /\ Writing(w)')
    BY DEF Apart
  <1>3. \A c \in Caller : pc'[c] = "fetched" => payload'[c] = Result(key[c], table, c)'
    BY <1>1 DEF Apart, Result
  <1>4. \A c \in Caller : pc'[c] = "commit" => \A k \in Keys : store'[k] = None
    BY DEF Apart
  <1>5. EvictionSuffices'
    BY DEF Apart, EvictionSuffices, Result
  <1> QED
    BY <1>2, <1>3, <1>4, <1>5 DEF Apart

LEMMA StepApart ==
  ASSUME Requested, Apart, OnceTrue, Next
  PROVE  Apart'
  <1>1. ASSUME NEW c \in Caller, NEW k \in Keys, FromProxy(c, k) \/ Serve(c, k) PROVE Apart'
    BY <1>1, ApartStays DEF FromProxy, Serve, declared, rows, fetching, Writing
  <1>2. ASSUME NEW c \in Caller, NEW k \in Keys, Fetch(c, k) PROVE Apart'
    <2> SUFFICES ASSUME ~raced' PROVE Apart'
      BY DEF Apart
    <2>1. /\ ~raced /\ (\A w \in Caller : ~Writing(w))
          /\ pc'[c] = "fetched" /\ key'[c] = k /\ payload'[c] = Result(k, table, c)
          /\ \A o \in Caller \ {c} : pc'[o] = pc[o] /\ key'[o] = key[o] /\ payload'[o] = payload[o]
          /\ table' = table /\ scoped' = scoped /\ store' = store /\ writes' = writes
      BY <1>2 DEF Fetch, Goto, Requested, Indexed, declared, rows
    <2>2. \A o, w \in Caller : ~(pc'[o] = "fetched" /\ Writing(w)')
      BY <2>1 DEF Writing
    <2>3. \A o \in Caller : pc'[o] = "fetched" => payload'[o] = Result(key[o], table, o)'
      BY <2>1 DEF Apart, Result
    <2>4. \A o \in Caller : pc'[o] = "commit" => \A j \in Keys : store'[j] = None
      BY <2>1 DEF Apart
    <2>5. EvictionSuffices'
      BY <2>1 DEF Apart, EvictionSuffices, Result
    <2> QED
      BY <2>2, <2>3, <2>4, <2>5 DEF Apart
  <1>3. ASSUME NEW c \in Caller, Refill(c) PROVE Apart'
    <2> SUFFICES ASSUME ~raced' PROVE Apart'
      BY DEF Apart
    <2>1. /\ ~raced /\ pc[c] = "fetched" /\ pc'[c] = "idle" /\ key[c] \in Keys
          /\ \A o \in Caller \ {c} : pc'[o] = pc[o] /\ key'[o] = key[o] /\ payload'[o] = payload[o]
          /\ table' = table /\ scoped' = scoped /\ writes' = writes
          /\ store' = IF ~scoped THEN [store EXCEPT ![key[c]] = Entry(payload[c])] ELSE store
      BY <1>3 DEF Refill, Goto, Requested, Indexed, Requests, Cacheable, declared, rows
    <2>2. \A w \in Caller : ~Writing(w) /\ pc[w] # "commit"
      BY <2>1 DEF Apart, Requested, Requests
    <2>3. \A o, w \in Caller : ~(pc'[o] = "fetched" /\ Writing(w)')
      BY <2>1, <2>2 DEF Writing
    <2>4. \A o \in Caller : pc'[o] = "fetched" => payload'[o] = Result(key[o], table, o)'
      BY <2>1 DEF Apart, Result
    <2>5. \A o \in Caller : pc'[o] # "commit"
      BY <2>1, <2>2
    <2>6. ASSUME NEW k \in Keys, store'[k] # None PROVE store'[k].payload = Result(k, table, All)'
      <3>1. CASE k = key[c] /\ ~scoped
        <4>1. store'[k].payload = payload[c]
          BY <2>1, <3>1 DEF Requested, Indexed, Entry
        <4>2. payload[c] = Result(k, table, All)
          BY <2>1, <3>1, ResultForAll DEF Apart
        <4> QED
          BY <2>1, <4>1, <4>2 DEF Result
      <3>2. CASE ~(k = key[c] /\ ~scoped)
        <4>1. store'[k] = store[k]
          BY <2>1, <3>2 DEF Requested, Indexed
        <4> QED
          BY <2>1, <2>6, <4>1 DEF Apart, EvictionSuffices, Result
      <3> QED
        BY <3>1, <3>2
    <2>7. EvictionSuffices'
      BY <2>6 DEF EvictionSuffices
    <2> QED
      BY <2>3, <2>4, <2>5, <2>7 DEF Apart
  <1>4. ASSUME NEW c \in Caller, Evict(c) PROVE Apart'
    <2>1. \A k \in Keys : store'[k] = None
      BY <1>4 DEF Evict, Evicted
    <2> QED
      BY <1>4, <2>1, ApartStays
      DEF Evict, Goto, Requested, Indexed, declared, rows, fetching, Writing
  <1>5. ASSUME NEW c \in Caller, Commit(c) PROVE Apart'
    <2> SUFFICES ASSUME ~raced' PROVE Apart'
      BY DEF Apart
    <2>1. /\ ~raced /\ pc[c] = "commit" /\ Writing(c)
          /\ pc'[c] = "idle" /\ (\A o \in Caller \ {c} : pc'[o] = pc[o])
          /\ store' = store
      BY <1>5 DEF Commit, Goto, Requested, Indexed, Requests
    <2>2. \A o \in Caller : pc'[o] # "fetched"
      BY <2>1 DEF Apart
    <2>3. \A k \in Keys : store'[k] = None
      BY <2>1 DEF Apart
    <2> QED
      BY <2>2, <2>3 DEF Apart, EvictionSuffices
  <1>6. ASSUME NEW c \in Caller, Rollback(c) PROVE Apart'
    BY <1>6, ApartStays
    DEF Rollback, Goto, Requested, Indexed, declared, rows, fetching, Writing
  <1>7. ASSUME NEW c \in Caller, NEW e \in Edits, Write(c, e) PROVE Apart'
    <2> SUFFICES ASSUME ~raced' PROVE Apart'
      BY DEF Apart
    <2>1. /\ ~raced /\ (\A o \in Caller : pc[o] # "fetched")
          /\ pc'[c] = "evict" /\ (\A o \in Caller \ {c} : pc'[o] = pc[o])
          /\ store' = store /\ table' = table /\ scoped' = scoped
      BY <1>7 DEF Write, Goto, Fetching, Requested, Indexed, declared, rows
    <2>2. \A o \in Caller : pc'[o] # "fetched"
      BY <2>1
    <2>3. \A o \in Caller : pc'[o] = "commit" => \A k \in Keys : store'[k] = None
      BY <2>1 DEF Apart
    <2>4. EvictionSuffices'
      BY <2>1 DEF Apart, EvictionSuffices, Result
    <2> QED
      BY <2>2, <2>3, <2>4 DEF Apart
  <1>8. ASSUME NEW e \in Elsewhere, OtherProcess(e) PROVE Apart'
    BY <1>8 DEF OtherProcess, Apart
  <1>9. CASE Tick
    BY <1>9, ApartStays DEF Tick, declared, rows, fetching, Writing
  <1> QED
    BY <1>1, <1>2, <1>3, <1>4, <1>5, <1>6, <1>7, <1>8, <1>9 DEF Next

-----------------------------------------------------------------------------
(* All of it *)

LEMMA StepOnceTrue ==
  ASSUME Requested, OnceTrue, Next
  PROVE  OnceTrue'
  <1>0. now \in Nat
    BY Bounds DEF Requested, Requests
  <1>1. ASSUME NEW c \in Caller, NEW k \in Keys, FromProxy(c, k) \/ Serve(c, k) PROVE OnceTrue'
    BY <1>0, <1>1, OnceTrueStays DEF FromProxy, Serve, declared, rows, fetching
  <1>2. ASSUME NEW c \in Caller, NEW k \in Keys, Fetch(c, k) PROVE OnceTrue'
    BY <1>2, FetchOnceTrue
  <1>3. ASSUME NEW c \in Caller, Refill(c) PROVE OnceTrue'
    BY <1>3, RefillOnceTrue
  <1>4. ASSUME NEW c \in Caller, Evict(c) PROVE OnceTrue'
    BY <1>0, <1>4, OnceTrueStays
    DEF Evict, Evicted, Goto, Requested, Indexed, declared, rows, fetching
  <1>5. ASSUME NEW c \in Caller, Commit(c) PROVE OnceTrue'
    BY <1>0, <1>5, OnceTrueStays DEF Commit, Goto, Requested, Indexed, declared, fetching
  <1>6. ASSUME NEW c \in Caller, Rollback(c) PROVE OnceTrue'
    BY <1>0, <1>6, OnceTrueStays DEF Rollback, Goto, Requested, Indexed, declared, rows, fetching
  <1>7. ASSUME NEW c \in Caller, NEW e \in Edits, Write(c, e) PROVE OnceTrue'
    BY <1>0, <1>7, OnceTrueStays DEF Write, Goto, Requested, Indexed, declared, rows, fetching
  <1>8. ASSUME NEW e \in Elsewhere, OtherProcess(e) PROVE OnceTrue'
    BY <1>0, <1>8, OnceTrueStays DEF OtherProcess, declared, fetching
  <1>9. CASE Tick
    BY <1>0, <1>9, OnceTrueStays DEF Tick, declared, rows, fetching
  <1> QED
    BY <1>1, <1>2, <1>3, <1>4, <1>5, <1>6, <1>7, <1>8, <1>9 DEF Next

(* What the store serves is an answer of less than the window and a fetch ago. *)
LEMMA ServeIsRecent ==
  ASSUME Requested, OnceTrue, KeptBodies, NEW c \in Caller, NEW k \in Keys, Serve(c, k)
  PROVE  StalenessBounded' /\ KeptBodies' /\ ConfirmedRowsCurrent'
  <1>1. /\ ~scoped /\ store[k] # None /\ Respond(c, k, store[k].payload, "store")
        /\ strategy.kind = "optimistic" /\ ~(now - store[k].read_at >= strategy.window)
        /\ strategy' = strategy /\ scoped' = scoped /\ now' = now
        /\ table' = table /\ past' = past
    BY DEF Serve, Cacheable, ShouldRead, declared, rows
  <1>2. PICK t \in Since(store[k].read_at - FetchTime) : store[k].payload = Result(k, t, All)
    BY <1>1 DEF OnceTrue
  <1>3. /\ KeptBodies' /\ ConfirmedRowsCurrent'
        /\ got'.caller = c /\ got'.key = k /\ got'.from = "store" /\ got'.answer = store[k].payload
    BY <1>1, <1>2, ResultShape, RespondKeeps DEF Requested
  <1>4. /\ now \in Nat /\ FetchTime \in Nat /\ strategy.window \in Nat /\ store[k].read_at \in Nat
        /\ \A h \in past : h.until \in Nat
    BY <1>1, Bounds DEF Requested, Requests, Dated, OnceTrue
  <1>5. \A h \in past : h.until >= store[k].read_at - FetchTime
                       => h.until > now - strategy.window - FetchTime
    BY <1>1, <1>4
  <1>6. t \in {table} \cup {h.table : h \in {h \in past : h.until > now - strategy.window - FetchTime}}
    BY <1>2, <1>5 DEF Since
  <1>7. Result(k, t, All) = Result(k, t, c)
    BY <1>1, ResultForAll
  <1>8. got'.answer = Result(got.key, t, got.caller)'
    BY <1>1, <1>2, <1>3, <1>7 DEF Result
  <1>9. StalenessBounded'
    BY <1>1, <1>6, <1>8 DEF StalenessBounded
  <1> QED
    BY <1>3, <1>9

(* What is answered from the source, or by the proxy. *)
LEMMA RefillAnswers ==
  ASSUME Requested, OnceTrue, KeptBodies, NEW c \in Caller, Refill(c)
  PROVE  StalenessBounded' /\ KeptBodies' /\ ConfirmedRowsCurrent'
  <1>1. /\ pc[c] = "fetched" /\ key[c] \in Keys /\ scoped' = scoped
        /\ Respond(c, key[c], payload[c], "source")
    BY DEF Refill, Requested, Requests, declared
  <1>2. PICK t \in Since(fetched[c]) : payload[c] = Result(key[c], t, c)
    BY <1>1 DEF OnceTrue
  <1>3. KeptBodies' /\ ConfirmedRowsCurrent' /\ got'.from = "source"
    BY <1>1, <1>2, ResultShape, RespondKeeps DEF Requested
  <1>4. StalenessBounded'
    BY <1>3 DEF StalenessBounded
  <1> QED
    BY <1>3, <1>4

LEMMA ProxyAnswers ==
  ASSUME Requested, KeptBodies, NEW c \in Caller, NEW k \in Keys, FromProxy(c, k)
  PROVE  KeptBodies' /\ got' = None
  <1>1. /\ copy' = [copy EXCEPT ![c] = [key |-> k, body |-> proxy[k].body, header |-> proxy[k].header]]
        /\ proxy[k] # None /\ proxy' = proxy /\ got' = None
    BY DEF FromProxy
  <1>2. /\ copy'[c].key = k /\ copy'[c].body = proxy[k].body /\ copy'[c].header = proxy[k].header
        /\ \A o \in Caller \ {c} : copy'[o] = copy[o]
    BY <1>1 DEF Requested, Indexed
  <1>3. Body(k, proxy[k].body, c) /\ Tagged(k, proxy[k].body, proxy[k].header)
    BY <1>1 DEF KeptBodies, Body
  <1>4. \A o \in Caller : copy'[o] # None =>
          /\ copy'[o].key \in Keys
          /\ Body(copy'[o].key, copy'[o].body, o)
          /\ Tagged(copy'[o].key, copy'[o].body, copy'[o].header)
    BY <1>2, <1>3 DEF KeptBodies
  <1>5. KeptBodies'
    BY <1>1, <1>4 DEF KeptBodies, Body, Payloads, Shaped, Tagged, CountTag, ItemsTag, Keys
  <1> QED
    BY <1>1, <1>5

(* Nothing else answers anybody. *)
LEMMA NoAnswer ==
  ASSUME KeptBodies, copy' = copy, proxy' = proxy
  PROVE  KeptBodies'
  BY DEF KeptBodies, Body, Payloads, Shaped, Tagged, CountTag, ItemsTag, Keys

LEMMA StepAnswers ==
  ASSUME Requested, OnceTrue, KeptBodies, Next
  PROVE  KeptBodies' /\ StalenessBounded' /\ ConfirmedRowsCurrent'
  <1>1. got' = None => StalenessBounded' /\ ConfirmedRowsCurrent'
    BY DEF StalenessBounded, ConfirmedRowsCurrent
  <1>2. ASSUME NEW c \in Caller, NEW k \in Keys, FromProxy(c, k) \/ Serve(c, k)
        PROVE  KeptBodies' /\ StalenessBounded' /\ ConfirmedRowsCurrent'
    BY <1>1, <1>2, ServeIsRecent, ProxyAnswers
  <1>3. ASSUME NEW c \in Caller, NEW k \in Keys, Fetch(c, k) PROVE KeptBodies' /\ got' = None
    BY <1>3, NoAnswer DEF Fetch, kept
  <1>4. ASSUME NEW c \in Caller, Refill(c)
        PROVE  KeptBodies' /\ StalenessBounded' /\ ConfirmedRowsCurrent'
    BY <1>4, RefillAnswers
  <1>5. ASSUME NEW c \in Caller, Evict(c) \/ Commit(c) \/ Rollback(c) PROVE KeptBodies' /\ got' = None
    BY <1>5, NoAnswer DEF Evict, Commit, Rollback, kept
  <1>6. ASSUME NEW c \in Caller, NEW e \in Edits, Write(c, e) PROVE KeptBodies' /\ got' = None
    BY <1>6, NoAnswer DEF Write, kept
  <1>7. ASSUME NEW e \in Elsewhere, OtherProcess(e) PROVE KeptBodies' /\ got' = None
    BY <1>7, NoAnswer DEF OtherProcess, kept
  <1>8. Tick => KeptBodies' /\ got' = None
    BY NoAnswer DEF Tick, kept
  <1> QED
    BY <1>1, <1>2, <1>3, <1>4, <1>5, <1>6, <1>7, <1>8 DEF Next

LEMMA InitInv == Init => CacheInv
  <1>1. Init => KeptBodies /\ StalenessBounded /\ ConfirmedRowsCurrent
    BY DEF Init, KeptBodies, StalenessBounded, ConfirmedRowsCurrent
  <1> QED
    BY <1>1, InitRequested, InitOnceTrue, InitApart DEF CacheInv

LEMMA StepInv == CacheInv /\ [Next]_vars => CacheInv'
  <1> SUFFICES ASSUME CacheInv, [Next]_vars PROVE CacheInv'
    OBVIOUS
  <1>1. CASE Next
    <2>1. Requested'
      <3>1. \A c \in Caller : Refill(c) => key[c] \in Keys
        BY DEF CacheInv, Requested, Requests, Refill
      <3>2. \A c \in Caller : Refill(c) => Requested'
        BY <3>1, ReadsRequested DEF CacheInv
      <3>3. \A c \in Caller, k \in Keys : FromProxy(c, k) \/ Serve(c, k) \/ Fetch(c, k) => Requested'
        BY ReadsRequested DEF CacheInv
      <3> QED
        BY <1>1, <3>2, <3>3, WritesRequested DEF CacheInv, Next
    <2> QED
      BY <1>1, <2>1, StepOnceTrue, StepApart, StepAnswers DEF CacheInv
  <1>2. CASE UNCHANGED vars
    <2>1. Requested'
      BY <1>2
      DEF CacheInv, Requested, Indexed, Requests, Dated, Writing, vars, declared, rows, fetching, kept
    <2>2. OnceTrue'
      <3>1. now \in Nat
        BY Bounds DEF CacheInv, Requested, Requests
      <3> QED
        BY <1>2, <3>1, OnceTrueStays DEF CacheInv, vars
    <2>3. KeptBodies'
      BY <1>2, NoAnswer DEF CacheInv, vars
    <2>4. Apart'
      BY <1>2, ApartStays DEF CacheInv, Writing, vars
    <2>5. StalenessBounded' /\ ConfirmedRowsCurrent'
      BY <1>2 DEF CacheInv, StalenessBounded, ConfirmedRowsCurrent, Result, vars
    <2> QED
      BY <2>1, <2>2, <2>3, <2>4, <2>5 DEF CacheInv
  <1> QED
    BY <1>1, <1>2

LEMMA InvAlways == Spec => []CacheInv
  BY InitInv, StepInv, PTL DEF Spec

-----------------------------------------------------------------------------
(* The theorems *)

(* Every request is where its locals say, and nothing is dated in the future. *)
THEOREM TypesCorrect == Spec => []TypeOK
  <1>1. CacheInv => TypeOK
    <2> SUFFICES ASSUME CacheInv PROVE TypeOK
      OBVIOUS
    <2>1. \A r \in Row : table[r] # Absent => table[r].at <= now
      BY DEF CacheInv, Requested, Requests, Dated
    <2>2. \A h \in past : h.until <= now
      BY DEF CacheInv, Requested, Requests, Dated
    <2>3. ASSUME NEW k \in Keys, store[k] # None
          PROVE  Payloads(store[k].payload) /\ store[k].read_at \in 0 .. now
      BY <2>3, ResultShape DEF CacheInv, OnceTrue
    <2>4. \A c \in Caller : copy[c] # None => Payloads(copy[c].body) /\ copy[c].key \in Keys
      BY DEF CacheInv, KeptBodies, Body
    <2>5. \A k \in Keys : proxy[k] # None => ~proxy[k].header.private
      BY DEF CacheInv, KeptBodies
    <2>6. /\ strategy.kind \in Kinds /\ scoped \in BOOLEAN /\ now \in 0 .. MaxTime
          /\ \A c \in Caller :
               /\ pc[c] \in {"idle", "fetched", "evict", "commit"}
               /\ IF pc[c] = "fetched" THEN key[c] \in Keys /\ Payloads(payload[c])
                  ELSE key[c] = None /\ payload[c] = None
               /\ (pc[c] \in {"evict", "commit"}) = Writing(c)
      BY DEF CacheInv, Requested, Requests
    <2> QED
      BY <2>1, <2>2, <2>3, <2>4, <2>5, <2>6 DEF TypeOK
  <1> QED
    BY <1>1, InvAlways, PTL

(* The freshness window bounds staleness: ShouldRead compares the window with the date   *)
(* of the entry, which is that of the refill and so up to FetchTime after the source's    *)
(* answer; whoever writes in between, evicting or not, an answer of the store is the        *)
(* source's of less than the two ago.                                                       *)
THEOREM StoreNeverStalerThanWindow == Spec => []StalenessBounded
  <1>1. CacheInv => StalenessBounded
    BY DEF CacheInv
  <1> QED
    BY <1>1, InvAlways, PTL

(* Evicting every key after the write and before the commit is enough, unless a fetch and *)
(* a write overlap or another process writes: no entry of the store is out of date.         *)
THEOREM EvictionKeepsStoreCurrent == Spec => []EvictionSuffices
  <1>1. CacheInv => EvictionSuffices
    BY DEF CacheInv, Apart, EvictionSuffices
  <1> QED
    BY <1>1, InvAlways, PTL

(* A 304 that answers an ETag leaves a caller with the rows, or the count, of the answer *)
(* the server would have sent: the copy it confirms carries the tag of its own body.       *)
THEOREM ConfirmedCopiesAreCurrent == Spec => []ConfirmedRowsCurrent
  <1>1. CacheInv => ConfirmedRowsCurrent
    BY DEF CacheInv
  <1> QED
    BY <1>1, InvAlways, PTL

(* A response narrowed to its caller is in no store and no shared proxy, and in no other  *)
(* caller's copy: a scoped service is neither cached nor answered with public directives.   *)
THEOREM NarrowedResponsesStayPrivate == Spec => []NarrowedStaysPrivate
  <1>1. CacheInv => NarrowedStaysPrivate
    <2> SUFFICES ASSUME CacheInv PROVE NarrowedStaysPrivate
      OBVIOUS
    <2>1. ASSUME NEW k \in Keys, store[k] # None PROVE store[k].payload.to = All
      BY <2>1, ResultShape DEF CacheInv, OnceTrue
    <2>2. \A c \in Caller : copy[c] # None => copy[c].body.to \in {c, All}
      BY DEF CacheInv, KeptBodies, Body
    <2> QED
      BY <2>1, <2>2 DEF NarrowedStaysPrivate
  <1> QED
    BY <1>1, InvAlways, PTL

=============================================================================
