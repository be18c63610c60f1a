---------------------------- MODULE AtomicBatches ----------------------------
(***************************************************************************)
(* What a caller of POST /batch-edit, or of a single write, may rely on    *)
(* (http/batch_routes.py, sql/sql_service.py, mongo/mongo_service.py): the *)
(* edits run in the order given; on an engine with transactions they take  *)
(* effect all together, after the last of them has run, or not at all; on  *)
(* one without, a prefix of them takes effect, edit by edit.               *)
(***************************************************************************)
EXTENDS Integers, Sequences

CONSTANTS
  Request,        \* requests, each carrying one batch
  Resource,       \* resources, of one row each
  Engine,         \* databases
  EngineOf,       \* the database of each resource
  Transactional,  \* the databases with transactions
  Batches,        \* the batches requests carry: sequences of [kind, res]
  Absent,         \* the absence of the row
  Seeded          \* the row as it was before any request

VARIABLES
  table,   \* the rows, as committed
  batch,   \* the batch of each request
  upto,    \* how many of its edits have run
  hits,    \* those of them that found what they asked for
  taken    \* the engines with transactions on which it has taken effect

vars == <<table, batch, upto, hits, taken>>

-----------------------------------------------------------------------------
(* The edits of batch b on one row or engine. *)
On(b, x) == {p \in DOMAIN b : b[p].res = x}

OnEngine(b, e) == {p \in DOMAIN b : EngineOf[b[p].res] = e}

Latest(S) == {p \in S : \A q \in S : q <= p}

The(S) == CHOOSE p \in S : TRUE

(* The row an edit leaves: every write makes a row of its own. *)
Written(r, p) == IF batch[r][p].kind = "delete" THEN Absent ELSE <<r, p>>

(* The row x when the edits H, of those of r, have hit it. *)
After(r, H, x) ==
  LET last == Latest(H \cap On(batch[r], x))
  IN  IF last = {} THEN table[x] ELSE Written(r, The(last))

(* What edit p of r sees of its row, the edits H having hit theirs. *)
Sees(r, H, p) ==
  LET x == batch[r][p].res
  IN  IF EngineOf[x] \in Transactional THEN After(r, {q \in H : q < p}, x) ELSE table[x]

(* A create hits if it sees no row, an update or a delete if it sees one. *)
Hits(r, H, p) == (Sees(r, H, p) # Absent) = (batch[r][p].kind # "create")

-----------------------------------------------------------------------------
Init ==
  /\ table \in [Resource -> {Absent, Seeded}]
  /\ batch = [r \in Request |-> <<>>]
  /\ upto = [r \in Request |-> 0]
  /\ hits = [r \in Request |-> {}]
  /\ taken = [r \in Request |-> {}]

Accept(r) ==
  /\ batch[r] = <<>>
  /\ \E b \in Batches : batch' = [batch EXCEPT ![r] = b]
  /\ UNCHANGED <<table, upto, hits, taken>>

(* The next edit runs and hits or, unless it is a create, misses; without            *)
(* transactions a hit takes effect at once.                                          *)
RunEdit(r) ==
  /\ upto[r] < Len(batch[r])
  /\ upto' = [upto EXCEPT ![r] = @ + 1]
  /\ LET p == upto[r] + 1
         x == batch[r][p].res
     IN  IF Hits(r, hits[r], p)
         THEN /\ hits' = [hits EXCEPT ![r] = @ \cup {p}]
              /\ table' = IF EngineOf[x] \in Transactional THEN table
                          ELSE [table EXCEPT ![x] = Written(r, p)]
         ELSE batch[r][p].kind # "create" /\ UNCHANGED <<hits, table>>
  /\ UNCHANGED <<batch, taken>>

(* The edits that have hit on engine e take effect together, on rows that still are *)
(* as the edits found them.                                                           *)
TakeEffect(r, e) ==
  /\ e \in Transactional \ taken[r]
  /\ upto[r] = Len(batch[r]) /\ OnEngine(batch[r], e) # {}
  /\ LET H == hits[r] \cap OnEngine(batch[r], e)
     IN  /\ \A p \in H : Hits(r, H, p)
         /\ table' = [x \in Resource |-> After(r, H, x)]
  /\ taken' = [taken EXCEPT ![r] = @ \cup {e}]
  /\ UNCHANGED <<batch, upto, hits>>

Next ==
  \E r \in Request :
    \/ Accept(r)
    \/ RunEdit(r)
    \/ \E e \in Engine : TakeEffect(r, e)

Spec == Init /\ [][Next]_vars

=============================================================================
