---------------------------- MODULE ValueFilters ----------------------------
(***************************************************************************)
(* The value leaves of a search filter, and what each backend makes of     *)
(* one: the in-memory predicate (util/search_filter.py), the SQL condition *)
(* and its separately written complement (sql/filter_converter.py) under   *)
(* SQL's three truth values, and the Mongo query                           *)
(* (mongo/mongo_filter_converter.py).  A column holds an integer or NULL;  *)
(* a text is an integer too, and TextIn says which needle is inside which. *)
(***************************************************************************)
EXTENDS Integers

CONSTANTS NULL,    \* the absent value: None in Python, NULL in SQL, null in Mongo
          TextIn   \* the pairs <<needle, text>> where needle occurs in text

ASSUME NullAssumption == NULL \notin Int

Ordering == {"gt", "ge", "lt", "le"}

(* The leaves there are.  Left out are an "in" that lists NULL, whose       *)
(* complement in SQL selects no row with a value, and an order with NULL,   *)
(* which fails in memory and which SQLAlchemy refuses to build.             *)
WellFormed(leaf) ==
  \/ leaf.op = "eq" /\ leaf.value \in Int \cup {NULL}
  \/ leaf.op \in Ordering /\ leaf.value \in Int
  \/ leaf.op = "in" /\ leaf.value \in SUBSET Int
  \/ leaf.op = "contains" /\ leaf.value \in Int

Truth(b) == IF b THEN "true" ELSE "false"

Not3(t) == CASE t = "true" -> "false" [] t = "false" -> "true" [] OTHER -> "unknown"

Or3(t, u) == IF "true" \in {t, u} THEN "true"
             ELSE IF "unknown" \in {t, u} THEN "unknown" ELSE "false"

Ordered(op, c, v) == \/ op = "gt" /\ c > v
                     \/ op = "ge" /\ c >= v
                     \/ op = "lt" /\ c < v
                     \/ op = "le" /\ c <= v

Occurs(c, needle) == c # NULL /\ <<needle, c>> \in TextIn

(* In memory: comparing None by order is a TypeError, here "raises".       *)
MemoryLeaf(leaf, c) ==
  CASE leaf.op = "eq"       -> Truth(c = leaf.value)
    [] leaf.op = "in"       -> Truth(c \in leaf.value)
    [] leaf.op = "contains" -> Truth(Occurs(c, leaf.value))
    [] leaf.op \in Ordering -> IF NULL \in {c, leaf.value} THEN "raises"
                               ELSE Truth(Ordered(leaf.op, c, leaf.value))

-----------------------------------------------------------------------------
(* SQL.  Every comparison with NULL is unknown; only IS NULL and IS        *)
(* DISTINCT FROM are two-valued.                                           *)

SqlEq(c, v) == IF NULL \in {c, v} THEN "unknown" ELSE Truth(c = v)

SqlOrdered(op, c, v) ==
  IF NULL \in {c, v} THEN "unknown" ELSE Truth(Ordered(op, c, v))

SqlIn(c, vs) == IF c = NULL THEN "unknown"
                ELSE IF c \in vs THEN "true"
                ELSE IF NULL \in vs THEN "unknown" ELSE "false"

SqlLike(c, needle) == IF c = NULL THEN "unknown" ELSE Truth(<<needle, c>> \in TextIn)

(* The comparison a complement uses: <= for >, < for >=, and so on.        *)
Opposite == [gt |-> "le", ge |-> "lt", lt |-> "ge", le |-> "gt"]

SqlPositive(leaf, c) ==
  CASE leaf.op = "eq"       -> IF leaf.value = NULL THEN Truth(c = NULL)
                               ELSE SqlEq(c, leaf.value)
    [] leaf.op = "in"       -> IF leaf.value = {} THEN "false" ELSE SqlIn(c, leaf.value)
    [] leaf.op = "contains" -> SqlLike(c, leaf.value)
    [] leaf.op \in Ordering -> SqlOrdered(leaf.op, c, leaf.value)

(* Mutant: the complement is NOT of the condition, and loses NULL rows.    *)
SqlNegated_Not(leaf, c) == Not3(SqlPositive(leaf, c))

SqlNegated(leaf, c) ==
  LET isNull == Truth(c = NULL)
  IN CASE leaf.op = "eq"       -> IF leaf.value = NULL THEN Truth(c # NULL)
                                  ELSE Truth(c # leaf.value)
       [] leaf.op = "in"       -> IF leaf.value = {} THEN "true"
                                  ELSE Or3(isNull, Not3(SqlIn(c, leaf.value)))
       [] leaf.op = "contains" -> Or3(isNull, Not3(SqlLike(c, leaf.value)))
       [] leaf.op \in Ordering -> Or3(isNull, SqlOrdered(Opposite[leaf.op], c, leaf.value))

-----------------------------------------------------------------------------
(* Mongo compares values of one type only, so null is ordered with none of *)
(* them; an equality with null also finds a missing field.  The complement *)
(* of every leaf is $nor of it.                                            *)

MongoPositive(leaf, c) ==
  CASE leaf.op = "eq"       -> c = leaf.value
    [] leaf.op = "in"       -> c \in leaf.value
    [] leaf.op = "contains" -> Occurs(c, leaf.value)
    [] leaf.op \in Ordering -> NULL \notin {c, leaf.value} /\ Ordered(leaf.op, c, leaf.value)

MongoNegated(leaf, c) == ~MongoPositive(leaf, c)
=============================================================================
