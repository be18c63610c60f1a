------------------------------ MODULE Filters ------------------------------
(***************************************************************************)
(* Filter trees: the in-memory predicate, its normalising constructors,    *)
(* and the two rule-list converters, which push a negation down to the     *)
(* leaves instead of wrapping the result.  A "custom" node stands for an   *)
(* application's own filter: it has an in-memory predicate and no rule.    *)
(*                                                                         *)
(* What the code does by recursion is a constant operator here, and its    *)
(* definition at one node is MatchesNode, SqlNode and so on, in which the  *)
(* constant stands for the recursive call.  A configuration gives each     *)
(* constant its node for value; a proof uses the equations.                *)
(***************************************************************************)
EXTENDS ValueFilters, Sequences, FiniteSetsExt

CONSTANTS Matches(_, _),          \* SearchFilter.matches: a filter, of a row or of a value
          Flattened(_, _),        \* _flatten: filters, and the kind of their parent
          Convertible(_),         \* whether each node has a rule
          SqlCondition(_, _, _),  \* SqlFilterConverter: a filter, negated or not, of a row
          MongoQuery(_, _, _)     \* MongoFilterConverter

All            == [kind |-> "all"]
NoMatch        == [kind |-> "none"]
AndNode(fs)    == [kind |-> "and", filters |-> fs]
OrNode(fs)     == [kind |-> "or", filters |-> fs]
NotNode(f)     == [kind |-> "not", filter |-> f]
AttrNode(a, f) == [kind |-> "attr", attribute |-> a, filter |-> f]
Leaf(op, v)    == [kind |-> "leaf", op |-> op, value |-> v]
Custom(f)      == [kind |-> "custom", filter |-> f]

(* all() and any() stop at the first child that decides, or raises.        *)
FirstOf(stop, default, answers) ==
  LET decided == {i \in DOMAIN answers : answers[i] \in {stop, "raises"}}
  IN IF decided = {} THEN default ELSE answers[Min(decided)]

MatchesNode(f, x) ==
  LET answers == [i \in DOMAIN f.filters |-> Matches(f.filters[i], x)]
  IN CASE f.kind = "all"    -> "true"
       [] f.kind = "none"   -> "false"
       [] f.kind = "and"    -> FirstOf("false", "true", answers)
       [] f.kind = "or"     -> FirstOf("true", "false", answers)
       [] f.kind = "not"    -> LET t == Matches(f.filter, x)
                               IN IF t = "raises" THEN t ELSE Not3(t)
       [] f.kind = "attr"   -> Matches(f.filter, x[f.attribute])
       [] f.kind = "leaf"   -> MemoryLeaf(f, x)
       [] f.kind = "custom" -> Matches(f.filter, x)

-----------------------------------------------------------------------------
(* The constructors and_(), or_(), not_() and attr().                      *)

FlattenedNode(fs, kind) ==
  LET out[n \in 0 .. Len(fs)] ==
        IF n = 0 THEN <<>>
        ELSE out[n - 1] \o (IF fs[n].kind = kind THEN Flattened(fs[n].filters, kind) ELSE <<fs[n]>>)
  IN out[Len(fs)]

(* The children but those that are the identity.                           *)
Without(identity, fs) ==
  LET kept[n \in 0 .. Len(fs)] ==
        IF n = 0 THEN <<>>
        ELSE IF fs[n] = identity THEN kept[n - 1] ELSE Append(kept[n - 1], fs[n])
  IN kept[Len(fs)]

(* One rule for both: an absorbing child wins, identities are dropped.     *)
Joined(fs, kind, identity, absorbing) ==
  LET flat == Flattened(fs, kind)
      kept == Without(identity, flat)
  IN CASE \E i \in DOMAIN flat : flat[i] = absorbing -> absorbing
       [] kept = <<>>                                 -> identity
       [] Len(kept) = 1                               -> kept[1]
       [] OTHER                                       -> [kind |-> kind, filters |-> kept]

and_(fs) == Joined(fs, "and", All, NoMatch)
or_(fs)  == Joined(fs, "or", NoMatch, All)

not_(f) == CASE f.kind = "not"  -> f.filter
             [] f.kind = "all"  -> NoMatch
             [] f.kind = "none" -> All
             [] OTHER           -> NotNode(f)

attr(a, f) == IF f.kind \in {"all", "none"} THEN f ELSE AttrNode(a, f)

build_filter(clauses) ==
  and_([i \in DOMAIN clauses |-> attr(clauses[i].attribute, Leaf(clauses[i].op, clauses[i].value))])

-----------------------------------------------------------------------------
(* UnsupportedFilterError: a node no rule handles, wherever it sits.       *)
ConvertibleNode(f) ==
  CASE f.kind = "custom"         -> FALSE
    [] f.kind \in {"and", "or"}  -> \A i \in DOMAIN f.filters : Convertible(f.filters[i])
    [] f.kind \in {"not", "attr"} -> Convertible(f.filter)
    [] OTHER                     -> TRUE

And3(ts) ==
  IF "false" \in ts THEN "false" ELSE IF "unknown" \in ts THEN "unknown" ELSE "true"
Any3(ts) ==
  IF "true" \in ts THEN "true" ELSE IF "unknown" \in ts THEN "unknown" ELSE "false"

(* ValueRule: the handler of the leaf's operator, on the bound column.      *)
SqlValueRule(leaf, negated, value) ==
  IF negated THEN SqlNegated(leaf, value) ELSE SqlPositive(leaf, value)

(* The SQL condition of a node on one row, in the asked polarity.          *)
SqlNode(f, negated, x) ==
  LET children == {SqlCondition(f.filters[i], negated, x) : i \in DOMAIN f.filters}
  IN CASE f.kind = "all"  -> Truth(~negated)
       [] f.kind = "none" -> Truth(negated)
       [] f.kind = "not"  -> SqlCondition(f.filter, ~negated, x)
       [] f.kind = "and"  -> IF negated THEN Any3(children) ELSE And3(children)
       [] f.kind = "or"   -> IF negated THEN And3(children) ELSE Any3(children)
       [] f.kind = "attr" -> SqlCondition(f.filter, negated, x[f.attribute])
       [] f.kind = "leaf" -> SqlValueRule(f, negated, x)

(* "No restriction" (None) is TRUE: _conjunction drops it and _disjunction  *)
(* is absorbed by it.                                                      *)
_conjunction(children) == FALSE \notin children
_disjunction(children) == TRUE \in children

MongoValueRule(leaf, negated, value) ==
  IF negated THEN MongoNegated(leaf, value) ELSE MongoPositive(leaf, value)

(* The Mongo query of a node on one document.                              *)
MongoNode(f, negated, x) ==
  LET children == {MongoQuery(f.filters[i], negated, x) : i \in DOMAIN f.filters}
  IN CASE f.kind = "all"  -> ~negated
       [] f.kind = "none" -> negated
       [] f.kind = "not"  -> MongoQuery(f.filter, ~negated, x)
       [] f.kind = "and"  -> IF negated THEN _disjunction(children) ELSE _conjunction(children)
       [] f.kind = "or"   -> IF negated THEN _conjunction(children) ELSE _disjunction(children)
       [] f.kind = "attr" -> MongoQuery(f.filter, negated, x[f.attribute])
       [] f.kind = "leaf" -> MongoValueRule(f, negated, x)

-----------------------------------------------------------------------------
(* The parts of a filter, and the equations of the recursions on a set of  *)
(* filters at some rows or values.                                         *)

Parts(f) ==
  CASE f.kind \in {"and", "or"}            -> {f.filters[i] : i \in DOMAIN f.filters}
    [] f.kind \in {"not", "attr", "custom"} -> {f.filter}
    [] OTHER                               -> {}

NodeEquations(filters, subjects) ==
  \A f \in filters :
    /\ f.kind \in {"and", "or"} => Flattened(f.filters, f.kind) = FlattenedNode(f.filters, f.kind)
    /\ Convertible(f) = ConvertibleNode(f)
    /\ \A x \in subjects : Matches(f, x) = MatchesNode(f, x)
    /\ Convertible(f) => \A x \in subjects, negated \in BOOLEAN :
         /\ SqlCondition(f, negated, x) = SqlNode(f, negated, x)
         /\ MongoQuery(f, negated, x) = MongoNode(f, negated, x)
=============================================================================
