------------------------------ MODULE MCQueries ------------------------------
(***************************************************************************)
(* The instance of Queries that TLC explores: rows with an identifier, an  *)
(* orderable column k that may be NULL and a text column t.                *)
(***************************************************************************)
EXTENDS Queries, TLC

MCFieldKind == [id |-> "id", k |-> "orderable", t |-> "text"]

MCTextIn == {<<1, 1>>, <<2, 2>>, <<1, 2>>}

K(op, v) == AttrNode("k", Leaf(op, v))
T(op, v) == AttrNode("t", Leaf(op, v))

(* Policies as applications write them: every leaf under a complement, both *)
(* junctions under a complement, the constants, and a filter with no rule.  *)
MCPolicies ==
  {All,
   NotNode(K("eq", 1)), NotNode(K("in", {2})), NotNode(K("gt", 1)),
   NotNode(AndNode(<<K("eq", 2), NotNode(T("contains", 1))>>)),
   OrNode(<<NotNode(OrNode(<<NoMatch, K("eq", NULL), K("ge", 2)>>)), T("eq", 1)>>),
   NotNode(Custom(K("eq", 1)))}

Clause(a, op, v) == [attribute |-> a, op |-> op, value |-> v]

MCClauseLists ==
  {<<>>, <<Clause("k", "ge", 2)>>, <<Clause("k", "in", {1, 2}), Clause("t", "contains", 1)>>}

By(a, d) == [attribute |-> a, descending |-> d]

MCSortOrders == {By("id", FALSE), By("id", TRUE), By("k", FALSE), By("k", TRUE)}

Full == [r \in {} |-> {}]
Hide(f) == f :> [m \in {"read_response", "search_response"} |-> FALSE]

(* Searched through is the first alone, on the resource or on itself; the third on   *)
(* the second gives k back.                                                         *)
MCViewChoices ==
  {[overrides |-> Hide("t"), actions |-> StandardActions],
   [overrides |-> Hide("t") @@ ("k" :> [update_request |-> FALSE, create_request |-> FALSE]),
    actions   |-> StandardActions \ {"delete", "search"}],
   [overrides |-> "k" :> [update_request |-> TRUE, read_response |-> TRUE],
    actions   |-> StandardActions \ {"delete", "read", "search"}]}

RowOf(i, k, t) == [id |-> i, k |-> k, t |-> t]

MCTables ==
  {1 :> RowOf(1, NULL, 1) @@ 2 :> RowOf(2, NULL, 2) @@ 3 :> RowOf(3, 2, 1),
   1 :> RowOf(1, 2, 1) @@ 3 :> RowOf(3, 1, 2),
   1 :> RowOf(1, 2, 1) @@ 2 :> RowOf(2, 2, 2) @@ 3 :> RowOf(3, NULL, 1)}

-----------------------------------------------------------------------------
(* The recursions of filter trees: each is what it is at a node.  Declared  *)
(* recursive, and a LET, so that TLC's statistics do not unfold them.       *)
RECURSIVE MCMatches(_, _), MCFlattened(_, _), MCConvertible(_)
RECURSIVE MCSqlCondition(_, _, _), MCMongoQuery(_, _, _)
MCMatches(f, x)               == LET answer == MatchesNode(f, x) IN answer
MCFlattened(fs, kind)         == LET flat == FlattenedNode(fs, kind) IN flat
MCConvertible(f)              == LET ruled == ConvertibleNode(f) IN ruled
MCSqlCondition(f, negated, x) == LET condition == SqlNode(f, negated, x) IN condition
MCMongoQuery(f, negated, x)   == LET query == MongoNode(f, negated, x) IN query

MCHeight(f) == IF Parts(f) = {} THEN 0 ELSE 1 + Max({Height(g) : g \in Parts(f)})

RECURSIVE Within(_)
Within(f) == {f} \cup UNION {Within(g) : g \in Parts(f)}

MCFilter ==
  UNION {Within(Asked(p, cs)) \cup Within(AndNode(<<p, build_filter(cs)>>))
           \cup Within(Combined(p, cs)) : p \in MCPolicies, cs \in MCClauseLists}

MCValueFilter == {f \in MCFilter : f.kind = "leaf"}
MCRowFilter   == MCFilter \ MCValueFilter
=============================================================================
