------------------------------ MODULE Queries ------------------------------
(***************************************************************************)
(* One resource read page by page over HTTP while others write it.  The    *)
(* rows are kept by one of three backends: a list in memory                *)
(* (list/list_service.py), a SQL table (sql/sql_service.py) or a Mongo     *)
(* collection (mongo/mongo_service.py); each filters, orders and seeks     *)
(* past a cursor in its own way.  The resource may sit behind views        *)
(* (Exposure), and its searches under a policy's filter (Filters).         *)
(***************************************************************************)
EXTENDS Filters, Exposure, FiniteSets

CONSTANTS None,           \* no cursor, no sort
          Ids,            \* the identifiers rows may have: integers
          Values,         \* the values of the other columns, NULL among them
          Policies,       \* the filters a policy may add to a search
          ClauseLists,    \* the clauses a client may send: sequences of [attribute, op, value]
          SortOrders,     \* the orders a client may ask for: [attribute, descending]
          Limits,         \* the page sizes a client may ask for
          allow_filter_iteration, \* whether a filter with no rule is matched in memory
          MaxSearchLimit, \* RequestLimitsConfig.max_search_limit
          ViewChoices,    \* the views an application may add: [overrides, actions]
          MaxViews,       \* bound: views on top of one another
          MaxWrites,      \* bound: rows written
          Tables,         \* the tables a behaviour may start with
          MongoIdDescending, \* whether Mongo walks are sorted by descending id
          RowFilter,      \* the filters of a row there are: with their parts, and what is built of them
          ValueFilter,    \* the filters of one value there are
          Height(_)       \* of a filter: above that of its parts

Columns == Fields \ {IdField}

Backends == {"list", "sql", "mongo"}

Row == {x \in [Fields -> Ids \cup Values] : x[IdField] \in Ids /\ \A f \in Columns : x[f] \in Values}

VARIABLES backend,   \* which backend keeps the rows
          declaredFilter, \* the resource declares a search filter type
          view,      \* the outermost resource: [dto, actions, depth]
          rows,      \* the table: id -> row, for the ids that exist
          walk,      \* the client's search and where it has got to
          writes

vars == <<backend, declaredFilter, view, rows, walk, writes>>

-----------------------------------------------------------------------------
(* Ordering.                                                               *)

Sorts(sort, attribute) == sort # None /\ sort.attribute = attribute

(* AttrSortOrder.compare: None first, then by value.                       *)
SortsFirst(l, r) == IF l = NULL THEN r # NULL ELSE r # NULL /\ l < r

(* The reference: compare, and the identifier ascending between equals.    *)
Before(sort, a, b) ==
  IF sort = None THEN a.id < b.id
  ELSE LET l == a[sort.attribute]
           r == b[sort.attribute]
       IN IF l = r THEN a.id < b.id
          ELSE IF sort.descending THEN SortsFirst(r, l) ELSE SortsFirst(l, r)

_ascending_key(value) == IF value = NULL THEN <<0, 0>> ELSE <<1, value>>

(* In memory, a stable sort by (value is not None, value), reversed when   *)
(* descending, of rows already sorted by identifier.                       *)
ListBefore(sort, a, b) ==
  IF sort = None THEN a.id < b.id
  ELSE LET l == _ascending_key(a[sort.attribute])
           r == _ascending_key(b[sort.attribute])
           Less(p, q) == p[1] < q[1] \/ (p[1] = q[1] /\ p[2] < q[2])
       IN IF sort.descending THEN Less(r, l) \/ (l = r /\ a.id < b.id)
          ELSE Less(l, r) \/ (l = r /\ a.id < b.id)

(* ORDER BY column ASC NULLS FIRST, id / DESC NULLS LAST, id.              *)
SqlBefore(sort, a, b) ==
  IF sort = None THEN a.id < b.id
  ELSE LET l == a[sort.attribute]
           r == b[sort.attribute]
           nullsFirst == ~sort.descending
       IN IF l = r THEN a.id < b.id
          ELSE IF l = NULL THEN nullsFirst
          ELSE IF r = NULL THEN ~nullsFirst
          ELSE IF sort.descending THEN l > r ELSE l < r

(* The sort spec of (field, direction) pairs; Mongo orders null lowest.    *)
MongoSpec(sort) ==
  IF sort = None THEN <<<<"id", 1>>>>
  ELSE <<<<sort.attribute, IF sort.descending THEN -1 ELSE 1>>, <<"id", 1>>>>

MongoBefore(sort, a, b) ==
  LET spec == MongoSpec(sort)
      Less(i) == LET l == a[spec[i][1]]
                     r == b[spec[i][1]]
                 IN IF spec[i][2] = 1 THEN SortsFirst(l, r) ELSE SortsFirst(r, l)
      Same(i) == a[spec[i][1]] = b[spec[i][1]]
  IN \E i \in DOMAIN spec : Less(i) /\ \A j \in 1..(i - 1) : Same(j)

-----------------------------------------------------------------------------
(* Cursors.  One is an opaque token a client can only have been given, so  *)
(* it is modelled by what it holds.                                        *)

CursorKey(sort, x) == IF sort = None THEN x.id ELSE x[sort.attribute]

Cursor(sort, x) ==
  [attribute |-> IF sort = None THEN "none" ELSE sort.attribute,
   ascending |-> sort = None \/ ~sort.descending,
   key       |-> CursorKey(sort, x),
   id        |-> x.id]

(* A cursor of another order is refused.                                   *)
CursorFits(sort, c) ==
  /\ c.attribute = IF sort = None THEN "none" ELSE sort.attribute
  /\ c.ascending = (sort = None \/ ~sort.descending)

(* The three predicates that seek past a cursor.                           *)
_after_cursor_item(key, id, c) ==
  CASE c.key = NULL /\ c.ascending  -> key # NULL \/ id > c.id
    [] c.key = NULL /\ ~c.ascending -> key = NULL /\ id > c.id
    [] c.key # NULL /\ key = NULL   -> ~c.ascending
    [] OTHER -> \/ IF c.ascending THEN key > c.key ELSE key < c.key
                \/ key = c.key /\ id > c.id

ListAfter(sort, c, x) ==
  IF sort = None \/ Sorts(sort, IdField)
  THEN IF c.ascending THEN x.id > c.id ELSE x.id < c.id
  ELSE _after_cursor_item(x[sort.attribute], x.id, c)

(* Mutant: a descending walk forgets that the NULL rows come last.         *)
keyset_predicate_NoNulls(sort, c, x) ==
  LET key == IF sort = None THEN x.id ELSE x[sort.attribute]
      Gt(l, r) == NULL \notin {l, r} /\ l > r
  IN \/ IF c.ascending THEN Gt(key, c.key) ELSE Gt(c.key, key)
     \/ key = c.key /\ x.id > c.id

keyset_predicate(sort, c, x) ==
  IF sort = None \/ Sorts(sort, IdField)
  THEN IF c.ascending THEN x.id > c.id ELSE x.id < c.id
  ELSE LET key == x[sort.attribute]
           Gt(l, r) == NULL \notin {l, r} /\ l > r
       IN CASE c.key = NULL /\ c.ascending  -> key # NULL \/ (key = NULL /\ x.id > c.id)
            [] c.key = NULL /\ ~c.ascending -> key = NULL /\ x.id > c.id
            [] c.key # NULL /\ c.ascending  -> Gt(key, c.key) \/ (key = c.key /\ x.id > c.id)
            [] OTHER -> Gt(c.key, key) \/ (key = c.key /\ x.id > c.id) \/ key = NULL

(* A Mongo document is a dict: {field: key, "_id": {"$gt": id}} holds one  *)
(* entry when the field is "_id" itself, and it is the second.             *)
_keyset_query(sort, c, x) ==
  IF sort = None THEN x.id > c.id
  ELSE LET key == x[sort.attribute]
           Gt(l, r) == NULL \notin {l, r} /\ l > r
           Tied(v)  == (sort.attribute = IdField \/ key = v) /\ x.id > c.id
       IN CASE c.key = NULL /\ c.ascending  -> key # NULL \/ Tied(NULL)
            [] c.key = NULL /\ ~c.ascending -> Tied(NULL)
            [] c.key # NULL /\ c.ascending  -> Gt(key, c.key) \/ Tied(c.key)
            [] OTHER -> Gt(c.key, key) \/ Tied(c.key) \/ key = NULL

-----------------------------------------------------------------------------
(* One search of one backend.                                              *)

(* The rows of a set, each at the place that the rows before it give it.   *)
Sequence(S, IsBefore(_, _)) ==
  [n \in 1 .. Cardinality(S) |->
     CHOOSE x \in S : Cardinality({y \in S : IsBefore(y, x)}) = n - 1]

_apply_sort(sort, S) == Sequence(S, LAMBDA x, y : SqlBefore(sort, x, y))

Ordering_(b, sort, S) ==
  CASE b = "list"  -> Sequence(S, LAMBDA x, y : ListBefore(sort, x, y))
    [] b = "sql"   -> _apply_sort(sort, S)
    [] b = "mongo" -> Sequence(S, LAMBDA x, y : MongoBefore(sort, x, y))

After(b, sort, c, x) ==
  \/ c = None
  \/ b = "list"  /\ ListAfter(sort, c, x)
  \/ b = "sql"   /\ keyset_predicate(sort, c, x)
  \/ b = "mongo" /\ _keyset_query(sort, c, x)

Kept(b, f, x) ==
  CASE b = "list"  -> Matches(f, x) = "true"
    [] b = "sql"   -> SqlCondition(f, FALSE, x) = "true"
    [] b = "mongo" -> MongoQuery(f, FALSE, x)

(* A page of the rows of a set, and the cursor to the next when there are  *)
(* more rows than the limit.                                               *)
Page(ordered, limit, sort) ==
  LET items == SubSeq(ordered, 1, IF Len(ordered) < limit THEN Len(ordered) ELSE limit)
  IN [items |-> items,
      next  |-> IF Len(ordered) > limit THEN Cursor(sort, items[Len(items)]) ELSE None]

TableRows == {rows[i] : i \in DOMAIN rows}

Searched(b, f, sort, c, limit, table) ==
  Page(Ordering_(b, sort, {x \in table : Kept(b, f, x) /\ After(b, sort, c, x)}), limit, sort)

(* The fallback's second query: the rows whose ids survived the first.     *)
SearchedIn(b, ids, sort, c, limit) ==
  Page(Ordering_(b, sort, {x \in TableRows : x.id \in ids /\ After(b, sort, c, x)}), limit, sort)

(* In memory, one comparison of None by order fails the whole search.      *)
Raises(f, table) == \E x \in table : Matches(f, x) = "raises"

-----------------------------------------------------------------------------
NoWalk == [active |-> FALSE]

(* policy is the filter a policy adds, clauses what the client sent.       *)
(* stable: the rows that matched when the walk began and have not been     *)
(* written since.  never: the rows that have not matched since.  seen: how *)
(* often a row was served.                                                 *)
Matching(f, x)  == Matches(f, x) = "true"
Excluded(f, x)  == Matches(f, x) = "false"

(* What the caller asked for, as written: no constructor has touched it.   *)
Asked(policy, clauses) ==
  AndNode(<<policy, AndNode([i \in DOMAIN clauses |->
    AttrNode(clauses[i].attribute, Leaf(clauses[i].op, clauses[i].value))])>>)

NewWalk(policy, clauses, sort, limit) ==
  LET f == Asked(policy, clauses)
      found == {i \in DOMAIN rows : Matching(f, rows[i])}
  IN [active |-> TRUE, policy |-> policy, clauses |-> clauses, sort |-> sort, limit |-> limit,
      cursor |-> None, survivors |-> None, done |-> FALSE,
      stable |-> found,
      never  |-> {i \in Ids : i \in DOMAIN rows => Excluded(f, rows[i])}, seen |-> [i \in Ids |-> 0]]

(* AuthorizedService.search: the policy's filter and the client's.         *)
Combined(policy, clauses) == and_(<<policy, build_filter(clauses)>>)

SearchFilter == Combined(walk.policy, walk.clauses)

(* Where the page of a walk comes from: one query, or the second of two.   *)
NextPage ==
  IF walk.survivors # None
  THEN SearchedIn(backend, walk.survivors, walk.sort, walk.cursor, walk.limit)
  ELSE Searched(backend, SearchFilter, walk.sort, walk.cursor, walk.limit, TableRows)

-----------------------------------------------------------------------------
(* What the constants are.  "none" is the attribute in a cursor of no sort. *)

ASSUME FieldsAssumption ==
  /\ Fields \subseteq STRING /\ {f \in Fields : FieldKind[f] = "id"} = {"id"}
  /\ "none" \notin Fields

ASSUME RowsAssumption ==
  /\ Ids \subseteq Int /\ NULL \in Values /\ Values \subseteq Int \cup {NULL}
  /\ \A t \in Tables : /\ IsFiniteSet(DOMAIN t) /\ DOMAIN t \subseteq Ids
                       /\ \A i \in DOMAIN t : t[i] \in Row /\ t[i].id = i

ASSUME SearchAssumption ==
  /\ SortOrders \subseteq [attribute : Fields, descending : BOOLEAN]
  /\ MaxSearchLimit \in Nat /\ MaxViews \in Nat /\ MaxWrites \in Nat
  /\ None \notin SortOrders /\ \A ids \in SUBSET Ids : None # ids
  /\ None \notin [attribute : Fields \cup {"none"}, ascending : BOOLEAN,
                  key : Int \cup {NULL}, id : Ids]

ASSUME FiltersAssumption ==
  /\ \A f \in RowFilter \cup ValueFilter :
       /\ Height(f) \in Nat /\ \A g \in Parts(f) : Height(g) < Height(f)
       /\ f.kind = "all" => f = All
       /\ f.kind = "none" => f = NoMatch
  /\ \A f \in RowFilter :
       \/ f.kind \in {"all", "none"}
       \/ f.kind \in {"and", "or"} /\ f.filters \in Seq(RowFilter)
       \/ f.kind \in {"not", "custom"} /\ f.filter \in RowFilter
       \/ f.kind = "attr" /\ f.attribute \in Fields /\ f.filter \in ValueFilter
  /\ \A f \in ValueFilter :
       \/ f.kind \in {"all", "none"}
       \/ f.kind \in {"and", "or"} /\ f.filters \in Seq(ValueFilter)
       \/ f.kind = "not" /\ f.filter \in ValueFilter
       \/ f.kind = "leaf" /\ WellFormed(f)
  /\ NodeEquations(RowFilter, Row) /\ NodeEquations(ValueFilter, Ids \cup Values)
  /\ \A policy \in Policies, clauses \in ClauseLists :
       {Asked(policy, clauses), AndNode(<<policy, build_filter(clauses)>>),
        Combined(policy, clauses)} \subseteq RowFilter

-----------------------------------------------------------------------------
Init ==
  /\ backend \in Backends
  /\ declaredFilter \in BOOLEAN
  /\ view = [dto |-> Declared, actions |-> StandardActions, depth |-> 0]
  /\ rows \in Tables
  /\ walk = NoWalk
  /\ writes = 0

(* ResourceView(resource, ...): accepted or refused, before serving.       *)
AddView ==
  /\ view.depth < MaxViews /\ ~walk.active /\ writes = 0
  /\ \E choice \in ViewChoices :
       /\ ViewAccepted(view.dto, view.actions, declaredFilter, choice.overrides, choice.actions)
       /\ view' = [dto     |-> Derived(view.dto, choice.overrides),
                   actions |-> normalize_actions(choice.actions),
                   depth   |-> view.depth + 1]
  /\ UNCHANGED <<backend, declaredFilter, rows, walk, writes>>

(* The search route's own checks.                                          *)
SearchAllowed(clauses, sort, limit) ==
  /\ limit \in 1..MaxSearchLimit
  /\ \A i \in DOMAIN clauses :
       <<clauses[i].attribute, clauses[i].op>> \in FilterSurface(view.dto, declaredFilter)
  /\ sort # None => sort.attribute \in SortableFields(view.dto)

(* The client starts a search.  A refused one (400 invalid_input, or a     *)
(* filter with no rule and no iteration) changes nothing.                  *)
Search ==
  /\ ~walk.active
  /\ "search" \in normalize_actions(view.actions)
  /\ \E policy \in Policies, clauses \in ClauseLists, sort \in SortOrders \cup {None},
        limit \in Limits :
       /\ SearchAllowed(clauses, sort, limit)
       /\ backend # "list" => allow_filter_iteration \/ Convertible(Combined(policy, clauses))
       /\ (backend = "mongo" /\ Sorts(sort, IdField)) => (sort.descending <=> MongoIdDescending)
       /\ walk' = NewWalk(policy, clauses, sort, limit)
  /\ UNCHANGED <<backend, declaredFilter, view, rows, writes>>

(* The client sends its cursor with another order: refused unless it fits. *)
ChangeOrder ==
  /\ walk.active /\ walk.cursor # None /\ walk.survivors = None
  /\ \E sort \in SortOrders \cup {None} :
       /\ sort # walk.sort /\ SearchAllowed(walk.clauses, sort, walk.limit)
       /\ walk' = IF CursorFits(sort, walk.cursor) THEN [walk EXCEPT !.sort = sort] ELSE walk
  /\ UNCHANGED <<backend, declaredFilter, view, rows, writes>>

(* The list is filtered in memory: a row it cannot compare fails it.       *)
SearchFails ==
  /\ walk.active /\ ~walk.done
  /\ backend = "list" \/ ~Convertible(SearchFilter)
  /\ walk.survivors = None
  /\ Raises(SearchFilter, TableRows)
  /\ walk' = NoWalk
  /\ UNCHANGED <<backend, declaredFilter, view, rows, writes>>

(* allow_filter_iteration: the first query reads every row and keeps the   *)
(* ids of those that match in memory.                                      *)
Iterate ==
  /\ walk.active /\ ~walk.done /\ walk.survivors = None
  /\ backend # "list" /\ ~Convertible(SearchFilter)
  /\ ~Raises(SearchFilter, TableRows)
  /\ walk' = [walk EXCEPT !.survivors = {i \in DOMAIN rows : Matching(SearchFilter, rows[i])}]
  /\ UNCHANGED <<backend, declaredFilter, view, rows, writes>>

(* A page is served; with a next cursor the client goes on, later.         *)
ServePage ==
  /\ walk.active /\ ~walk.done
  /\ \/ backend = "list" /\ ~Raises(SearchFilter, TableRows)
     \/ backend # "list" /\ (Convertible(SearchFilter) \/ walk.survivors # None)
  /\ LET page   == NextPage
         served == {page.items[i].id : i \in DOMAIN page.items}
     IN walk' = [walk EXCEPT
          !.survivors = None,
          !.cursor = IF page.next = None THEN @ ELSE page.next,
          !.done = page.next = None,
          !.seen = [i \in Ids |-> IF i \in served /\ @[i] < 2 THEN @[i] + 1 ELSE @[i]]]
  /\ UNCHANGED <<backend, declaredFilter, view, rows, writes>>

-----------------------------------------------------------------------------
(* Writes, by other requests through the same routes.                      *)

Written(i, table) ==
  /\ rows' = table
  /\ writes' = writes + 1
  /\ walk' = IF ~walk.active THEN walk
             ELSE [walk EXCEPT
               !.stable = @ \ {i},
               !.never = IF i \in DOMAIN table => Excluded(Asked(walk.policy, walk.clauses), table[i])
                         THEN @ ELSE @ \ {i}]
  /\ UNCHANGED <<backend, declaredFilter, view>>

MayWrite(action) == backend # "list" /\ action \in view.actions /\ writes < MaxWrites

Payloads == [Columns -> Values]

With(i, row) == [j \in DOMAIN rows \cup {i} |-> IF j = i THEN row ELSE rows[j]]

(* Mutant: a field the request leaves out is never given its default.      *)
CreateRow_NoDefaults ==
  /\ MayWrite("create")
  /\ \E i \in Ids \ DOMAIN rows, payload \in Payloads :
       LET data == Assigned(view.dto, "create_request", payload)
       IN Written(i, With(i, [f \in Fields |-> CASE f = IdField        -> i
                                                  [] f \in DOMAIN data -> data[f]
                                                  [] OTHER             -> -1]))

(* POST: fields the create model leaves out take the declared default.     *)
CreateRow ==
  /\ MayWrite("create")
  /\ \E i \in Ids \ DOMAIN rows, payload \in Payloads :
       LET data == Assigned(view.dto, "create_request", payload)
       IN Written(i, With(i, [f \in Fields |-> CASE f = IdField        -> i
                                                  [] f \in DOMAIN data -> data[f]
                                                  [] OTHER             -> NULL]))

(* PATCH: only what the client sent, of what the update model takes.       *)
PatchRow ==
  /\ MayWrite("update")
  /\ \E i \in DOMAIN rows, f \in Columns, v \in Values :
       LET data == Assigned(view.dto, "update_request", [g \in {f} |-> v])
       IN Written(i, [rows EXCEPT ![i] = [g \in Fields |-> IF g \in DOMAIN data THEN data[g]
                                                          ELSE @[g]]])

DeleteRow ==
  /\ MayWrite("delete")
  /\ \E i \in DOMAIN rows : Written(i, [j \in DOMAIN rows \ {i} |-> rows[j]])

Next == \/ AddView
        \/ Search \/ ChangeOrder \/ SearchFails \/ Iterate \/ ServePage
        \/ CreateRow \/ PatchRow \/ DeleteRow

Spec == Init /\ [][Next]_vars

-----------------------------------------------------------------------------
TypeOK ==
  /\ backend \in Backends /\ declaredFilter \in BOOLEAN
  /\ view.dto \in [Fields -> SUBSET Models]
  /\ view.actions \subseteq StandardActions /\ view.depth \in 0..MaxViews
  /\ DOMAIN rows \subseteq Ids
  /\ \A i \in DOMAIN rows : rows[i].id = i /\ \A f \in Columns : rows[i][f] \in Values
  /\ walk.active => /\ walk.stable \subseteq DOMAIN rows
                    /\ walk.never \subseteq Ids
                    /\ walk.seen \in [Ids -> 0..2]
  /\ writes \in 0..MaxWrites

(* The three backends serve the same page: the rows the in-memory filter   *)
(* matches, in the order of compare and the identifier, past the cursor,   *)
(* whatever the filter's constructors normalised away and however each     *)
(* backend writes its conditions.  A filter that raises in memory has no    *)
(* page there, and one with no rule none in a database; the two databases    *)
(* agree on a filter that raises, and past a cursor whose row is gone too.  *)
PagesAgree ==
  walk.active =>
    LET f == Asked(walk.policy, walk.clauses)
        table == TableRows
        Served(b) == Searched(b, SearchFilter, walk.sort, walk.cursor, walk.limit, table)
        sql == Served("sql")
        stuck == Sorts(walk.sort, IdField) /\ walk.sort.descending
        after == {x \in table : /\ Matching(f, x)
                               /\ \/ walk.cursor = None
                                  \/ Before(walk.sort, rows[walk.cursor.id], x)}
        reference == Page(Sequence(after, LAMBDA x, y : Before(walk.sort, x, y)),
                          walk.limit, walk.sort)
    IN Convertible(f) =>
         /\ stuck \/ Served("mongo") = sql
         /\ (/\ ~Raises(f, table)
             /\ walk.cursor # None => /\ walk.cursor.id \in DOMAIN rows
                                      /\ Cursor(walk.sort, rows[walk.cursor.id]) = walk.cursor)
            => Served("list") = reference /\ sql = reference

(* Paging meets every row that stays: a row that matches and is not        *)
(* written while the client walks is served exactly once, and a row that   *)
(* never matched is never served, whatever is written to the others        *)
(* between two pages or between the two queries of the fallback.           *)
WalkComplete ==
  walk.active =>
    /\ \A i \in walk.stable : walk.seen[i] <= 1 /\ (walk.done => walk.seen[i] = 1)
    /\ \A i \in walk.never : walk.seen[i] = 0

(* A view only narrows: no view on top of another gives back a field of a  *)
(* model, a filter parameter, a sort field or an action that an inner one  *)
(* took away, and a write through the outer one changes no field that any  *)
(* layer keeps out of the request.                                         *)
Narrowed ==
  /\ \A m \in Models : ModelFields(view'.dto, m) \subseteq ModelFields(view.dto, m)
  /\ FilterSurface(view'.dto, declaredFilter) \subseteq FilterSurface(view.dto, declaredFilter)
  /\ declaredFilter =>
       ModelFields(view'.dto, "read_response") = ModelFields(Declared, "read_response")
  /\ normalize_actions(view'.actions) \subseteq normalize_actions(view.actions)
  /\ \A i \in DOMAIN rows \cap DOMAIN rows', f \in Columns :
       rows'[i][f] # rows[i][f] => f \in ModelFields(view.dto, "update_request")

NarrowedForever == [][Narrowed]_vars
=============================================================================
