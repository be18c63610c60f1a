---------------------------- MODULE QueriesProofs ----------------------------
(***************************************************************************)
(* Theorems about the leaves and the trees of filters, and about Queries,  *)
(* for every table, policy, list of clauses, order and limit.              *)
(***************************************************************************)
EXTENDS Queries, FiniteSetTheorems, SequenceTheorems, WellFoundedInduction, TLAPS

-----------------------------------------------------------------------------
(* Recursion up to a bound, which the library states of operators only *)

(* The least of a set of naturals, from the order being well-founded. *)
LEMMA LeastNat ==
  ASSUME NEW T \in SUBSET Nat, T # {}
  PROVE  \E x \in T : \A y \in T : x <= y
  <1> DEFINE R == OpToRel(<, Nat)
  <1>1. IsWellFoundedOn(R, Nat)
    BY NatLessThanWellFounded
  <1>2. \A x, y \in Nat : <<x, y>> \in R <=> x < y
    BY DEF OpToRel
  <1> HIDE DEF R
  <1>3. PICK x \in T : \A y \in T : ~ (<<y, x>> \in R)
    BY <1>1, WFMin
  <1>4. \A y \in T : ~(y < x)
    BY <1>2, <1>3
  <1>5. T \subseteq Nat
    OBVIOUS
  <1> QED
    BY <1>3, <1>4, <1>5

(* Induction from 0 to N, on the set of what has the property. *)
LEMMA UpTo ==
  ASSUME NEW N \in Nat, NEW T, 0 \in T, \A n \in 1..N : n - 1 \in T => n \in T
  PROVE  0..N \subseteq T
  <1> SUFFICES ASSUME 0..N \ T # {} PROVE FALSE
    OBVIOUS
  <1>1. 0..N \ T \in SUBSET Nat
    OBVIOUS
  <1>2. PICK x \in 0..N \ T : \A y \in 0..N \ T : x <= y
    BY <1>1, LeastNat
  <1>3. x \in 1..N /\ x - 1 \in 0..N /\ ~(x <= x - 1)
    BY <1>2
  <1> QED
    BY <1>2, <1>3

Recurs(f, N, base, step) == f[0] = base /\ \A n \in 1..N : f[n] = step[n][f[n - 1]]

(* A function defined by recursion from 0 to N exists. *)
LEMMA Recursion ==
  ASSUME NEW N \in Nat, NEW S, NEW base \in S, NEW step \in [1..N -> [S -> S]]
  PROVE  \E f \in [0..N -> S] : Recurs(f, N, base, step)
  <1> DEFINE T == {m \in 0..N : \E f \in [0..m -> S] : Recurs(f, m, base, step)}
  <1>0. \A m \in 0..N : m \in T <=> \E f \in [0..m -> S] : Recurs(f, m, base, step)
    OBVIOUS
  <1> HIDE DEF T
  <1>1. 0 \in T
    <2> DEFINE f == [n \in 0..0 |-> base]
    <2>1. f \in [0..0 -> S] /\ Recurs(f, 0, base, step)
      BY DEF Recurs
    <2> HIDE DEF f
    <2>2. 0 \in 0..N
      OBVIOUS
    <2> QED
      BY <1>0, <2>1, <2>2
  <1>2. ASSUME NEW m \in 1..N, m - 1 \in T PROVE m \in T
    <2>1. PICK f \in [0..(m - 1) -> S] : Recurs(f, m - 1, base, step)
      BY <1>0, <1>2
    <2> DEFINE g == [n \in 0..m |-> IF n = m THEN step[m][f[m - 1]] ELSE f[n]]
    <2>2. m - 1 \in 0..(m - 1) /\ \A n \in 0..m : n # m => n \in 0..(m - 1)
      OBVIOUS
    <2>3. f[m - 1] \in S /\ step[m] \in [S -> S]
      BY <2>2
    <2>4. g \in [0..m -> S] /\ g[m] = step[m][f[m - 1]] /\ \A n \in 0..(m - 1) : g[n] = f[n]
      BY <2>2, <2>3
    <2> HIDE DEF g
    <2>5. g[0] = base
      BY <2>1, <2>4 DEF Recurs
    <2>6. ASSUME NEW n \in 1..m PROVE g[n] = step[n][g[n - 1]]
      <3>1. n - 1 \in 0..(m - 1)
        OBVIOUS
      <3> QED
        BY <2>1, <2>4, <3>1 DEF Recurs
    <2>7. Recurs(g, m, base, step)
      BY <2>5, <2>6 DEF Recurs
    <2> QED
      BY <1>0, <2>4, <2>7
  <1>3. \A m \in 1..N : m - 1 \in T => m \in T
    BY <1>2
  <1>4. 0..N \subseteq T
    BY <1>1, <1>3, UpTo
  <1>5. N \in T
    BY <1>4
  <1> QED
    BY <1>0, <1>5

-----------------------------------------------------------------------------
(* The leaves.  A leaf selects the same rows in memory, in SQL and in      *)
(* Mongo, and so does its complement.                                      *)

Column == Int \cup {NULL}

Answer == {"true", "false", "raises"}

ThreeValued == {"true", "false", "unknown"}

(* What a filter answers in memory, a condition that stands for it and one *)
(* that stands for its complement.                                         *)
Stands(answer, positive, negated) ==
  answer # "raises" =>
    /\ (positive = "true") <=> (answer = "true")
    /\ (negated = "true") <=> (answer = "false")

LEMMA TruthIs ==
  ASSUME NEW b
  PROVE  Truth(b) \in {"true", "false"} /\ (Truth(b) = "true" <=> b) /\ (Truth(b) = "false" <=> ~b)
BY DEF Truth

(* "IS NULL OR NOT condition", of a NULL and of a value that passes or not. *)
LEMMA NullOrNot ==
  ASSUME NEW b \in BOOLEAN
  PROVE  /\ Or3(Truth(TRUE), Not3("unknown")) = "true"
         /\ Or3(Truth(FALSE), Not3(Truth(b))) = Truth(~b)
<1>1. Not3("unknown") = "unknown" /\ Not3("true") = "false" /\ Not3("false") = "true"
  BY DEF Not3
<1>2. Not3(Truth(b)) = Truth(~b)
  BY <1>1 DEF Truth
<1>3. Or3("true", "unknown") = "true" /\ Or3("false", "true") = "true"
      /\ Or3("false", "false") = "false"
  BY DEF Or3
<1> QED
  BY <1>1, <1>2, <1>3 DEF Truth

(* Of an equality SQL's two conditions are two-valued, with IS NULL and    *)
(* IS DISTINCT FROM where a NULL comes in (filter_converter.py:103-121).   *)
LEMMA SqlEquality ==
  ASSUME NEW v \in Column, NEW c \in Column,
         NEW leaf, leaf.op = "eq", leaf.value = v
  PROVE  Stands(MemoryLeaf(leaf, c), SqlPositive(leaf, c), SqlNegated(leaf, c))
BY NullAssumption
   DEF Column, Stands, MemoryLeaf, SqlPositive, SqlNegated, SqlEq, Truth, Ordering

(* A list of values, empty or not: the complement adds the NULL rows back  *)
(* (filter_converter.py:172-188).                                          *)
LEMMA SqlMembership ==
  ASSUME NEW vs \in SUBSET Int, NEW c \in Column,
         NEW leaf, leaf.op = "in", leaf.value = vs
  PROVE  Stands(MemoryLeaf(leaf, c), SqlPositive(leaf, c), SqlNegated(leaf, c))
<1>1. leaf.op = "in" /\ leaf.value = vs
  OBVIOUS
<1>2. NULL \notin vs
  BY NullAssumption
<1>3. MemoryLeaf(leaf, c) = Truth(c \in vs)
  BY <1>1 DEF MemoryLeaf, Ordering
<1>4. CASE vs = {}
  <2>1. SqlPositive(leaf, c) = "false" /\ SqlNegated(leaf, c) = "true"
    BY <1>1, <1>4 DEF SqlPositive, SqlNegated, Ordering
  <2> QED
    BY <1>3, <1>4, <2>1 DEF Stands, Truth
<1>5. CASE vs # {}
  <2>1. /\ SqlPositive(leaf, c) = SqlIn(c, vs)
        /\ SqlNegated(leaf, c) = Or3(Truth(c = NULL), Not3(SqlIn(c, vs)))
    BY <1>1, <1>5 DEF SqlPositive, SqlNegated, Ordering
  <2>2. SqlIn(c, vs) = IF c = NULL THEN "unknown" ELSE Truth(c \in vs)
    BY <1>2 DEF SqlIn, Truth
  <2>3. CASE c = NULL
    BY <1>2, <1>3, <2>1, <2>2, <2>3, NullOrNot DEF Stands, Truth
  <2>4. CASE c # NULL
    <3>1. SqlNegated(leaf, c) = Truth(c \notin vs)
      BY <2>1, <2>2, <2>4, NullOrNot DEF Truth
    <3> QED
      BY <1>3, <2>1, <2>2, <2>4, <3>1 DEF Stands, Truth
  <2> QED
    BY <2>3, <2>4
<1> QED
  BY <1>4, <1>5

(* A text search, which no NULL passes (filter_converter.py:157-169).      *)
LEMMA SqlContains ==
  ASSUME NEW v \in Int, NEW c \in Column,
         NEW leaf, leaf.op = "contains", leaf.value = v
  PROVE  Stands(MemoryLeaf(leaf, c), SqlPositive(leaf, c), SqlNegated(leaf, c))
<1>1. leaf.op = "contains" /\ leaf.value = v
  OBVIOUS
<1>2. MemoryLeaf(leaf, c) = Truth(Occurs(c, v))
  BY <1>1 DEF MemoryLeaf, Ordering
<1>3. /\ SqlPositive(leaf, c) = SqlLike(c, v)
      /\ SqlNegated(leaf, c) = Or3(Truth(c = NULL), Not3(SqlLike(c, v)))
  BY <1>1 DEF SqlPositive, SqlNegated, Ordering
<1>4. CASE c = NULL
  BY <1>2, <1>3, <1>4, NullOrNot DEF Stands, Occurs, SqlLike, Truth
<1>5. CASE c # NULL
  <2>1. SqlLike(c, v) = Truth(Occurs(c, v))
    BY <1>5 DEF SqlLike, Occurs, Truth
  <2>2. SqlNegated(leaf, c) = Truth(~Occurs(c, v))
    BY <1>3, <1>5, <2>1, NullOrNot DEF Occurs, Truth
  <2> QED
    BY <1>2, <1>3, <2>1, <2>2 DEF Stands, Truth
<1> QED
  BY <1>4, <1>5

(* A comparison by order, which raises in memory when a NULL comes in; its *)
(* complement is the opposite comparison (filter_converter.py:124-154).    *)
LEMMA SqlComparison ==
  ASSUME NEW op \in Ordering, NEW v \in Column, NEW c \in Column,
         NEW leaf, leaf.op = op, leaf.value = v
  PROVE  Stands(MemoryLeaf(leaf, c), SqlPositive(leaf, c), SqlNegated(leaf, c))
<1>1. leaf.op = op /\ leaf.value = v /\ op \notin {"eq", "in", "contains"}
  BY DEF Ordering
<1>2. CASE NULL \in {c, v}
  BY <1>1, <1>2 DEF Stands, MemoryLeaf
<1>3. CASE NULL \notin {c, v}
  <2>1. c \in Int /\ v \in Int
    BY <1>3 DEF Column
  <2>2. MemoryLeaf(leaf, c) = Truth(Ordered(op, c, v))
    BY <1>1, <1>3 DEF MemoryLeaf
  <2>3. SqlPositive(leaf, c) = Truth(Ordered(op, c, v))
    BY <1>1, <1>3 DEF SqlPositive, SqlOrdered
  <2>4. SqlNegated(leaf, c) = Truth(Ordered(Opposite[op], c, v))
    BY <1>1, <1>3 DEF SqlNegated, SqlOrdered, Or3, Truth
  <2>5. Ordered(Opposite[op], c, v) <=> ~Ordered(op, c, v)
    BY <2>1 DEF Opposite, Ordered, Ordering
  <2> QED
    BY <2>2, <2>3, <2>4, <2>5 DEF Stands, Truth
<1> QED
  BY <1>2, <1>3

LEMMA LeafOf ==
  ASSUME NEW leaf, WellFormed(leaf)
  PROVE  \/ leaf.op = "eq" /\ leaf.value \in Column
         \/ leaf.op = "in" /\ leaf.value \in SUBSET Int
         \/ leaf.op = "contains" /\ leaf.value \in Int
         \/ leaf.op \in Ordering /\ leaf.value \in Int
BY DEF WellFormed, Column

(* The WHERE of a leaf, and the one written for its complement, are true of *)
(* exactly the rows that the leaf in memory is true, or false, of: a NULL   *)
(* neither slips into a filter nor out of its complement                    *)
(* (filter_converter.py:76-204).                                            *)
THEOREM SqlLeafFaithful ==
  ASSUME NEW leaf, WellFormed(leaf), NEW c \in Column
  PROVE  Stands(MemoryLeaf(leaf, c), SqlPositive(leaf, c), SqlNegated(leaf, c))
BY LeafOf, SqlEquality, SqlMembership, SqlContains, SqlComparison DEF Column

(* The query document of a leaf, and its $nor, match exactly the rows that  *)
(* the leaf in memory is true, or false, of                                 *)
(* (mongo_filter_converter.py:67-152).                                      *)
THEOREM MongoLeafFaithful ==
  ASSUME NEW leaf, WellFormed(leaf), NEW c \in Column
  PROVE  Stands(MemoryLeaf(leaf, c), Truth(MongoPositive(leaf, c)), Truth(MongoNegated(leaf, c)))
<1>1. leaf.op \in {"eq", "in", "contains"} \cup Ordering
  BY LeafOf
<1>2. MemoryLeaf(leaf, c) # "raises" => MemoryLeaf(leaf, c) = Truth(MongoPositive(leaf, c))
  <2>1. CASE leaf.op = "eq"
    BY <2>1 DEF MemoryLeaf, MongoPositive, Ordering
  <2>2. CASE leaf.op = "in"
    BY <2>2 DEF MemoryLeaf, MongoPositive, Ordering
  <2>3. CASE leaf.op = "contains"
    BY <2>3 DEF MemoryLeaf, MongoPositive, Ordering
  <2>4. CASE leaf.op \in Ordering
    <3>1. leaf.op \notin {"eq", "in", "contains"}
      BY <2>4 DEF Ordering
    <3> QED
      BY <2>4, <3>1 DEF MemoryLeaf, MongoPositive, Truth
  <2> QED
    BY <1>1, <2>1, <2>2, <2>3, <2>4
<1> QED
  BY <1>2 DEF Stands, MongoNegated, Truth

LEMMA LeafAnswers ==
  ASSUME NEW leaf, WellFormed(leaf), NEW c \in Column
  PROVE  /\ MemoryLeaf(leaf, c) \in Answer
         /\ SqlPositive(leaf, c) \in ThreeValued /\ SqlNegated(leaf, c) \in ThreeValued
         /\ MongoPositive(leaf, c) \in BOOLEAN /\ MongoNegated(leaf, c) \in BOOLEAN
<1>1. leaf.op \in {"eq", "in", "contains"} \cup Ordering
  BY LeafOf
<1>2. \A b : Truth(b) \in {"true", "false"}
  BY DEF Truth
<1>3. \A t, u : Or3(t, u) \in ThreeValued /\ Not3(t) \in ThreeValued
  BY DEF Or3, Not3, ThreeValued
<1>4. MemoryLeaf(leaf, c) \in Answer
  <2>1. CASE leaf.op \in {"eq", "in", "contains"}
    BY <1>2, <2>1 DEF MemoryLeaf, Ordering, Answer
  <2>2. CASE leaf.op \in Ordering
    BY <1>2, <2>2 DEF MemoryLeaf, Ordering, Answer
  <2> QED
    BY <1>1, <2>1, <2>2
<1>5. SqlPositive(leaf, c) \in ThreeValued
  BY <1>1, <1>2 DEF SqlPositive, SqlEq, SqlIn, SqlLike, SqlOrdered, Ordering, ThreeValued
<1>6. SqlOrdered(Opposite[leaf.op], c, leaf.value) \in ThreeValued
  BY <1>2 DEF SqlOrdered, ThreeValued
<1>7. SqlNegated(leaf, c) \in ThreeValued
  BY <1>1, <1>2, <1>3 DEF SqlNegated, Ordering, ThreeValued
<1>8. MongoPositive(leaf, c) \in BOOLEAN
  <2>1. CASE leaf.op = "eq"
    <3>1. MongoPositive(leaf, c) = (c = leaf.value)
      BY <2>1 DEF MongoPositive, Ordering
    <3> QED
      BY <3>1
  <2>4. CASE leaf.op = "in"
    <3>1. MongoPositive(leaf, c) = (c \in leaf.value)
      BY <2>4 DEF MongoPositive, Ordering
    <3> QED
      BY <3>1
  <2>2. CASE leaf.op = "contains"
    <3>1. MongoPositive(leaf, c) = Occurs(c, leaf.value)
      BY <2>2 DEF MongoPositive, Ordering
    <3> QED
      BY <3>1 DEF Occurs
  <2>3. CASE leaf.op \in Ordering
    <3>1. MongoPositive(leaf, c) = (NULL \notin {c, leaf.value} /\ Ordered(leaf.op, c, leaf.value))
      BY <2>3 DEF MongoPositive, Ordering
    <3> QED
      BY <3>1 DEF Ordered
  <2> QED
    BY <1>1, <2>1, <2>2, <2>3, <2>4
<1> QED
  BY <1>4, <1>5, <1>7, <1>8 DEF MongoNegated

(* An order against a NULL, at which the leaf in memory raises, is true in *)
(* neither database, and its complement is true in both.                   *)
LEMMA LeafConcurs ==
  ASSUME NEW leaf, WellFormed(leaf), NEW c \in Column
  PROVE  /\ SqlPositive(leaf, c) = "true" <=> MongoPositive(leaf, c)
         /\ SqlNegated(leaf, c) = "true" <=> MongoNegated(leaf, c)
<1>1. MongoPositive(leaf, c) \in BOOLEAN /\ MongoNegated(leaf, c) \in BOOLEAN
  BY LeafAnswers
<1>2. CASE MemoryLeaf(leaf, c) # "raises"
  BY <1>1, <1>2, SqlLeafFaithful, MongoLeafFaithful, TruthIs DEF Stands
<1>3. CASE MemoryLeaf(leaf, c) = "raises"
  <2>a. \A p \in BOOLEAN : Truth(p) # "raises"
    BY DEF Truth
  <2>b. leaf.op # "eq"
    <3>1. leaf.op = "eq" => MemoryLeaf(leaf, c) = Truth(c = leaf.value)
      BY DEF MemoryLeaf, Ordering
    <3>2. (c = leaf.value) \in BOOLEAN
      OBVIOUS
    <3> QED
      BY <1>3, <2>a, <3>1, <3>2
  <2>c. leaf.op # "in"
    <3>1. leaf.op = "in" => MemoryLeaf(leaf, c) = Truth(c \in leaf.value)
      BY DEF MemoryLeaf, Ordering
    <3>2. (c \in leaf.value) \in BOOLEAN
      OBVIOUS
    <3> QED
      BY <1>3, <2>a, <3>1, <3>2
  <2>d. leaf.op # "contains"
    <3>1. leaf.op = "contains" => MemoryLeaf(leaf, c) = Truth(Occurs(c, leaf.value))
      BY DEF MemoryLeaf, Ordering
    <3>2. Occurs(c, leaf.value) \in BOOLEAN
      BY DEF Occurs
    <3> QED
      BY <1>3, <2>a, <3>1, <3>2
  <2>e. leaf.op \in Ordering /\ leaf.value \in Int
    BY <2>b, <2>c, <2>d, LeafOf
  <2>f. MemoryLeaf(leaf, c) = IF NULL \in {c, leaf.value} THEN "raises"
                              ELSE Truth(Ordered(leaf.op, c, leaf.value))
    BY <2>b, <2>c, <2>d, <2>e DEF MemoryLeaf
  <2>g. Ordered(leaf.op, c, leaf.value) \in BOOLEAN
    BY DEF Ordered
  <2>1. leaf.op \in Ordering /\ leaf.value \in Int /\ c = NULL
    BY <1>3, <2>a, <2>e, <2>f, <2>g, NullAssumption
  <2>2. leaf.op \notin {"eq", "in", "contains"}
    BY <2>1 DEF Ordering
  <2>3. SqlPositive(leaf, c) = "unknown"
    BY <2>1, <2>2 DEF SqlPositive, SqlOrdered
  <2>4. SqlNegated(leaf, c) = "true"
    BY <2>1, <2>2 DEF SqlNegated, SqlOrdered, Or3, Truth
  <2>5. ~MongoPositive(leaf, c)
    BY <2>1, <2>2 DEF MongoPositive
  <2> QED
    BY <2>3, <2>4, <2>5 DEF MongoNegated
<1> QED
  BY <1>2, <1>3

-----------------------------------------------------------------------------
(* The trees, by induction on their height.                                *)

Agrees(f, x) ==
  /\ Matches(f, x) \in Answer
  /\ Convertible(f) =>
       /\ \A n \in BOOLEAN : /\ SqlCondition(f, n, x) \in ThreeValued /\ MongoQuery(f, n, x) \in BOOLEAN
                             /\ SqlCondition(f, n, x) = "true" <=> MongoQuery(f, n, x)
       /\ Stands(Matches(f, x), SqlCondition(f, FALSE, x), SqlCondition(f, TRUE, x))
       /\ Stands(Matches(f, x), Truth(MongoQuery(f, FALSE, x)), Truth(MongoQuery(f, TRUE, x)))

(* all() and any() answer the default when no child decides, else what the *)
(* first that decides says.                                                *)
LEMMA FirstDecides ==
  ASSUME NEW n \in Nat, NEW answers \in [1..n -> Answer],
         NEW stop, NEW default, <<stop, default>> \in {<<"true", "false">>, <<"false", "true">>}
  PROVE  /\ FirstOf(stop, default, answers) \in Answer
         /\ FirstOf(stop, default, answers) = default <=> \A i \in 1..n : answers[i] = default
         /\ FirstOf(stop, default, answers) = stop => \E i \in 1..n : answers[i] = stop
<1> DEFINE decided == {i \in DOMAIN answers : answers[i] \in {stop, "raises"}}
<1>1. /\ decided \in SUBSET Nat /\ decided \subseteq 1..n
      /\ \A i \in 1..n : i \in decided <=> answers[i] # default
  BY DEF Answer
<1>2. FirstOf(stop, default, answers) = IF decided = {} THEN default ELSE answers[Min(decided)]
  BY DEF FirstOf
<1> HIDE DEF decided
<1>3. CASE decided = {}
  BY <1>1, <1>2, <1>3 DEF Answer
<1>4. CASE decided # {}
  <2>1. \E i \in decided : \A j \in decided : i <= j
    BY <1>1, <1>4, LeastNat
  <2>2. Min(decided) \in decided
    BY <2>1 DEF Min
  <2> QED
    BY <1>1, <1>2, <1>4, <2>2
<1> QED
  BY <1>3, <1>4

LEMMA Tables3 ==
  ASSUME NEW ts, ts \subseteq ThreeValued
  PROVE  /\ And3(ts) \in ThreeValued /\ Any3(ts) \in ThreeValued
         /\ And3(ts) = "true" <=> \A t \in ts : t = "true"
         /\ Any3(ts) = "true" <=> "true" \in ts
BY DEF And3, Any3, ThreeValued

LEMMA ConstantAgrees ==
  ASSUME NEW F, NEW X, NodeEquations(F, X), NEW f \in F, NEW x \in X, f.kind \in {"all", "none"}
  PROVE  Agrees(f, x)
<1>1. Matches(f, x) = MatchesNode(f, x) /\ Convertible(f) = ConvertibleNode(f)
  BY DEF NodeEquations
<1>2. ConvertibleNode(f)
  BY DEF ConvertibleNode
<1>3. \A n \in BOOLEAN : /\ SqlCondition(f, n, x) = SqlNode(f, n, x)
                        /\ MongoQuery(f, n, x) = MongoNode(f, n, x)
  BY <1>1, <1>2 DEF NodeEquations
<1>4. CASE f.kind = "all"
  <2>1. Matches(f, x) = "true"
    BY <1>1, <1>4 DEF MatchesNode
  <2>2. \A n \in BOOLEAN : SqlNode(f, n, x) = Truth(~n) /\ MongoNode(f, n, x) = (~n)
    BY <1>4 DEF SqlNode, MongoNode
  <2> QED
    BY <1>3, <2>1, <2>2, TruthIs DEF Agrees, Stands, Answer, ThreeValued
<1>5. CASE f.kind = "none"
  <2>1. Matches(f, x) = "false"
    BY <1>1, <1>5 DEF MatchesNode
  <2>2. \A n \in BOOLEAN : SqlNode(f, n, x) = Truth(n) /\ MongoNode(f, n, x) = n
    BY <1>5 DEF SqlNode, MongoNode
  <2> QED
    BY <1>3, <2>1, <2>2, TruthIs DEF Agrees, Stands, Answer, ThreeValued
<1> QED
  BY <1>4, <1>5

LEMMA LeafAgrees ==
  ASSUME NEW F, NEW X, NodeEquations(F, X), NEW f \in F, NEW x \in X,
         f.kind = "leaf", WellFormed(f), x \in Column
  PROVE  Agrees(f, x)
<1>1. Matches(f, x) = MemoryLeaf(f, x)
  BY DEF NodeEquations, MatchesNode
<1>2. Convertible(f)
  BY DEF NodeEquations, ConvertibleNode
<1>3. /\ SqlCondition(f, FALSE, x) = SqlPositive(f, x) /\ SqlCondition(f, TRUE, x) = SqlNegated(f, x)
      /\ MongoQuery(f, FALSE, x) = MongoPositive(f, x) /\ MongoQuery(f, TRUE, x) = MongoNegated(f, x)
  <2>1. \A n \in BOOLEAN : SqlCondition(f, n, x) = SqlNode(f, n, x) /\ MongoQuery(f, n, x) = MongoNode(f, n, x)
    BY <1>2 DEF NodeEquations
  <2>2. \A n \in BOOLEAN : SqlNode(f, n, x) = SqlValueRule(f, n, x) /\ MongoNode(f, n, x) = MongoValueRule(f, n, x)
    BY DEF SqlNode, MongoNode
  <2> QED
    BY <2>1, <2>2 DEF SqlValueRule, MongoValueRule
<1> QED
  BY <1>1, <1>3, LeafAnswers, LeafConcurs, SqlLeafFaithful, MongoLeafFaithful DEF Agrees

LEMMA AttrAgrees ==
  ASSUME NEW F, NEW X, NodeEquations(F, X), NEW f \in F, NEW x \in X,
         f.kind = "attr", Agrees(f.filter, x[f.attribute])
  PROVE  Agrees(f, x)
<1>1. Matches(f, x) = Matches(f.filter, x[f.attribute])
  BY DEF NodeEquations, MatchesNode
<1>2. Convertible(f) = Convertible(f.filter)
  BY DEF NodeEquations, ConvertibleNode
<1>3. ASSUME Convertible(f), NEW n \in BOOLEAN
      PROVE  /\ SqlCondition(f, n, x) = SqlCondition(f.filter, n, x[f.attribute])
             /\ MongoQuery(f, n, x) = MongoQuery(f.filter, n, x[f.attribute])
  <2>1. SqlCondition(f, n, x) = SqlNode(f, n, x) /\ MongoQuery(f, n, x) = MongoNode(f, n, x)
    BY <1>3 DEF NodeEquations
  <2> QED
    BY <2>1 DEF SqlNode, MongoNode
<1> QED
  BY <1>1, <1>2, <1>3 DEF Agrees

LEMMA NegationAgrees ==
  ASSUME NEW F, NEW X, NodeEquations(F, X), NEW f \in F, NEW x \in X,
         f.kind = "not", Agrees(f.filter, x)
  PROVE  Agrees(f, x)
<1>1. Matches(f, x) = IF Matches(f.filter, x) = "raises" THEN Matches(f.filter, x)
                      ELSE Not3(Matches(f.filter, x))
  BY DEF NodeEquations, MatchesNode
<1>2. Convertible(f) = Convertible(f.filter)
  BY DEF NodeEquations, ConvertibleNode
<1>3. ASSUME Convertible(f), NEW n \in BOOLEAN
      PROVE  /\ SqlCondition(f, n, x) = SqlCondition(f.filter, ~n, x)
             /\ MongoQuery(f, n, x) = MongoQuery(f.filter, ~n, x)
  <2>1. SqlCondition(f, n, x) = SqlNode(f, n, x) /\ MongoQuery(f, n, x) = MongoNode(f, n, x)
    BY <1>3 DEF NodeEquations
  <2> QED
    BY <2>1 DEF SqlNode, MongoNode
<1>4. Not3("true") = "false" /\ Not3("false") = "true"
  BY DEF Not3
<1>5. Matches(f.filter, x) \in Answer
  BY DEF Agrees
<1>6. /\ Matches(f, x) \in Answer
      /\ Matches(f, x) = "true" <=> Matches(f.filter, x) = "false"
      /\ Matches(f, x) = "false" <=> Matches(f.filter, x) = "true"
  BY <1>1, <1>4, <1>5 DEF Answer
<1>7. SUFFICES ASSUME Convertible(f)
      PROVE /\ \A n \in BOOLEAN : /\ SqlCondition(f, n, x) \in ThreeValued /\ MongoQuery(f, n, x) \in BOOLEAN
                                  /\ SqlCondition(f, n, x) = "true" <=> MongoQuery(f, n, x)
            /\ Stands(Matches(f, x), SqlCondition(f, FALSE, x), SqlCondition(f, TRUE, x))
            /\ Stands(Matches(f, x), Truth(MongoQuery(f, FALSE, x)), Truth(MongoQuery(f, TRUE, x)))
  BY <1>6 DEF Agrees
<1>8. /\ \A n \in BOOLEAN :
           /\ SqlCondition(f.filter, n, x) \in ThreeValued /\ MongoQuery(f.filter, n, x) \in BOOLEAN
           /\ SqlCondition(f.filter, n, x) = "true" <=> MongoQuery(f.filter, n, x)
      /\ Stands(Matches(f.filter, x), SqlCondition(f.filter, FALSE, x), SqlCondition(f.filter, TRUE, x))
      /\ Stands(Matches(f.filter, x), Truth(MongoQuery(f.filter, FALSE, x)), Truth(MongoQuery(f.filter, TRUE, x)))
  BY <1>2, <1>7 DEF Agrees
<1>9. /\ SqlCondition(f, FALSE, x) = SqlCondition(f.filter, TRUE, x)
      /\ SqlCondition(f, TRUE, x) = SqlCondition(f.filter, FALSE, x)
      /\ MongoQuery(f, FALSE, x) = MongoQuery(f.filter, TRUE, x)
      /\ MongoQuery(f, TRUE, x) = MongoQuery(f.filter, FALSE, x)
  BY <1>3, <1>7
<1>10. \A n \in BOOLEAN : /\ SqlCondition(f, n, x) \in ThreeValued /\ MongoQuery(f, n, x) \in BOOLEAN
                          /\ SqlCondition(f, n, x) = "true" <=> MongoQuery(f, n, x)
  BY <1>8, <1>9
<1>11. Matches(f, x) # "raises" => Matches(f.filter, x) # "raises"
  BY <1>1
<1> QED
  BY <1>6, <1>8, <1>9, <1>10, <1>11 DEF Stands

LEMMA JunctionAgrees ==
  ASSUME NEW F, NEW X, NodeEquations(F, X), NEW f \in F, NEW x \in X,
         f.kind \in {"and", "or"}, NEW n \in Nat, DOMAIN f.filters = 1..n,
         \A i \in 1..n : Agrees(f.filters[i], x)
  PROVE  Agrees(f, x)
<1> DEFINE a == [i \in 1..n |-> Matches(f.filters[i], x)]
           sql(c) == {SqlCondition(f.filters[i], c, x) : i \in 1..n}
           mongo(c) == {MongoQuery(f.filters[i], c, x) : i \in 1..n}
<1>1. a \in [1..n -> Answer]
  BY DEF Agrees
<1>2. Matches(f, x) = IF f.kind = "and" THEN FirstOf("false", "true", a) ELSE FirstOf("true", "false", a)
  <2>1. Matches(f, x) = MatchesNode(f, x)
    BY DEF NodeEquations
  <2>2. a = [i \in DOMAIN f.filters |-> Matches(f.filters[i], x)]
    OBVIOUS
  <2> HIDE DEF a
  <2> QED
    BY <2>1, <2>2 DEF MatchesNode
<1> DEFINE A == Matches(f, x)
<1>3. /\ A \in Answer
      /\ f.kind = "and" => /\ A = "true" <=> \A i \in 1..n : a[i] = "true"
                           /\ A = "false" => \E i \in 1..n : a[i] = "false"
      /\ f.kind = "or" => /\ A = "false" <=> \A i \in 1..n : a[i] = "false"
                          /\ A = "true" => \E i \in 1..n : a[i] = "true"
  <2> HIDE DEF a
  <2>1. CASE f.kind = "and"
    BY <1>1, <1>2, <2>1, FirstDecides
  <2>2. CASE f.kind = "or"
    BY <1>1, <1>2, <2>2, FirstDecides
  <2> QED
    BY <2>1, <2>2
<1>4. SUFFICES ASSUME Convertible(f)
      PROVE /\ \A c \in BOOLEAN : /\ SqlCondition(f, c, x) \in ThreeValued /\ MongoQuery(f, c, x) \in BOOLEAN
                                  /\ SqlCondition(f, c, x) = "true" <=> MongoQuery(f, c, x)
            /\ Stands(A, SqlCondition(f, FALSE, x), SqlCondition(f, TRUE, x))
            /\ Stands(A, Truth(MongoQuery(f, FALSE, x)), Truth(MongoQuery(f, TRUE, x)))
  BY <1>3 DEF Agrees
<1>5. \A i \in 1..n : Convertible(f.filters[i])
  <2>1. ConvertibleNode(f)
    BY <1>4 DEF NodeEquations
  <2> QED
    BY <2>1 DEF ConvertibleNode
<1>6. \A i \in 1..n : \A c \in BOOLEAN :
        /\ SqlCondition(f.filters[i], c, x) \in ThreeValued /\ MongoQuery(f.filters[i], c, x) \in BOOLEAN
        /\ SqlCondition(f.filters[i], c, x) = "true" <=> MongoQuery(f.filters[i], c, x)
  BY <1>5 DEF Agrees
<1>7. \A c \in BOOLEAN : sql(c) \subseteq ThreeValued /\ mongo(c) \subseteq BOOLEAN
  BY <1>6
<1>8. ASSUME NEW c \in BOOLEAN
      PROVE  /\ SqlCondition(f, c, x) = IF (f.kind = "and") = c THEN Any3(sql(c)) ELSE And3(sql(c))
             /\ MongoQuery(f, c, x) = IF (f.kind = "and") = c THEN _disjunction(mongo(c)) ELSE _conjunction(mongo(c))
  <2>1. SqlCondition(f, c, x) = SqlNode(f, c, x) /\ MongoQuery(f, c, x) = MongoNode(f, c, x)
    BY <1>4 DEF NodeEquations
  <2>2. /\ sql(c) = {SqlCondition(f.filters[i], c, x) : i \in DOMAIN f.filters}
        /\ mongo(c) = {MongoQuery(f.filters[i], c, x) : i \in DOMAIN f.filters}
    OBVIOUS
  <2> HIDE DEF sql, mongo
  <2>3. CASE f.kind = "and"
    BY <2>1, <2>2, <2>3 DEF SqlNode, MongoNode
  <2>4. CASE f.kind = "or"
    BY <2>1, <2>2, <2>4 DEF SqlNode, MongoNode
  <2> QED
    BY <2>3, <2>4
<1>9. \A c \in BOOLEAN : SqlCondition(f, c, x) \in ThreeValued /\ MongoQuery(f, c, x) \in BOOLEAN
  <2>1. \A c \in BOOLEAN : And3(sql(c)) \in ThreeValued /\ Any3(sql(c)) \in ThreeValued
    BY <1>7, Tables3
  <2>2. \A c \in BOOLEAN : _disjunction(mongo(c)) \in BOOLEAN /\ _conjunction(mongo(c)) \in BOOLEAN
    BY DEF _disjunction, _conjunction
  <2> HIDE DEF sql, mongo
  <2> QED
    BY <1>8, <2>1, <2>2
<1>10. ASSUME NEW c \in BOOLEAN
       PROVE  /\ And3(sql(c)) = "true" <=> \A i \in 1..n : SqlCondition(f.filters[i], c, x) = "true"
              /\ Any3(sql(c)) = "true" <=> \E i \in 1..n : SqlCondition(f.filters[i], c, x) = "true"
              /\ _conjunction(mongo(c)) <=> \A i \in 1..n : MongoQuery(f.filters[i], c, x)
              /\ _disjunction(mongo(c)) <=> \E i \in 1..n : MongoQuery(f.filters[i], c, x)
  <2>1. /\ And3(sql(c)) = "true" <=> \A t \in sql(c) : t = "true"
        /\ Any3(sql(c)) = "true" <=> "true" \in sql(c)
    <3> HIDE DEF sql
    <3> QED
      BY <1>7, Tables3
  <2>2. /\ _conjunction(mongo(c)) <=> \A i \in 1..n : MongoQuery(f.filters[i], c, x)
        /\ _disjunction(mongo(c)) <=> \E i \in 1..n : MongoQuery(f.filters[i], c, x)
    BY <1>6 DEF _conjunction, _disjunction
  <2> QED
    BY <2>1, <2>2
<1>11. Stands(A, SqlCondition(f, FALSE, x), SqlCondition(f, TRUE, x))
  <2> DEFINE p == {i \in 1..n : SqlCondition(f.filters[i], FALSE, x) = "true"}
             m == {i \in 1..n : SqlCondition(f.filters[i], TRUE, x) = "true"}
  <2>1. \A i \in 1..n : a[i] # "raises" => (i \in p <=> a[i] = "true") /\ (i \in m <=> a[i] = "false")
    BY <1>5 DEF Agrees, Stands
  <2>2. /\ And3(sql(FALSE)) = "true" <=> 1..n \subseteq p
        /\ Any3(sql(FALSE)) = "true" <=> p # {}
        /\ And3(sql(TRUE)) = "true" <=> 1..n \subseteq m
        /\ Any3(sql(TRUE)) = "true" <=> m # {}
    BY <1>10
  <2>5. p \in SUBSET (1..n) /\ m \in SUBSET (1..n)
    OBVIOUS
  <2> HIDE DEF a, p, m, A, sql
  <2>3. CASE f.kind = "and"
    <3>1. /\ SqlCondition(f, FALSE, x) = And3(sql(FALSE)) /\ SqlCondition(f, TRUE, x) = Any3(sql(TRUE))
      BY <1>8, <2>3
    <3>2. ASSUME A # "raises"
          PROVE  (1..n \subseteq p <=> A = "true") /\ (m # {} <=> A = "false")
      <4>1. /\ A = "true" <=> \A i \in 1..n : a[i] = "true"
            /\ A = "false" => \E i \in 1..n : a[i] = "false"
        BY <1>3, <2>3
      <4>2. a \in [1..n -> Answer] /\ A \in Answer
        BY <1>1, <1>3
      <4> QED
        BY <2>1, <2>5, <3>2, <4>1, <4>2 DEF Answer
    <3> QED
      BY <2>2, <3>1, <3>2 DEF Stands
  <2>4. CASE f.kind = "or"
    <3>1. /\ SqlCondition(f, FALSE, x) = Any3(sql(FALSE)) /\ SqlCondition(f, TRUE, x) = And3(sql(TRUE))
      BY <1>8, <2>4
    <3>2. ASSUME A # "raises"
          PROVE  (p # {} <=> A = "true") /\ (1..n \subseteq m <=> A = "false")
      <4>1. /\ A = "false" <=> \A i \in 1..n : a[i] = "false"
            /\ A = "true" => \E i \in 1..n : a[i] = "true"
        BY <1>3, <2>4
      <4>2. a \in [1..n -> Answer] /\ A \in Answer
        BY <1>1, <1>3
      <4> QED
        BY <2>1, <2>5, <3>2, <4>1, <4>2 DEF Answer
    <3> QED
      BY <2>2, <3>1, <3>2 DEF Stands
  <2> QED
    BY <2>3, <2>4
<1>12. ASSUME NEW c \in BOOLEAN PROVE SqlCondition(f, c, x) = "true" <=> MongoQuery(f, c, x)
  <2> HIDE DEF sql, mongo
  <2>1. And3(sql(c)) = "true" <=> _conjunction(mongo(c))
    BY <1>6, <1>10
  <2>2. Any3(sql(c)) = "true" <=> _disjunction(mongo(c))
    BY <1>6, <1>10
  <2> QED
    BY <1>8, <2>1, <2>2
<1>13. Stands(A, Truth(MongoQuery(f, FALSE, x)), Truth(MongoQuery(f, TRUE, x)))
  <2> HIDE DEF A
  <2> QED
    BY <1>9, <1>11, <1>12, TruthIs DEF Stands
<1> QED
  BY <1>9, <1>11, <1>12, <1>13

LEMMA CustomAgrees ==
  ASSUME NEW F, NEW X, NodeEquations(F, X), NEW f \in F, NEW x \in X,
         f.kind = "custom", Agrees(f.filter, x)
  PROVE  Agrees(f, x)
<1>1. Matches(f, x) = Matches(f.filter, x)
  BY DEF NodeEquations, MatchesNode
<1>2. ~Convertible(f)
  BY DEF NodeEquations, ConvertibleNode
<1> QED
  BY <1>1, <1>2 DEF Agrees

LEMMA ValuesAgree == \A f \in ValueFilter, x \in Ids \cup Values : Agrees(f, x)
<1> DEFINE X == Ids \cup Values
           bad == {f \in ValueFilter : \E x \in X : ~Agrees(f, x)}
           T == {Height(f) : f \in bad}
<1>1. SUFFICES ASSUME bad # {} PROVE FALSE
  OBVIOUS
<1>2. NodeEquations(ValueFilter, X)
  BY FiltersAssumption
<1>3. T \in SUBSET Nat /\ T # {}
  BY <1>1, FiltersAssumption
<1>4. PICK f \in bad : \A g \in bad : Height(f) <= Height(g)
  <2>1. PICK h \in T : \A k \in T : h <= k
    <3> HIDE DEF T
    <3> QED
      BY <1>3, LeastNat
  <2> QED
    BY <2>1
<1>5. PICK x \in X : ~Agrees(f, x)
  BY <1>4
<1>6. f \in ValueFilter /\ Height(f) \in Nat
  BY <1>4, FiltersAssumption
<1>7. ASSUME NEW g \in ValueFilter, g \in Parts(f) PROVE Agrees(g, x)
  <2>1. Height(g) \in Nat /\ Height(g) < Height(f)
    BY <1>6, <1>7, FiltersAssumption
  <2>2. g \notin bad
    <3> HIDE DEF bad
    <3> QED
      BY <1>4, <1>6, <2>1
  <2> QED
    BY <2>2
<1> HIDE DEF bad, T
<1>8. CASE f.kind \in {"all", "none"}
  BY <1>2, <1>5, <1>6, <1>8, ConstantAgrees
<1>9. CASE f.kind \in {"and", "or"} /\ f.filters \in Seq(ValueFilter)
  <2>1. /\ Len(f.filters) \in Nat /\ DOMAIN f.filters = 1 .. Len(f.filters)
        /\ \A i \in 1 .. Len(f.filters) : f.filters[i] \in ValueFilter
    BY <1>9
  <2>2. \A i \in 1 .. Len(f.filters) : f.filters[i] \in Parts(f)
    BY <1>9, <2>1 DEF Parts
  <2>3. \A i \in 1 .. Len(f.filters) : Agrees(f.filters[i], x)
    BY <1>7, <2>1, <2>2
  <2> QED
    BY <1>2, <1>5, <1>6, <1>9, <2>1, <2>3, JunctionAgrees
<1>10. CASE f.kind = "not" /\ f.filter \in ValueFilter
  <2>1. Agrees(f.filter, x)
    BY <1>7, <1>10 DEF Parts
  <2> QED
    BY <1>2, <1>5, <1>6, <1>10, <2>1, NegationAgrees
<1>11. CASE f.kind = "leaf" /\ WellFormed(f)
  <2>1. x \in Column
    BY RowsAssumption DEF Column
  <2> QED
    BY <1>2, <1>5, <1>6, <1>11, <2>1, LeafAgrees
<1> QED
  BY <1>6, <1>8, <1>9, <1>10, <1>11, FiltersAssumption

(* Of every filter of a row that has a rule for each node, whatever its shape and height: on a *)
(* row of which the predicate in memory is true or false, the WHERE and the query document say *)
(* what it says, and so do those written for its complement (filter_converter.py:246-393,      *)
(* mongo_filter_converter.py:182-331).                                                         *)
THEOREM FiltersAgree == \A f \in RowFilter, x \in Row : Agrees(f, x)
<1> DEFINE bad == {f \in RowFilter : \E x \in Row : ~Agrees(f, x)}
           T == {Height(f) : f \in bad}
<1>1. SUFFICES ASSUME bad # {} PROVE FALSE
  OBVIOUS
<1>2. NodeEquations(RowFilter, Row)
  BY FiltersAssumption
<1>3. T \in SUBSET Nat /\ T # {}
  BY <1>1, FiltersAssumption
<1>4. PICK f \in bad : \A g \in bad : Height(f) <= Height(g)
  <2>1. PICK h \in T : \A k \in T : h <= k
    <3> HIDE DEF T
    <3> QED
      BY <1>3, LeastNat
  <2> QED
    BY <2>1
<1>5. PICK x \in Row : ~Agrees(f, x)
  BY <1>4
<1>6. f \in RowFilter /\ Height(f) \in Nat
  BY <1>4, FiltersAssumption
<1>7. ASSUME NEW g \in RowFilter, g \in Parts(f) PROVE Agrees(g, x)
  <2>1. Height(g) \in Nat /\ Height(g) < Height(f)
    BY <1>6, <1>7, FiltersAssumption
  <2>2. g \notin bad
    <3> HIDE DEF bad
    <3> QED
      BY <1>4, <1>6, <2>1
  <2> QED
    BY <2>2
<1> HIDE DEF bad, T
<1>8. CASE f.kind \in {"all", "none"}
  BY <1>2, <1>5, <1>6, <1>8, ConstantAgrees
<1>9. CASE f.kind \in {"and", "or"} /\ f.filters \in Seq(RowFilter)
  <2>1. /\ Len(f.filters) \in Nat /\ DOMAIN f.filters = 1 .. Len(f.filters)
        /\ \A i \in 1 .. Len(f.filters) : f.filters[i] \in RowFilter
    BY <1>9
  <2>2. \A i \in 1 .. Len(f.filters) : f.filters[i] \in Parts(f)
    BY <1>9, <2>1 DEF Parts
  <2>3. \A i \in 1 .. Len(f.filters) : Agrees(f.filters[i], x)
    BY <1>7, <2>1, <2>2
  <2> QED
    BY <1>2, <1>5, <1>6, <1>9, <2>1, <2>3, JunctionAgrees
<1>10. CASE f.kind \in {"not", "custom"} /\ f.filter \in RowFilter
  <2>1. Agrees(f.filter, x)
    BY <1>7, <1>10 DEF Parts
  <2>2. CASE f.kind = "not"
    BY <1>2, <1>5, <1>6, <2>1, <2>2, NegationAgrees
  <2>3. CASE f.kind = "custom"
    BY <1>2, <1>5, <1>6, <2>1, <2>3, CustomAgrees
  <2> QED
    BY <1>10, <2>2, <2>3
<1>11. CASE f.kind = "attr" /\ f.attribute \in Fields /\ f.filter \in ValueFilter
  <2>1. x[f.attribute] \in Ids \cup Values
    BY <1>5, <1>11 DEF Row
  <2>2. Agrees(f.filter, x[f.attribute])
    BY <1>11, <2>1, ValuesAgree
  <2> QED
    BY <1>2, <1>5, <1>6, <1>11, <2>2, AttrAgrees
<1> QED
  BY <1>6, <1>8, <1>9, <1>10, <1>11, FiltersAssumption

-----------------------------------------------------------------------------
(* The constructors.  What and_() makes of a conjunction keeps the rows    *)
(* that the conjunction keeps, though it may raise less.                   *)

Members(s) == {s[i] : i \in 1 .. Len(s)}

(* What a child puts into its parent's flattened list. *)
Piece(f, kind) == IF f.kind = kind THEN Flattened(f.filters, kind) ELSE <<f>>

LEMMA FlattenedAre ==
  ASSUME NEW R, NEW kind, NEW fs \in Seq(R), \A n \in 1 .. Len(fs) : Piece(fs[n], kind) \in Seq(R)
  PROVE  /\ FlattenedNode(fs, kind) \in Seq(R)
         /\ Members(FlattenedNode(fs, kind)) = UNION {Members(Piece(fs[n], kind)) : n \in 1 .. Len(fs)}
<1> DEFINE N == Len(fs)
           step == [n \in 1..N |-> [s \in Seq(R) |-> s \o Piece(fs[n], kind)]]
           isOut(g) == g = [n \in 0..N |-> IF n = 0 THEN <<>> ELSE g[n - 1] \o Piece(fs[n], kind)]
           out == CHOOSE g : isOut(g)
<1>1. N \in Nat /\ <<>> \in Seq(R) /\ step \in [1..N -> [Seq(R) -> Seq(R)]]
  OBVIOUS
<1>2. PICK g \in [0..N -> Seq(R)] : Recurs(g, N, <<>>, step)
  <2> HIDE DEF N, step
  <2> QED
    BY <1>1, Recursion
<1>3. isOut(g)
  <2>1. g[0] = <<>> /\ \A n \in 1..N : g[n] = g[n - 1] \o Piece(fs[n], kind)
    <3>1. \A n \in 1..N : n - 1 \in 0..N /\ g[n - 1] \in Seq(R)
      BY <1>1
    <3> QED
      BY <1>2, <3>1 DEF Recurs
  <2> HIDE DEF N
  <2>2. \A n \in 0..N : n # 0 => n \in 1..N
    BY <1>1
  <2> QED
    BY <1>1, <2>1, <2>2
<1>4. isOut(out)
  BY <1>3
<1> HIDE DEF out
<1>5. /\ out[0] = <<>>
      /\ \A n \in 1..N : out[n] = out[n - 1] \o Piece(fs[n], kind)
  <2>1. out = [n \in 0..N |-> IF n = 0 THEN <<>> ELSE out[n - 1] \o Piece(fs[n], kind)]
    BY <1>4
  <2>2. N \in Nat
    BY <1>1
  <2> HIDE DEF N
  <2>3. 0 \in 0..N /\ \A n \in 1..N : n \in 0..N /\ n # 0
    BY <2>2
  <2> QED
    BY <2>1, <2>3
<1>6. FlattenedNode(fs, kind) = out[N]
  BY DEF FlattenedNode, out, Piece
<1> DEFINE Holds(n) == /\ out[n] \in Seq(R)
                       /\ Members(out[n]) = UNION {Members(Piece(fs[i], kind)) : i \in 1..n}
           T == {n \in 0..N : Holds(n)}
<1>7. 0 \in T
  <2>1. out[0] \in Seq(R) /\ Len(out[0]) = 0
    BY <1>1, <1>5
  <2>2. Members(out[0]) = {}
    BY <2>1 DEF Members
  <2> QED
    BY <1>1, <2>1, <2>2
<1>8. ASSUME NEW n \in 1..N, n - 1 \in T PROVE n \in T
  <2>1. /\ out[n - 1] \in Seq(R) /\ Piece(fs[n], kind) \in Seq(R)
        /\ Members(out[n - 1]) = UNION {Members(Piece(fs[i], kind)) : i \in 1..(n - 1)}
    BY <1>8
  <2>2. out[n] = out[n - 1] \o Piece(fs[n], kind)
    BY <1>5
  <2>3. Members(out[n]) = Members(out[n - 1]) \cup Members(Piece(fs[n], kind))
    <3> DEFINE s == out[n - 1]
               t == Piece(fs[n], kind)
    <3> HIDE DEF s, t
    <3>1. s \in Seq(R) /\ t \in Seq(R)
      BY <2>1 DEF s, t
    <3>2. /\ Len(s \o t) = Len(s) + Len(t) /\ Len(s) \in Nat /\ Len(t) \in Nat
          /\ \A i \in 1 .. Len(s) : (s \o t)[i] = s[i]
          /\ \A i \in 1 .. Len(t) : (s \o t)[Len(s) + i] = t[i]
      BY <3>1
    <3>3. \A i \in 1 .. Len(s \o t) : i \in 1 .. Len(s) \/ (i - Len(s) \in 1 .. Len(t) /\ i = Len(s) + (i - Len(s)))
      BY <3>2
    <3>4. Members(s \o t) \subseteq Members(s) \cup Members(t)
      BY <3>2, <3>3 DEF Members
    <3>5. Members(s) \subseteq Members(s \o t) /\ Members(t) \subseteq Members(s \o t)
      <4>1. \A i \in 1 .. Len(s) : i \in 1 .. Len(s \o t)
        BY <3>2
      <4>2. \A i \in 1 .. Len(t) : Len(s) + i \in 1 .. Len(s \o t)
        BY <3>2
      <4> QED
        BY <3>2, <4>1, <4>2 DEF Members
    <3>6. Members(s \o t) = Members(s) \cup Members(t)
      BY <3>4, <3>5
    <3> QED
      BY <2>2, <3>6 DEF s, t
  <2>4. \A i : i \in 1..n <=> i \in 1..(n - 1) \/ i = n
    OBVIOUS
  <2>5. Holds(n)
    BY <2>1, <2>2, <2>3, <2>4
  <2> QED
    BY <2>5
<1>9. N \in T
  <2> HIDE DEF T
  <2>1. 0..N \subseteq T
    BY <1>1, <1>7, <1>8, UpTo
  <2> QED
    BY <1>1, <2>1
<1> QED
  BY <1>6, <1>9

LEMMA WithoutAre ==
  ASSUME NEW R, NEW identity, NEW fs \in Seq(R)
  PROVE  Without(identity, fs) \in Seq(R) /\ Members(Without(identity, fs)) = Members(fs) \ {identity}
<1> DEFINE N == Len(fs)
           grown(s, n) == IF fs[n] = identity THEN s ELSE Append(s, fs[n])
           step == [n \in 1..N |-> [s \in Seq(R) |-> grown(s, n)]]
           isKept(g) == g = [n \in 0..N |-> IF n = 0 THEN <<>>
                                            ELSE IF fs[n] = identity THEN g[n - 1]
                                            ELSE Append(g[n - 1], fs[n])]
           kept == CHOOSE g : isKept(g)
<1>1. N \in Nat /\ <<>> \in Seq(R) /\ step \in [1..N -> [Seq(R) -> Seq(R)]]
  OBVIOUS
<1>2. PICK g \in [0..N -> Seq(R)] : Recurs(g, N, <<>>, step)
  <2> HIDE DEF N, step
  <2> QED
    BY <1>1, Recursion
<1>3. isKept(g)
  <2>1. g[0] = <<>> /\ \A n \in 1..N : g[n] = grown(g[n - 1], n)
    <3>1. \A n \in 1..N : n - 1 \in 0..N /\ g[n - 1] \in Seq(R)
      BY <1>1
    <3> QED
      BY <1>2, <3>1 DEF Recurs
  <2>2. N \in Nat
    BY <1>1
  <2> HIDE DEF N
  <2>3. \A n \in 0..N : n # 0 => n \in 1..N
    BY <2>2
  <2> QED
    BY <1>2, <2>1, <2>3
<1>4. isKept(kept)
  BY <1>3
<1> HIDE DEF kept
<1>5. kept[0] = <<>> /\ \A n \in 1..N : kept[n] = grown(kept[n - 1], n)
  <2>1. kept = [n \in 0..N |-> IF n = 0 THEN <<>> ELSE grown(kept[n - 1], n)]
    BY <1>4
  <2>2. N \in Nat
    BY <1>1
  <2> HIDE DEF N, grown
  <2>3. 0 \in 0..N /\ \A n \in 1..N : n \in 0..N /\ n # 0
    BY <2>2
  <2> QED
    BY <2>1, <2>3
<1>6. Without(identity, fs) = kept[N]
  BY DEF Without, kept
<1> DEFINE Before_(n) == {fs[i] : i \in 1..n} \ {identity}
           T == {n \in 0..N : kept[n] \in Seq(R) /\ Members(kept[n]) = Before_(n)}
<1>7. 0 \in T
  <2>1. kept[0] \in Seq(R) /\ Len(kept[0]) = 0
    BY <1>1, <1>5
  <2>2. Members(kept[0]) = {}
    BY <2>1 DEF Members
  <2> QED
    BY <1>1, <2>1, <2>2
<1>8. ASSUME NEW n \in 1..N, n - 1 \in T PROVE n \in T
  <2>1. kept[n - 1] \in Seq(R) /\ Members(kept[n - 1]) = Before_(n - 1)
    BY <1>8
  <2>2. \A i : i \in 1..n <=> i \in 1..(n - 1) \/ i = n
    OBVIOUS
  <2>3. fs[n] \in R
    OBVIOUS
  <2>4. CASE fs[n] = identity
    <3>1. kept[n] = kept[n - 1]
      BY <1>5, <2>4
    <3>2. Before_(n) = Before_(n - 1)
      BY <2>2, <2>4
    <3>3. kept[n] \in Seq(R) /\ Members(kept[n]) = Before_(n)
      BY <2>1, <3>1, <3>2
    <3> QED
      BY <3>3
  <2>5. CASE fs[n] # identity
    <3>1. kept[n] = Append(kept[n - 1], fs[n])
      BY <1>5, <2>5
    <3>2. Before_(n) = Before_(n - 1) \cup {fs[n]}
      BY <2>2, <2>5
    <3> DEFINE s == kept[n - 1]
               t == kept[n]
    <3>3. /\ t \in Seq(R) /\ Len(s) \in Nat /\ Len(t) = Len(s) + 1 /\ t[Len(t)] = fs[n]
          /\ \A i \in 1 .. Len(s) : t[i] = s[i]
      BY <2>1, <2>3, <3>1
    <3> HIDE DEF s, t
    <3>4. \A i : i \in 1 .. Len(t) <=> i \in 1 .. Len(s) \/ i = Len(t)
      BY <3>3
    <3>5. Members(t) = Members(s) \cup {fs[n]}
      BY <3>3, <3>4 DEF Members
    <3>6. kept[n] \in Seq(R) /\ Members(kept[n]) = Members(kept[n - 1]) \cup {fs[n]}
      BY <3>3, <3>5 DEF s, t
    <3>7. Members(kept[n]) = Before_(n)
      BY <2>1, <3>2, <3>6
    <3> QED
      BY <3>6, <3>7
  <2> QED
    BY <2>4, <2>5
<1>9. N \in T
  <2> HIDE DEF T
  <2>1. 0..N \subseteq T
    BY <1>1, <1>7, <1>8, UpTo
  <2> QED
    BY <1>1, <2>1
<1> QED
  BY <1>6, <1>9 DEF Members

RuledOut(b, f) == b # "list" /\ ~Convertible(f)

(* A conjunction in memory, and in the condition a backend keeps rows by. *)
LEMMA AndIs ==
  ASSUME NEW f \in RowFilter, f.kind = "and", NEW x \in Row
  PROVE  /\ f.filters \in Seq(RowFilter)
         /\ Matches(f, x) = "true" <=> \A g \in Members(f.filters) : Matches(g, x) = "true"
         /\ Matches(f, x) = "false" => \E g \in Members(f.filters) : Matches(g, x) = "false"
         /\ Convertible(f) <=> \A g \in Members(f.filters) : Convertible(g)
         /\ \A b \in Backends : ~RuledOut(b, f) /\ Kept(b, f, x) =>
              \A g \in Members(f.filters) : ~RuledOut(b, g) /\ Kept(b, g, x)
<1>1. f.filters \in Seq(RowFilter) /\ NodeEquations(RowFilter, Row)
  BY FiltersAssumption
<1> DEFINE n == Len(f.filters)
           a == [i \in 1..n |-> Matches(f.filters[i], x)]
<1>2. /\ n \in Nat /\ DOMAIN f.filters = 1..n /\ \A i \in 1..n : f.filters[i] \in RowFilter
      /\ \A g : g \in Members(f.filters) <=> \E i \in 1..n : g = f.filters[i]
  BY <1>1 DEF Members
<1> HIDE DEF n
<1>3. a \in [1..n -> Answer]
  BY <1>2, FiltersAgree DEF Agrees
<1>4. Matches(f, x) = FirstOf("false", "true", a)
  <2>1. Matches(f, x) = MatchesNode(f, x)
    BY <1>1 DEF NodeEquations
  <2>2. a = [i \in DOMAIN f.filters |-> Matches(f.filters[i], x)]
    BY <1>2
  <2> HIDE DEF a
  <2> QED
    BY <2>1, <2>2 DEF MatchesNode
<1>5. /\ Matches(f, x) = "true" <=> \A i \in 1..n : a[i] = "true"
      /\ Matches(f, x) = "false" => \E i \in 1..n : a[i] = "false"
  <2> HIDE DEF a
  <2> QED
    BY <1>2, <1>3, <1>4, FirstDecides
<1>6. /\ Matches(f, x) = "true" <=> \A g \in Members(f.filters) : Matches(g, x) = "true"
      /\ Matches(f, x) = "false" => \E g \in Members(f.filters) : Matches(g, x) = "false"
  BY <1>2, <1>5
<1>7. Convertible(f) <=> \A i \in 1..n : Convertible(f.filters[i])
  <2>1. Convertible(f) = ConvertibleNode(f)
    BY <1>1 DEF NodeEquations
  <2> QED
    BY <1>2, <2>1 DEF ConvertibleNode
<1>8. Convertible(f) <=> \A g \in Members(f.filters) : Convertible(g)
  BY <1>2, <1>7
<1>9. ASSUME NEW b \in Backends, ~RuledOut(b, f), Kept(b, f, x), NEW g \in Members(f.filters)
      PROVE  ~RuledOut(b, g) /\ Kept(b, g, x)
  <2>1. ~RuledOut(b, g)
    BY <1>8, <1>9 DEF RuledOut
  <2>2. PICK i \in 1..n : g = f.filters[i]
    BY <1>2, <1>9
  <2>3. CASE b = "list"
    BY <1>6, <1>9, <2>1, <2>3 DEF Kept
  <2>4. CASE b = "sql"
    <3>1. SqlCondition(f, FALSE, x) = SqlNode(f, FALSE, x)
      BY <1>1, <1>9, <2>4 DEF NodeEquations, RuledOut
    <3>2. SqlNode(f, FALSE, x) = And3({SqlCondition(f.filters[j], FALSE, x) : j \in DOMAIN f.filters})
      BY DEF SqlNode
    <3>3. SqlCondition(f, FALSE, x) = "true"
      BY <1>9, <2>4 DEF Kept
    <3>4. /\ {SqlCondition(f.filters[j], FALSE, x) : j \in DOMAIN f.filters} \subseteq ThreeValued
      BY <1>2, <1>7, <1>9, <2>4, FiltersAgree DEF Agrees, RuledOut
    <3>5. \A t \in {SqlCondition(f.filters[j], FALSE, x) : j \in DOMAIN f.filters} : t = "true"
      <4> HIDE DEF n
      <4> DEFINE ts == {SqlCondition(f.filters[j], FALSE, x) : j \in DOMAIN f.filters}
      <4>1. ts \subseteq ThreeValued /\ And3(ts) = "true"
        BY <3>1, <3>2, <3>3, <3>4
      <4> HIDE DEF ts
      <4>2. \A t \in ts : t = "true"
        BY <4>1, Tables3
      <4> QED
        BY <4>2 DEF ts
    <3>6. SqlCondition(g, FALSE, x) = "true"
      BY <1>2, <2>2, <3>5
    <3> QED
      BY <2>1, <2>4, <3>6 DEF Kept
  <2>5. CASE b = "mongo"
    <3>1. MongoQuery(f, FALSE, x) = MongoNode(f, FALSE, x)
      BY <1>1, <1>9, <2>5 DEF NodeEquations, RuledOut
    <3>2. MongoNode(f, FALSE, x) = _conjunction({MongoQuery(f.filters[j], FALSE, x) : j \in DOMAIN f.filters})
      BY DEF MongoNode
    <3>3. MongoQuery(f, FALSE, x)
      BY <1>9, <2>5 DEF Kept
    <3>4. MongoQuery(g, FALSE, x) \in BOOLEAN
      BY <1>2, <1>7, <1>9, <2>2, <2>5, FiltersAgree DEF Agrees, RuledOut
    <3>5. MongoQuery(g, FALSE, x)
      BY <1>2, <2>2, <3>1, <3>2, <3>3, <3>4 DEF _conjunction
    <3> QED
      BY <2>1, <2>5, <3>5 DEF Kept
  <2> QED
    BY <2>3, <2>4, <2>5 DEF Backends
<1> QED
  BY <1>1, <1>6, <1>8, <1>9

(* A filter and those that are and-ed to it: itself, or what a conjunction is flattened to. *)
Together(P, f) ==
  /\ P \subseteq RowFilter
  /\ Convertible(f) => \A p \in P : Convertible(p)
  /\ \A x \in Row :
       /\ Matches(f, x) = "true" <=> \A p \in P : Matches(p, x) = "true"
       /\ Matches(f, x) = "false" => \E p \in P : Matches(p, x) = "false"
       /\ \A b \in Backends : ~RuledOut(b, f) /\ Kept(b, f, x) =>
            \A p \in P : ~RuledOut(b, p) /\ Kept(b, p, x)

Whole(f) == Piece(f, "and") \in Seq(RowFilter) /\ Together(Members(Piece(f, "and")), f)

LEMMA Alone ==
  ASSUME NEW f \in RowFilter, f.kind # "and"
  PROVE  Whole(f) /\ Members(Piece(f, "and")) = {f}
<1>1. Piece(f, "and") = <<f>> /\ <<f>> \in Seq(RowFilter)
  BY DEF Piece
<1>2. Members(<<f>>) = {f}
  BY DEF Members
<1> QED
  BY <1>1, <1>2 DEF Whole, Together

LEMMA NodeIsWhole ==
  ASSUME NEW f \in RowFilter, f.kind = "and", \A g \in Members(f.filters) : Whole(g)
  PROVE  /\ Whole(f)
         /\ Members(Piece(f, "and")) = UNION {Members(Piece(g, "and")) : g \in Members(f.filters)}
<1> DEFINE fs == f.filters
           flat == Flattened(fs, "and")
           P == Members(flat)
<1>1. fs \in Seq(RowFilter) /\ flat = FlattenedNode(fs, "and")
  BY FiltersAssumption DEF NodeEquations
<1>2. \A n \in 1 .. Len(fs) : fs[n] \in Members(fs)
  BY DEF Members
<1>3. \A n \in 1 .. Len(fs) : Piece(fs[n], "and") \in Seq(RowFilter)
  BY <1>2 DEF Whole
<1>4. /\ flat \in Seq(RowFilter)
      /\ P = UNION {Members(Piece(fs[n], "and")) : n \in 1 .. Len(fs)}
  BY <1>1, <1>3, FlattenedAre
<1>5. P = UNION {Members(Piece(g, "and")) : g \in Members(fs)}
  <2> HIDE DEF P, fs
  <2>1. \A g : g \in Members(fs) <=> \E n \in 1 .. Len(fs) : g = fs[n]
    BY DEF Members
  <2>2. ASSUME NEW p \in P PROVE p \in UNION {Members(Piece(g, "and")) : g \in Members(fs)}
    <3>1. PICK n \in 1 .. Len(fs) : p \in Members(Piece(fs[n], "and"))
      BY <1>4, <2>2
    <3>2. fs[n] \in Members(fs)
      BY <2>1
    <3> QED
      BY <3>1, <3>2
  <2>3. ASSUME NEW g \in Members(fs), NEW p \in Members(Piece(g, "and")) PROVE p \in P
    <3>1. PICK n \in 1 .. Len(fs) : g = fs[n]
      BY <2>1
    <3>2. p \in Members(Piece(fs[n], "and"))
      BY <3>1
    <3> QED
      BY <1>4, <3>2
  <2> QED
    BY <2>2, <2>3
<1>6. Piece(f, "and") = flat
  BY DEF Piece
<1>7. P \subseteq RowFilter
  BY <1>4 DEF Members
<1> HIDE DEF P, flat
<1>8. \A p \in P : \E g \in Members(fs) : p \in Members(Piece(g, "and"))
  BY <1>5
<1>9. \A g \in Members(fs) : Together(Members(Piece(g, "and")), g) /\ Members(Piece(g, "and")) \subseteq P
  BY <1>5 DEF Whole
<1>10. ASSUME NEW x \in Row
       PROVE  /\ Convertible(f) => \A p \in P : Convertible(p)
              /\ Matches(f, x) = "true" <=> \A p \in P : Matches(p, x) = "true"
              /\ Matches(f, x) = "false" => \E p \in P : Matches(p, x) = "false"
              /\ \A b \in Backends : ~RuledOut(b, f) /\ Kept(b, f, x) =>
                   \A p \in P : ~RuledOut(b, p) /\ Kept(b, p, x)
  <2>1. /\ Matches(f, x) = "true" <=> \A g \in Members(fs) : Matches(g, x) = "true"
        /\ Matches(f, x) = "false" => \E g \in Members(fs) : Matches(g, x) = "false"
        /\ Convertible(f) => \A g \in Members(fs) : Convertible(g)
        /\ \A b \in Backends : ~RuledOut(b, f) /\ Kept(b, f, x) =>
             \A g \in Members(fs) : ~RuledOut(b, g) /\ Kept(b, g, x)
    BY AndIs
  <2>2. Convertible(f) => \A p \in P : Convertible(p)
    BY <1>8, <1>9, <2>1 DEF Together
  <2>3. Matches(f, x) = "true" <=> \A p \in P : Matches(p, x) = "true"
    BY <1>8, <1>9, <2>1 DEF Together
  <2>4. Matches(f, x) = "false" => \E p \in P : Matches(p, x) = "false"
    BY <1>9, <2>1 DEF Together
  <2>5. ASSUME NEW b \in Backends, ~RuledOut(b, f), Kept(b, f, x), NEW p \in P
        PROVE  ~RuledOut(b, p) /\ Kept(b, p, x)
    <3>1. PICK g \in Members(fs) : p \in Members(Piece(g, "and"))
      BY <1>8
    <3>2. ~RuledOut(b, g) /\ Kept(b, g, x)
      BY <2>1, <2>5
    <3> QED
      BY <1>9, <3>1, <3>2 DEF Together
  <2> QED
    BY <2>2, <2>3, <2>4, <2>5
<1>11. Convertible(f) => \A p \in P : Convertible(p)
  <2>1. ASSUME NEW p \in P, Convertible(f) PROVE Convertible(p)
    <3>1. PICK g \in Members(fs) : p \in Members(Piece(g, "and"))
      BY <1>8
    <3>2. Convertible(g)
      <4>1. Convertible(f) = ConvertibleNode(f)
        BY FiltersAssumption DEF NodeEquations
      <4>2. DOMAIN fs = 1 .. Len(fs)
        BY <1>1
      <4>3. PICK i \in 1 .. Len(fs) : g = fs[i]
        BY DEF Members
      <4> QED
        BY <2>1, <4>1, <4>2, <4>3 DEF ConvertibleNode
    <3> QED
      BY <1>9, <3>1, <3>2 DEF Together
  <2> QED
    BY <2>1
<1>12. Together(P, f)
  BY <1>7, <1>10, <1>11 DEF Together
<1> QED
  BY <1>4, <1>5, <1>6, <1>12 DEF Whole, P

LEMMA AllWhole == \A f \in RowFilter : Whole(f)
<1> DEFINE bad == {f \in RowFilter : ~Whole(f)}
           T == {Height(f) : f \in bad}
<1>1. SUFFICES ASSUME bad # {} PROVE FALSE
  OBVIOUS
<1>2. T \in SUBSET Nat /\ T # {}
  BY <1>1, FiltersAssumption
<1>3. PICK f \in bad : \A g \in bad : Height(f) <= Height(g)
  <2>1. PICK h \in T : \A k \in T : h <= k
    <3> HIDE DEF T
    <3> QED
      BY <1>2, LeastNat
  <2> QED
    BY <2>1
<1>4. f \in RowFilter /\ Height(f) \in Nat /\ ~Whole(f)
  BY <1>3, FiltersAssumption
<1> HIDE DEF bad, T
<1>5. f.kind = "and"
  BY <1>4, Alone
<1>6. f.filters \in Seq(RowFilter)
  BY <1>4, <1>5, FiltersAssumption
<1>7. ASSUME NEW g \in Members(f.filters) PROVE Whole(g)
  <2>1. g \in RowFilter /\ g \in Parts(f)
    BY <1>5, <1>6 DEF Members, Parts
  <2>2. Height(g) \in Nat /\ Height(g) < Height(f)
    BY <1>4, <2>1, FiltersAssumption
  <2>3. g \notin bad
    BY <1>3, <1>4, <2>2
  <2> QED
    BY <2>1, <2>3 DEF bad
<1> QED
  BY <1>4, <1>5, <1>7, NodeIsWhole

(* The four results of and_(). *)
LEMMA JoinedIs ==
  ASSUME NEW fs, AndNode(fs) \in RowFilter
  PROVE  LET P == Members(Piece(AndNode(fs), "and"))
             J == and_(fs)
         IN \/ NoMatch \in P /\ J = NoMatch
            \/ P \subseteq {All} /\ J = All
            \/ J \in P /\ P \subseteq {All, J}
            \/ J.kind = "and" /\ Members(J.filters) = P \ {All}
<1> DEFINE flat == Flattened(fs, "and")
           kept == Without(All, flat)
           P == Members(flat)
           J == and_(fs)
           absorbed == \E i \in DOMAIN flat : flat[i] = NoMatch
<1>1. Piece(AndNode(fs), "and") = flat
  BY DEF Piece, AndNode
<1>2. flat \in Seq(RowFilter)
  BY <1>1, AllWhole DEF Whole
<1>3. kept \in Seq(RowFilter) /\ Members(kept) = P \ {All}
  BY <1>2, WithoutAre
<1>4. J = CASE absorbed      -> NoMatch
            [] kept = <<>>   -> All
            [] Len(kept) = 1 -> kept[1]
            [] OTHER         -> [kind |-> "and", filters |-> kept]
  BY DEF and_, Joined
<1>5. absorbed <=> NoMatch \in P
  BY <1>2 DEF Members
<1>6. Piece(AndNode(fs), "and") = flat /\ Members(Piece(AndNode(fs), "and")) = P
  BY <1>1
<1> HIDE DEF flat, kept, J, P, absorbed
<1>7. CASE NoMatch \in P
  <2>1. NoMatch # All
    BY DEF NoMatch, All
  <2>2. NoMatch \in Members(kept)
    BY <1>3, <1>7, <2>1
  <2>3. kept # <<>> /\ (Len(kept) = 1 => kept[1] = NoMatch)
    BY <1>3, <2>2 DEF Members
  <2>4. J = NoMatch
    <3>1. CASE Len(kept) = 1
      BY <1>4, <1>5, <1>7, <2>3, <3>1
    <3>2. CASE Len(kept) # 1
      BY <1>4, <1>5, <1>7, <2>3, <3>2
    <3> QED
      BY <3>1, <3>2
  <2> QED
    BY <1>6, <1>7, <2>4 DEF J
<1>8. CASE NoMatch \notin P /\ kept = <<>>
  <2>1. J = All
    BY <1>4, <1>5, <1>8
  <2>2. Members(kept) = {}
    BY <1>8 DEF Members
  <2>3. P \subseteq {All}
    BY <1>3, <2>2
  <2> QED
    BY <1>6, <2>1, <2>3 DEF J
<1>9. CASE NoMatch \notin P /\ kept # <<>> /\ Len(kept) = 1
  <2>1. J = kept[1]
    BY <1>4, <1>5, <1>9
  <2>2. Members(kept) = {J}
    BY <1>9, <2>1 DEF Members
  <2> QED
    BY <1>3, <1>6, <2>2 DEF J
<1>10. CASE NoMatch \notin P /\ kept # <<>> /\ Len(kept) # 1
  <2>1. J = [kind |-> "and", filters |-> kept]
    BY <1>4, <1>5, <1>10
  <2>2. J.kind = "and" /\ J.filters = kept
    BY <2>1
  <2> QED
    BY <1>3, <1>6, <2>2 DEF J
<1> QED
  BY <1>7, <1>8, <1>9, <1>10

(* Something that is and-ed keeps the row out of every backend. *)
Refuted(f, x) == \E p \in Members(Piece(f, "and")) : Matches(p, x) = "false"

LEMMA RefutedIs ==
  ASSUME NEW f \in RowFilter, NEW x \in Row
  PROVE  /\ Matches(f, x) = "false" => Refuted(f, x)
         /\ f.kind = "and" => (Refuted(f, x) <=> \E g \in Members(f.filters) : Refuted(g, x))
         /\ Refuted(f, x) => \A b \in Backends : ~RuledOut(b, f) => ~Kept(b, f, x)
<1>1. Whole(f)
  BY AllWhole
<1>2. Matches(f, x) = "false" => Refuted(f, x)
  BY <1>1 DEF Whole, Together, Refuted
<1>3. ASSUME f.kind = "and"
      PROVE  Refuted(f, x) <=> \E g \in Members(f.filters) : Refuted(g, x)
  <2>1. f.filters \in Seq(RowFilter)
    BY <1>3, FiltersAssumption
  <2>2. \A g \in Members(f.filters) : Whole(g)
    BY <2>1, AllWhole DEF Members
  <2>3. Members(Piece(f, "and")) = UNION {Members(Piece(g, "and")) : g \in Members(f.filters)}
    BY <1>3, <2>2, NodeIsWhole
  <2> QED
    BY <2>3 DEF Refuted
<1>4. ASSUME NEW p \in Members(Piece(f, "and")), Matches(p, x) = "false", NEW b \in Backends,
             ~RuledOut(b, f), Kept(b, f, x)
      PROVE  FALSE
  <2>1. p \in RowFilter /\ ~RuledOut(b, p) /\ Kept(b, p, x)
    BY <1>1, <1>4 DEF Whole, Together
  <2>2. Agrees(p, x)
    BY <2>1, FiltersAgree
  <2> QED
    BY <1>4, <2>1, <2>2 DEF Backends, Kept, RuledOut, Agrees, Stands, Truth
<1> QED
  BY <1>2, <1>3, <1>4 DEF Refuted

LEMMA ConstantsAre ==
  ASSUME NEW x \in Row
  PROVE  /\ All \in RowFilter => Matches(All, x) = "true" /\ Convertible(All)
         /\ NoMatch \in RowFilter => Matches(NoMatch, x) = "false" /\ Convertible(NoMatch)
<1>1. All.kind = "all" /\ NoMatch.kind = "none"
  BY DEF All, NoMatch
<1>2. NodeEquations(RowFilter, Row)
  BY FiltersAssumption
<1>3. MatchesNode(All, x) = "true" /\ ConvertibleNode(All)
  BY <1>1 DEF MatchesNode, ConvertibleNode
<1>4. MatchesNode(NoMatch, x) = "false" /\ ConvertibleNode(NoMatch)
  BY <1>1 DEF MatchesNode, ConvertibleNode
<1> QED
  BY <1>2, <1>3, <1>4 DEF NodeEquations

(* and_() keeps what the conjunction keeps, and refutes what it refutes. *)
LEMMA JoinedKeeps ==
  ASSUME NEW fs, AndNode(fs) \in RowFilter, and_(fs) \in RowFilter, NEW x \in Row
  PROVE  /\ Matches(and_(fs), x) = "true" <=> Matches(AndNode(fs), x) = "true"
         /\ Convertible(AndNode(fs)) => Convertible(and_(fs))
         /\ Refuted(AndNode(fs), x) => Refuted(and_(fs), x)
<1> DEFINE f == AndNode(fs)
           J == and_(fs)
           P == Members(Piece(f, "and"))
<1>1. /\ P \subseteq RowFilter
      /\ Convertible(f) => \A p \in P : Convertible(p)
      /\ Matches(f, x) = "true" <=> \A p \in P : Matches(p, x) = "true"
  BY AllWhole DEF Whole, Together
<1>2. Refuted(f, x) <=> \E p \in P : Matches(p, x) = "false"
  BY DEF Refuted
<1>3. \/ NoMatch \in P /\ J = NoMatch
      \/ P \subseteq {All} /\ J = All
      \/ J \in P /\ P \subseteq {All, J}
      \/ J.kind = "and" /\ Members(J.filters) = P \ {All}
  BY JoinedIs
<1>4. f \in RowFilter /\ J \in RowFilter
  OBVIOUS
<1>5. /\ All \in RowFilter => Matches(All, x) = "true" /\ Convertible(All)
      /\ NoMatch \in RowFilter => Matches(NoMatch, x) = "false" /\ Convertible(NoMatch)
  BY ConstantsAre
<1>6. SUFFICES /\ Matches(J, x) = "true" <=> Matches(f, x) = "true"
               /\ Convertible(f) => Convertible(J)
               /\ Refuted(f, x) => Refuted(J, x)
  OBVIOUS
<1> HIDE DEF f, J, P
<1>7. /\ Matches(J, x) = "false" => Refuted(J, x)
      /\ J.kind = "and" => (Refuted(J, x) <=> \E g \in Members(J.filters) : Refuted(g, x))
  BY <1>4, RefutedIs
<1>8. CASE NoMatch \in P /\ J = NoMatch
  BY <1>1, <1>4, <1>5, <1>7, <1>8
<1>9. CASE P \subseteq {All} /\ J = All
  BY <1>1, <1>2, <1>4, <1>5, <1>9
<1>10. CASE J \in P /\ P \subseteq {All, J}
  BY <1>1, <1>2, <1>4, <1>5, <1>7, <1>10
<1>11. CASE J.kind = "and" /\ Members(J.filters) = P \ {All}
  <2>1. /\ Matches(J, x) = "true" <=> \A g \in P \ {All} : Matches(g, x) = "true"
        /\ Convertible(J) <=> \A g \in P \ {All} : Convertible(g)
    BY <1>4, <1>11, AndIs
  <2>2. Matches(J, x) = "true" <=> Matches(f, x) = "true"
    BY <1>1, <1>5, <2>1
  <2>3. Convertible(f) => Convertible(J)
    BY <1>1, <2>1
  <2>4. ASSUME Refuted(f, x) PROVE Refuted(J, x)
    <3>1. PICK p \in P : Matches(p, x) = "false"
      BY <1>2, <2>4
    <3>2. p \in P \ {All} /\ p \in RowFilter
      BY <1>1, <1>5, <3>1
    <3>3. Refuted(p, x)
      BY <3>1, <3>2, RefutedIs
    <3> QED
      BY <1>7, <1>11, <3>2, <3>3
  <2> QED
    BY <2>2, <2>3, <2>4
<1> QED
  BY <1>3, <1>8, <1>9, <1>10, <1>11

(* What a search filters by keeps the rows that were asked for, and none   *)
(* that what was asked for excludes.                                       *)
LEMMA CombinedKeeps ==
  ASSUME NEW policy \in Policies, NEW clauses \in ClauseLists, NEW x \in Row
  PROVE  LET f == Asked(policy, clauses)
             J == Combined(policy, clauses)
         IN /\ f \in RowFilter /\ J \in RowFilter
            /\ Convertible(f) => Convertible(J)
            /\ Matches(J, x) = "true" <=> Matches(f, x) = "true"
            /\ \A b \in Backends : ~RuledOut(b, J) =>
                 /\ Matches(f, x) = "true" => Kept(b, J, x)
                 /\ Matches(f, x) = "false" => ~Kept(b, J, x)
<1> DEFINE attrs == [i \in DOMAIN clauses |->
                       AttrNode(clauses[i].attribute, Leaf(clauses[i].op, clauses[i].value))]
           A == AndNode(attrs)
           B == and_(attrs)
           f == AndNode(<<policy, A>>)
           G == AndNode(<<policy, B>>)
           J == and_(<<policy, B>>)
<1>1. f = Asked(policy, clauses)
  BY DEF Asked
<1>2. B = build_filter(clauses)
  <2>1. \A a, op, v : attr(a, Leaf(op, v)) = AttrNode(a, Leaf(op, v))
    BY DEF attr, Leaf
  <2> QED
    BY <2>1 DEF build_filter
<1>3. J = Combined(policy, clauses)
  BY <1>2 DEF Combined
<1>4. f \in RowFilter /\ G \in RowFilter /\ J \in RowFilter
  BY <1>1, <1>2, <1>3, FiltersAssumption
<1>5. f.kind = "and" /\ G.kind = "and" /\ f.filters = <<policy, A>> /\ G.filters = <<policy, B>>
  BY DEF AndNode
<1>6. Members(<<policy, A>>) = {policy, A} /\ Members(<<policy, B>>) = {policy, B}
  BY DEF Members
<1>7. policy \in RowFilter /\ A \in RowFilter /\ B \in RowFilter
  <2>1. <<policy, A>> \in Seq(RowFilter) /\ <<policy, B>> \in Seq(RowFilter)
    BY <1>4, <1>5, FiltersAssumption
  <2> HIDE DEF A, B
  <2> QED
    BY <2>1
<1>8. /\ Matches(B, x) = "true" <=> Matches(A, x) = "true"
      /\ Convertible(A) => Convertible(B)
      /\ Refuted(A, x) => Refuted(B, x)
  BY <1>7, JoinedKeeps
<1>9. /\ Matches(J, x) = "true" <=> Matches(G, x) = "true"
      /\ Convertible(G) => Convertible(J)
      /\ Refuted(G, x) => Refuted(J, x)
  <2> HIDE DEF B
  <2> QED
    BY <1>4, JoinedKeeps
<1> HIDE DEF f, G, A, B, J
<1>10. /\ Matches(f, x) = "true" <=> Matches(policy, x) = "true" /\ Matches(A, x) = "true"
       /\ Convertible(f) <=> Convertible(policy) /\ Convertible(A)
  BY <1>4, <1>5, <1>6, AndIs
<1>11. /\ Matches(G, x) = "true" <=> Matches(policy, x) = "true" /\ Matches(B, x) = "true"
       /\ Convertible(G) <=> Convertible(policy) /\ Convertible(B)
  BY <1>4, <1>5, <1>6, AndIs
<1>12. /\ Matches(f, x) = "false" => Refuted(f, x)
       /\ Refuted(f, x) <=> Refuted(policy, x) \/ Refuted(A, x)
       /\ Refuted(G, x) <=> Refuted(policy, x) \/ Refuted(B, x)
  BY <1>4, <1>5, <1>6, RefutedIs
<1>13. Convertible(f) => Convertible(J)
  BY <1>8, <1>9, <1>10, <1>11
<1>14. Matches(J, x) = "true" <=> Matches(f, x) = "true"
  BY <1>8, <1>9, <1>10, <1>11
<1>15. ASSUME NEW b \in Backends, ~RuledOut(b, J)
       PROVE  /\ Matches(f, x) = "true" => Kept(b, J, x)
              /\ Matches(f, x) = "false" => ~Kept(b, J, x)
  <2>1. Matches(f, x) = "true" => Kept(b, J, x)
    <3>1. Agrees(J, x)
      BY <1>4, FiltersAgree
    <3> QED
      BY <1>14, <1>15, <3>1 DEF Backends, Kept, RuledOut, Agrees, Stands, Truth
  <2>2. Matches(f, x) = "false" => ~Kept(b, J, x)
    BY <1>4, <1>8, <1>9, <1>12, <1>15, RefutedIs
  <2> QED
    BY <2>1, <2>2
<1> QED
  BY <1>1, <1>3, <1>4, <1>13, <1>14, <1>15

-----------------------------------------------------------------------------
(* The orders and the cursors *)

Sort == SortOrders \cup {None}

LEMMA RowsAre ==
  /\ IdField = "id"
  /\ \A x \in Row : /\ x = [f \in Fields |-> x[f]] /\ x.id \in Ids /\ x.id \in Int
                    /\ \A f \in Fields : x[f] \in Int \cup {NULL}
<1>1. "id" \in Fields /\ FieldKind["id"] = "id" /\ \A f \in Fields : FieldKind[f] = "id" => f = "id"
  BY FieldsAssumption
<1>2. IdField = "id"
  <2>1. \E f \in Fields : FieldKind[f] = "id"
    BY <1>1
  <2> QED
    BY <1>1, <2>1 DEF IdField
<1> QED
  BY <1>1, <1>2, RowsAssumption DEF Row, Columns

LEMMA SortsAre ==
  ASSUME NEW sort \in Sort, sort # None
  PROVE  sort.attribute \in Fields /\ sort.descending \in BOOLEAN
  BY SearchAssumption DEF Sort

(* Each backend orders two rows as compare and the identifier do. *)
LEMMA ListOrder ==
  ASSUME NEW sort \in Sort, NEW x \in Row, NEW y \in Row
  PROVE  ListBefore(sort, x, y) <=> Before(sort, x, y)
<1>1. CASE sort = None
  BY <1>1 DEF ListBefore, Before
<1>2. CASE sort # None
  <2> DEFINE l == x[sort.attribute]
             r == y[sort.attribute]
  <2>1. l \in Int \cup {NULL} /\ r \in Int \cup {NULL} /\ NULL \notin Int /\ sort.descending \in BOOLEAN
    BY <1>2, SortsAre, RowsAre, NullAssumption
  <2>2. ListBefore(sort, x, y) <=>
          LET k == _ascending_key(l)
              m == _ascending_key(r)
          IN IF sort.descending THEN (m[1] < k[1] \/ (m[1] = k[1] /\ m[2] < k[2])) \/ (k = m /\ x.id < y.id)
             ELSE (k[1] < m[1] \/ (k[1] = m[1] /\ k[2] < m[2])) \/ (k = m /\ x.id < y.id)
    BY <1>2 DEF ListBefore
  <2>3. Before(sort, x, y) <=>
          IF l = r THEN x.id < y.id
          ELSE IF sort.descending THEN SortsFirst(r, l) ELSE SortsFirst(l, r)
    BY <1>2 DEF Before
  <2> HIDE DEF l, r
  <2>4. CASE l = NULL
    BY <2>1, <2>2, <2>3, <2>4 DEF _ascending_key, SortsFirst
  <2>5. CASE l # NULL /\ r = NULL
    BY <2>1, <2>2, <2>3, <2>5 DEF _ascending_key, SortsFirst
  <2>6. CASE l # NULL /\ r # NULL
    BY <2>1, <2>2, <2>3, <2>6 DEF _ascending_key, SortsFirst
  <2> QED
    BY <2>4, <2>5, <2>6
<1> QED
  BY <1>1, <1>2

LEMMA SqlOrder ==
  ASSUME NEW sort \in Sort, NEW x \in Row, NEW y \in Row
  PROVE  SqlBefore(sort, x, y) <=> Before(sort, x, y)
<1>1. CASE sort = None
  BY <1>1 DEF SqlBefore, Before
<1>2. CASE sort # None
  <2>1. /\ x[sort.attribute] \in Int \cup {NULL} /\ y[sort.attribute] \in Int \cup {NULL}
        /\ NULL \notin Int /\ sort.descending \in BOOLEAN
    BY <1>2, SortsAre, RowsAre, NullAssumption
  <2> QED
    BY <1>2, <2>1 DEF SqlBefore, Before, SortsFirst
<1> QED
  BY <1>1, <1>2

LEMMA MongoOrder ==
  ASSUME NEW sort \in Sort, NEW x \in Row, NEW y \in Row
  PROVE  MongoBefore(sort, x, y) <=> Before(sort, x, y)
<1>1. x.id \in Int /\ y.id \in Int /\ NULL \notin Int
  BY RowsAre, NullAssumption
<1>2. CASE sort = None
  <2>1. MongoSpec(sort) = <<<<"id", 1>>>>
    BY <1>2 DEF MongoSpec
  <2>2. MongoBefore(sort, x, y) <=> SortsFirst(x["id"], y["id"])
    BY <2>1 DEF MongoBefore
  <2> QED
    BY <1>1, <1>2, <2>2 DEF Before, SortsFirst
<1>3. CASE sort # None
  <2> DEFINE spec == MongoSpec(sort)
             d == IF sort.descending THEN -1 ELSE 1
             l == x[sort.attribute]
             r == y[sort.attribute]
  <2>1. /\ l \in Int \cup {NULL} /\ r \in Int \cup {NULL}
        /\ NULL \notin Int /\ sort.descending \in BOOLEAN
    BY <1>3, SortsAre, RowsAre, NullAssumption
  <2>2. spec = <<<<sort.attribute, d>>, <<"id", 1>>>>
    BY <1>3 DEF MongoSpec
  <2>3. /\ DOMAIN spec = 1..2 /\ spec[1][1] = sort.attribute /\ spec[1][2] = d
        /\ spec[2][1] = "id" /\ spec[2][2] = 1
    BY <2>2
  <2>4. MongoBefore(sort, x, y) <=>
          \E i \in DOMAIN spec :
            /\ IF spec[i][2] = 1 THEN SortsFirst(x[spec[i][1]], y[spec[i][1]])
               ELSE SortsFirst(y[spec[i][1]], x[spec[i][1]])
            /\ \A j \in 1..(i - 1) : x[spec[j][1]] = y[spec[j][1]]
    BY DEF MongoBefore
  <2> HIDE DEF spec, d
  <2>5. MongoBefore(sort, x, y) <=>
          \/ IF d = 1 THEN SortsFirst(l, r) ELSE SortsFirst(r, l)
          \/ SortsFirst(x["id"], y["id"]) /\ l = r
    BY <2>3, <2>4
  <2>6. d = 1 <=> ~sort.descending
    BY <2>1 DEF d
  <2>7. Before(sort, x, y) <=>
          IF l = r THEN x.id < y.id
          ELSE IF sort.descending THEN SortsFirst(r, l) ELSE SortsFirst(l, r)
    BY <1>3 DEF Before
  <2> HIDE DEF l, r
  <2> QED
    BY <1>1, <2>1, <2>5, <2>6, <2>7 DEF SortsFirst
<1> QED
  BY <1>2, <1>3

(* The walk that Mongo cannot make *)
MongoStuck(b, sort) == b = "mongo" /\ Sorts(sort, IdField) /\ sort.descending

LEMMA CursorsAre ==
  ASSUME NEW sort \in Sort, NEW y \in Row
  PROVE  /\ Cursor(sort, y) \in [attribute : Fields \cup {"none"}, ascending : BOOLEAN,
                                key : Int \cup {NULL}, id : Ids]
         /\ Cursor(sort, y) # None /\ Cursor(sort, y).id = y.id
         /\ Cursor(sort, y).ascending \in BOOLEAN
         /\ sort = None => Cursor(sort, y).ascending /\ Cursor(sort, y).key = y.id
         /\ sort # None => /\ Cursor(sort, y).ascending <=> ~sort.descending
                           /\ Cursor(sort, y).key = y[sort.attribute]
<1> DEFINE c == Cursor(sort, y)
<1>1. y.id \in Ids /\ y.id \in Int /\ \A f \in Fields : y[f] \in Int \cup {NULL}
  BY RowsAre
<1>2. c = [attribute |-> IF sort = None THEN "none" ELSE sort.attribute,
           ascending |-> sort = None \/ ~sort.descending,
           key |-> CursorKey(sort, y), id |-> y.id]
  BY DEF Cursor
<1>3. CASE sort = None
  <2>1. c = [attribute |-> "none", ascending |-> TRUE, key |-> y.id, id |-> y.id]
    BY <1>2, <1>3 DEF CursorKey
  <2>2. c \in [attribute : Fields \cup {"none"}, ascending : BOOLEAN, key : Int \cup {NULL}, id : Ids]
    BY <1>1, <2>1
  <2>3. c # None
    BY <2>2, SearchAssumption
  <2> QED
    BY <1>3, <2>1, <2>2, <2>3
<1>4. CASE sort # None
  <2>1. sort.attribute \in Fields /\ sort.descending \in BOOLEAN
    BY <1>4, SortsAre
  <2>2. c = [attribute |-> sort.attribute, ascending |-> ~sort.descending,
             key |-> y[sort.attribute], id |-> y.id]
    BY <1>2, <1>4 DEF CursorKey
  <2>3. c \in [attribute : Fields \cup {"none"}, ascending : BOOLEAN, key : Int \cup {NULL}, id : Ids]
    BY <1>1, <2>1, <2>2
  <2>4. c # None
    BY <2>3, SearchAssumption
  <2>5. c.ascending <=> ~sort.descending
    <3>1. CASE sort.descending
      <4>1. c = [attribute |-> sort.attribute, ascending |-> FALSE,
                 key |-> y[sort.attribute], id |-> y.id]
        BY <1>2, <1>4, <3>1 DEF CursorKey
      <4> QED
        BY <3>1, <4>1
    <3>2. CASE ~sort.descending
      <4>1. c = [attribute |-> sort.attribute, ascending |-> TRUE,
                 key |-> y[sort.attribute], id |-> y.id]
        BY <1>2, <1>4, <3>2 DEF CursorKey
      <4> QED
        BY <3>2, <4>1
    <3> QED
      BY <3>1, <3>2
  <2> QED
    BY <1>4, <2>2, <2>3, <2>4, <2>5
<1> QED
  BY <1>3, <1>4

(* Past the cursor of a row is after that row, in each backend. *)
LEMMA PastCursor ==
  ASSUME NEW sort \in Sort, NEW x \in Row, NEW y \in Row, NEW b \in Backends, ~MongoStuck(b, sort)
  PROVE  After(b, sort, Cursor(sort, y), x) <=> Before(sort, y, x)
<1> DEFINE c == Cursor(sort, y)
<1>1. /\ c # None /\ c.id = y.id /\ c.ascending \in BOOLEAN
      /\ sort = None => c.ascending /\ c.key = y.id
      /\ sort # None => (c.ascending <=> ~sort.descending) /\ c.key = y[sort.attribute]
  BY CursorsAre
<1> SUFFICES After(b, sort, c, x) <=> Before(sort, y, x)
  OBVIOUS
<1>2. x.id \in Int /\ y.id \in Int /\ NULL \notin Int /\ x["id"] = x.id /\ y["id"] = y.id /\ IdField = "id"
  BY RowsAre, NullAssumption
<1> HIDE DEF c
<1>3. /\ b = "list" => (After(b, sort, c, x) <=> ListAfter(sort, c, x))
      /\ b = "sql" => (After(b, sort, c, x) <=> keyset_predicate(sort, c, x))
      /\ b = "mongo" => (After(b, sort, c, x) <=> _keyset_query(sort, c, x))
  BY <1>1 DEF After, Backends
<1>4. CASE sort = None
  <2>1. /\ ListAfter(sort, c, x) <=> x.id > y.id
        /\ keyset_predicate(sort, c, x) <=> x.id > y.id
        /\ _keyset_query(sort, c, x) <=> x.id > y.id
    BY <1>1, <1>4 DEF ListAfter, keyset_predicate, _keyset_query
  <2>2. Before(sort, y, x) <=> x.id > y.id
    BY <1>2, <1>4 DEF Before
  <2> QED
    BY <1>3, <2>1, <2>2 DEF Backends
<1>5. CASE sort # None
  <2> DEFINE l == y[sort.attribute]
             r == x[sort.attribute]
  <2>1. /\ l \in Int \cup {NULL} /\ r \in Int \cup {NULL} /\ sort.descending \in BOOLEAN
    BY <1>5, SortsAre, RowsAre
  <2>2. sort.attribute = "id" => l = y.id /\ r = x.id
    BY <1>2
  <2>3. Before(sort, y, x) <=>
          IF l = r THEN y.id < x.id
          ELSE IF sort.descending THEN SortsFirst(r, l) ELSE SortsFirst(l, r)
    BY <1>5 DEF Before
  <2>4. c.key = l /\ (c.ascending <=> ~sort.descending) /\ c.id = y.id /\ c.ascending \in BOOLEAN
    BY <1>1, <1>5
  <2>5. Sorts(sort, IdField) <=> sort.attribute = "id"
    BY <1>2, <1>5 DEF Sorts
  <2>6. b = "mongo" /\ sort.attribute = "id" => ~sort.descending
    BY <1>5, <2>5 DEF MongoStuck
  <2>7. CASE b = "list"
    <3>1. ListAfter(sort, c, x) <=>
            IF sort.attribute = "id" THEN (IF c.ascending THEN x.id > c.id ELSE x.id < c.id)
            ELSE _after_cursor_item(r, x.id, c)
      BY <1>5, <2>5 DEF ListAfter
    <3>2. After(b, sort, c, x) <=> ListAfter(sort, c, x)
      BY <1>3, <2>7
    <3> HIDE DEF l, r
    <3> QED
      BY <1>2, <2>1, <2>2, <2>3, <2>4, <3>1, <3>2 DEF SortsFirst, _after_cursor_item
  <2>8. CASE b = "sql"
    <3>1. After(b, sort, c, x) <=> keyset_predicate(sort, c, x)
      BY <1>3, <2>8
    <3>2. keyset_predicate(sort, c, x) <=>
            IF sort.attribute = "id" THEN (IF c.ascending THEN x.id > c.id ELSE x.id < c.id)
            ELSE CASE c.key = NULL /\ c.ascending  -> r # NULL \/ (r = NULL /\ x.id > c.id)
                   [] c.key = NULL /\ ~c.ascending -> r = NULL /\ x.id > c.id
                   [] c.key # NULL /\ c.ascending  -> (NULL \notin {r, c.key} /\ r > c.key) \/ (r = c.key /\ x.id > c.id)
                   [] OTHER -> (NULL \notin {r, c.key} /\ c.key > r) \/ (r = c.key /\ x.id > c.id) \/ r = NULL
      BY <1>5, <2>5 DEF keyset_predicate
    <3> HIDE DEF l, r
    <3>3. CASE l = NULL
      <4>1. CASE c.ascending
        BY <1>2, <2>1, <2>2, <2>3, <2>4, <3>1, <3>2, <3>3, <4>1 DEF SortsFirst
      <4>2. CASE ~c.ascending
        BY <1>2, <2>1, <2>2, <2>3, <2>4, <3>1, <3>2, <3>3, <4>2 DEF SortsFirst
      <4> QED
        BY <4>1, <4>2
    <3>4. CASE l # NULL
      <4>1. CASE c.ascending
        BY <1>2, <2>1, <2>2, <2>3, <2>4, <3>1, <3>2, <3>4, <4>1 DEF SortsFirst
      <4>2. CASE ~c.ascending
        BY <1>2, <2>1, <2>2, <2>3, <2>4, <3>1, <3>2, <3>4, <4>2 DEF SortsFirst
      <4> QED
        BY <4>1, <4>2
    <3> QED
      BY <3>3, <3>4
  <2>9. CASE b = "mongo"
    <3>1. After(b, sort, c, x) <=> _keyset_query(sort, c, x)
      BY <1>3, <2>9
    <3> DEFINE tied(v) == (sort.attribute = "id" \/ r = v) /\ x.id > c.id
    <3>2. _keyset_query(sort, c, x) <=>
            CASE c.key = NULL /\ c.ascending  -> r # NULL \/ tied(NULL)
              [] c.key = NULL /\ ~c.ascending -> tied(NULL)
              [] c.key # NULL /\ c.ascending  -> (NULL \notin {r, c.key} /\ r > c.key) \/ tied(c.key)
              [] OTHER -> (NULL \notin {r, c.key} /\ c.key > r) \/ tied(c.key) \/ r = NULL
      BY <1>2, <1>5 DEF _keyset_query
    <3> HIDE DEF l, r
    <3>3. CASE l = NULL
      <4>1. CASE c.ascending
        BY <1>2, <2>1, <2>2, <2>3, <2>4, <2>6, <2>9, <3>1, <3>2, <3>3, <4>1 DEF SortsFirst
      <4>2. CASE ~c.ascending
        BY <1>2, <2>1, <2>2, <2>3, <2>4, <2>6, <2>9, <3>1, <3>2, <3>3, <4>2 DEF SortsFirst
      <4> QED
        BY <4>1, <4>2
    <3>4. CASE l # NULL
      <4>1. CASE c.ascending
        BY <1>2, <2>1, <2>2, <2>3, <2>4, <2>6, <2>9, <3>1, <3>2, <3>4, <4>1 DEF SortsFirst
      <4>2. CASE ~c.ascending
        BY <1>2, <2>1, <2>2, <2>3, <2>4, <2>6, <2>9, <3>1, <3>2, <3>4, <4>2 DEF SortsFirst
      <4> QED
        BY <4>1, <4>2
    <3> QED
      BY <3>3, <3>4
  <2> QED
    BY <2>7, <2>8, <2>9 DEF Backends
<1> QED
  BY <1>4, <1>5

(* Before is a strict order, total where identifiers differ. *)
LEMMA BeforeIsOrder ==
  ASSUME NEW sort \in Sort, NEW x \in Row, NEW y \in Row, NEW z \in Row
  PROVE  /\ ~Before(sort, x, x)
         /\ Before(sort, x, y) /\ Before(sort, y, z) => Before(sort, x, z)
         /\ x.id # y.id => Before(sort, x, y) \/ Before(sort, y, x)
<1>1. x.id \in Int /\ y.id \in Int /\ z.id \in Int /\ NULL \notin Int
  BY RowsAre, NullAssumption
<1>2. CASE sort = None
  BY <1>1, <1>2 DEF Before
<1>3. CASE sort # None
  <2>1. /\ x[sort.attribute] \in Int \cup {NULL} /\ y[sort.attribute] \in Int \cup {NULL}
        /\ z[sort.attribute] \in Int \cup {NULL} /\ sort.descending \in BOOLEAN
    BY <1>3, SortsAre, RowsAre
  <2> QED
    BY <1>1, <1>3, <2>1 DEF Before, SortsFirst
<1> QED
  BY <1>2, <1>3

(* The reference sequence of some rows *)
Ordered_(sort, S) == Sequence(S, LAMBDA x, y : Before(sort, x, y))

LEMMA OrderingsAgree ==
  ASSUME NEW sort \in Sort, NEW S \in SUBSET Row, NEW b \in Backends
  PROVE  Ordering_(b, sort, S) = Ordered_(sort, S)
<1> DEFINE N == 1 .. Cardinality(S)
           at(n) == CHOOSE x \in S : Cardinality({y \in S : Before(sort, y, x)}) = n - 1
<1>1. Ordered_(sort, S) = [n \in N |-> at(n)]
  BY SMT DEF Ordered_, Sequence
<1>2. CASE b = "list"
  <2> DEFINE as(n) == CHOOSE x \in S : Cardinality({y \in S : ListBefore(sort, y, x)}) = n - 1
  <2>1. \A x \in S : {y \in S : ListBefore(sort, y, x)} = {y \in S : Before(sort, y, x)}
    BY ListOrder
  <2>2. \A n \in N : as(n) = at(n)
    BY <2>1, Zenon
  <2>3. Ordering_(b, sort, S) = Sequence(S, LAMBDA x, y : ListBefore(sort, x, y))
    BY <1>2 DEF Ordering_
  <2>4. Ordering_(b, sort, S) = [n \in N |-> as(n)]
    BY <2>3, SMT DEF Sequence
  <2> HIDE DEF as, at, N
  <2> QED
    BY <1>1, <2>2, <2>4
<1>3. CASE b = "sql"
  <2> DEFINE as(n) == CHOOSE x \in S : Cardinality({y \in S : SqlBefore(sort, y, x)}) = n - 1
  <2>1. \A x \in S : {y \in S : SqlBefore(sort, y, x)} = {y \in S : Before(sort, y, x)}
    BY SqlOrder
  <2>2. \A n \in N : as(n) = at(n)
    BY <2>1, Zenon
  <2>3. Ordering_(b, sort, S) = Sequence(S, LAMBDA x, y : SqlBefore(sort, x, y))
    BY <1>3 DEF Ordering_, _apply_sort
  <2>4. Ordering_(b, sort, S) = [n \in N |-> as(n)]
    BY <2>3, SMT DEF Sequence
  <2> HIDE DEF as, at, N
  <2> QED
    BY <1>1, <2>2, <2>4
<1>4. CASE b = "mongo"
  <2> DEFINE as(n) == CHOOSE x \in S : Cardinality({y \in S : MongoBefore(sort, y, x)}) = n - 1
  <2>1. \A x \in S : {y \in S : MongoBefore(sort, y, x)} = {y \in S : Before(sort, y, x)}
    BY MongoOrder
  <2>2. \A n \in N : as(n) = at(n)
    BY <2>1, Zenon
  <2>3. Ordering_(b, sort, S) = Sequence(S, LAMBDA x, y : MongoBefore(sort, x, y))
    BY <1>4 DEF Ordering_
  <2>4. Ordering_(b, sort, S) = [n \in N |-> as(n)]
    BY <2>3, SMT DEF Sequence
  <2> HIDE DEF as, at, N
  <2> QED
    BY <1>1, <2>2, <2>4
<1> QED
  BY <1>2, <1>3, <1>4 DEF Backends

Distinct(S) == \A x, y \in S : x.id = y.id => x = y

Below(sort, S, x) == {y \in S : Before(sort, y, x)}

(* A row before another has fewer rows before it. *)
LEMMA RankGrows ==
  ASSUME NEW sort \in Sort, NEW S \in SUBSET Row, IsFiniteSet(S), NEW x \in S, NEW y \in S
  PROVE  /\ Cardinality(Below(sort, S, x)) \in 0 .. Cardinality(S) - 1
         /\ Before(sort, x, y) =>
              Cardinality(Below(sort, S, x)) < Cardinality(Below(sort, S, y))
<1> DEFINE A == Below(sort, S, x)
           B == Below(sort, S, y)
<1>1. x \in Row /\ y \in Row /\ A \subseteq S /\ B \subseteq S
  BY DEF Below
<1>2. A \subseteq S \ {x}
  BY <1>1, BeforeIsOrder DEF Below
<1>3. /\ IsFiniteSet(A) /\ IsFiniteSet(B) /\ Cardinality(S) \in Nat
      /\ Cardinality(A) \in Nat /\ Cardinality(B) \in Nat
  BY <1>1, FS_Subset, FS_CardinalityType
<1>4. IsFiniteSet(S \ {x}) /\ Cardinality(S \ {x}) = Cardinality(S) - 1
  BY FS_RemoveElement
<1>5. Cardinality(A) <= Cardinality(S) - 1
  <2> HIDE DEF A
  <2> QED
    BY <1>2, <1>4, FS_Subset
<1>6. ASSUME Before(sort, x, y) PROVE Cardinality(A) < Cardinality(B)
  <2>1. x \in B /\ x \notin A
    BY <1>1, <1>6, BeforeIsOrder DEF Below
  <2>2. A \subseteq B
    <3>1. \A z \in S : Before(sort, z, x) => Before(sort, z, y)
      BY <1>1, <1>6, BeforeIsOrder
    <3> QED
      BY <3>1 DEF Below
  <2> HIDE DEF A, B
  <2>3. Cardinality(A) <= Cardinality(B) /\ (Cardinality(B) = Cardinality(A) => B = A)
    BY <1>3, <2>2, FS_Subset
  <2> QED
    BY <1>3, <2>1, <2>3
<1> QED
  BY <1>3, <1>5, <1>6

(* Rows with identifiers of their own are each at one place, in order. *)
LEMMA OrderedIs ==
  ASSUME NEW sort \in Sort, NEW S \in SUBSET Row, IsFiniteSet(S), Distinct(S)
  PROVE  /\ Cardinality(S) \in Nat
         /\ Ordered_(sort, S) \in [1 .. Cardinality(S) -> S]
         /\ \A x \in S : \E n \in 1 .. Cardinality(S) : Ordered_(sort, S)[n] = x
         /\ \A m, n \in 1 .. Cardinality(S) :
              m < n <=> Before(sort, Ordered_(sort, S)[m], Ordered_(sort, S)[n])
<1> DEFINE N == Cardinality(S)
           o == Ordered_(sort, S)
           rank == [x \in S |-> Cardinality(Below(sort, S, x))]
           at(n) == CHOOSE x \in S : Cardinality({y \in S : Before(sort, y, x)}) = n - 1
<1>1. N \in Nat /\ IsFiniteSet(0 .. N - 1) /\ Cardinality(0 .. N - 1) = N
  <2>1. N \in Nat
    BY FS_CardinalityType
  <2> HIDE DEF N
  <2>2. 0 \in Int /\ N - 1 \in Int
    BY <2>1
  <2> QED
    BY <2>1, <2>2, FS_Interval
<1>2. rank \in [S -> 0 .. N - 1]
  BY RankGrows
<1>3. \A x, y \in S : Before(sort, x, y) => rank[x] < rank[y]
  BY RankGrows
<1>4. \A x, y \in S : x # y => Before(sort, x, y) \/ Before(sort, y, x)
  BY BeforeIsOrder DEF Distinct
<1>5. \A x \in S : rank[x] = Cardinality({y \in S : Before(sort, y, x)})
  BY DEF Below
<1>6. o = [n \in 1 .. N |-> at(n)]
  BY SMT DEF Ordered_, Sequence
<1> HIDE DEF rank
<1>7. \A x, y \in S : rank[x] = rank[y] => x = y
  BY <1>2, <1>3, <1>4
<1>8. rank \in Surjection(S, 0 .. N - 1)
  <2>1. rank \in Injection(S, 0 .. N - 1)
    BY <1>2, <1>7 DEF Injection, IsInjective
  <2> HIDE DEF N
  <2>2. Cardinality(S) = Cardinality(0 .. N - 1)
    BY <1>1 DEF N
  <2> QED
    BY <1>1, <2>1, <2>2, FS_Injection
<1>9. \A n \in 1 .. N : \E x \in S : rank[x] = n - 1
  <2>1. \A k \in 0 .. N - 1 : \E x \in S : rank[x] = k
    BY <1>8 DEF Surjection
  <2> HIDE DEF N
  <2> QED
    BY <1>1, <2>1
<1>10. ASSUME NEW n \in 1 .. N PROVE at(n) \in S /\ rank[at(n)] = n - 1
  <2>1. \E x \in S : Cardinality({y \in S : Before(sort, y, x)}) = n - 1
    BY <1>5, <1>9
  <2>2. at(n) \in S /\ Cardinality({y \in S : Before(sort, y, at(n))}) = n - 1
    BY <2>1, Zenon
  <2> HIDE DEF at
  <2> QED
    BY <1>5, <2>2
<1> HIDE DEF at, N
<1>11. o \in [1 .. N -> S] /\ \A n \in 1 .. N : o[n] \in S /\ rank[o[n]] = n - 1
  BY <1>6, <1>10
<1> HIDE DEF o
<1>12. ASSUME NEW x \in S PROVE \E n \in 1 .. N : o[n] = x
  <2>1. rank[x] + 1 \in 1 .. N
    BY <1>1, <1>2
  <2>2. rank[o[rank[x] + 1]] = rank[x]
    BY <1>2, <1>11, <2>1
  <2> QED
    BY <1>7, <1>11, <2>1, <2>2
<1>13. ASSUME NEW m \in 1 .. N, NEW n \in 1 .. N
       PROVE  m < n <=> Before(sort, o[m], o[n])
  <2>1. o[m] \in S /\ o[n] \in S /\ rank[o[m]] = m - 1 /\ rank[o[n]] = n - 1 /\ m \in Int /\ n \in Int
    BY <1>1, <1>11
  <2>2. ASSUME m < n PROVE Before(sort, o[m], o[n])
    <3>1. o[m] # o[n] /\ ~(rank[o[n]] < rank[o[m]])
      BY <2>1, <2>2
    <3> QED
      BY <1>3, <1>4, <2>1, <3>1
  <2>3. ASSUME Before(sort, o[m], o[n]) PROVE m < n
    <3>1. rank[o[m]] < rank[o[n]]
      BY <1>3, <2>1, <2>3
    <3> QED
      BY <2>1, <3>1
  <2> QED
    BY <2>2, <2>3
<1>14. N \in Nat
  BY <1>1
<1> QED
  BY <1>11, <1>12, <1>13, <1>14 DEF N, o

-----------------------------------------------------------------------------
(* The inductive invariant *)

TableOK ==
  /\ IsFiniteSet(DOMAIN rows) /\ DOMAIN rows \subseteq Ids
  /\ \A i \in DOMAIN rows : rows[i] \in Row /\ rows[i].id = i

ViewOK ==
  /\ view.dto \in [Fields -> SUBSET Models]
  /\ view.actions \subseteq StandardActions /\ view.depth \in 0..MaxViews
  /\ declaredFilter =>
       ModelFields(view.dto, "read_response") = ModelFields(Declared, "read_response")

Cursors == {None} \cup {Cursor(s, y) : s \in Sort, y \in Row}

Walks ==
  [active : {TRUE}, policy : Policies, clauses : ClauseLists, sort : Sort,
   limit : 1..MaxSearchLimit, cursor : Cursors,
   survivors : {None} \cup SUBSET Ids, done : BOOLEAN,
   stable : SUBSET Ids, never : SUBSET Ids, seen : [Ids -> 0..2]]

(* A cursor is one of a row, in the order of the walk. *)
WalkIn(w, ids) ==
  \/ w = NoWalk
  \/ /\ w \in Walks /\ w.stable \subseteq ids
     /\ w.cursor = None \/ \E y \in Row : w.cursor = Cursor(w.sort, y)

WalkOK == WalkIn(walk, DOMAIN rows)

IInv ==
  /\ backend \in Backends /\ declaredFilter \in BOOLEAN /\ writes \in 0..MaxWrites
  /\ TableOK /\ ViewOK /\ WalkOK

LEMMA TableIs ==
  ASSUME TableOK
  PROVE  TableRows \subseteq Row /\ IsFiniteSet(TableRows) /\ Distinct(TableRows)
<1>1. TableRows \subseteq Row /\ Distinct(TableRows)
  BY DEF TableOK, TableRows, Distinct
<1>2. IsFiniteSet(TableRows)
  <2> DEFINE f == [i \in DOMAIN rows |-> rows[i]]
  <2>1. f \in Surjection(DOMAIN rows, TableRows)
    BY DEF TableRows, Surjection
  <2> QED
    BY <2>1, FS_Surjection DEF TableOK
<1> QED
  BY <1>1, <1>2

LEMMA SubsetIs ==
  ASSUME TableOK, NEW S \in SUBSET TableRows
  PROVE  S \subseteq Row /\ IsFiniteSet(S) /\ Distinct(S)
<1>1. TableRows \subseteq Row /\ IsFiniteSet(TableRows) /\ Distinct(TableRows)
  BY TableIs
<1>2. IsFiniteSet(S)
  BY <1>1, FS_Subset
<1> QED
  BY <1>1, <1>2 DEF Distinct

LEMMA WalkIs ==
  ASSUME WalkOK, walk.active
  PROVE  /\ walk \in Walks /\ walk.stable \subseteq DOMAIN rows
         /\ walk.cursor = None \/ \E y \in Row : walk.cursor = Cursor(walk.sort, y)
  BY DEF WalkOK, WalkIn, NoWalk

(* A database keeps what the other one keeps, on rows at which the predicate *)
(* raises too, and past any cursor of the walk.                              *)
LEMMA DatabasesAgreeNow ==
  ASSUME TableOK, WalkOK, walk.active, Convertible(Asked(walk.policy, walk.clauses)),
         ~MongoStuck("mongo", walk.sort)
  PROVE  Searched("mongo", SearchFilter, walk.sort, walk.cursor, walk.limit, TableRows)
           = Searched("sql", SearchFilter, walk.sort, walk.cursor, walk.limit, TableRows)
<1> DEFINE J == SearchFilter
           T == TableRows
           sort == walk.sort
           cursor == walk.cursor
           Hits(b) == {x \in T : Kept(b, J, x) /\ After(b, sort, cursor, x)}
<1>1. T \subseteq Row
  BY TableIs
<1>2. /\ walk.policy \in Policies /\ walk.clauses \in ClauseLists /\ sort \in Sort
      /\ cursor = None \/ \E y \in Row : cursor = Cursor(sort, y)
  BY WalkIs DEF Walks
<1>3. J = Combined(walk.policy, walk.clauses)
  BY DEF SearchFilter
<1>4. "sql" \in Backends /\ "mongo" \in Backends /\ ~MongoStuck("sql", sort)
  BY DEF Backends, MongoStuck
<1> HIDE DEF J, T, sort, cursor
<1>5. ASSUME NEW x \in T PROVE Kept("mongo", J, x) <=> Kept("sql", J, x)
  <2>1. x \in Row
    BY <1>1
  <2>2. J \in RowFilter /\ Convertible(J)
    BY <1>2, <1>3, <2>1, CombinedKeeps
  <2>3. SqlCondition(J, FALSE, x) = "true" <=> MongoQuery(J, FALSE, x)
    BY <2>1, <2>2, FiltersAgree DEF Agrees
  <2> QED
    BY <2>3 DEF Kept
<1>6. ASSUME NEW x \in T PROVE After("mongo", sort, cursor, x) <=> After("sql", sort, cursor, x)
  <2>1. CASE cursor = None
    BY <2>1 DEF After
  <2>2. ASSUME NEW y \in Row, cursor = Cursor(sort, y)
        PROVE  After("mongo", sort, cursor, x) <=> After("sql", sort, cursor, x)
    <3>1. /\ After("mongo", sort, Cursor(sort, y), x) <=> Before(sort, y, x)
          /\ After("sql", sort, Cursor(sort, y), x) <=> Before(sort, y, x)
      BY <1>1, <1>2, <1>4, PastCursor DEF sort
    <3> QED
      BY <2>2, <3>1
  <2> QED
    BY <1>2, <2>1, <2>2
<1>7. Hits("mongo") = Hits("sql") /\ Hits("sql") \in SUBSET Row
  BY <1>1, <1>5, <1>6
<1>8. \A b \in Backends :
        Searched(b, J, sort, cursor, walk.limit, T) = Page(Ordering_(b, sort, Hits(b)), walk.limit, sort)
  BY DEF Searched
<1> QED
  BY <1>2, <1>4, <1>7, <1>8, OrderingsAgree DEF J, T, sort, cursor

(* Where there is a page to compare, each backend has the reference's rows, *)
(* and orders them as the reference does.                                   *)
LEMMA PagesAgreeNow ==
  ASSUME TableOK, WalkOK
  PROVE  PagesAgree
<1> DEFINE f == Asked(walk.policy, walk.clauses)
           J == SearchFilter
           T == TableRows
           sort == walk.sort
           cursor == walk.cursor
           after == {x \in T : /\ Matching(f, x)
                               /\ cursor = None \/ Before(sort, rows[cursor.id], x)}
<1>1. SUFFICES ASSUME walk.active, Convertible(f), ~Raises(f, T),
                      cursor # None => /\ cursor.id \in DOMAIN rows
                                       /\ Cursor(sort, rows[cursor.id]) = cursor,
                      NEW b \in {"list", "sql"}
               PROVE  Searched(b, J, sort, cursor, walk.limit, T)
                        = Page(Sequence(after, LAMBDA x, y : Before(walk.sort, x, y)), walk.limit, sort)
  BY DatabasesAgreeNow DEF PagesAgree, MongoStuck
<1>a. b \in Backends /\ ~MongoStuck(b, sort)
  BY <1>1 DEF Backends, MongoStuck
<1>2. T \subseteq Row
  BY TableIs
<1>3. walk \in Walks
  BY <1>1, WalkIs
<1>4. walk.policy \in Policies /\ walk.clauses \in ClauseLists /\ sort \in Sort
  BY <1>3 DEF Walks
<1>5. J = Combined(walk.policy, walk.clauses)
  BY DEF SearchFilter
<1> HIDE DEF J, f, T
<1>6. ASSUME NEW x \in T PROVE Kept(b, J, x) <=> Matching(f, x)
  <2>1. x \in Row
    BY <1>2
  <2>2. /\ f \in RowFilter
        /\ Convertible(f) => Convertible(J)
        /\ ~RuledOut(b, J) => /\ Matches(f, x) = "true" => Kept(b, J, x)
                              /\ Matches(f, x) = "false" => ~Kept(b, J, x)
    BY <1>4, <1>5, <1>a, <2>1, CombinedKeeps DEF f
  <2>3. Matches(f, x) \in Answer
    BY <2>1, <2>2, FiltersAgree DEF Agrees
  <2>4. Matches(f, x) # "raises"
    BY <1>1 DEF Raises
  <2> QED
    BY <1>1, <2>2, <2>3, <2>4 DEF RuledOut, Matching, Answer
<1>7. ASSUME NEW x \in T
      PROVE  After(b, sort, cursor, x) <=> cursor = None \/ Before(sort, rows[cursor.id], x)
  <2>1. CASE cursor = None
    BY <2>1 DEF After
  <2>2. CASE cursor # None
    <3>1. rows[cursor.id] \in Row /\ cursor = Cursor(sort, rows[cursor.id])
      BY <1>1, <2>2 DEF TableOK
    <3> HIDE DEF sort, cursor
    <3>2. After(b, sort, Cursor(sort, rows[cursor.id]), x) <=> Before(sort, rows[cursor.id], x)
      BY <1>2, <1>4, <1>a, <3>1, PastCursor
    <3> QED
      BY <2>2, <3>1, <3>2
  <2> QED
    BY <2>1, <2>2
<1>8. {x \in T : Kept(b, J, x) /\ After(b, sort, cursor, x)} = after
  BY <1>6, <1>7
<1>9. Searched(b, J, sort, cursor, walk.limit, T) = Page(Ordering_(b, sort, after), walk.limit, sort)
  BY <1>8 DEF Searched
<1>10. Ordering_(b, sort, after) = Ordered_(sort, after)
  <2>1. after \in SUBSET Row
    BY <1>2
  <2> HIDE DEF after, sort
  <2> QED
    BY <1>4, <1>a, <2>1, OrderingsAgree
<1> QED
  BY <1>9, <1>10 DEF Ordered_

(* A page: everything there is, or all that is not past the next cursor. *)
LEMMA PageIs ==
  ASSUME NEW sort \in Sort, NEW S \in SUBSET Row, IsFiniteSet(S), Distinct(S),
         NEW limit \in Nat \ {0}
  PROVE  LET page == Page(Ordered_(sort, S), limit, sort)
             served == {page.items[i].id : i \in DOMAIN page.items}
         IN \/ page.next = None /\ served = {x.id : x \in S}
            \/ \E y \in S : /\ page.next = Cursor(sort, y)
                            /\ served = {x.id : x \in {z \in S : ~Before(sort, y, z)}}
<1> DEFINE N == Cardinality(S)
           o == Ordered_(sort, S)
           k == IF Len(o) < limit THEN Len(o) ELSE limit
           items == SubSeq(o, 1, k)
           page == Page(o, limit, sort)
           served == {page.items[i].id : i \in DOMAIN page.items}
<1> SUFFICES \/ page.next = None /\ served = {x.id : x \in S}
             \/ \E y \in S : /\ page.next = Cursor(sort, y)
                             /\ served = {x.id : x \in {z \in S : ~Before(sort, y, z)}}
  OBVIOUS
<1>1. /\ N \in Nat /\ o \in [1..N -> S]
      /\ \A x \in S : \E n \in 1..N : o[n] = x
      /\ \A m, n \in 1..N : m < n <=> Before(sort, o[m], o[n])
  BY OrderedIs
<1> HIDE DEF o, N
<1>2. o \in Seq(S) /\ Len(o) = N
  BY <1>1
<1>3. k \in 0..N /\ k = IF N < limit THEN N ELSE limit
  BY <1>1, <1>2
<1>4. page.items = items /\ page.next = IF N > limit THEN Cursor(sort, items[Len(items)]) ELSE None
  BY <1>2 DEF Page
<1> HIDE DEF page, k
<1>5. items \in Seq(S) /\ Len(items) = k /\ \A i \in 1..k : items[i] = o[i]
  <2>1. \A i \in 1..k : o[i] \in S
    BY <1>1, <1>3
  <2>2. 1 \in Int /\ k \in Int /\ k - 1 + 1 = k /\ \A i \in 1..k : 1 + i - 1 = i
    BY <1>3
  <2>3. /\ items \in Seq(S) /\ Len(items) = IF 1 <= k THEN k - 1 + 1 ELSE 0
        /\ \A i \in 1..(k - 1 + 1) : items[i] = o[1 + i - 1]
    BY <2>1, <2>2, SubSeqProperties
  <2> HIDE DEF items
  <2> QED
    BY <1>3, <2>2, <2>3
<1> HIDE DEF items
<1>6. served = {o[i].id : i \in 1..k}
  BY <1>4, <1>5
<1> HIDE DEF served
<1>7. CASE N <= limit
  <2>1. k = N /\ page.next = None
    BY <1>1, <1>3, <1>4, <1>7
  <2>2. served = {x.id : x \in S}
    BY <1>1, <1>6, <2>1
  <2> QED
    BY <2>1, <2>2
<1>8. CASE N > limit
  <2>1. k = limit /\ limit \in 1..N
    BY <1>1, <1>3, <1>8
  <2>2. page.next = Cursor(sort, o[limit]) /\ o[limit] \in S
    BY <1>1, <1>4, <1>5, <1>8, <2>1
  <2>3. \A n \in 1..N : n <= limit <=> ~Before(sort, o[limit], o[n])
    BY <1>1, <2>1
  <2>4. \A n \in 1..N : n \in 1..k <=> n <= limit
    BY <1>1, <2>1
  <2>5. {o[i] : i \in 1..k} = {z \in S : ~Before(sort, o[limit], z)}
    <3>1. ASSUME NEW i \in 1..k PROVE o[i] \in S /\ ~Before(sort, o[limit], o[i])
      BY <1>1, <2>1, <2>3, <2>4
    <3>2. ASSUME NEW z \in S, ~Before(sort, o[limit], z) PROVE \E i \in 1..k : z = o[i]
      BY <1>1, <2>1, <2>3, <2>4, <3>2
    <3> QED
      BY <3>1, <3>2
  <2>6. served = {x.id : x \in {o[i] : i \in 1..k}}
    BY <1>6
  <2> QED
    BY <2>2, <2>5, <2>6
<1> QED
  BY <1>1, <1>7, <1>8

-----------------------------------------------------------------------------
(* Initially, and under a view *)

LEMMA DeclaredIs == Declared \in [Fields -> SUBSET Models]
  BY DEF Declared, Convention

LEMMA InitHolds ==
  ASSUME Init
  PROVE  IInv
<1>1. backend \in Backends /\ declaredFilter \in BOOLEAN /\ writes \in 0..MaxWrites
  BY SearchAssumption DEF Init
<1>2. TableOK
  BY RowsAssumption DEF Init, TableOK
<1>3. ViewOK
  BY SearchAssumption, DeclaredIs DEF Init, ViewOK
<1>4. WalkOK
  BY DEF Init, WalkOK, WalkIn
<1> QED
  BY <1>1, <1>2, <1>3, <1>4 DEF IInv

(* A view that is accepted narrows. *)
LEMMA ViewNarrows ==
  ASSUME NEW dto \in [Fields -> SUBSET Models], NEW actions, NEW declared,
         NEW overrides, NEW exposed, ViewAccepted(dto, actions, declared, overrides, exposed)
  PROVE  /\ Derived(dto, overrides) \in [Fields -> SUBSET Models]
         /\ \A m : ModelFields(Derived(dto, overrides), m) \subseteq ModelFields(dto, m)
         /\ declared => ModelFields(Derived(dto, overrides), "read_response")
                          = ModelFields(dto, "read_response")
         /\ normalize_actions(normalize_actions(exposed)) \subseteq normalize_actions(actions)
<1> DEFINE outer == Derived(dto, overrides)
<1>1. \A f \in Fields : outer[f] \subseteq dto[f]
  BY DEF ViewAccepted, Rewidens, Derived
<1>2. DOMAIN dto = Fields /\ DOMAIN outer = Fields
  BY DEF Derived
<1>3. outer \in [Fields -> SUBSET Models]
  BY <1>1 DEF Derived
<1> HIDE DEF outer
<1>4. \A m : ModelFields(outer, m) \subseteq ModelFields(dto, m)
  BY <1>1, <1>2 DEF ModelFields
<1>5. declared => ModelFields(outer, "read_response") = ModelFields(dto, "read_response")
  BY <1>4 DEF ViewAccepted, HidesReadFields, outer
<1>6. normalize_actions(normalize_actions(exposed)) \subseteq normalize_actions(actions)
  BY DEF ViewAccepted, normalize_actions
<1> QED
  BY <1>3, <1>4, <1>5, <1>6 DEF outer

LEMMA AddViewKeeps ==
  ASSUME IInv, AddView
  PROVE  IInv'
<1>1. PICK choice \in ViewChoices :
        /\ ViewAccepted(view.dto, view.actions, declaredFilter, choice.overrides, choice.actions)
        /\ view' = [dto     |-> Derived(view.dto, choice.overrides),
                    actions |-> normalize_actions(choice.actions),
                    depth   |-> view.depth + 1]
  BY DEF AddView
<1>2. view.depth < MaxViews /\ UNCHANGED <<backend, declaredFilter, rows, walk, writes>>
  BY DEF AddView
<1>3. ViewOK'
  <2>1. /\ view.dto \in [Fields -> SUBSET Models] /\ declaredFilter \in BOOLEAN
        /\ view.actions \subseteq StandardActions
    BY DEF IInv, ViewOK
  <2>2. /\ view'.dto \in [Fields -> SUBSET Models]
        /\ declaredFilter => ModelFields(view'.dto, "read_response") = ModelFields(view.dto, "read_response")
    <3>1. view'.dto = Derived(view.dto, choice.overrides)
      BY <1>1
    <3>2. /\ Derived(view.dto, choice.overrides) \in [Fields -> SUBSET Models]
          /\ declaredFilter => ModelFields(Derived(view.dto, choice.overrides), "read_response")
                                = ModelFields(view.dto, "read_response")
      <4>1. ViewAccepted(view.dto, view.actions, declaredFilter, choice.overrides, choice.actions)
        BY <1>1
      <4> DEFINE dto == view.dto
                 overrides == choice.overrides
                 exposed == choice.actions
                 actions == view.actions
      <4> HIDE DEF dto, overrides, exposed, actions
      <4>2. dto \in [Fields -> SUBSET Models] /\ ViewAccepted(dto, actions, declaredFilter, overrides, exposed)
        BY <2>1, <4>1 DEF dto, actions, overrides, exposed
      <4>3. /\ Derived(dto, overrides) \in [Fields -> SUBSET Models]
            /\ declaredFilter => ModelFields(Derived(dto, overrides), "read_response")
                                  = ModelFields(dto, "read_response")
        BY <2>1, <4>2, ViewNarrows
      <4> QED
        BY <4>3 DEF dto, overrides
    <3> QED
      BY <3>1, <3>2
  <2>3. view'.actions \subseteq StandardActions
    BY <1>1, <2>1 DEF ViewAccepted, normalize_actions
  <2>4. view'.depth \in 0..MaxViews
    BY <1>1, <1>2, SearchAssumption DEF IInv, ViewOK
  <2> QED
    BY <1>2, <2>2, <2>3, <2>4 DEF IInv, ViewOK
<1>4. TableOK' /\ WalkOK'
  BY <1>2 DEF IInv, TableOK, WalkOK
<1> QED
  BY <1>2, <1>3, <1>4 DEF IInv

-----------------------------------------------------------------------------
(* The steps of a walk *)

LEMMA SearchKeeps ==
  ASSUME IInv, Search
  PROVE  IInv'
<1>1. UNCHANGED <<backend, declaredFilter, view, rows, writes>>
  BY DEF Search
<1>2. PICK policy \in Policies, clauses \in ClauseLists, sort \in SortOrders \cup {None}, limit \in Limits :
        SearchAllowed(clauses, sort, limit) /\ walk' = NewWalk(policy, clauses, sort, limit)
  BY DEF Search
<1>3. sort \in Sort /\ limit \in 1..MaxSearchLimit /\ DOMAIN rows \subseteq Ids
  BY <1>2 DEF SearchAllowed, Sort, IInv, TableOK
<1>4. walk' \in Walks /\ walk'.cursor = None /\ walk'.stable \subseteq DOMAIN rows
  BY <1>2, <1>3 DEF NewWalk, Walks, Cursors
<1>5. WalkOK'
  BY <1>1, <1>4 DEF WalkOK, WalkIn
<1>6. TableOK' /\ ViewOK'
  BY <1>1 DEF IInv, TableOK, ViewOK
<1> QED
  BY <1>1, <1>5, <1>6 DEF IInv

(* An order that fits the cursor is the order of the walk. *)
LEMMA OrderHolds ==
  ASSUME NEW s \in Sort, NEW t \in Sort, NEW y \in Row, CursorFits(t, Cursor(s, y))
  PROVE  t = s
<1>1. /\ Cursor(s, y).attribute = IF s = None THEN "none" ELSE s.attribute
      /\ Cursor(s, y).ascending \in BOOLEAN
      /\ s = None => Cursor(s, y).ascending
      /\ s # None => (Cursor(s, y).ascending <=> ~s.descending)
  <2>1. Cursor(s, y).attribute = IF s = None THEN "none" ELSE s.attribute
    BY DEF Cursor
  <2> QED
    BY <2>1, CursorsAre
<1>2. "none" \notin Fields
  BY FieldsAssumption
<1>3. Cursor(s, y).attribute = IF t = None THEN "none" ELSE t.attribute
  BY DEF CursorFits
<1>4. /\ s # None => s.attribute \in Fields
      /\ t # None => t.attribute \in Fields
  BY SortsAre
<1>5. s = None <=> t = None
  BY <1>1, <1>2, <1>3, <1>4
<1>6. CASE s # None
  <2>1. s.attribute = t.attribute
    BY <1>1, <1>3, <1>5, <1>6
  <2>2. s.descending \in BOOLEAN /\ t.descending \in BOOLEAN
    BY <1>5, <1>6, SortsAre
  <2>3. Cursor(s, y).ascending = (t = None \/ ~t.descending)
    BY DEF CursorFits
  <2>4. s.descending = t.descending
    <3>1. CASE t.descending
      BY <1>1, <1>5, <1>6, <2>2, <2>3, <3>1
    <3>2. CASE ~t.descending
      BY <1>1, <1>5, <1>6, <2>2, <2>3, <3>2
    <3> QED
      BY <3>1, <3>2
  <2>5. /\ s = [attribute |-> s.attribute, descending |-> s.descending]
        /\ t = [attribute |-> t.attribute, descending |-> t.descending]
    BY <1>5, <1>6, SearchAssumption DEF Sort
  <2> QED
    BY <2>1, <2>4, <2>5
<1> QED
  BY <1>5, <1>6

LEMMA ChangeOrderIs ==
  ASSUME IInv, ChangeOrder
  PROVE  UNCHANGED vars
<1>1. PICK sort \in Sort :
        /\ sort # walk.sort
        /\ walk' = IF CursorFits(sort, walk.cursor) THEN [walk EXCEPT !.sort = sort] ELSE walk
  BY DEF ChangeOrder, Sort
<1>2. /\ walk.active /\ walk.cursor # None
      /\ UNCHANGED <<backend, declaredFilter, view, rows, writes>>
  BY DEF ChangeOrder
<1>3. walk.sort \in Sort /\ \E y \in Row : walk.cursor = Cursor(walk.sort, y)
  BY <1>2, WalkIs DEF IInv, Walks
<1>4. ~CursorFits(sort, walk.cursor)
  BY <1>1, <1>3, OrderHolds
<1> QED
  BY <1>1, <1>2, <1>4 DEF vars

LEMMA IterateKeeps ==
  ASSUME IInv, Iterate
  PROVE  IInv'
<1>1. UNCHANGED <<backend, declaredFilter, view, rows, writes>> /\ walk.active
  BY DEF Iterate
<1> DEFINE kept == {i \in DOMAIN rows : Matching(SearchFilter, rows[i])}
<1>2. walk' = [walk EXCEPT !.survivors = kept] /\ kept \in SUBSET Ids
  BY DEF Iterate, IInv, TableOK
<1>3. walk \in Walks /\ walk.stable \subseteq DOMAIN rows
  BY <1>1, WalkIs DEF IInv
<1> HIDE DEF kept
<1>4. /\ walk' \in Walks /\ walk'.stable = walk.stable
      /\ walk'.cursor = walk.cursor /\ walk'.sort = walk.sort
  BY <1>2, <1>3 DEF Walks
<1>5. WalkOK'
  <2>1. walk.cursor = None \/ \E y \in Row : walk.cursor = Cursor(walk.sort, y)
    BY <1>1, WalkIs DEF IInv
  <2> QED
    BY <1>1, <1>3, <1>4, <2>1 DEF WalkOK, WalkIn
<1>6. TableOK' /\ ViewOK'
  BY <1>1 DEF IInv, TableOK, ViewOK
<1> QED
  BY <1>1, <1>5, <1>6 DEF IInv

(* The rows the next page is taken from *)
Candidates ==
  {x \in TableRows :
     /\ IF walk.survivors # None THEN x.id \in walk.survivors ELSE Kept(backend, SearchFilter, x)
     /\ After(backend, walk.sort, walk.cursor, x)}

Served == {NextPage.items[i].id : i \in DOMAIN NextPage.items}

LEMMA NextPageIs ==
  ASSUME IInv, walk.active
  PROVE  \/ NextPage.next = None /\ Served = {x.id : x \in Candidates}
         \/ \E y \in Candidates :
              /\ NextPage.next = Cursor(walk.sort, y)
              /\ Served = {x.id : x \in {z \in Candidates : ~Before(walk.sort, y, z)}}
<1> DEFINE T == TableRows
           C == Candidates
<1>1. /\ backend \in Backends /\ walk \in Walks /\ TableOK
  BY WalkIs DEF IInv
<1>2. walk.sort \in Sort /\ walk.limit \in 1..MaxSearchLimit
  BY <1>1 DEF Walks
<1>3. walk.limit \in Nat \ {0}
  BY <1>2, SearchAssumption
<1>4. C \in SUBSET TableRows
  BY DEF Candidates
<1>5. C \in SUBSET Row /\ IsFiniteSet(C) /\ Distinct(C)
  BY <1>1, <1>4, SubsetIs
<1>6. NextPage = Page(Ordering_(backend, walk.sort, C), walk.limit, walk.sort)
  <2>1. CASE walk.survivors # None
    <3>1. C = {x \in TableRows : x.id \in walk.survivors /\ After(backend, walk.sort, walk.cursor, x)}
      BY <2>1 DEF Candidates
    <3> HIDE DEF C
    <3> QED
      BY <2>1, <3>1 DEF NextPage, SearchedIn
  <2>2. CASE walk.survivors = None
    <3>1. C = {x \in TableRows : /\ Kept(backend, SearchFilter, x)
                                 /\ After(backend, walk.sort, walk.cursor, x)}
      BY <2>2 DEF Candidates
    <3> HIDE DEF C
    <3> QED
      BY <2>2, <3>1 DEF NextPage, Searched
  <2> QED
    BY <2>1, <2>2
<1>7. Ordering_(backend, walk.sort, C) = Ordered_(walk.sort, C)
  BY <1>1, <1>2, <1>5, OrderingsAgree
<1>8. NextPage = Page(Ordered_(walk.sort, C), walk.limit, walk.sort)
  BY <1>6, <1>7
<1> DEFINE page == Page(Ordered_(walk.sort, C), walk.limit, walk.sort)
<1>9. LET served == {page.items[i].id : i \in DOMAIN page.items}
      IN \/ page.next = None /\ served = {x.id : x \in C}
         \/ \E y \in C : /\ page.next = Cursor(walk.sort, y)
                         /\ served = {x.id : x \in {z \in C : ~Before(walk.sort, y, z)}}
  BY <1>2, <1>3, <1>5, PageIs
<1>10. NextPage = page
  BY <1>8
<1> HIDE DEF page, C
<1>11. Served = {page.items[i].id : i \in DOMAIN page.items}
  BY <1>10 DEF Served
<1>12. \/ page.next = None /\ Served = {x.id : x \in C}
       \/ \E y \in C : /\ page.next = Cursor(walk.sort, y)
                       /\ Served = {x.id : x \in {z \in C : ~Before(walk.sort, y, z)}}
  BY <1>9, <1>11
<1> QED
  BY <1>10, <1>12 DEF C

LEMMA ServedIs ==
  ASSUME IInv, ServePage
  PROVE  /\ walk.active /\ ~walk.done /\ UNCHANGED <<backend, declaredFilter, view, rows, writes>>
         /\ backend = "list" \/ Convertible(SearchFilter) \/ walk.survivors # None
         /\ walk' \in Walks /\ walk'.survivors = None
         /\ \A g \in {"policy", "clauses", "sort", "stable", "never"} : walk'[g] = walk[g]
         /\ \A i \in Ids : walk'.seen[i] = IF i \in Served /\ walk.seen[i] < 2
                                           THEN walk.seen[i] + 1 ELSE walk.seen[i]
         /\ NextPage.next = None => walk'.done = TRUE /\ walk'.cursor = walk.cursor
         /\ NextPage.next # None => walk'.done = FALSE /\ walk'.cursor = NextPage.next
<1> DEFINE seen == [i \in Ids |-> IF i \in Served /\ walk.seen[i] < 2
                                  THEN walk.seen[i] + 1 ELSE walk.seen[i]]
           done == NextPage.next = None
           cursor == IF NextPage.next = None THEN walk.cursor ELSE NextPage.next
<1>1. /\ walk.active /\ ~walk.done /\ UNCHANGED <<backend, declaredFilter, view, rows, writes>>
      /\ backend = "list" \/ Convertible(SearchFilter) \/ walk.survivors # None
  BY DEF ServePage
<1>2. walk \in Walks
  BY <1>1, WalkIs DEF IInv
<1>3. walk' = [walk EXCEPT !.survivors = None, !.cursor = cursor, !.done = done, !.seen = seen]
  BY <1>2 DEF ServePage, Walks, Served
<1>4. seen \in [Ids -> 0..2]
  <2>1. walk.seen \in [Ids -> 0..2]
    BY <1>2 DEF Walks
  <2> QED
    BY <2>1
<1>5. cursor \in Cursors
  <2>1. NextPage.next = None \/ \E y \in Candidates : NextPage.next = Cursor(walk.sort, y)
    BY <1>1, NextPageIs
  <2>2. Candidates \subseteq Row /\ walk.sort \in Sort
    BY <1>2, TableIs DEF Candidates, IInv, Walks
  <2>3. walk.cursor \in Cursors
    BY <1>2 DEF Walks
  <2> QED
    BY <2>1, <2>2, <2>3 DEF Cursors
<1>6. done \in BOOLEAN /\ (NextPage.next = None => done = TRUE) /\ (NextPage.next # None => done = FALSE)
  OBVIOUS
<1> HIDE DEF seen, done, cursor
<1>7. walk' \in Walks
  BY <1>2, <1>3, <1>4, <1>5, <1>6 DEF Walks
<1>8. /\ walk'.survivors = None /\ walk'.seen = seen /\ walk'.done = done /\ walk'.cursor = cursor
      /\ \A g \in {"policy", "clauses", "sort", "stable", "never"} : walk'[g] = walk[g]
  BY <1>2, <1>3 DEF Walks
<1>9. \A i \in Ids : seen[i] = IF i \in Served /\ walk.seen[i] < 2 THEN walk.seen[i] + 1 ELSE walk.seen[i]
  BY DEF seen
<1>10. /\ NextPage.next = None => walk'.cursor = walk.cursor
       /\ NextPage.next # None => walk'.cursor = NextPage.next
  BY <1>8 DEF cursor
<1>11. \A i \in Ids : walk'.seen[i] = IF i \in Served /\ walk.seen[i] < 2
                                       THEN walk.seen[i] + 1 ELSE walk.seen[i]
  BY <1>8, <1>9
<1> QED
  BY <1>1, <1>6, <1>7, <1>8, <1>10, <1>11

LEMMA ServePageKeeps ==
  ASSUME IInv, ServePage
  PROVE  IInv'
<1>1. /\ walk.active /\ UNCHANGED <<backend, declaredFilter, view, rows, writes>>
      /\ walk' \in Walks
      /\ \A g \in {"policy", "clauses", "sort", "stable", "never"} : walk'[g] = walk[g]
      /\ NextPage.next = None => walk'.cursor = walk.cursor
      /\ NextPage.next # None => walk'.cursor = NextPage.next
  BY ServedIs
<1>2. walk'.stable = walk.stable /\ walk'.sort = walk.sort
  BY <1>1
<1>3. /\ walk.stable \subseteq DOMAIN rows
      /\ walk.cursor = None \/ \E y \in Row : walk.cursor = Cursor(walk.sort, y)
  BY <1>1, WalkIs DEF IInv
<1>4. NextPage.next = None \/ \E y \in Row : NextPage.next = Cursor(walk.sort, y)
  <2>1. NextPage.next = None \/ \E y \in Candidates : NextPage.next = Cursor(walk.sort, y)
    BY <1>1, NextPageIs
  <2>2. Candidates \subseteq Row
    BY TableIs DEF Candidates, IInv
  <2> QED
    BY <2>1, <2>2
<1>5. WalkOK'
  BY <1>1, <1>2, <1>3, <1>4 DEF WalkOK, WalkIn
<1>6. TableOK' /\ ViewOK'
  BY <1>1 DEF IInv, TableOK, ViewOK
<1> QED
  BY <1>1, <1>5, <1>6 DEF IInv

-----------------------------------------------------------------------------
(* The writes *)

TableIn(table) ==
  /\ IsFiniteSet(DOMAIN table) /\ DOMAIN table \subseteq Ids
  /\ \A i \in DOMAIN table : table[i] \in Row /\ table[i].id = i

(* A write changes one row, and of a row that stays only what the update   *)
(* model takes.                                                            *)
WritesOnly(i, table) ==
  /\ TableIn(table)
  /\ \A j \in Ids \ {i} : /\ j \in DOMAIN table <=> j \in DOMAIN rows
                          /\ j \in DOMAIN rows => table[j] = rows[j]
  /\ i \in DOMAIN rows /\ i \in DOMAIN table =>
       \A f \in Columns : table[i][f] # rows[i][f] => f \in ModelFields(view.dto, "update_request")

LEMMA RowIs ==
  ASSUME NEW x, x \in [Fields -> Ids \cup Values], x["id"] \in Ids, \A f \in Columns : x[f] \in Values
  PROVE  x \in Row /\ x.id = x["id"]
  BY RowsAre DEF Row

LEMMA CreateRowIs ==
  ASSUME IInv, CreateRow
  PROVE  writes < MaxWrites /\ \E i \in Ids : \E table : Written(i, table) /\ WritesOnly(i, table)
<1>1. PICK i \in Ids \ DOMAIN rows, payload \in Payloads :
        LET data == Assigned(view.dto, "create_request", payload)
        IN Written(i, With(i, [f \in Fields |-> CASE f = IdField        -> i
                                                   [] f \in DOMAIN data -> data[f]
                                                   [] OTHER             -> NULL]))
  BY DEF CreateRow
<1> DEFINE data == Assigned(view.dto, "create_request", payload)
           x == [f \in Fields |-> CASE f = IdField -> i [] f \in DOMAIN data -> data[f] [] OTHER -> NULL]
           table == With(i, x)
<1>2. Written(i, table) /\ writes < MaxWrites
  BY <1>1 DEF CreateRow, MayWrite
<1>3. DOMAIN data \subseteq Columns /\ \A f \in DOMAIN data : data[f] \in Values
  <2>1. payload \in [Columns -> Values]
    BY DEF Payloads
  <2> QED
    BY <2>1 DEF Assigned
<1>4. IdField = "id" /\ "id" \in Fields /\ NULL \in Values /\ Columns = Fields \ {"id"}
  BY RowsAre, FieldsAssumption, RowsAssumption DEF Columns
<1> HIDE DEF data
<1>5. x["id"] = i /\ \A f \in Columns : x[f] \in Values
  BY <1>3, <1>4
<1>6. x \in Row /\ x.id = i
  <2>1. x \in [Fields -> Ids \cup Values]
    BY <1>4, <1>5
  <2> HIDE DEF x
  <2> QED
    BY <1>5, <2>1, RowIs
<1> HIDE DEF x
<1>7. /\ DOMAIN table = DOMAIN rows \cup {i} /\ table[i] = x
      /\ \A j \in DOMAIN rows : table[j] = rows[j]
  BY <1>1 DEF With
<1>8. IsFiniteSet(DOMAIN rows \cup {i})
  BY FS_AddElement DEF IInv, TableOK
<1> HIDE DEF table
<1>9. WritesOnly(i, table)
  BY <1>1, <1>6, <1>7, <1>8 DEF WritesOnly, TableIn, IInv, TableOK
<1> QED
  BY <1>2, <1>9

LEMMA PatchRowIs ==
  ASSUME IInv, PatchRow
  PROVE  writes < MaxWrites /\ \E i \in Ids : \E table : Written(i, table) /\ WritesOnly(i, table)
<1>1. PICK i \in DOMAIN rows, f \in Columns, v \in Values :
        LET data == Assigned(view.dto, "update_request", [g \in {f} |-> v])
        IN Written(i, [rows EXCEPT ![i] = [g \in Fields |-> IF g \in DOMAIN data THEN data[g] ELSE @[g]]])
  BY DEF PatchRow
<1> DEFINE data == Assigned(view.dto, "update_request", [g \in {f} |-> v])
           x == [g \in Fields |-> IF g \in DOMAIN data THEN data[g] ELSE rows[i][g]]
           table == [rows EXCEPT ![i] = x]
<1>2. Written(i, table) /\ writes < MaxWrites
  BY <1>1 DEF PatchRow, MayWrite
<1>3. /\ DOMAIN data \subseteq {f} /\ DOMAIN data \subseteq ModelFields(view.dto, "update_request")
      /\ \A g \in DOMAIN data : data[g] \in Values
  BY DEF Assigned
<1>4. i \in Ids /\ rows[i] \in Row /\ rows[i].id = i
  BY DEF IInv, TableOK
<1>5. /\ "id" \in Fields /\ Columns = Fields \ {"id"} /\ rows[i]["id"] = i
      /\ \A g \in Columns : rows[i][g] \in Values
  BY <1>4, RowsAre, FieldsAssumption DEF Columns, Row
<1> HIDE DEF data
<1>6. x["id"] = i /\ \A g \in Columns : x[g] \in Values
  BY <1>3, <1>5
<1>7. x \in Row /\ x.id = i
  <2>1. x \in [Fields -> Ids \cup Values]
    BY <1>4, <1>5, <1>6
  <2> HIDE DEF x
  <2> QED
    BY <1>4, <1>6, <2>1, RowIs
<1>8. \A g \in Columns : x[g] # rows[i][g] => g \in ModelFields(view.dto, "update_request")
  BY <1>3, <1>5
<1> HIDE DEF x
<1>9. DOMAIN table = DOMAIN rows /\ table[i] = x /\ \A j \in DOMAIN rows : j # i => table[j] = rows[j]
  OBVIOUS
<1> HIDE DEF table
<1>10. TableIn(table)
  BY <1>7, <1>9 DEF TableIn, IInv, TableOK
<1>11. WritesOnly(i, table)
  BY <1>8, <1>9, <1>10 DEF WritesOnly
<1> QED
  BY <1>2, <1>4, <1>11

LEMMA DeleteRowIs ==
  ASSUME IInv, DeleteRow
  PROVE  writes < MaxWrites /\ \E i \in Ids : \E table : Written(i, table) /\ WritesOnly(i, table)
<1>1. PICK i \in DOMAIN rows : Written(i, [j \in DOMAIN rows \ {i} |-> rows[j]])
  BY DEF DeleteRow
<1> DEFINE table == [j \in DOMAIN rows \ {i} |-> rows[j]]
<1>2. Written(i, table) /\ writes < MaxWrites /\ i \in Ids
  BY <1>1 DEF DeleteRow, MayWrite, IInv, TableOK
<1>3. DOMAIN table = DOMAIN rows \ {i} /\ \A j \in DOMAIN rows \ {i} : table[j] = rows[j]
  OBVIOUS
<1>4. IsFiniteSet(DOMAIN rows \ {i})
  BY FS_RemoveElement DEF IInv, TableOK
<1> HIDE DEF table
<1>5. WritesOnly(i, table)
  BY <1>3, <1>4 DEF WritesOnly, TableIn, IInv, TableOK
<1> QED
  BY <1>2, <1>5

LEMMA WriteKeeps ==
  ASSUME IInv, writes < MaxWrites, NEW i \in Ids, NEW table, Written(i, table), WritesOnly(i, table)
  PROVE  /\ IInv'
         /\ ~walk.active => walk' = walk
         /\ walk.active =>
              /\ \A g \in {"active", "policy", "clauses", "sort", "cursor", "survivors", "done", "seen"} :
                   walk'[g] = walk[g]
              /\ walk'.stable = walk.stable \ {i}
              /\ walk'.never = IF i \in DOMAIN table => Excluded(Asked(walk.policy, walk.clauses), table[i])
                               THEN walk.never ELSE walk.never \ {i}
<1> DEFINE never == IF i \in DOMAIN table => Excluded(Asked(walk.policy, walk.clauses), table[i])
                    THEN walk.never ELSE walk.never \ {i}
<1>1. /\ rows' = table /\ writes' = writes + 1 /\ UNCHANGED <<backend, declaredFilter, view>>
      /\ ~walk.active => walk' = walk
  BY DEF Written
<1>2. walk.active => walk \in Walks
  BY WalkIs DEF IInv
<1>3. walk.active => walk' = [walk EXCEPT !.stable = walk.stable \ {i}, !.never = never]
  BY <1>2 DEF Written, Walks
<1>4. never \subseteq walk.never
  OBVIOUS
<1> HIDE DEF never
<1>5. ASSUME walk.active
      PROVE  /\ walk' \in Walks
             /\ \A g \in {"active", "policy", "clauses", "sort", "cursor", "survivors", "done", "seen"} :
                   walk'[g] = walk[g]
             /\ walk'.stable = walk.stable \ {i} /\ walk'.never = never
  <2>1. walk.stable \ {i} \in SUBSET Ids /\ never \in SUBSET Ids
    BY <1>2, <1>4, <1>5 DEF Walks
  <2>2. walk' \in Walks
    BY <1>2, <1>3, <1>5, <2>1 DEF Walks
  <2>3. /\ \A g \in {"active", "policy", "clauses", "sort", "cursor", "survivors", "done", "seen"} :
             walk'[g] = walk[g]
        /\ walk'.stable = walk.stable \ {i} /\ walk'.never = never
    BY <1>2, <1>3, <1>5 DEF Walks
  <2> QED
    BY <2>2, <2>3
<1>6. TableOK'
  BY <1>1 DEF WritesOnly, TableIn, TableOK
<1>7. WalkOK'
  <2>1. CASE walk.active
    <3>1. walk.stable \subseteq DOMAIN rows /\ DOMAIN rows \subseteq Ids
      BY <2>1, WalkIs DEF IInv, TableOK
    <3>2. walk'.stable \subseteq DOMAIN rows'
      BY <1>1, <1>5, <2>1, <3>1 DEF WritesOnly
    <3>3. walk'.cursor = None \/ \E y \in Row : walk'.cursor = Cursor(walk'.sort, y)
      BY <1>5, <2>1, WalkIs DEF IInv
    <3> QED
      BY <1>5, <2>1, <3>2, <3>3 DEF WalkOK, WalkIn
  <2>2. CASE ~walk.active
    BY <1>1, <2>2 DEF IInv, WalkOK, WalkIn, Walks
  <2> QED
    BY <2>1, <2>2
<1>8. ViewOK' /\ writes' \in 0..MaxWrites
  BY <1>1, SearchAssumption DEF IInv, ViewOK
<1> QED
  BY <1>1, <1>5, <1>6, <1>7, <1>8 DEF IInv, never

-----------------------------------------------------------------------------
(* The invariant, and what follows from it *)

LEMMA NextKeeps ==
  ASSUME IInv, [Next]_vars
  PROVE  IInv'
<1>1. CASE AddView
  BY <1>1, AddViewKeeps
<1>2. CASE Search
  BY <1>2, SearchKeeps
<1>3. ASSUME UNCHANGED vars PROVE IInv'
  BY <1>3 DEF vars, IInv, TableOK, ViewOK, WalkOK
<1>4. CASE ChangeOrder
  BY <1>3, <1>4, ChangeOrderIs
<1>5. CASE SearchFails
  <2>1. walk' = NoWalk /\ UNCHANGED <<backend, declaredFilter, view, rows, writes>>
    BY <1>5 DEF SearchFails
  <2> QED
    BY <2>1 DEF IInv, TableOK, ViewOK, WalkOK, WalkIn
<1>6. CASE Iterate
  BY <1>6, IterateKeeps
<1>7. CASE ServePage
  BY <1>7, ServePageKeeps
<1>8. CASE CreateRow
  BY <1>8, CreateRowIs, WriteKeeps
<1>9. CASE PatchRow
  BY <1>9, PatchRowIs, WriteKeeps
<1>10. CASE DeleteRow
  BY <1>10, DeleteRowIs, WriteKeeps
<1> QED
  BY <1>1, <1>2, <1>3, <1>4, <1>5, <1>6, <1>7, <1>8, <1>9, <1>10 DEF Next

LEMMA Holds == Spec => []IInv
<1>1. Init => IInv
  BY InitHolds
<1>2. IInv /\ [Next]_vars => IInv'
  BY NextKeeps
<1> QED
  BY <1>1, <1>2, PTL DEF Spec

(* The table keeps rows of the declared columns under their identifiers,   *)
(* the views only flags that the DTO has, the walk what it counts.         *)
THEOREM QueriesTypes == Spec => []TypeOK
<1>1. IInv => TypeOK
  <2> SUFFICES ASSUME IInv PROVE TypeOK
    OBVIOUS
  <2>1. walk.active => /\ walk.stable \subseteq DOMAIN rows
                       /\ walk.never \subseteq Ids
                       /\ walk.seen \in [Ids -> 0..2]
    BY WalkIs DEF IInv, Walks
  <2>2. \A i \in DOMAIN rows : rows[i].id = i /\ \A f \in Columns : rows[i][f] \in Values
    BY DEF IInv, TableOK, Row
  <2> QED
    BY <2>1, <2>2 DEF TypeOK, IInv, TableOK, ViewOK
<1> QED
  BY <1>1, Holds, PTL

(* The three backends serve the reference page: of whatever table, policy,  *)
(* clauses, order, cursor and page size, the rows the in-memory filter      *)
(* matches, in the order of compare and the identifier, past the cursor.    *)
THEOREM PagesAlwaysAgree == Spec => []PagesAgree
<1>1. IInv => PagesAgree
  BY PagesAgreeNow DEF IInv
<1> QED
  BY <1>1, Holds, PTL

LEMMA SameRowsNarrow ==
  ASSUME IInv, view' = view,
         rows' = rows \/ \E i \in Ids : \E table : rows' = table /\ WritesOnly(i, table)
  PROVE  Narrowed
<1>1. \A i \in DOMAIN rows \cap DOMAIN rows', f \in Columns :
        rows'[i][f] # rows[i][f] => f \in ModelFields(view.dto, "update_request")
  <2>1. CASE rows' = rows
    BY <2>1
  <2>2. CASE \E i \in Ids : \E table : rows' = table /\ WritesOnly(i, table)
    <3>0. PICK i \in Ids : \E table : rows' = table /\ WritesOnly(i, table)
      BY <2>2
    <3>1. PICK table : rows' = table /\ WritesOnly(i, table)
      BY <3>0
    <3>2. \A j \in DOMAIN rows : j \in Ids
      BY DEF IInv, TableOK
    <3>3. ASSUME NEW j \in DOMAIN rows \cap DOMAIN rows', NEW f \in Columns, rows'[j][f] # rows[j][f]
          PROVE  f \in ModelFields(view.dto, "update_request")
      <4>1. CASE j = i
        BY <3>1, <3>3, <4>1 DEF WritesOnly
      <4>2. CASE j # i
        BY <3>1, <3>2, <3>3, <4>2 DEF WritesOnly
      <4> QED
        BY <4>1, <4>2
    <3> QED
      BY <3>3
  <2> QED
    BY <2>1, <2>2
<1>2. declaredFilter =>
        ModelFields(view'.dto, "read_response") = ModelFields(Declared, "read_response")
  BY DEF IInv, ViewOK
<1> QED
  BY <1>1, <1>2 DEF Narrowed

LEMMA AddViewNarrows ==
  ASSUME IInv, AddView
  PROVE  Narrowed
<1>1. PICK choice \in ViewChoices :
        /\ ViewAccepted(view.dto, view.actions, declaredFilter, choice.overrides, choice.actions)
        /\ view' = [dto     |-> Derived(view.dto, choice.overrides),
                    actions |-> normalize_actions(choice.actions),
                    depth   |-> view.depth + 1]
  BY DEF AddView
<1>2. rows' = rows /\ view.dto \in [Fields -> SUBSET Models]
  BY DEF AddView, IInv, ViewOK
<1> DEFINE dto == view.dto
           actions == view.actions
           overrides == choice.overrides
           exposed == choice.actions
<1>3. view'.dto = Derived(dto, overrides) /\ view'.actions = normalize_actions(exposed)
  BY <1>1
<1>4. ViewAccepted(dto, actions, declaredFilter, overrides, exposed) /\ dto \in [Fields -> SUBSET Models]
  BY <1>1, <1>2
<1> HIDE DEF dto, actions, overrides, exposed
<1>5. /\ Derived(dto, overrides) \in [Fields -> SUBSET Models]
      /\ \A m : ModelFields(Derived(dto, overrides), m) \subseteq ModelFields(dto, m)
      /\ declaredFilter => ModelFields(Derived(dto, overrides), "read_response")
                             = ModelFields(dto, "read_response")
      /\ normalize_actions(normalize_actions(exposed)) \subseteq normalize_actions(actions)
  BY <1>4, ViewNarrows
<1>6. DOMAIN Derived(dto, overrides) = DOMAIN dto
  BY DEF Derived
<1>7. FilterSurface(Derived(dto, overrides), declaredFilter) \subseteq FilterSurface(dto, declaredFilter)
  BY <1>5, <1>6 DEF FilterSurface
<1>8. declaredFilter =>
        ModelFields(view'.dto, "read_response") = ModelFields(Declared, "read_response")
  BY <1>3, <1>5 DEF IInv, ViewOK, dto
<1> QED
  BY <1>2, <1>3, <1>5, <1>7, <1>8 DEF Narrowed, dto, actions

(* No view on top of another gives back a field, a filter parameter, a sort *)
(* field or an action, and no write changes a field that a view keeps out.  *)
THEOREM ViewsNarrow == Spec => NarrowedForever
<1>1. IInv /\ [Next]_vars => [Narrowed]_vars
  <2> SUFFICES ASSUME IInv, Next PROVE Narrowed
    OBVIOUS
  <2>1. ASSUME view' = view, rows' = rows PROVE Narrowed
    BY <2>1, SameRowsNarrow
  <2>2. ASSUME view' = view, \E i \in Ids : \E table : Written(i, table) /\ WritesOnly(i, table)
        PROVE  Narrowed
    <3>1. \E i \in Ids : \E table : rows' = table /\ WritesOnly(i, table)
      BY <2>2 DEF Written
    <3> QED
      BY <2>2, <3>1, SameRowsNarrow
  <2>3. CASE AddView
    BY <2>3, AddViewNarrows
  <2>4. CASE Search
    BY <2>1, <2>4 DEF Search
  <2>5. CASE ChangeOrder
    BY <2>1, <2>5 DEF ChangeOrder
  <2>6. CASE SearchFails
    BY <2>1, <2>6 DEF SearchFails
  <2>7. CASE Iterate
    BY <2>1, <2>7 DEF Iterate
  <2>8. CASE ServePage
    BY <2>1, <2>8 DEF ServePage
  <2>9. CASE CreateRow
    BY <2>2, <2>9, CreateRowIs DEF CreateRow, Written
  <2>10. CASE PatchRow
    BY <2>2, <2>10, PatchRowIs DEF PatchRow, Written
  <2>11. CASE DeleteRow
    BY <2>2, <2>11, DeleteRowIs DEF DeleteRow, Written
  <2> QED
    BY <2>3, <2>4, <2>5, <2>6, <2>7, <2>8, <2>9, <2>10, <2>11 DEF Next
<1> QED
  BY <1>1, Holds, PTL DEF Spec, NarrowedForever

-----------------------------------------------------------------------------
(* Paging *)

(* Where the walk stands: a row that stays has been served unless it is    *)
(* past the cursor; both queries of the fallback find it.                  *)
WalkMeets ==
  walk.active /\ ~MongoStuck(backend, walk.sort) =>
    LET f == Asked(walk.policy, walk.clauses)
    IN /\ \A i \in walk.stable :
            /\ Matches(f, rows[i]) = "true"
            /\ walk.survivors # None => i \in walk.survivors
            /\ walk.seen[i] = IF ~walk.done /\ After(backend, walk.sort, walk.cursor, rows[i])
                              THEN 0 ELSE 1
       /\ \A i \in walk.never :
            /\ i \in DOMAIN rows => Matches(f, rows[i]) = "false"
            /\ walk.survivors # None => i \notin walk.survivors
            /\ walk.seen[i] = 0

LEMMA SearchMeets ==
  ASSUME IInv, Search
  PROVE  WalkMeets'
<1>1. PICK policy \in Policies, clauses \in ClauseLists, sort \in SortOrders \cup {None}, limit \in Limits :
        walk' = NewWalk(policy, clauses, sort, limit)
  BY DEF Search
<1>2. UNCHANGED <<backend, rows>>
  BY DEF Search
<1> DEFINE f == Asked(policy, clauses)
<1>3. /\ walk'.policy = policy /\ walk'.clauses = clauses /\ walk'.survivors = None
      /\ walk'.cursor = None /\ walk'.done = FALSE /\ walk'.sort = sort
      /\ walk'.stable = {i \in DOMAIN rows : Matching(f, rows[i])}
      /\ walk'.never = {i \in Ids : i \in DOMAIN rows => Excluded(f, rows[i])}
      /\ walk'.seen = [i \in Ids |-> 0]
  BY <1>1 DEF NewWalk
<1>4. \A x : After(backend, walk'.sort, walk'.cursor, x)
  BY <1>3 DEF After
<1>5. Asked(walk'.policy, walk'.clauses) = f
  BY <1>3
<1> HIDE DEF f
<1>6. DOMAIN rows \subseteq Ids
  BY DEF IInv, TableOK
<1> QED
  BY <1>2, <1>3, <1>4, <1>5, <1>6 DEF WalkMeets, Matching, Excluded

LEMMA WriteMeets ==
  ASSUME IInv, WalkMeets, writes < MaxWrites,
         NEW i \in Ids, NEW table, Written(i, table), WritesOnly(i, table)
  PROVE  WalkMeets'
<1>1. rows' = table /\ backend' = backend
  BY DEF Written
<1>2. CASE ~walk.active
  <2>1. walk' = walk
    BY <1>2, WriteKeeps
  <2> QED
    BY <1>2, <2>1 DEF WalkMeets
<1>3. CASE walk.active
  <2> DEFINE f == Asked(walk.policy, walk.clauses)
  <2>1. /\ walk'.active = walk.active /\ walk'.policy = walk.policy /\ walk'.clauses = walk.clauses
        /\ walk'.sort = walk.sort /\ walk'.cursor = walk.cursor /\ walk'.survivors = walk.survivors
        /\ walk'.done = walk.done /\ walk'.seen = walk.seen
        /\ walk'.stable = walk.stable \ {i}
        /\ walk'.never = IF i \in DOMAIN table => Excluded(f, table[i]) THEN walk.never ELSE walk.never \ {i}
    BY <1>3, WriteKeeps
  <2>2. walk.stable \subseteq DOMAIN rows /\ DOMAIN rows \subseteq Ids /\ walk.never \subseteq Ids
    BY <1>3, WalkIs DEF IInv, TableOK, Walks
  <2>3. \A j \in Ids \ {i} : /\ j \in DOMAIN table <=> j \in DOMAIN rows
                             /\ j \in DOMAIN rows => table[j] = rows[j]
    BY DEF WritesOnly
  <2>4. Asked(walk'.policy, walk'.clauses) = f
    BY <2>1
  <2> HIDE DEF f
  <2>5. CASE MongoStuck(backend, walk.sort)
    BY <1>1, <2>1, <2>5 DEF WalkMeets
  <2>6. CASE ~MongoStuck(backend, walk.sort)
    <3>1. /\ \A j \in walk.stable :
               /\ Matches(f, rows[j]) = "true"
               /\ walk.survivors # None => j \in walk.survivors
               /\ walk.seen[j] = IF ~walk.done /\ After(backend, walk.sort, walk.cursor, rows[j])
                                 THEN 0 ELSE 1
          /\ \A j \in walk.never :
               /\ j \in DOMAIN rows => Matches(f, rows[j]) = "false"
               /\ walk.survivors # None => j \notin walk.survivors
               /\ walk.seen[j] = 0
      BY <1>3, <2>6 DEF WalkMeets, f
    <3>2. \A j \in walk'.stable : j \in walk.stable /\ rows'[j] = rows[j]
      BY <1>1, <2>1, <2>2, <2>3
    <3>3. \A j \in walk'.never : /\ j \in walk.never
                                 /\ j \in DOMAIN table => Matches(f, table[j]) = "false"
      BY <2>1, <2>2, <2>3, <3>1 DEF Excluded
    <3> QED
      BY <1>1, <2>1, <2>4, <3>1, <3>2, <3>3 DEF WalkMeets
  <2> QED
    BY <2>5, <2>6
<1> QED
  BY <1>2, <1>3

LEMMA IterateMeets ==
  ASSUME IInv, WalkMeets, Iterate
  PROVE  WalkMeets'
<1> DEFINE kept == {i \in DOMAIN rows : Matching(SearchFilter, rows[i])}
           f == Asked(walk.policy, walk.clauses)
<1>1. walk.active /\ UNCHANGED <<backend, rows>> /\ walk' = [walk EXCEPT !.survivors = kept]
  BY DEF Iterate
<1>2. /\ walk \in Walks /\ walk.stable \subseteq DOMAIN rows
      /\ walk.policy \in Policies /\ walk.clauses \in ClauseLists
  BY <1>1, WalkIs DEF IInv, Walks
<1>3. ASSUME NEW i \in DOMAIN rows PROVE i \in kept <=> Matches(f, rows[i]) = "true"
  <2>1. rows[i] \in Row
    BY DEF IInv, TableOK
  <2>2. Matches(SearchFilter, rows[i]) = "true" <=> Matches(f, rows[i]) = "true"
    BY <1>2, <2>1, CombinedKeeps DEF SearchFilter
  <2> QED
    BY <2>2 DEF Matching
<1>4. \A i \in kept : i \in DOMAIN rows
  OBVIOUS
<1> HIDE DEF kept
<1>5. /\ walk'.active = walk.active /\ walk'.policy = walk.policy /\ walk'.clauses = walk.clauses
      /\ walk'.sort = walk.sort /\ walk'.cursor = walk.cursor /\ walk'.survivors = kept
      /\ walk'.done = walk.done /\ walk'.seen = walk.seen
      /\ walk'.stable = walk.stable /\ walk'.never = walk.never
  BY <1>1, <1>2 DEF Walks
<1>6. Asked(walk'.policy, walk'.clauses) = f
  BY <1>5
<1> HIDE DEF f
<1>7. CASE MongoStuck(backend, walk.sort)
  BY <1>1, <1>5, <1>7 DEF WalkMeets
<1>8. CASE ~MongoStuck(backend, walk.sort)
  <2>1. /\ \A j \in walk.stable :
             /\ Matches(f, rows[j]) = "true"
             /\ walk.seen[j] = IF ~walk.done /\ After(backend, walk.sort, walk.cursor, rows[j])
                               THEN 0 ELSE 1
        /\ \A j \in walk.never :
             /\ j \in DOMAIN rows => Matches(f, rows[j]) = "false"
             /\ walk.seen[j] = 0
    BY <1>1, <1>8 DEF WalkMeets, f
  <2>2. \A j \in walk.stable : j \in kept
    BY <1>2, <1>3, <2>1
  <2>3. \A j \in walk.never : j \notin kept
    BY <1>3, <1>4, <2>1
  <2> QED
    BY <1>1, <1>5, <1>6, <2>1, <2>2, <2>3 DEF WalkMeets
<1> QED
  BY <1>7, <1>8

(* Whether a row is in what the next page is taken from. *)
LEMMA CandidateIs ==
  ASSUME IInv, WalkMeets, ServePage, ~MongoStuck(backend, walk.sort)
  PROVE  /\ \A i \in walk.stable : /\ rows[i] \in Row /\ rows[i].id = i
                                   /\ rows[i] \in Candidates
                                        <=> After(backend, walk.sort, walk.cursor, rows[i])
         /\ \A x \in Candidates : x \in Row /\ x = rows[x.id] /\ x.id \notin walk.never
<1> DEFINE f == Asked(walk.policy, walk.clauses)
           J == SearchFilter
<1>1. /\ walk.active
      /\ backend = "list" \/ Convertible(J) \/ walk.survivors # None
  BY ServedIs
<1>2. /\ walk \in Walks /\ walk.stable \subseteq DOMAIN rows /\ backend \in Backends
      /\ walk.policy \in Policies /\ walk.clauses \in ClauseLists
  BY <1>1, WalkIs DEF IInv, Walks
<1>3. \A i \in DOMAIN rows : rows[i] \in Row /\ rows[i].id = i /\ rows[i] \in TableRows
  BY DEF IInv, TableOK, TableRows
<1>4. ASSUME NEW x \in Row, walk.survivors = None
      PROVE  /\ Matches(f, x) = "true" => Kept(backend, J, x)
             /\ Matches(f, x) = "false" => ~Kept(backend, J, x)
  <2>1. ~RuledOut(backend, J)
    BY <1>1, <1>4 DEF RuledOut
  <2> QED
    BY <1>2, <2>1, CombinedKeeps DEF SearchFilter
<1>5. /\ \A i \in walk.stable : /\ Matches(f, rows[i]) = "true"
                                /\ walk.survivors # None => i \in walk.survivors
      /\ \A i \in walk.never : /\ i \in DOMAIN rows => Matches(f, rows[i]) = "false"
                               /\ walk.survivors # None => i \notin walk.survivors
  BY <1>1 DEF WalkMeets
<1> HIDE DEF f, J
<1>6. ASSUME NEW i \in walk.stable
      PROVE  rows[i] \in Candidates <=> After(backend, walk.sort, walk.cursor, rows[i])
  <2>1. rows[i] \in Row /\ rows[i].id = i /\ rows[i] \in TableRows
    BY <1>2, <1>3
  <2>2. IF walk.survivors # None THEN rows[i].id \in walk.survivors ELSE Kept(backend, J, rows[i])
    BY <1>4, <1>5, <2>1
  <2> QED
    BY <2>1, <2>2 DEF Candidates, J
<1>7. ASSUME NEW x \in Candidates PROVE x \in Row /\ x = rows[x.id] /\ x.id \notin walk.never
  <2>1. /\ x \in TableRows
        /\ IF walk.survivors # None THEN x.id \in walk.survivors ELSE Kept(backend, J, x)
    BY DEF Candidates, J
  <2>2. x.id \in DOMAIN rows /\ x = rows[x.id] /\ x \in Row
    BY <1>3, <2>1 DEF TableRows
  <2>3. ASSUME x.id \in walk.never PROVE FALSE
    BY <1>4, <1>5, <2>1, <2>2, <2>3
  <2> QED
    BY <2>2, <2>3
<1> QED
  BY <1>2, <1>3, <1>6, <1>7

LEMMA ServePageMeets ==
  ASSUME IInv, WalkMeets, ServePage
  PROVE  WalkMeets'
<1> DEFINE f == Asked(walk.policy, walk.clauses)
           b == backend
           sort == walk.sort
           c == walk.cursor
           C == Candidates
<1>1. /\ walk.active /\ ~walk.done /\ backend' = backend /\ rows' = rows
      /\ walk' \in Walks /\ walk'.survivors = None
      /\ \A g \in {"policy", "clauses", "sort", "stable", "never"} : walk'[g] = walk[g]
      /\ \A i \in Ids : walk'.seen[i] = IF i \in Served /\ walk.seen[i] < 2
                                        THEN walk.seen[i] + 1 ELSE walk.seen[i]
      /\ NextPage.next = None => walk'.done = TRUE /\ walk'.cursor = walk.cursor
      /\ NextPage.next # None => walk'.done = FALSE /\ walk'.cursor = NextPage.next
  BY ServedIs
<1>2. /\ walk'.active /\ walk'.policy = walk.policy /\ walk'.clauses = walk.clauses /\ walk'.sort = sort
      /\ walk'.stable = walk.stable /\ walk'.never = walk.never
      /\ Asked(walk'.policy, walk'.clauses) = f
  BY <1>1 DEF Walks
<1>3. CASE MongoStuck(b, sort)
  BY <1>1, <1>2, <1>3 DEF WalkMeets
<1>4. CASE ~MongoStuck(b, sort)
  <2>1. /\ walk \in Walks /\ b \in Backends /\ sort \in Sort
        /\ walk.stable \subseteq Ids /\ walk.never \subseteq Ids
        /\ c = None \/ \E y \in Row : c = Cursor(sort, y)
    BY <1>1, WalkIs DEF IInv, Walks
  <2>2. /\ \A i \in walk.stable :
             /\ Matches(f, rows[i]) = "true"
             /\ walk.seen[i] = IF After(b, sort, c, rows[i]) THEN 0 ELSE 1
        /\ \A i \in walk.never :
             /\ i \in DOMAIN rows => Matches(f, rows[i]) = "false"
             /\ walk.seen[i] = 0
    BY <1>1, <1>4 DEF WalkMeets
  <2>3. /\ \A i \in walk.stable : /\ rows[i] \in Row /\ rows[i].id = i
                                  /\ rows[i] \in C <=> After(b, sort, c, rows[i])
        /\ \A x \in C : x \in Row /\ x = rows[x.id] /\ x.id \notin walk.never
    BY <1>4, CandidateIs
  <2>4. \/ NextPage.next = None /\ Served = {x.id : x \in C}
        \/ \E y \in C : /\ NextPage.next = Cursor(sort, y)
                        /\ Served = {x.id : x \in {z \in C : ~Before(sort, y, z)}}
    BY <1>1, NextPageIs
  <2>5. \A i \in walk.never : i \notin Served
    BY <2>3, <2>4
  <2> HIDE DEF f, C, b, sort, c
  <2>6. ASSUME NEW i \in walk.stable
        PROVE  walk'.seen[i] = IF ~walk'.done /\ After(b, sort, walk'.cursor, rows[i]) THEN 0 ELSE 1
    <3>1. i \in Ids /\ walk.seen[i] = IF After(b, sort, c, rows[i]) THEN 0 ELSE 1
      BY <2>1, <2>2
    <3>2. walk'.seen[i] = IF i \in Served THEN walk.seen[i] + 1 ELSE walk.seen[i]
      BY <1>1, <3>1
    <3>3. CASE NextPage.next = None /\ Served = {x.id : x \in C}
      <4>1. i \in Served <=> rows[i] \in C
        BY <2>3, <3>3
      <4> QED
        BY <1>1, <2>3, <3>1, <3>2, <3>3, <4>1
    <3>4. ASSUME NEW y \in C, NextPage.next = Cursor(sort, y),
                 Served = {x.id : x \in {z \in C : ~Before(sort, y, z)}}
          PROVE  walk'.seen[i] = IF ~walk'.done /\ After(b, sort, walk'.cursor, rows[i]) THEN 0 ELSE 1
      <4>1. y \in Row /\ rows[i] \in Row
        BY <2>3
      <4>2. Cursor(sort, y) # None
        BY <2>1, <4>1, CursorsAre
      <4>3. ~walk'.done /\ walk'.cursor = Cursor(sort, y)
        BY <1>1, <3>4, <4>2
      <4>4. After(b, sort, walk'.cursor, rows[i]) <=> Before(sort, y, rows[i])
        BY <1>4, <2>1, <4>1, <4>3, PastCursor
      <4>5. i \in Served <=> rows[i] \in C /\ ~Before(sort, y, rows[i])
        BY <2>3, <3>4
      <4>6. ASSUME ~After(b, sort, c, rows[i]) PROVE ~Before(sort, y, rows[i])
        <5>1. c # None
          BY <4>6 DEF After
        <5>2. PICK z \in Row : c = Cursor(sort, z)
          BY <2>1, <5>1
        <5>3. ~Before(sort, z, rows[i])
          BY <1>4, <2>1, <4>1, <4>6, <5>2, PastCursor
        <5>4. After(b, sort, c, y)
          BY DEF C, Candidates, b, sort, c
        <5>5. Before(sort, z, y)
          BY <1>4, <2>1, <4>1, <5>2, <5>4, PastCursor
        <5> QED
          BY <2>1, <4>1, <5>3, <5>5, BeforeIsOrder
      <4>7. CASE After(b, sort, c, rows[i])
        BY <2>3, <3>1, <3>2, <4>3, <4>4, <4>5, <4>7
      <4>8. CASE ~After(b, sort, c, rows[i])
        BY <2>3, <3>1, <3>2, <4>3, <4>4, <4>5, <4>6, <4>8
      <4> QED
        BY <4>7, <4>8
    <3> QED
      BY <2>4, <3>3, <3>4
  <2>7. \A i \in walk.never : walk'.seen[i] = 0
    BY <1>1, <2>1, <2>2, <2>5
  <2> QED
    BY <1>1, <1>2, <2>2, <2>6, <2>7 DEF WalkMeets, b, sort
<1> QED
  BY <1>3, <1>4

LEMMA NextMeets ==
  ASSUME IInv, WalkMeets, [Next]_vars
  PROVE  WalkMeets'
<1>1. ASSUME UNCHANGED <<backend, rows, walk>> PROVE WalkMeets'
  BY <1>1 DEF WalkMeets
<1>2. CASE UNCHANGED vars
  BY <1>1, <1>2 DEF vars
<1>3. CASE AddView
  BY <1>1, <1>3 DEF AddView
<1>4. CASE Search
  BY <1>4, SearchMeets
<1>5. CASE ChangeOrder
  BY <1>1, <1>5, ChangeOrderIs DEF vars
<1>6. CASE SearchFails
  BY <1>6 DEF SearchFails, WalkMeets, NoWalk
<1>7. CASE Iterate
  BY <1>7, IterateMeets
<1>8. CASE ServePage
  BY <1>8, ServePageMeets
<1>9. CASE CreateRow
  BY <1>9, CreateRowIs, WriteMeets
<1>10. CASE PatchRow
  BY <1>10, PatchRowIs, WriteMeets
<1>11. CASE DeleteRow
  BY <1>11, DeleteRowIs, WriteMeets
<1> QED
  BY <1>2, <1>3, <1>4, <1>5, <1>6, <1>7, <1>8, <1>9, <1>10, <1>11 DEF Next

LEMMA Meets == Spec => [](IInv /\ WalkMeets)
<1>1. Init => WalkMeets
  BY DEF Init, NoWalk, WalkMeets
<1>2. IInv /\ WalkMeets /\ [Next]_vars => WalkMeets'
  BY NextMeets
<1> QED
  BY <1>1, <1>2, Holds, PTL DEF Spec

(* Paging meets every row that stays, exactly once, and none that never    *)
(* matched: in every walk but one of a Mongo collection by descending      *)
(* identifier, whatever is written between its pages.                      *)
THEOREM EveryOtherWalkCompletes ==
  Spec => [](MongoStuck(backend, walk.sort) \/ WalkComplete)
<1>1. IInv /\ WalkMeets => MongoStuck(backend, walk.sort) \/ WalkComplete
  <2> SUFFICES ASSUME IInv, WalkMeets, walk.active, ~MongoStuck(backend, walk.sort)
               PROVE  /\ \A i \in walk.stable : walk.seen[i] <= 1 /\ (walk.done => walk.seen[i] = 1)
                      /\ \A i \in walk.never : walk.seen[i] = 0
    BY DEF WalkComplete
  <2> QED
    BY DEF WalkMeets
<1> QED
  BY <1>1, Meets, PTL

(* Only a walk that Search began with that order has it: where no client    *)
(* asks for one, every walk is complete.                                    *)
Avoided == walk.active => ~MongoStuck(backend, walk.sort)

LEMMA NeverStuck ==
  ASSUME MongoIdDescending = FALSE
  PROVE  Spec => []Avoided
<1>1. Init => Avoided
  BY DEF Init, NoWalk, Avoided
<1>2. IInv /\ Avoided /\ [Next]_vars => Avoided'
  <2> SUFFICES ASSUME IInv, Avoided, [Next]_vars PROVE Avoided'
    OBVIOUS
  <2>1. ASSUME UNCHANGED <<backend, walk>> PROVE Avoided'
    BY <2>1 DEF Avoided
  <2>2. ASSUME backend' = backend, walk.active, walk'.active = walk.active, walk'.sort = walk.sort
        PROVE  Avoided'
    BY <2>2 DEF Avoided
  <2>3. CASE UNCHANGED vars
    BY <2>1, <2>3 DEF vars
  <2>4. CASE AddView
    BY <2>1, <2>4 DEF AddView
  <2>5. CASE Search
    <3>1. PICK policy \in Policies, clauses \in ClauseLists, sort \in SortOrders \cup {None}, limit \in Limits :
            /\ (backend = "mongo" /\ Sorts(sort, IdField)) => (sort.descending <=> MongoIdDescending)
            /\ walk' = NewWalk(policy, clauses, sort, limit)
      BY <2>5 DEF Search
    <3>2. walk'.sort = sort /\ backend' = backend
      BY <2>5, <3>1 DEF Search, NewWalk
    <3> QED
      BY <3>1, <3>2 DEF Avoided, MongoStuck
  <2>6. CASE ChangeOrder
    BY <2>1, <2>6, ChangeOrderIs DEF vars
  <2>7. CASE SearchFails
    BY <2>7 DEF SearchFails, Avoided, NoWalk
  <2>8. CASE Iterate
    <3>1. walk.active /\ backend' = backend /\ walk \in Walks
      BY <2>8, WalkIs DEF Iterate, IInv
    <3>2. walk'.active = walk.active /\ walk'.sort = walk.sort
      BY <2>8, <3>1 DEF Iterate, Walks
    <3> QED
      BY <2>2, <3>1, <3>2
  <2>9. CASE ServePage
    <3>1. /\ walk.active /\ backend' = backend /\ walk \in Walks /\ walk' \in Walks
          /\ \A g \in {"policy", "clauses", "sort", "stable", "never"} : walk'[g] = walk[g]
      BY <2>9, ServedIs, WalkIs DEF IInv
    <3>2. walk'.active = walk.active /\ walk'.sort = walk.sort
      BY <3>1 DEF Walks
    <3> QED
      BY <2>2, <3>1, <3>2
  <2>10. ASSUME writes < MaxWrites, \E i \in Ids : \E table : Written(i, table) /\ WritesOnly(i, table)
         PROVE  Avoided'
    <3>0. PICK i \in Ids : \E table : Written(i, table) /\ WritesOnly(i, table)
      BY <2>10
    <3>1. PICK table : Written(i, table) /\ WritesOnly(i, table)
      BY <3>0
    <3>2. /\ ~walk.active => walk' = walk
          /\ walk.active => walk'.active = walk.active /\ walk'.sort = walk.sort
      BY <2>10, <3>1, WriteKeeps
    <3>3. backend' = backend
      BY <3>1 DEF Written
    <3> QED
      BY <2>1, <2>2, <3>2, <3>3
  <2>11. CASE CreateRow
    BY <2>10, <2>11, CreateRowIs
  <2>12. CASE PatchRow
    BY <2>10, <2>12, PatchRowIs
  <2>13. CASE DeleteRow
    BY <2>10, <2>13, DeleteRowIs
  <2> QED
    BY <2>3, <2>4, <2>5, <2>6, <2>7, <2>8, <2>9, <2>11, <2>12, <2>13 DEF Next
<1> QED
  BY <1>1, <1>2, Holds, PTL DEF Spec

(* Where Mongo is not asked for descending identifiers, as in the run, each *)
(* row that matches and is left alone is served exactly once, and a row     *)
(* that never matched is not served.                                        *)
THEOREM WalksComplete ==
  ASSUME MongoIdDescending = FALSE
  PROVE  Spec => []WalkComplete
<1>1. Spec => []Avoided
  BY NeverStuck
<1>2. Avoided /\ (MongoStuck(backend, walk.sort) \/ WalkComplete) => WalkComplete
  BY DEF Avoided, WalkComplete
<1> QED
  BY <1>1, <1>2, EveryOtherWalkCompletes, PTL
=============================================================================
