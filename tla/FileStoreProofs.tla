--------------------------- MODULE FileStoreProofs ---------------------------
(***************************************************************************)
(* Theorems about FileStore, for every number of workers, names, keys of   *)
(* encryption, requests and faults, and for every page size.               *)
(***************************************************************************)
EXTENDS FileStore, FiniteSetTheorems, WellFoundedInduction, TLAPS

-----------------------------------------------------------------------------
(* Names: the least, the greatest and the first of them *)

LEMMA NamesAreNumbers ==
  /\ Path \subseteq Nat \ {0} /\ Key \subseteq Path /\ Temp \subseteq Path
  /\ Key \cap Temp = {} /\ IsFiniteSet(Path) /\ Idle \notin Path
  /\ Kid \subseteq Nat /\ Kid # {} /\ PageSize \in Nat \ {0}
  <1>1. Path \subseteq Nat \ {0} /\ Kid \subseteq Nat
    BY FilesAssumption
  <1>2. Key \subseteq Path /\ Temp \subseteq Path
    BY DEF Path
  <1>3. ASSUME NEW k \in Key, k \in Temp PROVE FALSE
    <2>1. k < k
      BY <1>3, FilesAssumption
    <2> QED
      BY <1>1, <1>2, <2>1
  <1>4. Key \cap Temp = {}
    BY <1>3
  <1> QED
    BY <1>1, <1>2, <1>4, FilesAssumption

LEMMA LeastOf ==
  ASSUME NEW S \in SUBSET Nat, S # {}
  PROVE  Min(S) \in S /\ \A y \in S : Min(S) <= y
  <1>1. PICK x \in S : \A y \in S : ~(<<y, x>> \in OpToRel(<, Nat))
    <2>1. S \subseteq Nat
      OBVIOUS
    <2> QED
      BY <2>1, WFMin, NatLessThanWellFounded
  <1>2. ASSUME NEW y \in S PROVE x <= y
    <2>1. x \in Nat /\ y \in Nat
      OBVIOUS
    <2>2. ~(y < x)
      BY <1>1, <2>1 DEF OpToRel
    <2> HIDE <1>1
    <2> QED
      BY <2>1, <2>2
  <1> QED
    BY <1>2 DEF Min

LEMMA GreatestOf ==
  ASSUME NEW S \in SUBSET Nat, IsFiniteSet(S), S # {}
  PROVE  Max(S) \in S /\ \A y \in S : Max(S) >= y
  <1> DEFINE Above(p) == {q \in S : q > p}
             Counts == {Cardinality(Above(p)) : p \in S}
  <1>1. ASSUME NEW p \in S PROVE IsFiniteSet(Above(p)) /\ Cardinality(Above(p)) \in Nat
    <2>1. Above(p) \in SUBSET S
      OBVIOUS
    <2>2. IsFiniteSet(Above(p))
      BY <2>1, FS_Subset
    <2> QED
      BY <2>2, FS_CardinalityType
  <1>2. Counts \in SUBSET Nat /\ Counts # {}
    BY <1>1
  <1>3. Min(Counts) \in Counts /\ \A n \in Counts : Min(Counts) <= n
    BY <1>2, LeastOf
  <1>4. PICK x \in S : Min(Counts) = Cardinality(Above(x))
    BY <1>3
  <1>5. ASSUME NEW y \in S, y > x PROVE FALSE
    <2>1. x \in Nat /\ y \in Nat /\ \A q \in S : q \in Nat
      OBVIOUS
    <2>2. ~(y > y) /\ \A q \in S : q > y => q > x
      BY <1>5, <2>1
    <2>3. Above(y) \in SUBSET Above(x) /\ y \in Above(x) /\ y \notin Above(y)
      BY <1>5, <2>2
    <2>4. Cardinality(Above(y)) <= Cardinality(Above(x))
      BY <1>1, <2>3, FS_Subset
    <2>5. Cardinality(Above(x)) # Cardinality(Above(y))
      BY <1>1, <2>3, FS_Subset
    <2>6. Cardinality(Above(x)) <= Cardinality(Above(y))
      BY <1>3, <1>4
    <2> HIDE DEF Above
    <2> QED
      BY <1>1, <2>4, <2>5, <2>6
  <1>6. ASSUME NEW y \in S PROVE x >= y
    <2>1. x \in Nat /\ y \in Nat
      OBVIOUS
    <2>2. ~(y > x)
      BY <1>5
    <2> QED
      BY <2>1, <2>2
  <1> QED
    BY <1>6 DEF Max

(* The n first names come before all others, are all of them if there are no more than n, *)
(* and are at least n if there are others.                                                  *)
LEMMA FirstsOf ==
  ASSUME NEW S \in SUBSET Nat, IsFiniteSet(S), NEW n \in Nat
  PROVE  /\ Firsts(S, n) \subseteq S
         /\ IsFiniteSet(Firsts(S, n)) /\ Cardinality(Firsts(S, n)) \in Nat
         /\ \A p \in Firsts(S, n), q \in S \ Firsts(S, n) : p < q
         /\ Cardinality(S) <= n => Firsts(S, n) = S
         /\ Firsts(S, n) # S => Cardinality(Firsts(S, n)) >= n
  <1> DEFINE Below(p) == {q \in S : q < p}
  <1>1. \A p \in S : IsFiniteSet(Below(p)) /\ Cardinality(Below(p)) \in Nat
    <2> SUFFICES ASSUME NEW p \in S PROVE IsFiniteSet(Below(p)) /\ Cardinality(Below(p)) \in Nat
      OBVIOUS
    <2>1. Below(p) \in SUBSET S
      OBVIOUS
    <2>2. IsFiniteSet(Below(p))
      BY <2>1, FS_Subset
    <2> QED
      BY <2>2, FS_CardinalityType
  <1>2. Firsts(S, n) = {p \in S : Cardinality(Below(p)) < n}
    BY DEF Firsts
  <1>3. \A p, q \in S : q <= p => Cardinality(Below(q)) <= Cardinality(Below(p))
    <2> SUFFICES ASSUME NEW p \in S, NEW q \in S, q <= p
                 PROVE  Cardinality(Below(q)) <= Cardinality(Below(p))
      OBVIOUS
    <2>1. \A r \in S : r \in Nat
      OBVIOUS
    <2>2. \A r \in S : r < q => r < p
      BY <2>1
    <2>3. Below(q) \in SUBSET Below(p)
      BY <2>2
    <2> QED
      BY <1>1, <2>3, FS_Subset
  <1>4. \A p \in S : Cardinality(Below(p)) < Cardinality(S)
    <2> SUFFICES ASSUME NEW p \in S PROVE Cardinality(Below(p)) < Cardinality(S)
      OBVIOUS
    <2>1. Below(p) \in SUBSET S /\ p \notin Below(p)
      OBVIOUS
    <2>2. Cardinality(Below(p)) <= Cardinality(S) /\ Cardinality(S) # Cardinality(Below(p))
      BY <2>1, FS_Subset
    <2>3. Cardinality(S) \in Nat
      BY FS_CardinalityType
    <2> HIDE DEF Below
    <2> QED
      BY <1>1, <2>2, <2>3
  <1>5. \A T \in SUBSET S : T # {} => \E p \in T : Below(p) \cap T = {}
    <2> SUFFICES ASSUME NEW T \in SUBSET S, T # {} PROVE \E p \in T : Below(p) \cap T = {}
      OBVIOUS
    <2>1. PICK x \in T : \A y \in T : x <= y
      BY LeastOf
    <2>2. ASSUME NEW y \in T PROVE ~(y < x)
      <3>1. x \in Nat /\ y \in Nat /\ x <= y
        BY <2>1
      <3> QED
        BY <3>1
    <2>3. Below(x) \cap T = {}
      BY <2>2
    <2> QED
      BY <2>3
  <1>6. \A p \in S : Below(p) \subseteq S
    OBVIOUS
  <1> HIDE DEF Below
  <1>7. Firsts(S, n) \in SUBSET S
    BY <1>2
  <1>8. IsFiniteSet(Firsts(S, n))
    BY <1>7, FS_Subset
  <1>9. Cardinality(Firsts(S, n)) \in Nat /\ Cardinality(S) \in Nat
    BY <1>8, FS_CardinalityType
  <1>10. ASSUME NEW p \in Firsts(S, n), NEW q \in S \ Firsts(S, n) PROVE p < q
    <2>1. p \in S /\ q \in S
      BY <1>7
    <2>2. p \in Nat /\ q \in Nat
      BY <2>1
    <2>3. Cardinality(Below(p)) < n /\ ~(Cardinality(Below(q)) < n)
      BY <1>2, <2>1
    <2>4. Cardinality(Below(p)) \in Nat /\ Cardinality(Below(q)) \in Nat
      BY <1>1, <2>1
    <2>5. ~(Cardinality(Below(q)) <= Cardinality(Below(p)))
      BY <2>3, <2>4
    <2>6. ~(q <= p)
      BY <1>3, <2>1, <2>5
    <2> QED
      BY <2>2, <2>6
  <1>11. ASSUME Cardinality(S) <= n PROVE Firsts(S, n) = S
    <2>1. \A p \in S : Cardinality(Below(p)) < n
      BY <1>1, <1>4, <1>9, <1>11
    <2> QED
      BY <1>2, <2>1
  <1>12. ASSUME Firsts(S, n) # S PROVE Cardinality(Firsts(S, n)) >= n
    <2>1. PICK q \in S \ Firsts(S, n) : Below(q) \cap (S \ Firsts(S, n)) = {}
      BY <1>5, <1>7, <1>12
    <2>2. Below(q) \in SUBSET Firsts(S, n)
      BY <1>6, <2>1
    <2>3. Cardinality(Below(q)) <= Cardinality(Firsts(S, n))
      BY <1>8, <2>2, FS_Subset
    <2>4. ~(Cardinality(Below(q)) < n)
      BY <1>2
    <2> QED
      BY <1>1, <1>9, <2>3, <2>4
  <1> QED
    BY <1>7, <1>8, <1>9, <1>10, <1>11, <1>12

-----------------------------------------------------------------------------
(* What each request is doing: the stages of its operation, its paths, its temporary file *)

Creating == {"put", "write", "replace", "put meta", "write meta", "replace meta", "stat"}
Heading == {"head", "head bytes", "head meta", "head stat"}
Getting == {"get", "get bytes"}
Removing == {"delete", "unlink", "delete meta", "unlink meta"}
Filling == {"write", "replace", "write meta", "replace meta"}
OfOnePath == {"read", "download", "content", "signed", "delete"}

Heads == UNION {[S -> {"absent", "named", "unnamed"}] : S \in SUBSET Path}

Jobs ==
  [op : OfOnePath \cup {"none", "create", "search", "batch"}, id : Path \cup {Idle},
   at : Creating \cup Heading \cup Getting \cup Removing \cup {"idle", "list", "headed"},
   todo : SUBSET Path, found : Heads, bytes : Contents, named : BOOLEAN,
   temp : Temp \cup {Idle}]

(* Only the local medium asks for the heads of a listing, one by one. *)
Fits(j) ==
  /\ j.at = "idle" <=> j.op = "none"
  /\ j.at \in Creating <=> j.op = "create"
  /\ j.at \in Getting => j.op \in {"content", "signed"}
  /\ j.at \in Removing => j.op = "delete"
  /\ j.at = "list" => j.op = "search" /\ DOMAIN j.found = {}
  /\ j.op = "search" /\ j.at \in Heading => medium = "local"
  /\ j.op = "create" => j.id \in Key
  /\ j.op \in OfOnePath => j.id \in Path
  /\ j.at \in Filling <=> j.temp # Idle
  /\ j.at \in Heading <=> j.todo # {}

Walks ==
  [at : {"start", "more", "waiting", "over"}, after : Nat, kid : Kid \cup {Idle},
   seen : [Path -> Nat], must : SUBSET Key, thinned : BOOLEAN]

Stored ==
  /\ medium \in Media /\ now \in 0 .. MaxTime /\ faults \in 0 .. MaxFaults
  /\ files \in [Path -> Contents] /\ metas \subseteq Key
  /\ acked \subseteq used /\ used \subseteq Key /\ deleting \subseteq Path /\ early \in BOOLEAN

Coded ==
  /\ kids.signing \in kids.accepted /\ kids.accepted \subseteq Kid
  /\ \A m \in minted : m.key \in Path /\ m.exp = m.at + Ttl

Requested ==
  /\ job \in [Worker -> Jobs]
  /\ \A w \in Worker : Fits(job[w])

(* uuid4's names: each is one upload's, and the upload that is under way is not answered. *)
Uploading ==
  /\ \A v, w \in Worker :
       job[v].op = "create" /\ job[w].op = "create" /\ job[v].id = job[w].id => v = w
  /\ \A w \in Worker : job[w].op = "create" => job[w].id \in used \ acked

TypeInv == Stored /\ Coded /\ Requested /\ Uploading /\ walk \in Walks

-----------------------------------------------------------------------------
(* Each step changes the request of one worker, if any *)

LEMMA EmptyHeads == <<>> \in Heads /\ DOMAIN <<>> = {}
  <1>1. <<>> \in [{} -> {"absent", "named", "unnamed"}]
    OBVIOUS
  <1> QED
    BY <1>1 DEF Heads

LEMMA HeadsOf ==
  ASSUME NEW S \in SUBSET Path, NEW f \in [S -> {"absent", "named", "unnamed"}]
  PROVE  f \in Heads
  BY DEF Heads

LEMMA HeadsAre ==
  ASSUME NEW f \in Heads
  PROVE  /\ DOMAIN f \subseteq Path
         /\ \A p \in DOMAIN f : f[p] \in {"absent", "named", "unnamed"}
  BY DEF Heads

Becomes(w, r) == r \in Jobs /\ Fits(r) /\ job' = [job EXCEPT ![w] = r]

LEMMA RequestIsJob ==
  ASSUME NEW op \in OfOnePath \cup {"none", "create", "search", "batch"},
         NEW id \in Path \cup {Idle},
         NEW at \in Creating \cup Heading \cup Getting \cup Removing \cup {"idle", "list", "headed"}
  PROVE  Request(op, id, at) \in Jobs
  <1>1. Absent \in Contents
    BY DEF Contents
  <1> QED
    BY <1>1, EmptyHeads DEF Request, Jobs

LEMMA NoRequestFits ==
  /\ NoRequest \in Jobs /\ Fits(NoRequest)
  /\ NoRequest.op = "none" /\ NoRequest.at = "idle" /\ NoRequest.temp = Idle
  <1>1. NoRequest \in Jobs
    BY RequestIsJob DEF NoRequest
  <1>2. Fits(NoRequest)
    BY DEF NoRequest, Request, Fits, Creating, Heading, Getting, Removing, Filling, OfOnePath
  <1>3. NoRequest.op = "none" /\ NoRequest.at = "idle" /\ NoRequest.temp = Idle
    BY DEF NoRequest, Request
  <1> QED
    BY <1>1, <1>2, <1>3

(* Whose request it is does not change until it is answered, nor do bytes once read. *)
Follows(r, j) ==
  r.op = "none" \/ (r.op = j.op /\ r.id = j.id /\ (j.at \in Getting \/ r.bytes = j.bytes))

Moves(w) == \E r : Becomes(w, r) /\ Follows(r, job[w])

Begins(w) == job[w].op = "none" /\ \E r : Becomes(w, r)

LEMMA SameRequest ==
  ASSUME NEW w, NEW r, Becomes(w, r),
         r.op = job[w].op, r.id = job[w].id, r.bytes = job[w].bytes
  PROVE  Moves(w)
  BY DEF Moves, Follows

LEMMA JobOf ==
  ASSUME TypeInv, NEW w \in Worker
  PROVE  job[w] \in Jobs /\ Fits(job[w])
  BY DEF TypeInv, Requested

LEMMA AnswerMoves ==
  ASSUME NEW w, NEW status, NEW body, Answer(w, status, body)
  PROVE  Moves(w)
  BY NoRequestFits DEF Answer, Moves, Becomes, Follows

LEMMA GotoMoves ==
  ASSUME TypeInv, NEW w \in Worker,
         NEW at \in Creating \cup Heading \cup Getting \cup Removing, Goto(w, at),
         \/ job[w].at \in Creating /\ at \in Creating
            /\ (job[w].at \in Filling <=> at \in Filling)
         \/ job[w].at \in Heading /\ at \in Heading
         \/ job[w].at \in Getting /\ at \in Getting
         \/ job[w].at \in Removing /\ at \in Removing
         \/ job[w].at = "headed" /\ job[w].op = "delete" /\ at \in Removing
         \/ job[w].at = "headed" /\ job[w].op = "content" /\ at \in Getting
  PROVE  Moves(w)
  <1>1. job[w] \in Jobs /\ Fits(job[w])
    BY JobOf
  <1>2. [job[w] EXCEPT !.at = at] \in Jobs
    BY <1>1 DEF Jobs
  <1>3. Fits([job[w] EXCEPT !.at = at])
    <2>1. ASSUME job[w].at \in Creating, at \in Creating,
                 (job[w].at \in Filling <=> at \in Filling)
          PROVE  Fits([job[w] EXCEPT !.at = at])
      BY <1>1, <2>1 DEF Jobs, Fits, Creating, Heading, Getting, Removing, Filling
    <2>2. ASSUME job[w].at \in Heading, at \in Heading
          PROVE  Fits([job[w] EXCEPT !.at = at])
      BY <1>1, <2>2 DEF Jobs, Fits, Creating, Heading, Getting, Removing, Filling
    <2>3. ASSUME job[w].at \in Getting \/ (job[w].at = "headed" /\ job[w].op = "content"),
                 at \in Getting
          PROVE  Fits([job[w] EXCEPT !.at = at])
      BY <1>1, <2>3 DEF Jobs, Fits, Creating, Heading, Getting, Removing, Filling
    <2>4. ASSUME job[w].at \in Removing \/ (job[w].at = "headed" /\ job[w].op = "delete"),
                 at \in Removing
          PROVE  Fits([job[w] EXCEPT !.at = at])
      BY <1>1, <2>4 DEF Jobs, Fits, Creating, Heading, Getting, Removing, Filling
    <2> QED
      BY <2>1, <2>2, <2>3, <2>4
  <1>4. /\ [job[w] EXCEPT !.at = at].op = job[w].op
       /\ [job[w] EXCEPT !.at = at].id = job[w].id
       /\ [job[w] EXCEPT !.at = at].bytes = job[w].bytes
    BY <1>1 DEF Jobs
  <1>5. Becomes(w, [job[w] EXCEPT !.at = at])
    BY <1>2, <1>3 DEF Becomes, Goto, Step
  <1> QED
    BY <1>4, <1>5, SameRequest

(* What a request becomes once the path that is due has its head. *)
LEMMA HeadedMoves ==
  ASSUME TypeInv, NEW w \in Worker, job[w].at \in Heading,
         NEW info \in {"absent", "named", "unnamed"}, Step(w, Headed(w, info))
  PROVE  Moves(w)
  <1>1. job[w] \in Jobs /\ Fits(job[w])
    BY JobOf
  <1>2. job[w].todo \in SUBSET Nat /\ job[w].todo # {} /\ job[w].todo \subseteq Path
    BY <1>1, NamesAreNumbers DEF Jobs, Fits
  <1>3. Due(w) \in job[w].todo
    BY <1>2, LeastOf DEF Due
  <1> DEFINE heads == [p \in DOMAIN job[w].found \cup {Due(w)} |->
                         IF p = Due(w) THEN info ELSE job[w].found[p]]
  <1>4. job[w].found \in Heads
    BY <1>1 DEF Jobs
  <1>5. heads \in Heads
    <2>1. DOMAIN job[w].found \cup {Due(w)} \in SUBSET Path
      BY <1>2, <1>3, <1>4, HeadsAre
    <2>2. heads \in [DOMAIN job[w].found \cup {Due(w)} -> {"absent", "named", "unnamed"}]
      BY <1>4, HeadsAre
    <2> QED
      BY <2>1, <2>2, HeadsOf
  <1>6. Headed(w, info) =
          [job[w] EXCEPT !.found = heads, !.todo = job[w].todo \ {Due(w)}, !.named = FALSE,
                         !.at = IF job[w].todo = {Due(w)} THEN "headed" ELSE "head"]
    BY <1>1 DEF Headed, Jobs
  <1> HIDE DEF heads
  <1>7. Headed(w, info) \in Jobs
    BY <1>1, <1>5, <1>6 DEF Jobs, Heading
  <1> DEFINE r == Headed(w, info)
  <1>8. /\ r.op = job[w].op /\ r.id = job[w].id /\ r.temp = job[w].temp
        /\ r.bytes = job[w].bytes
        /\ r.todo = job[w].todo \ {Due(w)}
        /\ r.at = IF job[w].todo = {Due(w)} THEN "headed" ELSE "head"
    BY <1>1, <1>6 DEF Jobs
  <1> HIDE DEF r
  <1>9. (r.at \in Heading <=> r.todo # {}) /\ r.at \in {"head", "headed"}
    BY <1>3, <1>8 DEF Heading
  <1>10. job[w].op \notin {"none", "create"} /\ job[w].temp = Idle
    BY <1>1 DEF Fits, Jobs, Creating, Heading, Filling
  <1>11. Fits(r)
    BY <1>1, <1>8, <1>9, <1>10
    DEF Jobs, Fits, Creating, Heading, Getting, Removing, Filling
  <1> QED
    BY <1>7, <1>8, <1>11 DEF Moves, Becomes, Follows, Step, r

LEMMA IdleHasNone ==
  ASSUME TypeInv, NEW w \in Worker, Serving(w, "idle")
  PROVE  job[w].op = "none"
  BY JobOf DEF Serving, Fits

(* A request for the heads of some paths. *)
LEMMA AskingBegins ==
  ASSUME TypeInv, NEW w \in Worker, NEW op \in (OfOnePath \ {"signed"}) \cup {"batch"}, NEW id \in Path \cup {Idle},
         op = "batch" \/ id \in Path, NEW paths \in (SUBSET Path) \ {{}}, Serving(w, "idle"),
         job' = [job EXCEPT ![w] = [Request(op, id, "head") EXCEPT !.todo = paths]]
  PROVE  Begins(w)
  <1>1. Request(op, id, "head") \in Jobs
    BY RequestIsJob DEF Heading
  <1>2. [Request(op, id, "head") EXCEPT !.todo = paths] \in Jobs
    BY <1>1 DEF Jobs
  <1>3. Fits([Request(op, id, "head") EXCEPT !.todo = paths])
    BY DEF Request, Fits, Creating, Heading, Getting, Removing, Filling, OfOnePath
  <1> QED
    BY <1>2, <1>3, IdleHasNone DEF Begins, Becomes

LEMMA PutMoves ==
  ASSUME TypeInv, NEW w \in Worker, Put(w)
  PROVE  Moves(w)
  <1>1. job[w] \in Jobs /\ Fits(job[w])
    BY JobOf
  <1>2. CASE PutBlob(w)
    BY <1>2, AnswerMoves DEF PutBlob, Acknowledge
  <1>3. CASE PutObject(w)
    BY <1>3, GotoMoves DEF PutObject, Serving, Creating, Filling
  <1>4. CASE DescribeObject(w)
    BY <1>4, AnswerMoves DEF DescribeObject, Acknowledge
  <1>5. CASE MakeTemp(w)
    <2>1. PICK t \in TempFor(w) :
            Step(w, [job[w] EXCEPT !.temp = t, !.at = IF @ = "put" THEN "write" ELSE "write meta"])
      BY <1>5 DEF MakeTemp
    <2> DEFINE r == [job[w] EXCEPT !.temp = t, !.at = IF @ = "put" THEN "write" ELSE "write meta"]
    <2>2. t \in Temp /\ t # Idle
      BY NamesAreNumbers DEF TempFor
    <2>3. job[w].at \in {"put", "put meta"}
      BY <1>5 DEF MakeTemp, Serving
    <2>4. r \in Jobs
      BY <1>1, <2>2 DEF Jobs, Creating
    <2>5. Fits(r)
      BY <1>1, <2>2, <2>3 DEF Jobs, Fits, Creating, Heading, Getting, Removing, Filling
    <2>6. r.op = job[w].op /\ r.id = job[w].id /\ r.bytes = job[w].bytes
      BY <1>1 DEF Jobs
    <2>7. Becomes(w, r)
      BY <2>1, <2>4, <2>5 DEF Becomes, Step
    <2> QED
      BY <2>6, <2>7, SameRequest
  <1>6. CASE WriteTemp(w)
    <2>1. job[w].at \in {"write", "write meta"}
      BY <1>6 DEF WriteTemp, Serving
    <2>2. \E at \in {"replace", "replace meta"} : Goto(w, at)
      BY <1>6 DEF WriteTemp
    <2> QED
      BY <2>1, <2>2, GotoMoves DEF Creating, Filling
  <1>7. CASE ReplaceData(w) \/ ReplaceMeta(w)
    <2>1. PICK at \in {"put meta", "stat"} :
            /\ job[w].at \in {"replace", "replace meta"}
            /\ Step(w, [job[w] EXCEPT !.temp = Idle, !.at = at])
      BY <1>7 DEF ReplaceData, ReplaceMeta, Serving
    <2>2. [job[w] EXCEPT !.temp = Idle, !.at = at] \in Jobs
      BY <1>1, <2>1 DEF Jobs, Creating
    <2>3. Fits([job[w] EXCEPT !.temp = Idle, !.at = at])
      BY <1>1, <2>1 DEF Jobs, Fits, Creating, Heading, Getting, Removing, Filling
    <2>4. /\ [job[w] EXCEPT !.temp = Idle, !.at = at].op = job[w].op
         /\ [job[w] EXCEPT !.temp = Idle, !.at = at].id = job[w].id
         /\ [job[w] EXCEPT !.temp = Idle, !.at = at].bytes = job[w].bytes
      BY <1>1 DEF Jobs
    <2>5. Becomes(w, [job[w] EXCEPT !.temp = Idle, !.at = at])
      BY <2>1, <2>2, <2>3 DEF Becomes, Step
    <2> QED
      BY <2>4, <2>5, SameRequest
  <1>8. CASE StatUploaded(w)
    BY <1>8, AnswerMoves DEF StatUploaded, Acknowledge
  <1>9. CASE PutFails(w)
    BY <1>9, NoRequestFits DEF PutFails, Moves, Becomes, Follows
  <1> QED
    BY <1>2, <1>3, <1>4, <1>5, <1>6, <1>7, <1>8, <1>9 DEF Put

LEMMA HeadMoves ==
  ASSUME TypeInv, NEW w \in Worker, HeadObject(w)
  PROVE  Moves(w)
  <1>1. job[w] \in Jobs /\ Fits(job[w])
    BY JobOf
  <1>2. CASE HeadAtOnce(w)
    <2>1. \E info \in {"absent", "named", "unnamed"} : Step(w, Headed(w, info))
      BY <1>2 DEF HeadAtOnce, Info
    <2>2. job[w].at \in Heading
      BY <1>2 DEF HeadAtOnce, Serving, Heading
    <2> QED
      BY <2>1, <2>2, HeadedMoves
  <1>3. CASE HeadIsFile(w)
    <2>1. job[w].at \in Heading
      BY <1>3 DEF HeadIsFile, Serving, Heading
    <2>2. Step(w, Headed(w, "absent")) \/ Goto(w, "head bytes")
      BY <1>3 DEF HeadIsFile
    <2> QED
      BY <2>1, <2>2, HeadedMoves, GotoMoves DEF Heading
  <1>4. CASE HeadBytes(w)
    BY <1>4, GotoMoves DEF HeadBytes, Serving, Heading
  <1>5. CASE HeadMeta(w)
    <2> DEFINE named == Due(w) \in metas
    <2>1. named \in BOOLEAN
      OBVIOUS
    <2>2. job[w].at = "head meta" /\ Step(w, [job[w] EXCEPT !.named = named, !.at = "head stat"])
      BY <1>5 DEF HeadMeta, Serving
    <2> HIDE DEF named
    <2>3. [job[w] EXCEPT !.named = named, !.at = "head stat"] \in Jobs
      BY <1>1, <2>1 DEF Jobs, Heading
    <2>4. Fits([job[w] EXCEPT !.named = named, !.at = "head stat"])
      BY <1>1, <2>1, <2>2 DEF Jobs, Fits, Creating, Heading, Getting, Removing, Filling
    <2>5. /\ [job[w] EXCEPT !.named = named, !.at = "head stat"].op = job[w].op
         /\ [job[w] EXCEPT !.named = named, !.at = "head stat"].id = job[w].id
         /\ [job[w] EXCEPT !.named = named, !.at = "head stat"].bytes = job[w].bytes
      BY <1>1 DEF Jobs
    <2>6. Becomes(w, [job[w] EXCEPT !.named = named, !.at = "head stat"])
      BY <2>2, <2>3, <2>4 DEF Becomes, Step
    <2> QED
      BY <2>5, <2>6, SameRequest
  <1>6. CASE HeadStat(w)
    <2>1. \E info \in {"absent", "named", "unnamed"} : Step(w, Headed(w, info))
      BY <1>6 DEF HeadStat, Info
    <2>2. job[w].at \in Heading
      BY <1>6 DEF HeadStat, Serving, Heading
    <2> QED
      BY <2>1, <2>2, HeadedMoves
  <1>7. CASE Vanished(w)
    BY <1>7, AnswerMoves DEF Vanished
  <1> QED
    BY <1>2, <1>3, <1>4, <1>5, <1>6, <1>7 DEF HeadObject

(* The bytes of the file are answered, or kept for after the head. *)
LEMMA BytesMove ==
  ASSUME TypeInv, NEW w \in Worker, job[w].at \in Getting, HasBytes(w)
  PROVE  Moves(w)
  <1>1. job[w] \in Jobs /\ Fits(job[w])
    BY JobOf
  <1>2. job[w].op \in {"content", "signed"} /\ job[w].id \in Path
    BY <1>1 DEF Fits, OfOnePath
  <1>3. CASE job[w].op = "content"
    BY <1>3, AnswerMoves DEF HasBytes
  <1>4. CASE job[w].op # "content"
    <2> DEFINE r == [job[w] EXCEPT !.bytes = files[job[w].id], !.todo = {job[w].id}, !.at = "head"]
    <2>1. files[job[w].id] \in Contents
      BY <1>2 DEF TypeInv, Stored
    <2>2. r \in Jobs
      BY <1>1, <1>2, <2>1 DEF Jobs, Heading
    <2>3. Fits(r)
      BY <1>1, <1>2, <1>4 DEF Jobs, Fits, Creating, Heading, Getting, Removing, Filling
    <2> QED
      BY <1>1, <1>4, <2>2, <2>3 DEF HasBytes, Moves, Becomes, Follows, Jobs, Step
  <1> QED
    BY <1>3, <1>4

LEMMA ReplyMoves ==
  ASSUME TypeInv, NEW w \in Worker, Reply(w)
  PROVE  Moves(w)
  <1>1. CASE Missing(w) \/ ReadAnswer(w) \/ Download(w) \/ Presigned(w)
    BY <1>1, AnswerMoves DEF Missing, ReadAnswer, Download, Presigned
  <1>2. CASE Content(w)
    BY <1>2, GotoMoves DEF Content, FoundIt, Serving, Getting
  <1>3. CASE Get(w)
    <2>1. job[w].at \in Getting
      BY <1>3 DEF Get, Serving, Getting
    <2>2. Answer(w, 404, Absent) \/ Goto(w, "get bytes") \/ HasBytes(w)
      BY <1>3 DEF Get
    <2> QED
      BY <2>1, <2>2, AnswerMoves, GotoMoves, BytesMove DEF Getting
  <1>4. CASE GetBytes(w)
    BY <1>4, BytesMove DEF GetBytes, Serving, Getting
  <1>5. CASE SignedAnswer(w) \/ BatchAnswer(w)
    BY <1>5, AnswerMoves DEF SignedAnswer, BatchAnswer
  <1>6. CASE Page(w)
    BY <1>6, AnswerMoves DEF Page
  <1> QED
    BY <1>1, <1>2, <1>3, <1>4, <1>5, <1>6 DEF Reply

LEMMA DeletionMoves ==
  ASSUME TypeInv, NEW w \in Worker, Deletion(w)
  PROVE  Moves(w)
  <1>1. CASE DeleteFound(w)
    <2>1. job[w].at = "headed" /\ job[w].op = "delete"
      BY <1>1 DEF DeleteFound, Serving
    <2>2. Answer(w, 204, FALSE) \/ Goto(w, "delete")
      BY <1>1 DEF DeleteFound
    <2> QED
      BY <2>1, <2>2, AnswerMoves, GotoMoves DEF Removing
  <1>2. CASE DeleteAtOnce(w) \/ UnlinkMeta(w)
    BY <1>2, AnswerMoves DEF DeleteAtOnce, UnlinkMeta
  <1>3. CASE DeleteIsFile(w)
    <2>1. \E at \in {"unlink", "delete meta"} : Goto(w, at)
      BY <1>3 DEF DeleteIsFile
    <2> QED
      BY <1>3, <2>1, GotoMoves DEF DeleteIsFile, Serving, Removing
  <1>4. CASE Unlink(w)
    BY <1>4, GotoMoves DEF Unlink, Serving, Removing
  <1>5. CASE DeleteHasMeta(w)
    <2>1. Answer(w, 204, TRUE) \/ Goto(w, "unlink meta")
      BY <1>5 DEF DeleteHasMeta
    <2> QED
      BY <1>5, <2>1, AnswerMoves, GotoMoves DEF DeleteHasMeta, Serving, Removing
  <1> QED
    BY <1>1, <1>2, <1>3, <1>4, <1>5 DEF Deletion

LEMMA ListingMoves ==
  ASSUME TypeInv, NEW w \in Worker, ListAtOnce(w) \/ ListNames(w)
  PROVE  Moves(w)
  <1> DEFINE names == Names(walk.after)
  <1>1. job[w] \in Jobs /\ Fits(job[w])
    BY JobOf
  <1>2. job[w].at = "list"
    BY DEF ListAtOnce, ListNames, Serving
  <1>3. names \in SUBSET Path
    BY DEF Names, Firsts, Listed
  <1>4. CASE ListAtOnce(w)
    <2> DEFINE heads == [p \in names |-> "named"]
    <2>1. heads \in Heads
      <3>1. heads \in [names -> {"absent", "named", "unnamed"}]
        OBVIOUS
      <3> QED
        BY <1>3, <3>1, HeadsOf
    <2>2. Step(w, [job[w] EXCEPT !.at = "headed", !.found = heads])
      BY <1>4 DEF ListAtOnce
    <2> HIDE DEF heads, names
    <2>3. [job[w] EXCEPT !.at = "headed", !.found = heads] \in Jobs
      BY <1>1, <2>1 DEF Jobs
    <2>4. Fits([job[w] EXCEPT !.at = "headed", !.found = heads])
      BY <1>1, <1>2, <2>1 DEF Jobs, Fits, Creating, Heading, Getting, Removing, Filling
    <2>5. /\ [job[w] EXCEPT !.at = "headed", !.found = heads].op = job[w].op
         /\ [job[w] EXCEPT !.at = "headed", !.found = heads].id = job[w].id
         /\ [job[w] EXCEPT !.at = "headed", !.found = heads].bytes = job[w].bytes
      BY <1>1 DEF Jobs
    <2>6. Becomes(w, [job[w] EXCEPT !.at = "headed", !.found = heads])
      BY <2>2, <2>3, <2>4 DEF Becomes, Step
    <2> QED
      BY <2>5, <2>6, SameRequest
  <1>5. CASE ListNames(w)
    <2> DEFINE r == [job[w] EXCEPT !.todo = names, !.at = IF names = {} THEN "headed" ELSE "head"]
    <2>1. Step(w, r) /\ medium = "local"
      BY <1>5 DEF ListNames
    <2> HIDE DEF names
    <2>2. r \in Jobs
      BY <1>1, <1>3 DEF Jobs, Heading
    <2>3. Fits(r)
      BY <1>1, <1>2, <1>3, <2>1
      DEF Jobs, Fits, Creating, Heading, Getting, Removing, Filling
    <2>4. r.op = job[w].op /\ r.id = job[w].id /\ r.bytes = job[w].bytes
      BY <1>1 DEF Jobs
    <2>5. Becomes(w, r)
      BY <2>1, <2>2, <2>3 DEF Becomes, Step
    <2> QED
      BY <2>4, <2>5, SameRequest
  <1> QED
    BY <1>4, <1>5

(* What a worker takes up when it is idle, and what it stops in the middle of. *)
Taking(w) ==
  \/ Oversize(w) \/ Search(w) \/ Count(w) \/ BatchRead(w) \/ Crash(w)
  \/ \E k \in Key : Upload(w, k)
  \/ \E ask \in Asked :
       \/ Read(w, ask[1], ask[2])
       \/ ask[1] = "delete" /\ Delete(w, ask[2])
       \/ ask[1] = "signed" /\ \E token \in minted : SignedGet(w, token, ask[2])

LEMMA AskedOnePath ==
  ASSUME NEW ask \in Asked
  PROVE  ask[1] \in OfOnePath /\ ask[2] \in Path
  BY FilesAssumption DEF OfOnePath

LEMMA TakingBegins ==
  ASSUME TypeInv, NEW w \in Worker, Taking(w), ~Crash(w)
  PROVE  UNCHANGED job \/ Begins(w)
  <1>1. CASE Oversize(w) \/ Count(w)
    BY <1>1 DEF Oversize, Count
  <1>2. CASE Search(w)
    <2>1. UNCHANGED job \/ (Serving(w, "idle") /\ job' = [job EXCEPT ![w] = Request("search", Idle, "list")])
      BY <1>2 DEF Search, Begin
    <2>2. Request("search", Idle, "list") \in Jobs
      BY RequestIsJob
    <2>3. Fits(Request("search", Idle, "list"))
      BY EmptyHeads
      DEF Request, Fits, Creating, Heading, Getting, Removing, Filling, OfOnePath
    <2> QED
      BY <2>1, <2>2, <2>3, IdleHasNone DEF Begins, Becomes
  <1>3. CASE BatchRead(w)
    <2>1. Key \in (SUBSET Path) \ {{}}
      BY NamesAreNumbers, FilesAssumption
    <2> QED
      BY <1>3, <2>1, AskingBegins DEF BatchRead, Begin
  <1>4. ASSUME NEW k \in Key, Upload(w, k) PROVE Begins(w)
    <2>1. k \in Path /\ Serving(w, "idle") /\ job' = [job EXCEPT ![w] = Request("create", k, "put")]
      BY <1>4 DEF Upload, Begin, Path
    <2>2. Request("create", k, "put") \in Jobs
      BY <2>1, RequestIsJob DEF Creating
    <2>3. Fits(Request("create", k, "put"))
      BY DEF Request, Fits, Creating, Heading, Getting, Removing, Filling, OfOnePath
    <2> QED
      BY <2>1, <2>2, <2>3, IdleHasNone DEF Begins, Becomes
  <1>5. ASSUME NEW ask \in Asked, Read(w, ask[1], ask[2]) PROVE Begins(w)
    <2>1. ask[2] \in Path /\ {ask[2]} \in (SUBSET Path) \ {{}}
      BY AskedOnePath
    <2>2. ask[1] \in OfOnePath \ {"signed"}
      BY <1>5 DEF Read, OfOnePath
    <2> QED
      BY <1>5, <2>1, <2>2, AskingBegins DEF Read, Begin
  <1>6. ASSUME NEW ask \in Asked, Delete(w, ask[2]) PROVE Begins(w)
    <2>1. ask[2] \in Path /\ {ask[2]} \in (SUBSET Path) \ {{}}
      BY AskedOnePath
    <2>2. "delete" \in OfOnePath \ {"signed"}
      BY DEF OfOnePath
    <2> QED
      BY <1>6, <2>1, <2>2, AskingBegins DEF Delete, Begin
  <1>7. ASSUME NEW ask \in Asked, NEW token \in minted, SignedGet(w, token, ask[2])
        PROVE  UNCHANGED job \/ Begins(w)
    <2>1. ask[2] \in Path
      BY AskedOnePath
    <2>2. UNCHANGED job \/ (Serving(w, "idle") /\ job' = [job EXCEPT ![w] = Request("signed", ask[2], "get")])
      BY <1>7 DEF SignedGet, Begin
    <2>3. Request("signed", ask[2], "get") \in Jobs
      BY <2>1, RequestIsJob DEF OfOnePath, Getting
    <2>4. Fits(Request("signed", ask[2], "get"))
      BY <2>1 DEF Request, Fits, Creating, Heading, Getting, Removing, Filling, OfOnePath
    <2> QED
      BY <2>2, <2>3, <2>4, IdleHasNone DEF Begins, Becomes
  <1> QED
    BY <1>1, <1>2, <1>3, <1>4, <1>5, <1>6, <1>7 DEF Taking

LEMMA CrashMoves ==
  ASSUME NEW w, Crash(w)
  PROVE  Moves(w)
  BY NoRequestFits DEF Crash, Moves, Becomes, Follows

(* The steps of a deployment. *)
Outside == (\E kid \in Kid, kept \in SUBSET Kid : Redeploy(kid, kept)) \/ Tick

LEMMA NextSteps ==
  ASSUME Next
  PROVE  \/ Outside
         \/ \E w \in Worker : \/ Put(w) \/ HeadObject(w) \/ Reply(w) \/ Deletion(w)
                              \/ ListAtOnce(w) \/ ListNames(w) \/ Taking(w)
  BY DEF Next, Outside, Taking

(* Most steps read: they change neither what is stored nor what was asked and answered. *)
Reading(w) ==
  \/ HeadObject(w) \/ Reply(w) \/ ListAtOnce(w) \/ ListNames(w)
  \/ DeleteFound(w) \/ DeleteIsFile(w) \/ DeleteHasMeta(w)

LEMMA AnswersKeepTheWorld ==
  /\ \A w, status, body : Answer(w, status, body) => UNCHANGED world
  /\ \A w, r : Step(w, r) => UNCHANGED world
  /\ \A w, at : Goto(w, at) => UNCHANGED world
  /\ \A w : HasBytes(w) => UNCHANGED world
  /\ \A w : Acknowledge(w) => UNCHANGED world
  /\ \A w, r : Begin(w, r) => UNCHANGED world
  BY DEF Answer, Step, Goto, HasBytes, Acknowledge, Begin, world

LEMMA ReadingKeeps ==
  ASSUME NEW w, Reading(w)
  PROVE  UNCHANGED <<store, ledger, world>>
  <1>1. CASE HeadObject(w)
    BY <1>1, AnswersKeepTheWorld
    DEF HeadObject, HeadAtOnce, HeadIsFile, HeadBytes, HeadMeta, HeadStat, Vanished
  <1>2. CASE Missing(w) \/ ReadAnswer(w) \/ Download(w) \/ Presigned(w) \/ Content(w)
    BY <1>2, AnswersKeepTheWorld DEF Missing, ReadAnswer, Download, Presigned, Content
  <1>3. CASE Get(w) \/ GetBytes(w) \/ SignedAnswer(w) \/ BatchAnswer(w)
    BY <1>3, AnswersKeepTheWorld DEF Get, GetBytes, SignedAnswer, BatchAnswer
  <1>4. CASE Page(w)
    BY <1>4, AnswersKeepTheWorld DEF Page
  <1>5. CASE ListAtOnce(w) \/ ListNames(w)
    BY <1>5, AnswersKeepTheWorld DEF ListAtOnce, ListNames
  <1>6. CASE DeleteFound(w) \/ DeleteIsFile(w) \/ DeleteHasMeta(w)
    BY <1>6, AnswersKeepTheWorld DEF DeleteFound, DeleteIsFile, DeleteHasMeta
  <1> QED
    BY <1>1, <1>2, <1>3, <1>4, <1>5, <1>6 DEF Reading, Reply

(* The world is touched by failures, the clock and the deployment only. *)
LEMMA WorldKept ==
  /\ \A w : Put(w) => UNCHANGED <<medium, now, kids>> /\ faults' \in {faults, faults + 1}
  /\ \A w : Put(w) /\ ~PutFails(w) => UNCHANGED faults
  /\ \A w : Deletion(w) => UNCHANGED world
  /\ \A w : Taking(w) => UNCHANGED <<medium, now, kids>>
  /\ \A w : Taking(w) => UNCHANGED faults \/ Crash(w)
  /\ Outside => UNCHANGED <<medium, faults, store, ledger, job, walk, minted>>
  <1>1. ASSUME NEW w, Put(w), ~PutFails(w) PROVE UNCHANGED world
    <2>1. CASE PutBlob(w) \/ PutObject(w) \/ DescribeObject(w)
      BY <2>1, AnswersKeepTheWorld DEF PutBlob, PutObject, DescribeObject
    <2>2. CASE MakeTemp(w) \/ WriteTemp(w)
      BY <2>2, AnswersKeepTheWorld DEF MakeTemp, WriteTemp
    <2>3. CASE ReplaceData(w) \/ ReplaceMeta(w) \/ StatUploaded(w)
      BY <2>3, AnswersKeepTheWorld DEF ReplaceData, ReplaceMeta, StatUploaded
    <2> QED
      BY <1>1, <2>1, <2>2, <2>3 DEF Put
  <1>2. ASSUME NEW w, PutFails(w)
        PROVE  UNCHANGED <<medium, now, kids>> /\ faults' \in {faults, faults + 1}
    BY <1>2 DEF PutFails
  <1>3. ASSUME NEW w, Deletion(w) PROVE UNCHANGED world
    BY <1>3, AnswersKeepTheWorld
    DEF Deletion, DeleteFound, DeleteAtOnce, DeleteIsFile, Unlink, DeleteHasMeta, UnlinkMeta
  <1>4. ASSUME NEW w, Taking(w), ~Crash(w) PROVE UNCHANGED world
    BY <1>4, AnswersKeepTheWorld
    DEF Taking, Oversize, Search, Count, BatchRead, Upload, Read, Delete, SignedGet
  <1>5. ASSUME NEW w, Crash(w) PROVE UNCHANGED <<medium, now, kids>>
    BY <1>5 DEF Crash
  <1>6. Outside => UNCHANGED <<medium, faults, store, ledger, job, walk, minted>>
    BY DEF Outside, Redeploy, Tick
  <1> QED
    BY <1>1, <1>2, <1>3, <1>4, <1>5, <1>6 DEF world

LEMMA RequestedKept ==
  ASSUME TypeInv, [Next]_vars
  PROVE  Requested'
  <1>1. medium' = medium
    <2>1. CASE UNCHANGED vars
      BY <2>1 DEF vars
    <2>2. ASSUME NEW w \in Worker,
                 HeadObject(w) \/ Reply(w) \/ ListAtOnce(w) \/ ListNames(w)
          PROVE  medium' = medium
      BY <2>2, ReadingKeeps DEF Reading, world
    <2> QED
      BY <2>1, <2>2, WorldKept, NextSteps DEF world
  <1>2. UNCHANGED job \/ \E w \in Worker : Moves(w) \/ Begins(w)
    <2>1. CASE UNCHANGED vars
      BY <2>1 DEF vars
    <2>2. CASE Outside
      BY <2>2 DEF Outside, Redeploy, Tick
    <2>3. ASSUME NEW w \in Worker,
                 \/ Put(w) \/ HeadObject(w) \/ Reply(w) \/ Deletion(w)
                 \/ ListAtOnce(w) \/ ListNames(w) \/ Taking(w)
          PROVE  UNCHANGED job \/ Moves(w) \/ Begins(w)
      BY <2>3, PutMoves, HeadMoves, ReplyMoves, DeletionMoves, ListingMoves, TakingBegins, CrashMoves
    <2> QED
      BY <2>1, <2>2, <2>3, NextSteps
  <1>3. \A j : Fits(j)' <=> Fits(j)
    BY <1>1 DEF Fits
  <1>4. CASE UNCHANGED job
    BY <1>3, <1>4 DEF TypeInv, Requested
  <1>5. ASSUME NEW w \in Worker, Moves(w) \/ Begins(w) PROVE Requested'
    <2>1. PICK r : r \in Jobs /\ Fits(r) /\ job' = [job EXCEPT ![w] = r]
      BY <1>5 DEF Moves, Begins, Becomes
    <2> QED
      BY <1>3, <2>1 DEF TypeInv, Requested
  <1> QED
    BY <1>2, <1>4, <1>5

-----------------------------------------------------------------------------
(* Every variable stays in its range *)

(* The ledger is kept by uploads and deletes, and by the answer of an upload. *)
Answers201(w) ==
  /\ job[w].op = "create" /\ job' = [job EXCEPT ![w] = NoRequest]
  /\ acked' = acked \cup {job[w].id} /\ UNCHANGED <<used, deleting, early>>

LEMMA LedgerKept ==
  ASSUME TypeInv, NEW w \in Worker
  PROVE  /\ Reading(w) \/ Deletion(w) => UNCHANGED ledger
         /\ Put(w) => UNCHANGED ledger \/ Answers201(w)
         /\ Taking(w) => UNCHANGED <<used, acked>> \/ \E k \in Key : Upload(w, k)
         /\ Taking(w) => UNCHANGED <<deleting, early>> \/ \E p \in Path : Delete(w, p)
  <1>1. job[w] \in Jobs /\ Fits(job[w])
    BY JobOf
  <1>2. ASSUME Reading(w) \/ Deletion(w) PROVE UNCHANGED ledger
    BY <1>2, ReadingKeeps
    DEF Deletion, Reading, DeleteAtOnce, Unlink, UnlinkMeta, ledger
  <1>3. ASSUME Put(w) PROVE UNCHANGED ledger \/ Answers201(w)
    <2>1. CASE PutBlob(w) \/ DescribeObject(w) \/ StatUploaded(w)
      <3>1. job[w].op = "create"
        BY <1>1, <2>1 DEF PutBlob, DescribeObject, StatUploaded, Serving, Fits, Creating
      <3>2. UNCHANGED ledger \/ Acknowledge(w)
        BY <2>1 DEF PutBlob, DescribeObject, StatUploaded
      <3> QED
        BY <3>1, <3>2 DEF Answers201, Acknowledge, Answer
    <2>2. CASE PutObject(w) \/ MakeTemp(w) \/ WriteTemp(w)
      BY <2>2 DEF PutObject, MakeTemp, WriteTemp
    <2>3. CASE ReplaceData(w) \/ ReplaceMeta(w) \/ PutFails(w)
      BY <2>3 DEF ReplaceData, ReplaceMeta, PutFails
    <2> QED
      BY <1>3, <2>1, <2>2, <2>3 DEF Put
  <1>4. ASSUME Taking(w), ~\E k \in Key : Upload(w, k) PROVE UNCHANGED <<used, acked>>
    BY <1>4 DEF Taking, Oversize, Search, Count, BatchRead, Crash, Read, Delete, SignedGet, ledger
  <1>5. ASSUME Taking(w), ~\E p \in Path : Delete(w, p) PROVE UNCHANGED <<deleting, early>>
    <2>1. \A ask \in Asked : ~Delete(w, ask[2])
      BY <1>5, AskedOnePath
    <2> QED
      BY <1>5, <2>1
      DEF Taking, Oversize, Search, Count, BatchRead, Crash, Read, Upload, SignedGet, ledger
  <1> QED
    BY <1>2, <1>3, <1>4, <1>5

(* Which request a worker takes up. *)
LEMMA WhatBegins ==
  ASSUME TypeInv, NEW w \in Worker, Taking(w)
  PROVE  \/ UNCHANGED job
         \/ Crash(w) /\ job'[w].op = "none"
         \/ Search(w) /\ job'[w].op = "search"
         \/ \E k \in Key : Upload(w, k) /\ job'[w].op = "create"
         \/ \E p \in Path : Delete(w, p) /\ job'[w].op = "delete" /\ job'[w].id = p
         \/ job'[w].op = "signed" /\ job'[w].at = "get"
         \/ job'[w].op \in {"batch", "read", "download", "content"}
  <1>1. DOMAIN job = Worker
    BY DEF TypeInv, Requested
  <1>2. CASE Oversize(w) \/ Count(w)
    BY <1>2 DEF Oversize, Count
  <1>3. CASE Search(w)
    BY <1>1, <1>3 DEF Search, Begin, Request
  <1>4. CASE BatchRead(w)
    BY <1>1, <1>4 DEF BatchRead, Begin, Request
  <1>5. CASE Crash(w)
    BY <1>1, <1>5, NoRequestFits DEF Crash
  <1>6. ASSUME NEW op, NEW p, Read(w, op, p)
        PROVE  job'[w].op \in {"read", "download", "content"}
    BY <1>1, <1>6 DEF Read, Begin, Request
  <1>7. ASSUME NEW ask \in Asked, Delete(w, ask[2])
        PROVE  \E p \in Path : Delete(w, p) /\ job'[w].op = "delete" /\ job'[w].id = p
    <2>1. job'[w].op = "delete" /\ job'[w].id = ask[2]
      BY <1>1, <1>7 DEF Delete, Begin, Request
    <2> QED
      BY <1>7, <2>1, AskedOnePath
  <1>8. ASSUME NEW token, NEW p, SignedGet(w, token, p)
        PROVE  UNCHANGED job \/ (job'[w].op = "signed" /\ job'[w].at = "get")
    BY <1>1, <1>8 DEF SignedGet, Begin, Request
  <1>9. ASSUME NEW k \in Key, Upload(w, k) PROVE job'[w].op = "create"
    BY <1>1, <1>9 DEF Upload, Begin, Request
  <1> QED
    BY <1>2, <1>3, <1>4, <1>5, <1>6, <1>7, <1>8, <1>9 DEF Taking

LEMMA OnlyUploadsCreate ==
  ASSUME TypeInv, NEW w \in Worker, Taking(w), ~\E k \in Key : Upload(w, k)
  PROVE  UNCHANGED job \/ job'[w].op # "create"
  BY WhatBegins

LEMMA UploadingKept ==
  ASSUME TypeInv, [Next]_vars
  PROVE  Uploading'
  <1>1. job \in [Worker -> Jobs]
    BY DEF TypeInv, Requested
  <1>2. CASE UNCHANGED <<job, used, acked>>
    BY <1>2 DEF TypeInv, Uploading
  <1>3. ASSUME NEW w \in Worker, Moves(w) \/ (Begins(w) /\ job'[w].op # "create"),
               UNCHANGED <<used, acked>>
        PROVE  Uploading'
    <2>1. \A v \in Worker : job'[v].op = "create" =>
            job[v].op = "create" /\ job'[v].id = job[v].id
      BY <1>1, <1>3 DEF Moves, Begins, Becomes, Follows
    <2> QED
      BY <1>3, <2>1 DEF TypeInv, Uploading
  <1>4. ASSUME NEW w \in Worker, Answers201(w) PROVE Uploading'
    <2>1. \A v \in Worker : job'[v].op = "create" => v # w /\ job'[v] = job[v]
      BY <1>1, <1>4, NoRequestFits DEF Answers201
    <2> QED
      BY <1>4, <2>1 DEF TypeInv, Uploading, Answers201
  <1>5. ASSUME NEW w \in Worker, NEW k \in Key, Upload(w, k) PROVE Uploading'
    <2>1. /\ job' = [job EXCEPT ![w] = Request("create", k, "put")]
          /\ k \notin used /\ used' = used \cup {k} /\ acked' = acked
      BY <1>5 DEF Upload, Begin
    <2>2. \A v \in Worker : job'[v].op = "create" =>
            IF v = w THEN job'[v].id = k ELSE job'[v] = job[v]
      BY <1>1, <2>1 DEF Request
    <2>3. acked \subseteq used
      BY DEF TypeInv, Stored
    <2> QED
      BY <2>1, <2>2, <2>3 DEF TypeInv, Uploading
  <1>6. CASE UNCHANGED vars
    BY <1>2, <1>6 DEF vars
  <1>7. CASE Outside
    BY <1>2, <1>7, WorldKept DEF ledger
  <1>8. ASSUME NEW w \in Worker, Put(w) PROVE Uploading'
    BY <1>3, <1>4, <1>8, PutMoves, LedgerKept DEF ledger
  <1>9. ASSUME NEW w \in Worker, Reading(w) \/ Deletion(w) PROVE Uploading'
    BY <1>3, <1>9, HeadMoves, ReplyMoves, DeletionMoves, ListingMoves, LedgerKept
    DEF Reading, Deletion, ledger
  <1>10. ASSUME NEW w \in Worker, Taking(w), ~\E k \in Key : Upload(w, k) PROVE Uploading'
    BY <1>2, <1>3, <1>10, TakingBegins, CrashMoves, LedgerKept, OnlyUploadsCreate
  <1> QED
    BY <1>5, <1>6, <1>7, <1>8, <1>9, <1>10, NextSteps DEF Reading

LEMMA ContentsOf ==
  /\ Absent \in Contents
  /\ \A k \in Key : Nothing(k) \in Contents /\ Data(k) \in Contents /\ Meta(k) \in Contents
  <1>1. \A k \in Key, p \in {"nothing", "data", "meta"} : [of |-> k, part |-> p] \in Contents
    BY DEF Contents
  <1>2. Absent \in Contents
    BY DEF Contents
  <1> QED
    BY <1>1, <1>2 DEF Nothing, Data, Meta

LEMMA CreatorsName ==
  ASSUME TypeInv, NEW w \in Worker
  PROVE  /\ job[w].at \in Creating => job[w].id \in Key /\ job[w].op = "create"
         /\ job[w].at \in Filling =>
              job[w].temp \in Temp /\ job[w].id \in Key /\ job[w].op = "create"
         /\ job[w].at \in Removing \cup Getting => job[w].id \in Path
  BY JobOf DEF Jobs, Fits, Creating, Filling, Removing, Getting, OfOnePath

LEMMA PutStores ==
  ASSUME TypeInv, NEW w \in Worker, Put(w)
  PROVE  files' \in [Path -> Contents] /\ metas' \in SUBSET Key
  <1>1. files \in [Path -> Contents] /\ metas \in SUBSET Key
    BY DEF TypeInv, Stored
  <1>2. CASE PutBlob(w) \/ PutObject(w)
    <2>1. job[w].id \in Key
      BY <1>2, CreatorsName DEF PutBlob, PutObject, Serving, Creating
    <2> QED
      BY <1>1, <1>2, <2>1, ContentsOf DEF PutBlob, PutObject
  <1>3. CASE DescribeObject(w) \/ StatUploaded(w)
    BY <1>1, <1>3 DEF DescribeObject, StatUploaded, store
  <1>4. CASE MakeTemp(w)
    <2>1. job[w].id \in Key
      BY <1>4, CreatorsName DEF MakeTemp, Serving, Creating
    <2> QED
      BY <1>1, <1>4, <2>1, ContentsOf DEF MakeTemp
  <1>5. CASE WriteTemp(w)
    <2>1. job[w].id \in Key
      BY <1>5, CreatorsName DEF WriteTemp, Serving, Creating
    <2>2. \E c \in Contents : files' = [files EXCEPT ![job[w].temp] = c]
      <3>1. job[w].temp \in Path
        BY <1>5, CreatorsName, NamesAreNumbers DEF WriteTemp, Serving, Filling
      <3> QED
        BY <1>1, <1>5, <2>1, <3>1, ContentsOf DEF WriteTemp
    <2> QED
      BY <1>1, <1>5, <2>2 DEF WriteTemp
  <1>6. CASE ReplaceData(w)
    <2>1. job[w].temp \in Path
      BY <1>6, CreatorsName, NamesAreNumbers DEF ReplaceData, Serving, Filling
    <2> QED
      BY <1>1, <1>6, <2>1, ContentsOf DEF ReplaceData, Moved
  <1>7. CASE ReplaceMeta(w)
    <2>1. job[w].id \in Key
      BY <1>7, CreatorsName DEF ReplaceMeta, Serving, Filling
    <2> QED
      BY <1>1, <1>7, <2>1, ContentsOf DEF ReplaceMeta
  <1>8. CASE PutFails(w)
    BY <1>1, <1>8, ContentsOf DEF PutFails
  <1> QED
    BY <1>2, <1>3, <1>4, <1>5, <1>6, <1>7, <1>8 DEF Put

LEMMA DeletionStores ==
  ASSUME TypeInv, NEW w \in Worker, Deletion(w)
  PROVE  files' \in [Path -> Contents] /\ metas' \in SUBSET Key
  <1>1. files \in [Path -> Contents] /\ metas \in SUBSET Key
    BY DEF TypeInv, Stored
  <1>2. CASE DeleteAtOnce(w) \/ Unlink(w) \/ UnlinkMeta(w)
    BY <1>1, <1>2, ContentsOf DEF DeleteAtOnce, Unlink, UnlinkMeta, MetasWithout
  <1>3. CASE Reading(w)
    BY <1>1, <1>3, ReadingKeeps DEF store
  <1> QED
    BY <1>2, <1>3 DEF Deletion, Reading

LEMMA TakingStoresNothing ==
  ASSUME NEW w, Taking(w)
  PROVE  UNCHANGED store
  BY DEF Taking, Oversize, Search, Count, BatchRead, Crash, Upload, Read, Delete, SignedGet

LEMMA StoredKept ==
  ASSUME TypeInv, [Next]_vars
  PROVE  Stored'
  <1>1. /\ medium \in Media /\ now \in 0 .. MaxTime /\ faults \in 0 .. MaxFaults
        /\ files \in [Path -> Contents] /\ metas \subseteq Key
        /\ acked \subseteq used /\ used \subseteq Key /\ deleting \subseteq Path
        /\ early \in BOOLEAN
    BY DEF TypeInv, Stored
  <1>2. CASE UNCHANGED vars
    BY <1>1, <1>2 DEF vars, Stored
  <1>3. CASE Outside
    <2>1. now' \in 0 .. MaxTime
      <3>1. MaxTime \in Nat
        BY FilesAssumption
      <3> QED
        BY <1>1, <1>3, <3>1 DEF Outside, Redeploy, Tick
    <2> QED
      BY <1>1, <1>3, <2>1, WorldKept DEF Stored, store, ledger
  <1>4. ASSUME NEW w \in Worker, Put(w) PROVE Stored'
    <2>1. files' \in [Path -> Contents] /\ metas' \in SUBSET Key
      BY <1>4, PutStores
    <2>2. acked' \subseteq used' /\ UNCHANGED <<used, deleting, early>>
      BY <1>1, <1>4, LedgerKept DEF Answers201, TypeInv, Uploading, ledger
    <2>3. medium' = medium /\ now' = now
      BY <1>4, WorldKept
    <2>4. faults' \in 0 .. MaxFaults
      <3>1. MaxFaults \in Nat
        BY FilesAssumption
      <3>2. CASE PutFails(w)
        <4>1. faults' = faults \/ (faults < MaxFaults /\ faults' = faults + 1)
          BY <3>2 DEF PutFails
        <4> QED
          BY <1>1, <3>1, <4>1
      <3> QED
        BY <1>1, <1>4, <3>2, WorldKept
    <2> QED
      BY <1>1, <2>1, <2>2, <2>3, <2>4 DEF Stored
  <1>5. ASSUME NEW w \in Worker, Reading(w) PROVE Stored'
    BY <1>1, <1>5, ReadingKeeps DEF Stored, store, ledger, world
  <1>6. ASSUME NEW w \in Worker, Deletion(w) PROVE Stored'
    <2>1. files' \in [Path -> Contents] /\ metas' \in SUBSET Key
      BY <1>6, DeletionStores
    <2>2. UNCHANGED <<ledger, world>>
      BY <1>6, LedgerKept, WorldKept
    <2> QED
      BY <1>1, <2>1, <2>2 DEF Stored, ledger, world
  <1>7. ASSUME NEW w \in Worker, Taking(w) PROVE Stored'
    <2>1. UNCHANGED <<files, metas, medium, now>>
      BY <1>7, TakingStoresNothing, WorldKept DEF store
    <2>2. faults' \in 0 .. MaxFaults
      <3>1. MaxFaults \in Nat
        BY FilesAssumption
      <3>2. CASE Crash(w)
        BY <1>1, <3>1, <3>2 DEF Crash
      <3>3. CASE ~Crash(w)
        <4>1. faults' = faults
          BY <1>7, <3>3, WorldKept
        <4> QED
          BY <1>1, <4>1
      <3> QED
        BY <3>2, <3>3
    <2>3. acked' = acked /\ used' \subseteq Key /\ used \subseteq used'
      BY <1>1, <1>7, LedgerKept DEF Upload
    <2>4. deleting' \subseteq Path /\ early' \in BOOLEAN
      <3>1. CASE UNCHANGED <<deleting, early>>
        BY <1>1, <3>1
      <3>2. ASSUME NEW p \in Path, Delete(w, p)
            PROVE  deleting' \subseteq Path /\ early' \in BOOLEAN
        BY <1>1, <3>2 DEF Delete
      <3> QED
        BY <1>7, <3>1, <3>2, LedgerKept
    <2> QED
      BY <1>1, <2>1, <2>2, <2>3, <2>4 DEF Stored
  <1> QED
    BY <1>2, <1>3, <1>4, <1>5, <1>6, <1>7, NextSteps DEF Reading

LEMMA CodedKept ==
  ASSUME TypeInv, [Next]_vars
  PROVE  Coded'
  <1>1. /\ kids.signing \in kids.accepted /\ kids.accepted \subseteq Kid
        /\ \A m \in minted : m.key \in Path /\ m.exp = m.at + Ttl
    BY DEF TypeInv, Coded
  <1>2. ASSUME UNCHANGED <<kids, minted>> PROVE Coded'
    BY <1>1, <1>2 DEF Coded
  <1>3. CASE UNCHANGED vars
    BY <1>2, <1>3 DEF vars
  <1>4. CASE Outside
    <2>1. kids'.signing \in kids'.accepted /\ kids'.accepted \subseteq Kid
      BY <1>1, <1>4 DEF Outside, Redeploy, Tick
    <2>2. minted' = minted
      BY <1>4, WorldKept
    <2> QED
      BY <1>1, <2>1, <2>2 DEF Coded
  <1>5. ASSUME NEW w \in Worker, Put(w) PROVE UNCHANGED <<kids, minted>>
    <2>1. UNCHANGED kids
      BY <1>5, WorldKept
    <2>2. UNCHANGED minted
      BY <1>5 DEF Put, PutBlob, PutObject, DescribeObject, MakeTemp, WriteTemp, ReplaceData,
        ReplaceMeta, StatUploaded, PutFails
    <2> QED
      BY <2>1, <2>2
  <1>6. ASSUME NEW w \in Worker, Download(w) PROVE Coded'
    <2>1. job[w].id \in Path
      BY <1>6, JobOf DEF Download, FoundIt, Fits, OfOnePath
    <2>2. kids' = kids /\ minted' = minted \cup {Mint(job[w].id)}
      BY <1>6, AnswersKeepTheWorld DEF Download, world
    <2>3. Mint(job[w].id).key = job[w].id /\ Mint(job[w].id).exp = Mint(job[w].id).at + Ttl
      BY DEF Mint
    <2> QED
      BY <1>1, <2>1, <2>2, <2>3 DEF Coded
  <1>7. ASSUME NEW w \in Worker, Reading(w), ~Download(w) PROVE UNCHANGED <<kids, minted>>
    <2>1. UNCHANGED kids
      BY <1>7, ReadingKeeps DEF world
    <2>2. CASE HeadObject(w)
      BY <2>1, <2>2 DEF HeadObject, HeadAtOnce, HeadIsFile, HeadBytes, HeadMeta, HeadStat, Vanished
    <2>3. CASE Reply(w)
      BY <1>7, <2>1, <2>3 DEF Reply, Missing, ReadAnswer, Presigned, Content, Get, GetBytes,
        SignedAnswer, Page, BatchAnswer
    <2>4. CASE ListAtOnce(w) \/ ListNames(w) \/ DeleteFound(w) \/ DeleteIsFile(w) \/ DeleteHasMeta(w)
      BY <2>1, <2>4 DEF ListAtOnce, ListNames, DeleteFound, DeleteIsFile, DeleteHasMeta
    <2> QED
      BY <1>7, <2>2, <2>3, <2>4 DEF Reading
  <1>8. ASSUME NEW w \in Worker, Deletion(w) PROVE UNCHANGED <<kids, minted>>
    <2>1. UNCHANGED kids
      BY <1>8, WorldKept DEF world
    <2> QED
      BY <1>8, <2>1 DEF Deletion, DeleteFound, DeleteAtOnce, DeleteIsFile, Unlink, DeleteHasMeta,
        UnlinkMeta
  <1>9. ASSUME NEW w \in Worker, Taking(w) PROVE UNCHANGED <<kids, minted>>
    <2>1. UNCHANGED kids
      BY <1>9, WorldKept
    <2> QED
      BY <1>9, <2>1 DEF Taking, Oversize, Search, Count, BatchRead, Crash, Upload, Read, Delete,
        SignedGet
  <1> QED
    BY <1>2, <1>3, <1>4, <1>5, <1>6, <1>7, <1>8, <1>9, NextSteps DEF Reading

(* The page of a listing that has more than a page. *)
LEMMA PageOf ==
  ASSUME NEW S \in SUBSET Path
  PROVE  /\ IsFiniteSet(S) /\ Cardinality(S) \in Nat /\ Firsts(S, PageSize) \in SUBSET S
         /\ \A p \in Firsts(S, PageSize), q \in S \ Firsts(S, PageSize) : p < q
         /\ Cardinality(S) <= PageSize => Firsts(S, PageSize) = S
         /\ Cardinality(S) > PageSize =>
              /\ Max(Firsts(S, PageSize)) \in Firsts(S, PageSize)
              /\ \A p \in Firsts(S, PageSize) : p <= Max(Firsts(S, PageSize))
  <1> DEFINE page == Firsts(S, PageSize)
  <1>1. S \in SUBSET Nat /\ PageSize \in Nat /\ PageSize >= 1
    BY NamesAreNumbers
  <1>2. IsFiniteSet(S)
    BY NamesAreNumbers, FS_Subset
  <1>3. Cardinality(S) \in Nat
    BY <1>2, FS_CardinalityType
  <1>4. /\ page \subseteq S
        /\ IsFiniteSet(page) /\ Cardinality(page) \in Nat
        /\ \A p \in page, q \in S \ page : p < q
        /\ Cardinality(S) <= PageSize => page = S
        /\ page # S => Cardinality(page) >= PageSize
    BY <1>1, <1>2, FirstsOf
  <1> HIDE DEF page
  <1>5. ASSUME Cardinality(S) > PageSize
        PROVE  Max(page) \in page /\ \A p \in page : p <= Max(page)
    <2>1. Cardinality(page) >= 1
      BY <1>1, <1>3, <1>4, <1>5
    <2>2. page # {}
      BY <2>1, FS_EmptySet
    <2>3. page \in SUBSET Nat
      BY <1>1, <1>4
    <2>4. Max(page) \in page /\ \A p \in page : Max(page) >= p
      BY <1>4, <2>2, <2>3, GreatestOf
    <2>5. ASSUME NEW p \in page PROVE p <= Max(page)
      <3>1. p \in Nat /\ Max(page) \in Nat /\ Max(page) >= p
        BY <2>3, <2>4
      <3> QED
        BY <3>1
    <2> QED
      BY <2>4, <2>5
  <1> QED
    BY <1>2, <1>3, <1>4, <1>5 DEF page

(* What a page does to the walk. *)
Turned(page, more) ==
  [walk EXCEPT !.seen = [p \in Path |-> IF p \in page THEN walk.seen[p] + 1 ELSE walk.seen[p]],
               !.at = IF more THEN "more" ELSE "over",
               !.after = IF more THEN Max(page) ELSE 0,
               !.kid = IF more THEN kids.signing ELSE Idle]

LEMMA StillOf ==
  ASSUME TypeInv, NEW w \in Worker
  PROVE  Still(w) \in SUBSET Path
  BY JobOf, HeadsAre DEF Still, Jobs

LEMMA PageTurns ==
  ASSUME TypeInv, NEW w \in Worker, Page(w)
  PROVE  walk' = Turned(Firsts(Still(w), PageSize), Cardinality(Still(w)) > PageSize)
  <1>1. walk \in Walks
    BY DEF TypeInv
  <1> QED
    BY <1>1 DEF Page, Turned, Walks

(* Only listings walk. *)
LEMMA OnlySearchesWalk ==
  /\ \A w : Put(w) => UNCHANGED walk
  /\ \A w : Reply(w) /\ ~Page(w) => UNCHANGED walk
  /\ \A w : Deletion(w) \/ ListAtOnce(w) \/ ListNames(w) => UNCHANGED walk
  /\ \A w : Taking(w) => \/ UNCHANGED walk \/ Search(w) \/ Crash(w)
                         \/ \E p \in Path : Delete(w, p)
  <1>1. ASSUME NEW w, Put(w) PROVE UNCHANGED walk
    BY <1>1 DEF Put, PutBlob, PutObject, DescribeObject, MakeTemp, WriteTemp, ReplaceData,
      ReplaceMeta, StatUploaded, PutFails
  <1>2. ASSUME NEW w, Reply(w), ~Page(w) PROVE UNCHANGED walk
    BY <1>2 DEF Reply, Missing, ReadAnswer, Download, Presigned, Content, Get, GetBytes,
      SignedAnswer, BatchAnswer
  <1>3. ASSUME NEW w, Deletion(w) \/ ListAtOnce(w) \/ ListNames(w) PROVE UNCHANGED walk
    BY <1>3 DEF Deletion, DeleteFound, DeleteAtOnce, DeleteIsFile, Unlink, DeleteHasMeta,
      UnlinkMeta, ListAtOnce, ListNames
  <1>4. ASSUME NEW w, Taking(w), ~Search(w), ~Crash(w), ~\E p \in Path : Delete(w, p)
        PROVE  UNCHANGED walk
    <2>1. \A ask \in Asked : ~Delete(w, ask[2])
      BY <1>4, AskedOnePath
    <2> QED
      BY <1>4, <2>1 DEF Taking, Oversize, Count, BatchRead, Read, Upload, SignedGet
  <1> QED
    BY <1>1, <1>2, <1>3, <1>4

LEMMA WalkKept ==
  ASSUME TypeInv, [Next]_vars
  PROVE  walk' \in Walks
  <1>1. walk \in Walks
    BY DEF TypeInv
  <1>2. CASE UNCHANGED walk
    BY <1>1, <1>2
  <1>3. ASSUME NEW w \in Worker, Page(w) PROVE walk' \in Walks
    <2> DEFINE page == Firsts(Still(w), PageSize)
               more == Cardinality(Still(w)) > PageSize
    <2>1. Still(w) \in SUBSET Path
      BY StillOf
    <2>2. IF more THEN Max(page) \in Nat ELSE TRUE
      BY <2>1, PageOf, NamesAreNumbers
    <2>3. walk' = Turned(page, more)
      BY <1>3, PageTurns
    <2>4. kids.signing \in Kid
      BY DEF TypeInv, Coded
    <2>5. [p \in Path |-> IF p \in page THEN walk.seen[p] + 1 ELSE walk.seen[p]] \in [Path -> Nat]
      BY <1>1 DEF Walks
    <2> HIDE DEF page, more
    <2> QED
      BY <1>1, <2>2, <2>3, <2>4, <2>5 DEF Turned, Walks
  <1>4. ASSUME NEW w \in Worker, HeadObject(w) PROVE walk' \in Walks
    <2>1. CASE HeadAtOnce(w) \/ HeadBytes(w) \/ HeadMeta(w) \/ HeadStat(w)
      BY <1>2, <2>1 DEF HeadAtOnce, HeadBytes, HeadMeta, HeadStat
    <2>2. CASE HeadIsFile(w)
      <3> DEFINE thinned == walk.thinned \/ job[w].op = "search"
      <3>1. thinned \in BOOLEAN
        OBVIOUS
      <3>2. walk' = [walk EXCEPT !.thinned = thinned] \/ UNCHANGED walk
        BY <1>1, <2>2 DEF HeadIsFile, Walks
      <3> HIDE DEF thinned
      <3> QED
        BY <1>1, <3>1, <3>2 DEF Walks
    <2>3. CASE Vanished(w)
      BY <1>1, <2>3 DEF Vanished, Walks
    <2> QED
      BY <1>4, <2>1, <2>2, <2>3 DEF HeadObject
  <1>5. ASSUME NEW w \in Worker, Search(w) PROVE walk' \in Walks
    <2>1. acked \ deleting \in SUBSET Key
      BY DEF TypeInv, Stored
    <2>2. Unseen \in [Path -> Nat]
      BY DEF Unseen
    <2> DEFINE begun == [at |-> "waiting", after |-> 0, kid |-> Idle, seen |-> Unseen,
                         must |-> acked \ deleting, thinned |-> FALSE]
    <2>3. begun \in Walks
      BY <2>1, <2>2 DEF Walks
    <2>4. [walk EXCEPT !.at = "start"] \in Walks /\ [walk EXCEPT !.at = "waiting"] \in Walks
      BY <1>1 DEF Walks
    <2>5. walk' \in {[walk EXCEPT !.at = "start"], [walk EXCEPT !.at = "waiting"], begun}
      BY <1>5 DEF Search
    <2> QED
      BY <2>3, <2>4, <2>5
  <1>6. ASSUME NEW w \in Worker, NEW p, Delete(w, p) PROVE walk' \in Walks
    BY <1>1, <1>6 DEF Delete, Walks
  <1>7. ASSUME NEW w \in Worker, Crash(w) PROVE walk' \in Walks
    BY <1>1, <1>7 DEF Crash, Walks
  <1>8. CASE UNCHANGED vars
    BY <1>2, <1>8 DEF vars
  <1>9. CASE Outside
    BY <1>2, <1>9, WorldKept
  <1>10. ASSUME NEW w \in Worker, Taking(w) PROVE walk' \in Walks
    BY <1>2, <1>5, <1>6, <1>7, <1>10, OnlySearchesWalk
  <1> QED
    BY <1>2, <1>3, <1>4, <1>8, <1>9, <1>10, OnlySearchesWalk, NextSteps

LEMMA TypeStart ==
  ASSUME Init
  PROVE  TypeInv
  <1>1. PICK k \in SUBSET Key :
          /\ files = [p \in Path |-> IF p \in k THEN Data(p) ELSE Absent]
          /\ metas = k /\ used = k /\ acked = k
    BY DEF Init
  <1>2. Stored
    <2>1. files \in [Path -> Contents]
      BY <1>1, ContentsOf
    <2>2. 0 \in 0 .. MaxTime /\ 0 \in 0 .. MaxFaults
      BY FilesAssumption
    <2>3. medium \in Media /\ now = 0 /\ faults = 0 /\ deleting = {} /\ early = FALSE
      BY DEF Init
    <2> QED
      BY <1>1, <2>1, <2>2, <2>3 DEF Stored
  <1>3. Coded
    <2>1. Min(Kid) \in Kid
      BY NamesAreNumbers, LeastOf
    <2> QED
      BY <2>1 DEF Init, Coded
  <1>4. Requested /\ Uploading
    BY NoRequestFits DEF Init, Requested, Uploading
  <1>5. walk \in Walks
    <2>1. Unseen \in [Path -> Nat]
      BY DEF Unseen
    <2> QED
      BY <2>1 DEF Init, Walks
  <1> QED
    BY <1>2, <1>3, <1>4, <1>5 DEF TypeInv

LEMMA TypeStep ==
  ASSUME TypeInv, [Next]_vars
  PROVE  TypeInv'
  BY RequestedKept, UploadingKept, StoredKept, CodedKept, WalkKept DEF TypeInv

LEMMA TypeHolds == Spec => []TypeInv
  BY TypeStart, TypeStep, PTL DEF Spec

LEMMA TypeSuffices ==
  ASSUME TypeInv
  PROVE  TypeOK
  <1>1. ASSUME NEW w \in Worker
        PROVE  /\ job[w].temp \in Temp \cup {Idle} /\ job[w].id \in Path \cup {Idle}
               /\ job[w].at \in {"write", "replace", "write meta", "replace meta"} <=>
                    job[w].temp # Idle
               /\ job[w].at \in {"head", "head bytes", "head meta", "head stat"} <=>
                    job[w].todo # {}
    BY JobOf DEF Jobs, Fits, Filling, Heading
  <1> QED
    BY <1>1 DEF TypeInv, Stored, Coded, TypeOK

(* Every variable stays in its range, and each request has a temporary file and paths *)
(* to ask for at the stages that use them and at no other.                              *)
THEOREM TypesCorrect == Spec => []TypeOK
  BY TypeHolds, TypeSuffices, PTL

-----------------------------------------------------------------------------
(* A file is whole, and an answered upload is there until a delete of it *)

KeysWhole == \A k \in Key : files[k] \in {Absent, Data(k)}

(* What a put has written to its temporary file so far. *)
InTemp(j) ==
  IF j.at \in {"write", "write meta"} THEN Nothing(j.id)
  ELSE IF j.at = "replace" THEN Data(j.id) ELSE Meta(j.id)

(* No two puts share a temporary file, and nobody but a delete touches another's. *)
TempsHeld ==
  /\ \A w \in Worker : job[w].temp # Idle => files[job[w].temp] \in {Absent, InTemp(job[w])}
  /\ \A v, w \in Worker : job[v].temp # Idle /\ job[v].temp = job[w].temp => v = w

Placed == {"put meta", "write meta", "replace meta", "stat"}

(* What a put has placed is there, unless a delete of it was asked. *)
Progress ==
  \A w \in Worker : job[w].op = "create" /\ job[w].id \notin deleting =>
    /\ job[w].at \in Placed => files[job[w].id] = Data(job[w].id)
    /\ job[w].at = "stat" => job[w].id \in metas

Deleters == \A w \in Worker : job[w].op = "delete" => job[w].id \in deleting

FilesInv == KeysWhole /\ TempsHeld /\ Progress /\ Deleters /\ UploadedIsThere

LEMMA DataIsThere ==
  ASSUME NEW k \in Key
  PROVE  Data(k) # Absent /\ Nothing(k) # Absent /\ Meta(k) # Absent
  <1>1. \A p \in {"nothing", "data", "meta"} : [of |-> k, part |-> p] # Absent
    BY FilesAssumption
  <1> QED
    BY <1>1 DEF Data, Nothing, Meta

(* A step that is no put: it removes nothing but temporary files and what a delete asked for. *)
LEMMA NoPutKeepsFiles ==
  ASSUME TypeInv, FilesInv, NEW w \in Worker, NEW r \in Jobs, Fits(r),
         job' = [job EXCEPT ![w] = r],
         r.at \in Creating => r.at = "put",
         r.op = "delete" => r.id \in deleting',
         \A p \in Path : files'[p] \in {files[p], Absent},
         \A k \in Key \ deleting : files'[k] = files[k],
         metas \ deleting \subseteq metas',
         acked' = acked, deleting \subseteq deleting'
  PROVE  FilesInv'
  <1>1. job \in [Worker -> Jobs] /\ acked \subseteq Key
    BY DEF TypeInv, Stored, Requested
  <1>2. job'[w] = r /\ \A v \in Worker \ {w} : job'[v] = job[v]
    BY <1>1
  <1>3. r.at # "put" => r.op # "create"
    BY DEF Fits, Creating
  <1>4. r.temp = Idle
    BY DEF Fits, Creating, Filling
  <1>5. \A v \in Worker : job[v].temp # Idle => job[v].temp \in Path
    BY <1>1, NamesAreNumbers DEF Jobs
  <1>6. KeysWhole'
    BY NamesAreNumbers DEF FilesInv, KeysWhole
  <1>7. TempsHeld'
    <2>1. \A j : InTemp(j)' = InTemp(j)
      BY DEF InTemp, Nothing, Data, Meta
    <2>2. ASSUME NEW v \in Worker, job'[v].temp # Idle
          PROVE  v # w /\ job'[v] = job[v] /\ job[v].temp # Idle
      BY <1>2, <1>4, <2>2
    <2>3. ASSUME NEW v \in Worker, job'[v].temp # Idle
          PROVE  files'[job'[v].temp] \in {Absent, InTemp(job'[v])}
      BY <1>5, <2>2, <2>3 DEF FilesInv, TempsHeld
    <2>4. ASSUME NEW v \in Worker, NEW u \in Worker,
                 job'[v].temp # Idle, job'[v].temp = job'[u].temp
          PROVE  v = u
      BY <2>2, <2>4 DEF FilesInv, TempsHeld
    <2> QED
      BY <2>1, <2>3, <2>4 DEF TempsHeld
  <1>8. Progress'
    <2> SUFFICES ASSUME NEW v \in Worker, job'[v].op = "create", job'[v].id \notin deleting'
                 PROVE  /\ job'[v].at \in Placed => files'[job'[v].id] = Data(job'[v].id)
                        /\ job'[v].at = "stat" => job'[v].id \in metas'
      BY DEF Progress, Data, Placed
    <2>1. CASE v = w
      BY <1>2, <1>3, <2>1 DEF Placed
    <2>2. CASE v # w
      <3>1. job'[v] = job[v] /\ job[v].id \in Key
        BY <1>1, <1>2, <2>2, JobOf DEF Fits
      <3> QED
        BY <3>1 DEF FilesInv, Progress
    <2> QED
      BY <2>1, <2>2
  <1>9. Deleters'
    BY <1>2 DEF FilesInv, Deleters
  <1>10. UploadedIsThere'
    BY <1>1 DEF FilesInv, UploadedIsThere, Data
  <1> QED
    BY <1>6, <1>7, <1>8, <1>9, <1>10 DEF FilesInv

(* A step of a put, which changes its own path and its own temporary file. *)
LEMMA PutKeepsFiles ==
  ASSUME TypeInv, FilesInv, NEW w \in Worker, NEW r \in Jobs, Fits(r),
         job[w].op = "create", job' = [job EXCEPT ![w] = r],
         r.op = "none" \/ (r.op = "create" /\ r.id = job[w].id),
         \A k \in Key \ {job[w].id} : files'[k] = files[k],
         files'[job[w].id] \in {files[job[w].id], Data(job[w].id)},
         \A t \in Temp : (\E v \in Worker \ {w} : job[v].temp = t) => files'[t] = files[t],
         r.temp # Idle => /\ files'[r.temp] \in {Absent, InTemp(r)}
                          /\ \A v \in Worker \ {w} : job[v].temp # r.temp,
         metas \subseteq metas',
         job[w].id \notin deleting => /\ r.at \in Placed => files'[job[w].id] = Data(job[w].id)
                                      /\ r.at = "stat" => job[w].id \in metas',
         \/ acked' = acked
         \/ /\ acked' = acked \cup {job[w].id}
            /\ job[w].id \notin deleting =>
                 files'[job[w].id] = Data(job[w].id) /\ job[w].id \in metas',
         deleting' = deleting
  PROVE  FilesInv'
  <1>1. job \in [Worker -> Jobs] /\ acked \subseteq Key
    BY DEF TypeInv, Stored, Requested
  <1>2. job'[w] = r /\ \A v \in Worker \ {w} : job'[v] = job[v]
    BY <1>1
  <1>3. job[w].id \in Key
    BY JobOf DEF Fits
  <1>4. KeysWhole'
    BY <1>3 DEF FilesInv, KeysWhole, Data
  <1>5. TempsHeld'
    <2>1. \A j : InTemp(j)' = InTemp(j)
      BY DEF InTemp, Nothing, Data, Meta
    <2>2. ASSUME NEW v \in Worker, v # w, job[v].temp # Idle
          PROVE  files'[job[v].temp] = files[job[v].temp]
      <3>1. job[v].temp \in Temp
        BY <1>1, <2>2 DEF Jobs
      <3> QED
        BY <2>2, <3>1
    <2>3. ASSUME NEW v \in Worker, job'[v].temp # Idle
          PROVE  files'[job'[v].temp] \in {Absent, InTemp(job'[v])}
      BY <1>2, <2>2, <2>3 DEF FilesInv, TempsHeld
    <2>4. ASSUME NEW v \in Worker, NEW u \in Worker,
                 job'[v].temp # Idle, job'[v].temp = job'[u].temp
          PROVE  v = u
      BY <1>2, <2>4 DEF FilesInv, TempsHeld
    <2> QED
      BY <2>1, <2>3, <2>4 DEF TempsHeld
  <1>6. Progress'
    <2> SUFFICES ASSUME NEW v \in Worker, job'[v].op = "create", job'[v].id \notin deleting'
                 PROVE  /\ job'[v].at \in Placed => files'[job'[v].id] = Data(job'[v].id)
                        /\ job'[v].at = "stat" => job'[v].id \in metas'
      BY DEF Progress, Data, Placed
    <2>1. CASE v = w
      BY <1>2, <2>1
    <2>2. CASE v # w
      <3>1. job'[v] = job[v] /\ job[v].id \in Key
        BY <1>1, <1>2, <2>2, JobOf DEF Fits
      <3>2. job[v].id # job[w].id
        BY <2>2, <3>1 DEF TypeInv, Uploading
      <3> QED
        BY <3>1, <3>2 DEF FilesInv, Progress
    <2> QED
      BY <2>1, <2>2
  <1>7. Deleters'
    BY <1>2 DEF FilesInv, Deleters
  <1>8. UploadedIsThere'
    <2> SUFFICES ASSUME NEW k \in acked' \ deleting
                 PROVE  files'[k] = Data(k) /\ k \in metas'
      BY DEF UploadedIsThere, Data
    <2>1. CASE k \in acked
      BY <1>1, <1>3, <2>1 DEF FilesInv, UploadedIsThere
    <2>2. CASE k \notin acked
      BY <2>2
    <2> QED
      BY <2>1, <2>2
  <1> QED
    BY <1>4, <1>5, <1>6, <1>7, <1>8 DEF FilesInv

LEMMA ReadersDoNotCreate ==
  ASSUME TypeInv, NEW w \in Worker, Reading(w) \/ Deletion(w)
  PROVE  job[w].op # "create"
  <1>1. Fits(job[w])
    BY JobOf
  <1>2. CASE HeadObject(w)
    <2>1. job[w].at \in Heading \cup Getting \cup Removing
      BY <1>2 DEF HeadObject, HeadAtOnce, HeadIsFile, HeadBytes, HeadMeta, HeadStat, Vanished,
        Serving, Heading, Getting, Removing
    <2> QED
      BY <1>1, <2>1 DEF Fits, Creating, Heading, Getting, Removing
  <1>3. CASE Reply(w)
    <2>1. job[w].at \in Getting \cup {"headed"}
      BY <1>3 DEF Reply, Missing, ReadAnswer, Download, Presigned, Content, Get, GetBytes,
        SignedAnswer, Page, BatchAnswer, FoundIt, Serving, Getting
    <2> QED
      BY <1>1, <2>1 DEF Fits, Creating, Getting
  <1>4. CASE ListAtOnce(w) \/ ListNames(w)
    BY <1>1, <1>4 DEF ListAtOnce, ListNames, Serving, Fits, Creating
  <1>5. CASE Deletion(w)
    <2>1. job[w].at \in Removing \cup {"headed"}
      BY <1>5 DEF Deletion, DeleteFound, DeleteAtOnce, DeleteIsFile, Unlink, DeleteHasMeta,
        UnlinkMeta, Serving, Removing
    <2> QED
      BY <1>1, <2>1 DEF Fits, Creating, Removing
  <1> QED
    BY <1>2, <1>3, <1>4, <1>5 DEF Reading, Deletion

LEMMA MovingKeepsFiles ==
  ASSUME TypeInv, FilesInv, NEW w \in Worker, Moves(w), job[w].op # "create",
         \A p \in Path : files'[p] \in {files[p], Absent},
         \A k \in Key \ deleting : files'[k] = files[k],
         metas \ deleting \subseteq metas', UNCHANGED ledger
  PROVE  FilesInv'
  <1>1. PICK r \in Jobs : Fits(r) /\ Follows(r, job[w]) /\ job' = [job EXCEPT ![w] = r]
    BY DEF Moves, Becomes
  <1>2. r.at \notin Creating
    BY <1>1 DEF Fits, Follows
  <1>3. r.op = "delete" => r.id \in deleting'
    BY <1>1 DEF Follows, FilesInv, Deleters, ledger
  <1> QED
    BY <1>1, <1>2, <1>3, NoPutKeepsFiles DEF ledger

LEMMA ReadingKeepsFiles ==
  ASSUME TypeInv, FilesInv, NEW w \in Worker, Reading(w)
  PROVE  FilesInv'
  <1>1. Moves(w)
    BY HeadMoves, ReplyMoves, DeletionMoves, ListingMoves DEF Reading, Deletion
  <1>2. UNCHANGED <<files, metas, ledger>>
    BY ReadingKeeps DEF store
  <1> QED
    BY <1>1, <1>2, ReadersDoNotCreate, MovingKeepsFiles

LEMMA DeletionKeepsFiles ==
  ASSUME TypeInv, FilesInv, NEW w \in Worker, Deletion(w)
  PROVE  FilesInv'
  <1>1. Moves(w) /\ job[w].op # "create" /\ UNCHANGED ledger
    BY DeletionMoves, ReadersDoNotCreate, LedgerKept
  <1>2. CASE Reading(w)
    BY <1>2, ReadingKeepsFiles
  <1>3. CASE DeleteAtOnce(w) \/ Unlink(w) \/ UnlinkMeta(w)
    <2>1. job[w].op = "delete"
      BY <1>3, JobOf DEF DeleteAtOnce, Unlink, UnlinkMeta, Serving, Fits, Removing
    <2>2. job[w].id \in deleting
      BY <2>1 DEF FilesInv, Deleters
    <2>3. files \in [Path -> Contents]
      BY DEF TypeInv, Stored
    <2>4. /\ files' = files \/ files' = [files EXCEPT ![job[w].id] = Absent]
          /\ metas \ {job[w].id} \subseteq metas'
      BY <1>3 DEF DeleteAtOnce, Unlink, UnlinkMeta, MetasWithout
    <2>5. /\ \A p \in Path : files'[p] \in {files[p], Absent}
          /\ \A k \in Key \ deleting : files'[k] = files[k]
          /\ metas \ deleting \subseteq metas'
      BY <2>2, <2>3, <2>4, NamesAreNumbers
    <2> QED
      BY <1>1, <2>5, MovingKeepsFiles
  <1> QED
    BY <1>2, <1>3 DEF Deletion, Reading

LEMMA TakingKeepsFiles ==
  ASSUME TypeInv, FilesInv, NEW w \in Worker, Taking(w)
  PROVE  FilesInv'
  <1>1. UNCHANGED <<files, metas>>
    BY TakingStoresNothing DEF store
  <1>2. CASE Crash(w)
    BY <1>1, <1>2, NoRequestFits, NoPutKeepsFiles DEF Crash, ledger, Creating
  <1>3. ASSUME NEW k \in Key, Upload(w, k) PROVE FilesInv'
    <2>1. UNCHANGED <<acked, deleting>> /\ job' = [job EXCEPT ![w] = Request("create", k, "put")]
      BY <1>3 DEF Upload, Begin
    <2>2. Request("create", k, "put") \in Jobs
      BY NamesAreNumbers, RequestIsJob DEF Creating
    <2>3. Fits(Request("create", k, "put"))
      BY DEF Request, Fits, Creating, Heading, Getting, Removing, Filling, OfOnePath
    <2>4. Request("create", k, "put").at = "put" /\ Request("create", k, "put").op = "create"
      BY DEF Request
    <2> QED
      BY <1>1, <2>1, <2>2, <2>3, <2>4, NoPutKeepsFiles
  <1>4. CASE UNCHANGED job /\ ~\E k \in Key : Upload(w, k)
    <2>1. UNCHANGED <<acked>>
      BY <1>4, LedgerKept
    <2>2. deleting \subseteq deleting'
      BY LedgerKept DEF Delete
    <2>3. /\ KeysWhole' /\ TempsHeld'
      BY <1>1, <1>4 DEF FilesInv, KeysWhole, TempsHeld, InTemp, Data, Nothing, Meta
    <2>4. Progress' /\ Deleters' /\ UploadedIsThere'
      BY <1>1, <1>4, <2>1, <2>2 DEF FilesInv, Progress, Deleters, UploadedIsThere, Data, Placed
    <2> QED
      BY <2>3, <2>4 DEF FilesInv
  <1>5. CASE Begins(w) /\ ~Crash(w) /\ job'[w].op # "create" /\ ~\E k \in Key : Upload(w, k)
    <2>1. PICK r \in Jobs : Fits(r) /\ job' = [job EXCEPT ![w] = r]
      BY <1>5 DEF Begins, Becomes
    <2>2. job'[w] = r
      BY <2>1 DEF TypeInv, Requested
    <2>3. r.at \notin Creating
      BY <1>5, <2>1, <2>2 DEF Fits
    <2>4. acked' = acked
      BY <1>5, LedgerKept
    <2>5. deleting \subseteq deleting'
      BY LedgerKept DEF Delete
    <2>6. r.op = "delete" => r.id \in deleting'
      <3> SUFFICES ASSUME r.op = "delete" PROVE r.id \in deleting'
        OBVIOUS
      <3>1. job[w].op # "delete" /\ job'[w].op = "delete"
        BY <1>5, <2>2 DEF Begins
      <3>2. PICK p \in Path : Delete(w, p) /\ job'[w].id = p
        BY <1>5, <3>1, WhatBegins
      <3> QED
        BY <2>2, <3>2 DEF Delete
    <2> QED
      BY <1>1, <2>1, <2>3, <2>4, <2>5, <2>6, NoPutKeepsFiles
  <1> QED
    BY <1>2, <1>3, <1>4, <1>5, TakingBegins, OnlyUploadsCreate

LEMMA StoringKeepsFiles ==
  ASSUME TypeInv, FilesInv, NEW w \in Worker, PutBlob(w) \/ PutObject(w)
  PROVE  FilesInv'
  <1> DEFINE id == job[w].id
  <1>1. id \in Key /\ job[w].op = "create" /\ id \in Path
    BY CreatorsName, NamesAreNumbers DEF PutBlob, PutObject, Serving, Creating
  <1>2. files' = [files EXCEPT ![id] = Data(id)] /\ metas' = metas \cup {id} /\ deleting' = deleting
    BY DEF PutBlob, PutObject, Acknowledge, ledger
  <1>3. files \in [Path -> Contents]
    BY DEF TypeInv, Stored
  <1>4. /\ files'[id] = Data(id) /\ id \in metas' /\ metas \subseteq metas'
        /\ \A p \in Path \ {id} : files'[p] = files[p]
    BY <1>1, <1>2, <1>3
  <1>5. \A k \in Key \ {id} : files'[k] = files[k]
    BY <1>4, NamesAreNumbers
  <1>6. \A t \in Temp : files'[t] = files[t]
    BY <1>1, <1>4, NamesAreNumbers
  <1>7. CASE PutBlob(w)
    <2>1. job' = [job EXCEPT ![w] = NoRequest] /\ acked' = acked \cup {id}
      BY <1>7 DEF PutBlob, Acknowledge, Answer
    <2>2. NoRequest.at \notin Placed
      BY NoRequestFits DEF Placed
    <2> HIDE DEF id
    <2> QED
      BY <1>1, <1>2, <1>4, <1>5, <1>6, <2>1, <2>2, NoRequestFits, PutKeepsFiles DEF id
  <1>8. CASE PutObject(w)
    <2> DEFINE r == [job[w] EXCEPT !.at = "stat"]
    <2>1. job' = [job EXCEPT ![w] = r] /\ acked' = acked
      BY <1>8 DEF PutObject, Goto, Step, ledger
    <2>2. r \in Jobs /\ Fits(r) /\ r.op = "create" /\ r.id = id /\ r.temp = Idle
      BY <1>8, JobOf
      DEF PutObject, Serving, Jobs, Fits, Creating, Heading, Getting, Removing, Filling
    <2> HIDE DEF id, r
    <2> QED
      BY <1>1, <1>2, <1>4, <1>5, <1>6, <2>1, <2>2, PutKeepsFiles DEF id
  <1> QED
    BY <1>7, <1>8

LEMMA AnsweringKeepsFiles ==
  ASSUME TypeInv, FilesInv, NEW w \in Worker, DescribeObject(w) \/ StatUploaded(w)
  PROVE  FilesInv'
  <1>1. job[w].at = "stat" /\ job[w].op = "create" /\ UNCHANGED <<files, metas>>
    BY DEF DescribeObject, StatUploaded, Serving, store
  <1>2. job[w].id \in Key
    BY <1>1, JobOf DEF Fits
  <1>3. job[w].id \notin deleting => files[job[w].id] = Data(job[w].id) /\ job[w].id \in metas
    BY <1>1 DEF FilesInv, Progress, Placed
  <1>4. /\ job' = [job EXCEPT ![w] = NoRequest] /\ deleting' = deleting
        /\ acked' = acked \/ acked' = acked \cup {job[w].id}
    BY DEF DescribeObject, StatUploaded, Acknowledge, Answer, ledger
  <1>5. NoRequest.at \notin Placed
    BY NoRequestFits DEF Placed
  <1> QED
    BY <1>1, <1>2, <1>3, <1>4, <1>5, NoRequestFits, PutKeepsFiles

LEMMA TempKeepsFiles ==
  ASSUME TypeInv, FilesInv, NEW w \in Worker, MakeTemp(w)
  PROVE  FilesInv'
  <1>1. PICK t \in TempFor(w) :
          /\ files' = [files EXCEPT ![t] = Nothing(job[w].id)]
          /\ Step(w, [job[w] EXCEPT !.temp = t, !.at = IF @ = "put" THEN "write" ELSE "write meta"])
    BY DEF MakeTemp
  <1> DEFINE r == [job[w] EXCEPT !.temp = t, !.at = IF @ = "put" THEN "write" ELSE "write meta"]
  <1>2. /\ t \in Temp /\ t \in Path /\ t \notin Key /\ t # Idle
        /\ \A v \in Worker : job[v].temp # t
    BY NamesAreNumbers DEF TempFor
  <1>3. job[w].at \in {"put", "put meta"}
    BY DEF MakeTemp, Serving
  <1>4. job[w] \in Jobs /\ Fits(job[w]) /\ job[w].id \in Key /\ job[w].op = "create"
    BY <1>3, JobOf, CreatorsName DEF Creating
  <1>5. r \in Jobs
    BY <1>2, <1>4 DEF Jobs, Creating
  <1>6. Fits(r)
    BY <1>2, <1>3, <1>4 DEF Jobs, Fits, Creating, Heading, Getting, Removing, Filling
  <1>7. /\ r.op = "create" /\ r.id = job[w].id /\ r.temp = t
        /\ r.at = IF job[w].at = "put" THEN "write" ELSE "write meta"
    BY <1>4 DEF Jobs
  <1>8. job' = [job EXCEPT ![w] = r] /\ UNCHANGED <<metas, acked, deleting>>
    BY <1>1 DEF MakeTemp, Step, ledger
  <1> HIDE DEF r
  <1>9. files \in [Path -> Contents]
    BY DEF TypeInv, Stored
  <1>10. /\ files'[t] = Nothing(job[w].id)
         /\ \A p \in Path \ {t} : files'[p] = files[p]
    BY <1>1, <1>2, <1>9
  <1>11. /\ \A k \in Key : files'[k] = files[k]
         /\ \A u \in Temp \ {t} : files'[u] = files[u]
    BY <1>2, <1>10, NamesAreNumbers
  <1>12. files'[t] = InTemp(r)
    BY <1>7, <1>10 DEF InTemp
  <1>13. job[w].id \notin deleting =>
           (r.at \in Placed => files'[job[w].id] = Data(job[w].id))
    BY <1>3, <1>4, <1>7, <1>11 DEF FilesInv, Progress, Placed
  <1>14. r.at # "stat"
    BY <1>7
  <1> QED
    BY <1>2, <1>4, <1>5, <1>6, <1>7, <1>8, <1>11, <1>12, <1>13, <1>14, PutKeepsFiles

LEMMA WritingKeepsFiles ==
  ASSUME TypeInv, FilesInv, NEW w \in Worker, WriteTemp(w)
  PROVE  FilesInv'
  <1> DEFINE t == job[w].temp
             r == [job[w] EXCEPT !.at = IF job[w].at = "write" THEN "replace" ELSE "replace meta"]
  <1>1. job[w].at \in {"write", "write meta"}
    BY DEF WriteTemp, Serving
  <1>2. job[w] \in Jobs /\ Fits(job[w])
    BY JobOf
  <1>3. job[w].id \in Key /\ job[w].op = "create" /\ t \in Temp /\ t \in Path /\ t \notin Key
    BY <1>1, CreatorsName, NamesAreNumbers DEF Creating, Filling
  <1>4. r \in Jobs
    BY <1>2 DEF Jobs, Creating
  <1>5. Fits(r)
    BY <1>1, <1>2 DEF Jobs, Fits, Creating, Heading, Getting, Removing, Filling
  <1>6. /\ r.op = "create" /\ r.id = job[w].id /\ r.temp = t
        /\ r.at = IF job[w].at = "write" THEN "replace" ELSE "replace meta"
    BY <1>2, <1>3 DEF Jobs
  <1>7. job' = [job EXCEPT ![w] = r] /\ UNCHANGED <<metas, acked, deleting>>
    BY DEF WriteTemp, Goto, Step, ledger
  <1>8. files \in [Path -> Contents]
    BY DEF TypeInv, Stored
  <1> HIDE DEF r
  <1>9. files'[t] \in {Absent, InTemp(r)}
    BY <1>1, <1>3, <1>6, <1>8 DEF WriteTemp, InTemp
  <1>10. \A p \in Path \ {t} : files'[p] = files[p]
    BY <1>3, <1>8 DEF WriteTemp
  <1>11. \A v \in Worker \ {w} : job[v].temp # t
    BY <1>3, NamesAreNumbers DEF FilesInv, TempsHeld
  <1> HIDE DEF t
  <1>12. /\ \A k \in Key : files'[k] = files[k]
         /\ \A u \in Temp \ {t} : files'[u] = files[u]
    BY <1>3, <1>10, NamesAreNumbers
  <1>13. job[w].id \notin deleting =>
           (r.at \in Placed => files'[job[w].id] = Data(job[w].id))
    BY <1>1, <1>3, <1>6, <1>12 DEF FilesInv, Progress, Placed
  <1>14. r.at # "stat"
    BY <1>6
  <1> QED
    BY <1>3, <1>4, <1>5, <1>6, <1>7, <1>9, <1>11, <1>12, <1>13, <1>14, PutKeepsFiles

LEMMA PlacingKeepsFiles ==
  ASSUME TypeInv, FilesInv, NEW w \in Worker, ReplaceData(w) \/ ReplaceMeta(w)
  PROVE  FilesInv'
  <1> DEFINE t == job[w].temp
             next == IF job[w].at = "replace" THEN "put meta" ELSE "stat"
             r == [job[w] EXCEPT !.temp = Idle, !.at = next]
  <1>1. job[w].at \in {"replace", "replace meta"} /\ files[t] # Absent
    BY DEF ReplaceData, ReplaceMeta, Serving
  <1>2. job[w] \in Jobs /\ Fits(job[w])
    BY JobOf
  <1>3. job[w].id \in Key /\ job[w].op = "create" /\ t \in Temp /\ t \in Path /\ t \notin Key
    BY <1>1, CreatorsName, NamesAreNumbers DEF Creating, Filling
  <1>4. r \in Jobs
    BY <1>2 DEF Jobs, Creating
  <1>5. Fits(r)
    BY <1>1, <1>2 DEF Jobs, Fits, Creating, Heading, Getting, Removing, Filling
  <1>6. r.op = "create" /\ r.id = job[w].id /\ r.temp = Idle /\ r.at = next
    BY <1>2, <1>3 DEF Jobs
  <1>7. job' = [job EXCEPT ![w] = r] /\ UNCHANGED <<acked, deleting>>
    BY DEF ReplaceData, ReplaceMeta, Serving, Step, ledger
  <1>8. files \in [Path -> Contents]
    BY DEF TypeInv, Stored
  <1>9. \A v \in Worker \ {w} : job[v].temp # t
    BY <1>3, NamesAreNumbers DEF FilesInv, TempsHeld
  <1>10. files[t] = InTemp(job[w])
    BY <1>1, <1>3, NamesAreNumbers DEF FilesInv, TempsHeld
  <1>11. job[w].id \in Path /\ job[w].id # t
    BY <1>3, NamesAreNumbers
  <1> HIDE DEF r
  <1>12. CASE ReplaceData(w)
    <2>1. job[w].at = "replace" /\ files' = Moved(w) /\ metas' = metas
      BY <1>12 DEF ReplaceData, Serving
    <2>2. files'[job[w].id] = Data(job[w].id)
      BY <1>10, <1>11, <2>1 DEF Moved, InTemp
    <2>3. \A p \in Path \ {t, job[w].id} : files'[p] = files[p]
      BY <2>1 DEF Moved
    <2>4. r.at = "put meta"
      BY <1>6, <2>1
    <2> HIDE DEF t, next
    <2>5. /\ \A k \in Key \ {job[w].id} : files'[k] = files[k]
          /\ \A u \in Temp \ {t} : files'[u] = files[u]
      BY <1>3, <2>3, NamesAreNumbers
    <2> QED
      BY <1>3, <1>4, <1>5, <1>6, <1>7, <1>9, <2>1, <2>2, <2>4, <2>5, PutKeepsFiles
  <1>13. CASE ReplaceMeta(w)
    <2>1. /\ job[w].at = "replace meta" /\ files' = [files EXCEPT ![t] = Absent]
          /\ metas' = metas \cup {job[w].id}
      BY <1>13 DEF ReplaceMeta, Serving
    <2>2. job[w].id \notin deleting => files[job[w].id] = Data(job[w].id)
      BY <1>3, <2>1 DEF FilesInv, Progress, Placed
    <2>3. \A p \in Path \ {t} : files'[p] = files[p]
      BY <1>3, <1>8, <2>1
    <2> HIDE DEF t, next
    <2>4. /\ \A k \in Key : files'[k] = files[k]
          /\ \A u \in Temp \ {t} : files'[u] = files[u]
      BY <1>3, <2>3, NamesAreNumbers
    <2> QED
      BY <1>3, <1>4, <1>5, <1>6, <1>7, <1>9, <2>1, <2>2, <2>4, PutKeepsFiles
  <1> QED
    BY <1>12, <1>13

LEMMA FailingKeepsFiles ==
  ASSUME TypeInv, FilesInv, NEW w \in Worker, PutFails(w)
  PROVE  FilesInv'
  <1>1. job[w].temp \in Temp /\ job[w].temp \notin Key /\ job[w].temp \in Path
    BY CreatorsName, NamesAreNumbers DEF PutFails, Serving, Filling
  <1>2. /\ files' = [files EXCEPT ![job[w].temp] = Absent] /\ UNCHANGED <<metas, acked, deleting>>
        /\ job' = [job EXCEPT ![w] = NoRequest]
    BY DEF PutFails, ledger
  <1>3. files \in [Path -> Contents]
    BY DEF TypeInv, Stored
  <1>4. \A p \in Path : files'[p] = IF p = job[w].temp THEN Absent ELSE files[p]
    BY <1>2, <1>3
  <1>5. /\ \A p \in Path : files'[p] \in {files[p], Absent}
        /\ \A k \in Key \ deleting : files'[k] = files[k]
    BY <1>1, <1>4, NamesAreNumbers
  <1> QED
    BY <1>2, <1>5, NoRequestFits, NoPutKeepsFiles DEF Creating

LEMMA FilesStart ==
  ASSUME Init
  PROVE  FilesInv
  <1>1. PICK k \in SUBSET Key :
          /\ files = [p \in Path |-> IF p \in k THEN Data(p) ELSE Absent]
          /\ metas = k /\ acked = k
    BY DEF Init
  <1>2. \A p \in Key : files[p] = IF p \in k THEN Data(p) ELSE Absent
    BY <1>1, NamesAreNumbers
  <1>3. KeysWhole /\ UploadedIsThere
    BY <1>1, <1>2 DEF KeysWhole, UploadedIsThere
  <1>4. TempsHeld /\ Progress /\ Deleters
    BY NoRequestFits DEF Init, TempsHeld, Progress, Deleters
  <1> QED
    BY <1>3, <1>4 DEF FilesInv

LEMMA FilesStep ==
  ASSUME TypeInv, FilesInv, [Next]_vars
  PROVE  FilesInv'
  <1>1. ASSUME UNCHANGED <<store, ledger, job>> PROVE FilesInv'
    <2>1. UNCHANGED <<files, metas, acked, deleting, job>>
      BY <1>1 DEF store, ledger
    <2>2. KeysWhole' /\ TempsHeld'
      BY <2>1 DEF FilesInv, KeysWhole, TempsHeld, InTemp, Data, Nothing, Meta
    <2>3. Progress' /\ Deleters' /\ UploadedIsThere'
      BY <2>1 DEF FilesInv, Progress, Deleters, UploadedIsThere, Data, Placed
    <2> QED
      BY <2>2, <2>3 DEF FilesInv
  <1>2. CASE UNCHANGED vars
    BY <1>1, <1>2 DEF vars, store, ledger
  <1>3. CASE Outside
    BY <1>1, <1>3, WorldKept
  <1>4. ASSUME NEW w \in Worker, Put(w) PROVE FilesInv'
    BY <1>4, StoringKeepsFiles, AnsweringKeepsFiles, TempKeepsFiles, WritingKeepsFiles,
      PlacingKeepsFiles, FailingKeepsFiles DEF Put
  <1> QED
    BY <1>2, <1>3, <1>4, ReadingKeepsFiles, DeletionKeepsFiles, TakingKeepsFiles, NextSteps
    DEF Reading

LEMMA FilesHold == Spec => [](TypeInv /\ FilesInv)
  <1>1. Init => TypeInv /\ FilesInv
    BY TypeStart, FilesStart
  <1>2. TypeInv /\ FilesInv /\ [Next]_vars => (TypeInv /\ FilesInv)'
    BY TypeStep, FilesStep
  <1> QED
    BY <1>1, <1>2, PTL DEF Spec

-----------------------------------------------------------------------------
(* Every answer has the bytes of one upload *)

(* What a signed download has read and will answer. *)
SignedBytes ==
  \A w \in Worker : job[w].op = "signed" /\ job[w].at \notin Getting /\ job[w].id \in Key =>
    job[w].bytes = Data(job[w].id)

ReadInv == SignedBytes /\ ReadersSeeWholeFiles

(* The answers that carry no bytes. *)
Silent ==
  got' # Idle /\ got'.op \in {"content", "signed"} => got'.status # 200

LEMMA SilentReads ==
  ASSUME Silent
  PROVE  ReadersSeeWholeFiles'
  BY DEF Silent, ReadersSeeWholeFiles

LEMMA AnswersAreSilent ==
  /\ \A w, r : Step(w, r) => Silent
  /\ \A w, r : Begin(w, r) => Silent
  /\ \A w, at : Goto(w, at) => Silent
  /\ \A w, status, body : Answer(w, status, body) /\ status # 200 => Silent
  /\ \A w, status, body : Answer(w, status, body) /\ job[w].op \notin {"content", "signed"} => Silent
  BY DEF Step, Begin, Goto, Answer, Silent

(* Only a file that is there is read. *)
LEMMA ReadingBytes ==
  ASSUME TypeInv, FilesInv, ReadInv, NEW w \in Worker, Get(w) \/ GetBytes(w)
  PROVE  ReadInv'
  <1>1. job[w] \in Jobs /\ Fits(job[w]) /\ job[w].at \in Getting
    BY JobOf DEF Get, GetBytes, Serving, Getting
  <1>2. job[w].op \in {"content", "signed"} /\ job \in [Worker -> Jobs]
    BY <1>1 DEF Fits, TypeInv, Requested
  <1>3. ASSUME NEW r \in Jobs, job' = [job EXCEPT ![w] = r],
               r.op = "signed" /\ r.at \notin Getting /\ r.id \in Key => r.bytes = Data(r.id)
        PROVE  SignedBytes'
    BY <1>2, <1>3 DEF ReadInv, SignedBytes, Data, Getting
  <1>4. CASE Answer(w, 404, Absent)
    <2>1. job' = [job EXCEPT ![w] = NoRequest]
      BY <1>4 DEF Answer
    <2>2. SignedBytes'
      BY <1>3, <2>1, NoRequestFits
    <2> QED
      BY <1>4, <2>2, AnswersAreSilent, SilentReads DEF ReadInv
  <1>5. CASE Goto(w, "get bytes")
    <2>1. job' = [job EXCEPT ![w] = [job[w] EXCEPT !.at = "get bytes"]]
      BY <1>5 DEF Goto, Step
    <2>2. [job[w] EXCEPT !.at = "get bytes"] \in Jobs /\ [job[w] EXCEPT !.at = "get bytes"].at \in Getting
      BY <1>1 DEF Jobs, Getting
    <2>3. SignedBytes'
      BY <1>3, <2>1, <2>2
    <2> QED
      BY <1>5, <2>3, AnswersAreSilent, SilentReads DEF ReadInv
  <1>6. CASE HasBytes(w) /\ files[job[w].id] # Absent
    <2>1. job[w].id \in Key => files[job[w].id] = Data(job[w].id)
      BY <1>6 DEF FilesInv, KeysWhole
    <2>2. CASE job[w].op = "content"
      <3>1. job' = [job EXCEPT ![w] = NoRequest] /\ got'.id = job[w].id /\ got'.body = files[job[w].id]
        BY <1>6, <2>2 DEF HasBytes, Answer
      <3>2. SignedBytes'
        BY <1>3, <3>1, NoRequestFits
      <3>3. ReadersSeeWholeFiles'
        BY <2>1, <3>1 DEF ReadersSeeWholeFiles, Data
      <3> QED
        BY <3>2, <3>3 DEF ReadInv
    <2>3. CASE job[w].op # "content"
      <3> DEFINE r == [job[w] EXCEPT !.bytes = files[job[w].id], !.todo = {job[w].id}, !.at = "head"]
      <3>1. Step(w, r)
        BY <1>6, <2>3 DEF HasBytes
      <3>2. job[w].id \in Path /\ files[job[w].id] \in Contents
        BY <1>1, CreatorsName DEF TypeInv, Stored
      <3>3. r \in Jobs /\ r.id = job[w].id /\ r.bytes = files[job[w].id]
        BY <1>1, <3>2 DEF Jobs, Heading
      <3> HIDE DEF r
      <3>4. SignedBytes'
        BY <1>3, <2>1, <3>1, <3>3 DEF Step
      <3> QED
        BY <3>1, <3>4, AnswersAreSilent, SilentReads DEF ReadInv
    <2> QED
      BY <2>2, <2>3
  <1> QED
    BY <1>4, <1>5, <1>6 DEF Get, GetBytes

(* No other step gives bytes away but the answer of a signed download. *)
LEMMA MovingKeepsBytes ==
  ASSUME TypeInv, ReadInv, NEW w \in Worker, Moves(w), job[w].at \notin Getting
  PROVE  SignedBytes'
  <1>1. PICK r \in Jobs : Fits(r) /\ Follows(r, job[w]) /\ job' = [job EXCEPT ![w] = r]
    BY DEF Moves, Becomes
  <1>2. job \in [Worker -> Jobs]
    BY DEF TypeInv, Requested
  <1>3. job'[w] = r /\ \A v \in Worker \ {w} : job'[v] = job[v]
    BY <1>1, <1>2
  <1>4. ASSUME NEW v \in Worker,
               job'[v].op = "signed", job'[v].at \notin Getting, job'[v].id \in Key
        PROVE  job'[v].bytes = Data(job'[v].id)
    <2>1. CASE v = w
      BY <1>1, <1>3, <1>4, <2>1 DEF ReadInv, SignedBytes, Follows
    <2>2. CASE v # w
      BY <1>3, <1>4, <2>2 DEF ReadInv, SignedBytes
    <2> QED
      BY <2>1, <2>2
  <1> QED
    BY <1>4 DEF SignedBytes, Data, Getting

LEMMA PutIsSilent ==
  ASSUME TypeInv, NEW w \in Worker, Put(w)
  PROVE  Silent /\ job[w].at \notin Getting
  <1>1. CASE PutBlob(w) \/ DescribeObject(w) \/ StatUploaded(w)
    <2>1. Silent
      <3>1. (\E id : Answer(w, 201, id)) \/ Answer(w, 500, Absent)
        BY <1>1 DEF PutBlob, DescribeObject, StatUploaded, Acknowledge
      <3> QED
        BY <3>1, AnswersAreSilent
    <2>2. job[w].at \notin Getting
      BY <1>1 DEF PutBlob, DescribeObject, StatUploaded, Serving, Getting
    <2> QED
      BY <2>1, <2>2
  <1>2. CASE PutObject(w) \/ MakeTemp(w) \/ WriteTemp(w)
    BY <1>2, AnswersAreSilent DEF PutObject, MakeTemp, WriteTemp, Serving, Getting
  <1>3. CASE ReplaceData(w) \/ ReplaceMeta(w)
    BY <1>3, AnswersAreSilent DEF ReplaceData, ReplaceMeta, Serving, Getting
  <1>4. CASE PutFails(w)
    BY <1>4 DEF PutFails, Serving, Getting, Silent
  <1> QED
    BY <1>1, <1>2, <1>3, <1>4 DEF Put

LEMMA HeadIsSilent ==
  ASSUME TypeInv, NEW w \in Worker, HeadObject(w)
  PROVE  Silent
  <1>1. (\E r : Step(w, r)) \/ (\E at : Goto(w, at)) \/ Answer(w, 500, Absent)
    BY DEF HeadObject, HeadAtOnce, HeadIsFile, HeadBytes, HeadMeta, HeadStat, Vanished
  <1> QED
    BY <1>1, AnswersAreSilent

LEMMA DeletionIsSilent ==
  ASSUME TypeInv, NEW w \in Worker, Deletion(w) \/ ListAtOnce(w) \/ ListNames(w)
  PROVE  Silent /\ job[w].at \notin Getting
  <1>1. Silent
    <2>1. \/ \E r : Step(w, r)
          \/ \E at : Goto(w, at)
          \/ \E body : Answer(w, 204, body)
      BY DEF Deletion, DeleteFound, DeleteAtOnce, DeleteIsFile, Unlink, DeleteHasMeta, UnlinkMeta,
        ListAtOnce, ListNames
    <2> QED
      BY <2>1, AnswersAreSilent
  <1>2. job[w].at \notin Getting
    BY DEF Deletion, DeleteFound, DeleteAtOnce, DeleteIsFile, Unlink, DeleteHasMeta, UnlinkMeta,
      ListAtOnce, ListNames, Serving, Getting
  <1> QED
    BY <1>1, <1>2

LEMMA ReplyKeepsReads ==
  ASSUME TypeInv, FilesInv, ReadInv, NEW w \in Worker, Reply(w)
  PROVE  ReadInv'
  <1>1. CASE Get(w) \/ GetBytes(w)
    BY <1>1, ReadingBytes
  <1>2. ASSUME ~(Get(w) \/ GetBytes(w)) PROVE job[w].at = "headed"
    BY <1>2 DEF Reply, Missing, ReadAnswer, Download, Presigned, Content, SignedAnswer, Page,
      BatchAnswer, FoundIt, Serving
  <1>3. ASSUME job[w].at = "headed" PROVE SignedBytes'
    BY <1>3, ReplyMoves, MovingKeepsBytes DEF Getting
  <1>4. CASE Missing(w) \/ ReadAnswer(w) \/ Download(w) \/ Content(w)
    <2>1. Silent
      BY <1>4, AnswersAreSilent DEF Missing, ReadAnswer, Download, Content, FoundIt
    <2> QED
      BY <1>3, <1>4, <2>1, SilentReads
      DEF ReadInv, Missing, ReadAnswer, Download, Content, FoundIt, Serving
  <1>5. CASE Presigned(w)
    <2>1. Silent
      <3>1. CASE job[w].op = "content"
        BY <1>5, <3>1, AnswersAreSilent DEF Presigned
      <3>2. CASE job[w].op # "content"
        BY <1>5, <3>2, AnswersAreSilent DEF Presigned, FoundIt
      <3> QED
        BY <3>1, <3>2
    <2> QED
      BY <1>3, <1>5, <2>1, SilentReads DEF ReadInv, Presigned, FoundIt, Serving
  <1>6. CASE Page(w) \/ BatchAnswer(w)
    <2>1. Silent
      BY <1>6, AnswersAreSilent DEF Page, BatchAnswer
    <2> QED
      BY <1>3, <1>6, <2>1, SilentReads DEF ReadInv, Page, BatchAnswer, Serving
  <1>7. CASE SignedAnswer(w)
    <2>1. /\ job[w].at = "headed" /\ job[w].op = "signed"
          /\ got'.id = job[w].id /\ got'.body = job[w].bytes
      BY <1>7 DEF SignedAnswer, Serving, Answer
    <2>2. ReadersSeeWholeFiles'
      BY <2>1 DEF ReadersSeeWholeFiles, ReadInv, SignedBytes, Getting, Data
    <2> QED
      BY <1>3, <2>1, <2>2 DEF ReadInv
  <1> QED
    BY <1>1, <1>4, <1>5, <1>6, <1>7 DEF Reply

LEMMA TakingKeepsReads ==
  ASSUME TypeInv, ReadInv, NEW w \in Worker, Taking(w)
  PROVE  ReadInv'
  <1>1. Silent
    <2>1. CASE Oversize(w) \/ Search(w) \/ Count(w) \/ BatchRead(w) \/ Crash(w)
      BY <2>1, AnswersAreSilent DEF Oversize, Search, Count, BatchRead, Crash, Silent
    <2>2. CASE \E k \in Key : Upload(w, k)
      BY <2>2, AnswersAreSilent DEF Upload
    <2>3. ASSUME NEW p, NEW op, NEW token, Read(w, op, p) \/ Delete(w, p) \/ SignedGet(w, token, p)
          PROVE  Silent
      BY <2>3, AnswersAreSilent DEF Read, Delete, SignedGet, Silent
    <2> QED
      BY <2>1, <2>2, <2>3 DEF Taking
  <1>2. job \in [Worker -> Jobs]
    BY DEF TypeInv, Requested
  <1>3. CASE UNCHANGED job
    BY <1>1, <1>3, SilentReads DEF ReadInv, SignedBytes, Getting, Data
  <1>4. CASE ~UNCHANGED job
    <2>1. \A v \in Worker \ {w} : job'[v] = job[v]
      BY <1>2, <1>4, TakingBegins, CrashMoves DEF Begins, Moves, Becomes
    <2>2. job'[w].op # "signed" \/ job'[w].at \in Getting
      BY <1>4, WhatBegins DEF Getting
    <2> QED
      BY <1>1, <2>1, <2>2, SilentReads DEF ReadInv, SignedBytes, Getting, Data
  <1> QED
    BY <1>3, <1>4

LEMMA ReadStep ==
  ASSUME TypeInv, FilesInv, ReadInv, [Next]_vars
  PROVE  ReadInv'
  <1>1. CASE UNCHANGED vars
    BY <1>1 DEF vars, ReadInv, SignedBytes, ReadersSeeWholeFiles, Getting, Data
  <1>2. CASE Outside
    <2>1. Silent
      BY <1>2 DEF Outside, Redeploy, Tick, Silent
    <2> QED
      BY <1>2, <2>1, WorldKept, SilentReads DEF ReadInv, SignedBytes, Getting, Data
  <1>3. ASSUME NEW w \in Worker, Put(w) PROVE ReadInv'
    BY <1>3, PutMoves, PutIsSilent, MovingKeepsBytes, SilentReads DEF ReadInv
  <1>4. ASSUME NEW w \in Worker, Deletion(w) \/ ListAtOnce(w) \/ ListNames(w) PROVE ReadInv'
    BY <1>4, DeletionMoves, ListingMoves, DeletionIsSilent, MovingKeepsBytes, SilentReads
    DEF ReadInv
  <1>5. ASSUME NEW w \in Worker, HeadObject(w) PROVE ReadInv'
    <2>1. ReadersSeeWholeFiles'
      BY <1>5, HeadIsSilent, SilentReads
    <2>2. CASE job[w].at \notin Getting
      BY <1>5, <2>1, <2>2, HeadMoves, MovingKeepsBytes DEF ReadInv
    <2>3. CASE job[w].at \in Getting
      <3>1. job' = [job EXCEPT ![w] = NoRequest]
        BY <1>5, <2>3 DEF HeadObject, HeadAtOnce, HeadIsFile, HeadBytes, HeadMeta, HeadStat,
          Vanished, Serving, Getting, Answer
      <3>2. job \in [Worker -> Jobs]
        BY DEF TypeInv, Requested
      <3>3. SignedBytes'
        BY <3>1, <3>2, NoRequestFits DEF ReadInv, SignedBytes, Getting, Data
      <3> QED
        BY <2>1, <3>3 DEF ReadInv
    <2> QED
      BY <2>2, <2>3
  <1> QED
    BY <1>1, <1>2, <1>3, <1>4, <1>5, ReplyKeepsReads, TakingKeepsReads, NextSteps

(* "so a concurrent reader never sees a truncated file" and "a key is readable exactly when *)
(* create has run for it and delete has not": whatever other workers, crashes and failing     *)
(* media do between the steps of a put, a read of a key is given one upload's whole bytes,    *)
(* and the file of an answered upload is there, with its metadata, until a delete is asked.   *)
THEOREM FilesAreWhole == Spec => []WholeFiles
  <1>1. Init => ReadInv
    BY NoRequestFits DEF Init, ReadInv, SignedBytes, ReadersSeeWholeFiles
  <1>2. TypeInv /\ FilesInv /\ ReadInv /\ [Next]_vars => ReadInv'
    BY ReadStep
  <1>3. FilesInv /\ ReadInv => WholeFiles
    BY DEF FilesInv, ReadInv, WholeFiles
  <1>4. Spec => []ReadInv
    BY <1>1, <1>2, FilesHold, PTL DEF Spec
  <1> QED
    BY <1>3, <1>4, FilesHold, PTL

-----------------------------------------------------------------------------
(* Nothing is left of an upload or of a deleted file *)

DataOnly == {"put meta", "write meta", "replace meta"}
MetaOnly == {"delete meta", "unlink meta"}

(* While every delete was of an answered upload: a put has its temporary file, and a delete *)
(* that goes on to the metadata has removed the file.                                         *)
Orderly ==
  /\ deleting \subseteq acked
  /\ \A w \in Worker : job[w].temp # Idle => files[job[w].temp] # Absent
  /\ \A w \in Worker : job[w].at \in MetaOnly => files[job[w].id] = Absent

(* Whatever is stored by halves has a request under way that stores or removes the rest. *)
Owned ==
  /\ \A t \in Temp : files[t] # Absent => \E w \in Worker : job[w].temp = t
  /\ \A k \in Key \ metas : files[k] # Absent =>
       \E w \in Worker : job[w].id = k /\ job[w].at \in DataOnly
  /\ \A k \in metas : files[k] = Absent =>
       \E w \in Worker : job[w].id = k /\ job[w].at \in MetaOnly

OrphanInv == ~early => Orderly /\ (faults = 0 => Owned)

(* What one worker's step has to do to leave no orphan. *)
LEMMA StepLeavesNoOrphan ==
  ASSUME TypeInv, OrphanInv, NEW w \in Worker, NEW r \in Jobs, job' = [job EXCEPT ![w] = r],
         early => early', ~early' => deleting' \subseteq acked',
         ~early' =>
           /\ r.temp # Idle => files'[r.temp] # Absent
           /\ r.at \in MetaOnly => files'[r.id] = Absent
           /\ \A v \in Worker \ {w} :
                /\ job[v].temp # Idle => files'[job[v].temp] = files[job[v].temp]
                /\ job[v].at \in MetaOnly => files'[job[v].id] = files[job[v].id],
         ~early' /\ faults' = 0 =>
           /\ faults = 0
           /\ \A t \in Temp : files'[t] # Absent =>
                r.temp = t \/ (files[t] # Absent /\ job[w].temp # t)
           /\ \A k \in Key \ metas' : files'[k] # Absent =>
                \/ r.id = k /\ r.at \in DataOnly
                \/ k \notin metas /\ files[k] # Absent /\ ~(job[w].id = k /\ job[w].at \in DataOnly)
           /\ \A k \in metas' : files'[k] = Absent =>
                \/ r.id = k /\ r.at \in MetaOnly
                \/ k \in metas /\ files[k] = Absent /\ ~(job[w].id = k /\ job[w].at \in MetaOnly)
  PROVE  OrphanInv'
  <1> SUFFICES ASSUME ~early' PROVE Orderly' /\ (faults' = 0 => Owned')
    BY DEF OrphanInv
  <1>1. Orderly /\ (faults = 0 => Owned)
    BY DEF OrphanInv
  <1>2. job'[w] = r /\ \A v \in Worker \ {w} : job'[v] = job[v]
    BY DEF TypeInv, Requested
  <1>3. Orderly'
    <2>1. ASSUME NEW v \in Worker
          PROVE  /\ job'[v].temp # Idle => files'[job'[v].temp] # Absent
                 /\ job'[v].at \in MetaOnly => files'[job'[v].id] = Absent
      <3>1. CASE v = w
        BY <1>2, <3>1
      <3>2. CASE v # w
        BY <1>1, <1>2, <3>2 DEF Orderly
      <3> QED
        BY <3>1, <3>2
    <2> QED
      BY <2>1 DEF Orderly, MetaOnly
  <1>4. ASSUME faults' = 0 PROVE Owned'
    <2>1. Owned
      BY <1>1, <1>4
    <2>2. ASSUME NEW t \in Temp, files'[t] # Absent
          PROVE  \E v \in Worker : job'[v].temp = t
      BY <1>2, <1>4, <2>1, <2>2 DEF Owned
    <2>3. ASSUME NEW k \in Key \ metas', files'[k] # Absent
          PROVE  \E v \in Worker : job'[v].id = k /\ job'[v].at \in DataOnly
      BY <1>2, <1>4, <2>1, <2>3 DEF Owned
    <2>4. ASSUME NEW k \in metas', files'[k] = Absent
          PROVE  \E v \in Worker : job'[v].id = k /\ job'[v].at \in MetaOnly
      <3>1. k \in Key => k \in metas \/ k \notin metas
        OBVIOUS
      <3> QED
        BY <1>2, <1>4, <2>1, <2>4 DEF Owned
    <2> QED
      BY <2>2, <2>3, <2>4 DEF Owned, DataOnly, MetaOnly
  <1> QED
    BY <1>3, <1>4

(* A step that stores nothing. *)
LEMMA StoringNothing ==
  ASSUME TypeInv, OrphanInv, NEW w \in Worker, NEW r \in Jobs, Fits(r),
         job' = [job EXCEPT ![w] = r], UNCHANGED store,
         early => early', ~early' => deleting' \subseteq acked',
         r.at \in Creating => r.at = "put",
         r.at \in MetaOnly => files[r.id] = Absent,
         faults' = 0 => faults = 0 /\ job[w].temp = Idle /\ job[w].at \notin DataOnly,
         faults' = 0 /\ job[w].at \in MetaOnly /\ job[w].id \in metas =>
           r.id = job[w].id /\ r.at \in MetaOnly
  PROVE  OrphanInv'
  <1>1. files' = files /\ metas' = metas
    BY DEF store
  <1>2. r.temp = Idle
    BY DEF Fits, Creating, Filling
  <1>3. Idle \notin Temp
    BY NamesAreNumbers
  <1> QED
    BY <1>1, <1>2, <1>3, StepLeavesNoOrphan

LEMMA DeletersAcked ==
  ASSUME TypeInv, FilesInv, OrphanInv, ~early
  PROVE  \A v, w \in Worker : job[v].op = "delete" =>
           /\ job[v].id \in Key /\ job[v].id \in acked
           /\ job[w].op = "create" => job[w].id # job[v].id
  BY DEF TypeInv, Stored, Uploading, FilesInv, Deleters, OrphanInv, Orderly

LEMMA DeletersFit ==
  ASSUME TypeInv, NEW w \in Worker, job[w].at \in MetaOnly \cup Removing
  PROVE  job[w].op = "delete" /\ job[w].temp = Idle /\ job[w].at \notin DataOnly
  BY JobOf DEF Fits, MetaOnly, Removing, DataOnly, Creating, Filling

LEMMA ReadersLeaveMeta ==
  ASSUME TypeInv, NEW w \in Worker, Reading(w), ~DeleteIsFile(w), ~DeleteHasMeta(w)
  PROVE  /\ job'[w].at \notin MetaOnly
         /\ job[w].at \in MetaOnly => job[w].id \notin metas
  <1>1. job[w] \in Jobs /\ job \in [Worker -> Jobs]
    BY JobOf DEF TypeInv, Requested
  <1>2. /\ \A status, body : Answer(w, status, body) => job'[w].at = "idle"
        /\ \A at : Goto(w, at) => job'[w].at = at
        /\ \A r : Step(w, r) => job'[w] = r
    BY <1>1, NoRequestFits DEF Answer, Goto, Step, Jobs
  <1>3. \A info : Headed(w, info).at \in {"head", "headed"}
    BY <1>1 DEF Headed, Jobs
  <1>4. CASE HeadAtOnce(w) \/ HeadStat(w)
    <2>1. \E info : Step(w, Headed(w, info))
      BY <1>4 DEF HeadAtOnce, HeadStat
    <2> QED
      BY <1>2, <1>3, <1>4, <2>1 DEF HeadAtOnce, HeadStat, Serving, MetaOnly
  <1>5. CASE HeadIsFile(w) \/ HeadBytes(w)
    BY <1>2, <1>3, <1>5 DEF HeadIsFile, HeadBytes, Serving, MetaOnly
  <1>6. CASE HeadMeta(w)
    <2>1. [job[w] EXCEPT !.named = Due(w) \in metas, !.at = "head stat"].at = "head stat"
      BY <1>1 DEF Jobs
    <2> QED
      BY <1>2, <1>6, <2>1 DEF HeadMeta, Serving, MetaOnly
  <1>7. CASE Vanished(w)
    BY <1>2, <1>7 DEF Vanished, Serving, MetaOnly
  <1>8. CASE ListAtOnce(w) \/ ListNames(w)
    <2> DEFINE names == Names(walk.after)
               r == IF medium = "local"
                    THEN [job[w] EXCEPT !.todo = names,
                                        !.at = IF names = {} THEN "headed" ELSE "head"]
                    ELSE [job[w] EXCEPT !.at = "headed", !.found = [p \in names |-> "named"]]
    <2>1. Step(w, r)
      BY <1>8 DEF ListAtOnce, ListNames
    <2>2. job'[w].at \in {"head", "headed"}
      <3>1. r.at \in {"head", "headed"}
        BY <1>1 DEF Jobs
      <3>2. job'[w] = r
        BY <1>2, <2>1
      <3> QED
        BY <3>1, <3>2
    <2>3. job[w].at = "list"
      BY <1>8 DEF ListAtOnce, ListNames, Serving
    <2> QED
      BY <2>2, <2>3 DEF MetaOnly
  <1>9. CASE DeleteFound(w)
    BY <1>2, <1>9 DEF DeleteFound, Serving, MetaOnly
  <1>10. CASE Reply(w)
    <2>1. job[w].at \in {"headed", "get", "get bytes"}
      BY <1>10 DEF Reply, Missing, ReadAnswer, Download, Presigned, Content, Get, GetBytes,
        SignedAnswer, Page, BatchAnswer, FoundIt, Serving
    <2>2. HasBytes(w) => job'[w].at \in {"idle", "head"}
      BY <1>1, <1>2 DEF HasBytes, Jobs
    <2>3. CASE Get(w) \/ GetBytes(w) \/ Content(w)
      BY <1>2, <2>1, <2>2, <2>3 DEF Get, GetBytes, Content, MetaOnly
    <2>4. CASE Missing(w) \/ ReadAnswer(w) \/ Download(w) \/ Presigned(w) \/ SignedAnswer(w)
      BY <1>2, <2>1, <2>4 DEF Missing, ReadAnswer, Download, Presigned, SignedAnswer, MetaOnly
    <2>5. CASE Page(w) \/ BatchAnswer(w)
      BY <1>2, <2>1, <2>5 DEF Page, BatchAnswer, MetaOnly
    <2> QED
      BY <1>10, <2>3, <2>4, <2>5 DEF Reply
  <1> QED
    BY <1>4, <1>5, <1>6, <1>7, <1>8, <1>9, <1>10 DEF Reading, HeadObject

LEMMA DeletingLeavesMeta ==
  ASSUME TypeInv, OrphanInv, ~early, NEW w \in Worker, DeleteIsFile(w) \/ DeleteHasMeta(w)
  PROVE  /\ job'[w].at \in MetaOnly => files[job'[w].id] = Absent
         /\ job[w].at \in MetaOnly /\ job[w].id \in metas =>
              job'[w].id = job[w].id /\ job'[w].at \in MetaOnly
  <1>1. job[w] \in Jobs /\ job \in [Worker -> Jobs]
    BY JobOf DEF TypeInv, Requested
  <1>2. /\ \A status, body : Answer(w, status, body) => job'[w].at = "idle"
        /\ \A at : Goto(w, at) => job'[w].at = at /\ job'[w].id = job[w].id
    BY <1>1, NoRequestFits DEF Answer, Goto, Step, Jobs
  <1>3. CASE DeleteIsFile(w)
    <2>1. job[w].at = "delete"
      BY <1>3 DEF DeleteIsFile, Serving
    <2>2. CASE files[job[w].id] = Absent
      <3>1. job'[w].id = job[w].id
        BY <1>2, <1>3 DEF DeleteIsFile
      <3> QED
        BY <2>1, <2>2, <3>1 DEF MetaOnly
    <2>3. CASE files[job[w].id] # Absent
      <3>1. Goto(w, "unlink")
        BY <1>3, <2>3 DEF DeleteIsFile
      <3>2. job'[w].at = "unlink"
        BY <1>2, <3>1
      <3> QED
        BY <2>1, <3>2 DEF MetaOnly
    <2> QED
      BY <2>2, <2>3
  <1>4. CASE DeleteHasMeta(w)
    <2>1. files[job[w].id] = Absent
      BY <1>4 DEF DeleteHasMeta, Serving, MetaOnly, OrphanInv, Orderly
    <2> QED
      BY <1>2, <1>4, <2>1 DEF DeleteHasMeta, Serving, MetaOnly
  <1> QED
    BY <1>3, <1>4

LEMMA ReadingLeavesNoOrphan ==
  ASSUME TypeInv, FilesInv, OrphanInv, NEW w \in Worker, Reading(w)
  PROVE  OrphanInv'
  <1>1. Moves(w)
    BY HeadMoves, ReplyMoves, DeletionMoves, ListingMoves DEF Reading, Deletion
  <1>2. PICK r \in Jobs : Fits(r) /\ Follows(r, job[w]) /\ job' = [job EXCEPT ![w] = r]
    BY <1>1 DEF Moves, Becomes
  <1>3. UNCHANGED <<store, ledger, world>>
    BY ReadingKeeps
  <1>4. job[w].op # "create" /\ Fits(job[w]) /\ job'[w] = r
    BY <1>2, ReadersDoNotCreate, JobOf DEF TypeInv, Requested
  <1>5. /\ r.at \notin Creating /\ job[w].temp = Idle /\ job[w].at \notin DataOnly
        /\ early' = early /\ faults' = faults
    BY <1>2, <1>3, <1>4
    DEF Fits, Follows, Creating, Filling, DataOnly, ledger, world
  <1>6. ~early' => deleting' \subseteq acked'
    BY <1>3 DEF OrphanInv, Orderly, ledger
  <1>7. CASE early
    BY <1>5, <1>7 DEF OrphanInv
  <1>8. CASE ~early
    <2>1. /\ r.at \in MetaOnly => files[r.id] = Absent
          /\ job[w].at \in MetaOnly /\ job[w].id \in metas =>
               r.id = job[w].id /\ r.at \in MetaOnly
      BY <1>4, <1>8, ReadersLeaveMeta, DeletingLeavesMeta
    <2> QED
      BY <1>2, <1>3, <1>5, <1>6, <2>1, StoringNothing
  <1> QED
    BY <1>7, <1>8

LEMMA TakingLeavesNoOrphan ==
  ASSUME TypeInv, FilesInv, OrphanInv, NEW w \in Worker, Taking(w)
  PROVE  OrphanInv'
  <1>1. UNCHANGED store /\ files' = files /\ metas' = metas
    BY TakingStoresNothing DEF store
  <1>2. early => early'
    BY LedgerKept DEF Delete
  <1>3. ~early' => deleting' \subseteq acked'
    <2> SUFFICES ASSUME ~early' PROVE deleting' \subseteq acked'
      OBVIOUS
    <2>1. deleting \subseteq acked
      BY <1>2 DEF OrphanInv, Orderly
    <2>2. acked' = acked
      BY LedgerKept DEF Upload
    <2>3. UNCHANGED deleting \/ \E p \in acked : deleting' = deleting \cup {p}
      BY LedgerKept DEF Delete
    <2> QED
      BY <2>1, <2>2, <2>3
  <1>4. CASE Crash(w)
    <2>1. faults' # 0
      BY <1>4 DEF Crash, TypeInv, Stored
    <2>2. NoRequest.at \notin Creating /\ NoRequest.at \notin MetaOnly
      BY NoRequestFits DEF Creating, MetaOnly
    <2> QED
      BY <1>1, <1>2, <1>3, <1>4, <2>1, <2>2, NoRequestFits, StoringNothing DEF Crash
  <1>5. CASE ~Crash(w) /\ UNCHANGED job
    <2>1. faults' = faults
      BY <1>5, WorldKept
    <2>2. ~early' => Orderly'
      BY <1>1, <1>2, <1>3, <1>5 DEF OrphanInv, Orderly, MetaOnly
    <2>3. ~early' /\ faults' = 0 => Owned'
      BY <1>1, <1>2, <1>5, <2>1 DEF OrphanInv, Owned, MetaOnly, DataOnly
    <2> QED
      BY <2>2, <2>3 DEF OrphanInv
  <1>6. CASE ~Crash(w) /\ Begins(w)
    <2>1. faults' = faults
      BY <1>6, WorldKept
    <2>2. PICK r \in Jobs : Fits(r) /\ job' = [job EXCEPT ![w] = r]
      BY <1>6 DEF Begins, Becomes
    <2>3. /\ job[w].temp = Idle /\ job[w].at = "idle"
      BY <1>6, JobOf DEF Begins, Fits, Filling
    <2>4. r.at \in Creating \cup MetaOnly => r.at = "put"
      <3>1. job'[w] = r /\ job[w].op = "none"
        BY <1>6, <2>2 DEF Begins, TypeInv, Requested
      <3>2. ASSUME r.op = "create" PROVE r.at = "put"
        <4>1. \E k \in Key : Upload(w, k)
          BY <1>6, <3>1, <3>2, WhatBegins
        <4> QED
          BY <3>1, <4>1 DEF Upload, Begin, Request, TypeInv, Requested
      <3>3. ASSUME r.op = "delete" PROVE r.at = "head"
        <4>1. \E p \in Path : Delete(w, p)
          BY <1>6, <3>1, <3>3, WhatBegins
        <4> QED
          BY <3>1, <4>1 DEF Delete, Begin, Request, TypeInv, Requested
      <3>4. r.at \in MetaOnly => r.op = "delete"
        BY <2>2 DEF Fits, MetaOnly, Removing
      <3>5. r.at \in Creating => r.op = "create"
        BY <2>2 DEF Fits
      <3> QED
        BY <3>2, <3>3, <3>4, <3>5 DEF MetaOnly
    <2> QED
      BY <1>1, <1>2, <1>3, <2>1, <2>2, <2>3, <2>4, StoringNothing DEF MetaOnly, DataOnly
  <1> QED
    BY <1>4, <1>5, <1>6, TakingBegins

LEMMA AnsweringLeavesNoOrphan ==
  ASSUME TypeInv, FilesInv, OrphanInv, NEW w \in Worker, DescribeObject(w) \/ StatUploaded(w)
  PROVE  OrphanInv'
  <1>1. job[w].at = "stat" /\ job[w].op = "create" /\ UNCHANGED store
    BY DEF DescribeObject, StatUploaded, Serving
  <1>2. job[w].temp = Idle
    BY <1>1, JobOf DEF Fits, Filling
  <1>3. job' = [job EXCEPT ![w] = NoRequest] /\ UNCHANGED <<deleting, early, faults>>
    BY DEF DescribeObject, StatUploaded, Acknowledge, Answer, ledger, world
  <1>4. acked \subseteq acked'
    BY DEF DescribeObject, StatUploaded, Acknowledge, ledger
  <1>5. ~early' => deleting' \subseteq acked'
    BY <1>3, <1>4 DEF OrphanInv, Orderly
  <1>6. NoRequest.at \notin Creating /\ NoRequest.at \notin MetaOnly
    BY NoRequestFits DEF Creating, MetaOnly
  <1> QED
    BY <1>1, <1>2, <1>3, <1>5, <1>6, NoRequestFits, StoringNothing DEF DataOnly, MetaOnly

(* What the other requests hold is not the path of an upload. *)
LEMMA OthersHold ==
  ASSUME TypeInv, FilesInv, OrphanInv, ~early, NEW w \in Worker, job[w].op = "create",
         NEW v \in Worker \ {w}
  PROVE  /\ job[v].temp # Idle =>
              job[v].temp \in Temp /\ job[v].temp # job[w].id /\ job[v].temp # job[w].temp
         /\ job[v].at \in MetaOnly =>
              job[v].id \in Key /\ job[v].id # job[w].id /\ job[v].id # job[w].temp
  <1>1. job[w].id \in Key /\ job[w].temp \in Temp \cup {Idle}
    BY JobOf DEF Fits, Jobs
  <1>2. ASSUME job[v].temp # Idle
        PROVE  job[v].temp \in Temp /\ job[v].temp # job[w].id /\ job[v].temp # job[w].temp
    <2>1. job[v].temp \in Temp
      BY <1>2, JobOf DEF Jobs
    <2>2. job[v].temp # job[w].temp
      BY <1>2 DEF FilesInv, TempsHeld
    <2> QED
      BY <1>1, <2>1, <2>2, NamesAreNumbers
  <1>3. ASSUME job[v].at \in MetaOnly
        PROVE  job[v].id \in Key /\ job[v].id # job[w].id /\ job[v].id # job[w].temp
    <2>1. job[v].op = "delete"
      BY <1>3, DeletersFit
    <2>2. job[v].id \in Key /\ job[v].id # job[w].id
      BY <2>1, DeletersAcked
    <2> QED
      BY <1>1, <2>2, NamesAreNumbers
  <1> QED
    BY <1>2, <1>3

LEMMA StoringLeavesNoOrphan ==
  ASSUME TypeInv, FilesInv, OrphanInv, NEW w \in Worker, PutBlob(w) \/ PutObject(w)
  PROVE  OrphanInv'
  <1> DEFINE id == job[w].id
  <1>1. id \in Key /\ job[w].op = "create" /\ id \in Path /\ id \notin Temp
    BY CreatorsName, NamesAreNumbers DEF PutBlob, PutObject, Serving, Creating
  <1>2. /\ files' = [files EXCEPT ![id] = Data(id)] /\ metas' = metas \cup {id}
        /\ UNCHANGED <<deleting, early, faults>> /\ acked \subseteq acked'
    BY DEF PutBlob, PutObject, Acknowledge, Answer, Goto, Step, ledger, world
  <1>3. \A p \in Path : files'[p] = IF p = id THEN Data(id) ELSE files[p]
    BY <1>1, <1>2 DEF TypeInv, Stored
  <1>4. Data(id) # Absent
    BY <1>1, DataIsThere
  <1>5. \E r \in Jobs : job' = [job EXCEPT ![w] = r] /\ r.temp = Idle /\ r.at \in {"idle", "stat"}
    <2>1. CASE PutBlob(w)
      BY <2>1, NoRequestFits DEF PutBlob, Acknowledge, Answer
    <2>2. CASE PutObject(w)
      <3>1. [job[w] EXCEPT !.at = "stat"] \in Jobs /\ [job[w] EXCEPT !.at = "stat"].temp = Idle
            /\ [job[w] EXCEPT !.at = "stat"].at = "stat"
        BY <2>2, JobOf DEF PutObject, Serving, Jobs, Fits, Creating, Filling
      <3> QED
        BY <2>2, <3>1 DEF PutObject, Goto, Step
    <2> QED
      BY <2>1, <2>2
  <1>6. PICK r \in Jobs : job' = [job EXCEPT ![w] = r] /\ r.temp = Idle /\ r.at \in {"idle", "stat"}
    BY <1>5
  <1>7. job[w].temp = Idle /\ job[w].at = "put"
    BY JobOf DEF PutBlob, PutObject, Serving, Fits, Filling
  <1>8. early => early'
    BY <1>2
  <1>9. ~early' => deleting' \subseteq acked'
    BY <1>2 DEF OrphanInv, Orderly
  <1>10. r.temp = Idle /\ r.at \notin MetaOnly
    BY <1>6 DEF MetaOnly
  <1> HIDE DEF id
  <1>11. ~early' => \A v \in Worker \ {w} :
           /\ job[v].temp # Idle => files'[job[v].temp] = files[job[v].temp]
           /\ job[v].at \in MetaOnly => files'[job[v].id] = files[job[v].id]
    BY <1>1, <1>2, <1>3, OthersHold, NamesAreNumbers DEF id
  <1>12. \A t \in Temp : files'[t] # Absent => files[t] # Absent /\ job[w].temp # t
    BY <1>1, <1>3, <1>7, NamesAreNumbers
  <1>13. \A k \in Key \ metas' : files'[k] # Absent =>
           k \notin metas /\ files[k] # Absent /\ ~(job[w].id = k /\ job[w].at \in DataOnly)
    BY <1>2, <1>3, <1>7, NamesAreNumbers DEF DataOnly
  <1>14. \A k \in metas' : files'[k] = Absent =>
           k \in metas /\ files[k] = Absent /\ ~(job[w].id = k /\ job[w].at \in MetaOnly)
    <2>1. metas' \subseteq Path
      BY <1>1, <1>2, NamesAreNumbers DEF TypeInv, Stored
    <2> QED
      BY <1>2, <1>3, <1>4, <1>7, <2>1 DEF MetaOnly
  <1> QED
    BY <1>2, <1>6, <1>8, <1>9, <1>10, <1>11, <1>12, <1>13, <1>14, StepLeavesNoOrphan

LEMMA TempLeavesNoOrphan ==
  ASSUME TypeInv, FilesInv, OrphanInv, NEW w \in Worker, MakeTemp(w) \/ WriteTemp(w)
  PROVE  OrphanInv'
  <1>1. job[w].op = "create" /\ job[w].id \in Key /\ job[w] \in Jobs /\ Fits(job[w])
    BY CreatorsName, JobOf DEF MakeTemp, WriteTemp, Serving, Creating
  <1>2. UNCHANGED <<metas, acked, deleting, early, faults>>
    BY DEF MakeTemp, WriteTemp, Goto, Step, ledger, world
  <1>3. \E t, c, at :
          /\ t \in Temp
          /\ files' = [files EXCEPT ![t] = c] /\ (~early => c # Absent)
          /\ job' = [job EXCEPT ![w] = [job[w] EXCEPT !.temp = t, !.at = at]]
          /\ job[w].temp \in {Idle, t} /\ \A v \in Worker \ {w} : job[v].temp # t
          /\ at \in Filling /\ (job[w].at \in DataOnly => at \in DataOnly)
    <2>1. CASE MakeTemp(w)
      <3>1. PICK t \in TempFor(w) :
              /\ files' = [files EXCEPT ![t] = Nothing(job[w].id)]
              /\ Step(w, [job[w] EXCEPT !.temp = t, !.at = IF @ = "put" THEN "write" ELSE "write meta"])
        BY <2>1 DEF MakeTemp
      <3> DEFINE at == IF job[w].at = "put" THEN "write" ELSE "write meta"
      <3>2. job' = [job EXCEPT ![w] = [job[w] EXCEPT !.temp = t, !.at = at]]
        BY <1>1, <3>1 DEF Step, Jobs
      <3>3. t \in Temp /\ \A v \in Worker : job[v].temp # t
        BY DEF TempFor
      <3>4. job[w].temp = Idle /\ at \in Filling /\ (job[w].at \in DataOnly => at \in DataOnly)
        BY <1>1, <2>1 DEF MakeTemp, Serving, Fits, Filling, DataOnly
      <3>5. Nothing(job[w].id) # Absent
        BY <1>1, DataIsThere
      <3> QED
        BY <3>1, <3>2, <3>3, <3>4, <3>5
    <2>2. CASE WriteTemp(w)
      <3> DEFINE t == job[w].temp
                 at == IF job[w].at = "write" THEN "replace" ELSE "replace meta"
                 c == IF files[t] = Absent THEN Absent
                      ELSE IF job[w].at = "write" THEN Data(job[w].id) ELSE Meta(job[w].id)
      <3>1. job[w].at \in {"write", "write meta"}
        BY <2>2 DEF WriteTemp, Serving
      <3>2. t \in Temp /\ t # Idle
        BY <1>1, <3>1 DEF Fits, Jobs, Filling
      <3>3. files' = [files EXCEPT ![t] = c]
        BY <2>2, <3>2, NamesAreNumbers DEF WriteTemp, TypeInv, Stored
      <3>4. job' = [job EXCEPT ![w] = [job[w] EXCEPT !.temp = t, !.at = at]]
        <4>1. [job[w] EXCEPT !.temp = t, !.at = at] = [job[w] EXCEPT !.at = at]
          BY <1>1 DEF Jobs
        <4> QED
          BY <2>2, <4>1 DEF WriteTemp, Goto, Step
      <3>5. ~early => c # Absent
        BY <1>1, <3>2, DataIsThere DEF OrphanInv, Orderly
      <3>6. \A v \in Worker \ {w} : job[v].temp # t
        BY <3>2 DEF FilesInv, TempsHeld
      <3>7. at \in Filling /\ (job[w].at \in DataOnly => at \in DataOnly)
        BY <3>1 DEF Filling, DataOnly
      <3>8. job[w].temp \in {Idle, t}
        OBVIOUS
      <3> HIDE DEF c, at, t
      <3> QED
        BY <3>2, <3>3, <3>4, <3>5, <3>6, <3>7, <3>8
    <2> QED
      BY <2>1, <2>2
  <1>4. PICK t, c, at :
          /\ t \in Temp
          /\ files' = [files EXCEPT ![t] = c] /\ (~early => c # Absent)
          /\ job' = [job EXCEPT ![w] = [job[w] EXCEPT !.temp = t, !.at = at]]
          /\ job[w].temp \in {Idle, t} /\ \A v \in Worker \ {w} : job[v].temp # t
          /\ at \in Filling /\ (job[w].at \in DataOnly => at \in DataOnly)
    BY <1>3
  <1> DEFINE r == [job[w] EXCEPT !.temp = t, !.at = at]
  <1>5. r \in Jobs /\ r.temp = t /\ r.id = job[w].id /\ r.at = at
    BY <1>1, <1>4 DEF Jobs, Filling, Creating
  <1> HIDE DEF r
  <1>6. \A p \in Path : files'[p] = IF p = t THEN c ELSE files[p]
    BY <1>4, NamesAreNumbers DEF TypeInv, Stored
  <1>7. job' = [job EXCEPT ![w] = r]
    BY <1>4 DEF r
  <1>8. early => early'
    BY <1>2
  <1>9. ~early' => deleting' \subseteq acked'
    BY <1>2 DEF OrphanInv, Orderly
  <1>10. r.at \notin MetaOnly
    BY <1>4, <1>5 DEF MetaOnly, Filling
  <1>11. ~early' => files'[r.temp] # Absent
    BY <1>2, <1>4, <1>5, <1>6, NamesAreNumbers
  <1>12. ~early' => \A v \in Worker \ {w} :
           /\ job[v].temp # Idle => files'[job[v].temp] = files[job[v].temp]
           /\ job[v].at \in MetaOnly => files'[job[v].id] = files[job[v].id]
    BY <1>1, <1>2, <1>4, <1>6, OthersHold, NamesAreNumbers
  <1>13. \A u \in Temp : files'[u] # Absent =>
           r.temp = u \/ (files[u] # Absent /\ job[w].temp # u)
    BY <1>4, <1>5, <1>6, NamesAreNumbers
  <1>14. \A k \in Key : files'[k] = files[k]
    BY <1>4, <1>6, NamesAreNumbers
  <1>15. \A k \in Key : job[w].id = k /\ job[w].at \in DataOnly => r.id = k /\ r.at \in DataOnly
    BY <1>4, <1>5
  <1>16. job[w].at \notin MetaOnly /\ metas \subseteq Key
    BY <1>1, DeletersFit DEF TypeInv, Stored
  <1> QED
    BY <1>2, <1>5, <1>7, <1>8, <1>9, <1>10, <1>11, <1>12, <1>13, <1>14, <1>15, <1>16,
      StepLeavesNoOrphan

LEMMA PlacingLeavesNoOrphan ==
  ASSUME TypeInv, FilesInv, OrphanInv, NEW w \in Worker, ReplaceData(w) \/ ReplaceMeta(w)
  PROVE  OrphanInv'
  <1> DEFINE id == job[w].id
             t == job[w].temp
             at == IF job[w].at = "replace" THEN "put meta" ELSE "stat"
             r == [job[w] EXCEPT !.temp = Idle, !.at = at]
  <1>1. /\ job[w].op = "create" /\ id \in Key /\ t \in Temp /\ id \in Path /\ t \in Path
        /\ id # t /\ t # Idle /\ job[w] \in Jobs
    BY CreatorsName, JobOf, NamesAreNumbers DEF ReplaceData, ReplaceMeta, Serving, Filling
  <1>2. /\ UNCHANGED <<acked, deleting, early, faults>> /\ job' = [job EXCEPT ![w] = r]
    BY DEF ReplaceData, ReplaceMeta, Serving, Step, ledger, world
  <1>3. r \in Jobs /\ r.temp = Idle /\ r.id = id /\ r.at = at
    BY <1>1 DEF Jobs, Creating
  <1> HIDE DEF r
  <1>4. r.at \notin MetaOnly /\ job[w].at \notin MetaOnly
    BY <1>3 DEF ReplaceData, ReplaceMeta, Serving, MetaOnly
  <1>5. /\ files'[t] = Absent /\ files'[id] \in {files[id], Data(id)}
        /\ \A p \in Path \ {t, id} : files'[p] = files[p]
    <2>1. files \in [Path -> Contents]
      BY DEF TypeInv, Stored
    <2>2. CASE ReplaceMeta(w)
      BY <1>1, <2>1, <2>2 DEF ReplaceMeta
    <2>3. CASE ReplaceData(w)
      <3>1. job[w].at = "replace" /\ files[t] # Absent /\ files' = Moved(w)
        BY <2>3 DEF ReplaceData, Serving
      <3>2. files[t] = Data(id)
        BY <1>1, <3>1 DEF FilesInv, TempsHeld, InTemp
      <3> QED
        BY <1>1, <3>1, <3>2 DEF Moved
    <2> QED
      BY <2>2, <2>3
  <1>6. Data(id) # Absent
    BY <1>1, DataIsThere
  (* The data are there with or before the metadata. *)
  <1>7. ~early => /\ files'[id] = Data(id)
                  /\ \/ metas' = metas /\ r.at \in DataOnly
                     \/ metas' = metas \cup {id}
    <2>1. CASE ReplaceData(w)
      <3>1. job[w].at = "replace" /\ files' = Moved(w) /\ metas' = metas /\ files[t] # Absent
        BY <2>1 DEF ReplaceData, Serving
      <3>2. files[t] = Data(id)
        BY <1>1, <3>1 DEF FilesInv, TempsHeld, InTemp
      <3> QED
        BY <1>1, <1>3, <3>1, <3>2 DEF Moved, DataOnly
    <2>2. CASE ReplaceMeta(w)
      <3>1. job[w].at = "replace meta" /\ metas' = metas \cup {id}
        BY <2>2 DEF ReplaceMeta, Serving
      <3>2. ~early => id \notin deleting
        BY <1>1 DEF TypeInv, Uploading, OrphanInv, Orderly
      <3>3. ~early => files[id] = Data(id)
        BY <1>1, <3>1, <3>2 DEF FilesInv, Progress, Placed
      <3> QED
        BY <1>5, <3>1, <3>3
    <2> QED
      BY <2>1, <2>2
  <1>8. early => early'
    BY <1>2
  <1>9. ~early' => deleting' \subseteq acked'
    BY <1>2 DEF OrphanInv, Orderly
  <1>10. ~early' => \A v \in Worker \ {w} :
           /\ job[v].temp # Idle => files'[job[v].temp] = files[job[v].temp]
           /\ job[v].at \in MetaOnly => files'[job[v].id] = files[job[v].id]
    BY <1>1, <1>2, <1>5, OthersHold, NamesAreNumbers
  <1> HIDE DEF t, at, id
  <1>11. \A u \in Temp : files'[u] # Absent => files[u] # Absent /\ u # t
    BY <1>1, <1>5, NamesAreNumbers
  <1>12. ~early => \A k \in Key \ metas' : files'[k] # Absent =>
           \/ r.id = k /\ r.at \in DataOnly
           \/ k \notin metas /\ files[k] # Absent /\ k # id
    BY <1>1, <1>3, <1>5, <1>7, NamesAreNumbers
  <1>13. ~early => \A k \in metas' : files'[k] = Absent => k \in metas /\ files[k] = Absent
    <2>1. metas \subseteq Key
      BY DEF TypeInv, Stored
    <2> QED
      BY <1>1, <1>5, <1>6, <1>7, <2>1, NamesAreNumbers
  <1> QED
    BY <1>2, <1>3, <1>4, <1>8, <1>9, <1>10, <1>11, <1>12, <1>13, StepLeavesNoOrphan DEF t, id

(* A put that fails when nothing has failed yet had its temporary file deleted, by its name. *)
LEMMA FailingLeavesNoOrphan ==
  ASSUME TypeInv, FilesInv, OrphanInv, NEW w \in Worker, PutFails(w)
  PROVE  OrphanInv'
  <1> DEFINE t == job[w].temp
  <1>1. job[w].op = "create" /\ t \in Temp /\ t \in Path /\ t # Idle
    BY CreatorsName, NamesAreNumbers DEF PutFails, Serving, Filling
  <1>2. /\ UNCHANGED <<metas, acked, deleting, early>> /\ job' = [job EXCEPT ![w] = NoRequest]
        /\ files' = [files EXCEPT ![t] = Absent]
    BY DEF PutFails, ledger
  <1>3. \A p \in Path : files'[p] = IF p = t THEN Absent ELSE files[p]
    BY <1>2 DEF TypeInv, Stored
  <1>4. ~early => faults' # 0
    <2>1. ~early => files[t] # Absent
      BY <1>1 DEF OrphanInv, Orderly
    <2>2. files[t] # Absent => faults' = faults + 1
      BY DEF PutFails
    <2>3. faults \in Nat
      <3>1. faults \in 0 .. MaxFaults /\ MaxFaults \in Nat
        BY FilesAssumption DEF TypeInv, Stored
      <3> QED
        BY <3>1
    <2> HIDE DEF t
    <2> QED
      BY <2>1, <2>2, <2>3
  <1>5. early => early'
    BY <1>2
  <1>6. ~early' => deleting' \subseteq acked'
    BY <1>2 DEF OrphanInv, Orderly
  <1>7. ~early' => \A v \in Worker \ {w} :
          /\ job[v].temp # Idle => files'[job[v].temp] = files[job[v].temp]
          /\ job[v].at \in MetaOnly => files'[job[v].id] = files[job[v].id]
    BY <1>1, <1>2, <1>3, OthersHold, NamesAreNumbers
  <1>8. NoRequest.at \notin MetaOnly
    BY NoRequestFits DEF MetaOnly
  <1> HIDE DEF t
  <1> QED
    BY <1>2, <1>4, <1>5, <1>6, <1>7, <1>8, NoRequestFits, StepLeavesNoOrphan

LEMMA DeletionLeavesNoOrphan ==
  ASSUME TypeInv, FilesInv, OrphanInv, NEW w \in Worker, Deletion(w)
  PROVE  OrphanInv'
  <1> DEFINE id == job[w].id
  <1>1. CASE Reading(w)
    BY <1>1, ReadingLeavesNoOrphan
  <1>2. ASSUME early PROVE OrphanInv'
    BY <1>2, LedgerKept DEF ledger, OrphanInv
  <1>3. CASE ~early /\ (DeleteAtOnce(w) \/ Unlink(w) \/ UnlinkMeta(w))
    <2>1. job[w].at \in {"delete", "unlink", "unlink meta"}
      BY <1>3 DEF DeleteAtOnce, Unlink, UnlinkMeta, Serving
    <2>2. /\ job[w].op = "delete" /\ job[w].temp = Idle /\ job[w].at \notin DataOnly
          /\ job[w] \in Jobs
      BY <2>1, DeletersFit, JobOf DEF Removing
    <2>3. id \in Key /\ id \in Path /\ id \notin Temp
      BY <1>3, <2>2, DeletersAcked, NamesAreNumbers
    <2>4. \E r \in Jobs : /\ job' = [job EXCEPT ![w] = r] /\ r.temp = Idle
                          /\ r.at \in {"idle", "delete meta"} /\ (Unlink(w) => r.id = id /\ r.at = "delete meta")
      <3>1. CASE Unlink(w)
        <4>1. [job[w] EXCEPT !.at = "delete meta"] \in Jobs
              /\ [job[w] EXCEPT !.at = "delete meta"].temp = Idle
              /\ [job[w] EXCEPT !.at = "delete meta"].id = id
              /\ [job[w] EXCEPT !.at = "delete meta"].at = "delete meta"
          BY <2>2 DEF Jobs, Removing
        <4> QED
          BY <3>1, <4>1 DEF Unlink, Goto, Step
      <3>2. CASE ~Unlink(w)
        BY <1>3, <3>2, NoRequestFits DEF DeleteAtOnce, UnlinkMeta, Answer
      <3> QED
        BY <3>1, <3>2
    <2>5. PICK r \in Jobs : /\ job' = [job EXCEPT ![w] = r] /\ r.temp = Idle
                            /\ r.at \in {"idle", "delete meta"}
                            /\ (Unlink(w) => r.id = id /\ r.at = "delete meta")
      BY <2>4
    <2>6. UNCHANGED <<acked, deleting, early, faults>>
      BY LedgerKept, WorldKept DEF ledger, world
    (* Once the file is removed, or was before, its metadata are removed or are next. *)
    <2>7. /\ files'[id] = Absent
          /\ \A p \in Path \ {id} : files'[p] = files[p]
          /\ \/ metas' = metas \ {id} /\ r.at \notin MetaOnly
             \/ metas' = metas /\ r.id = id /\ r.at \in MetaOnly
      <3>1. files \in [Path -> Contents]
        BY DEF TypeInv, Stored
      <3>2. CASE DeleteAtOnce(w)
        <4>1. job' = [job EXCEPT ![w] = NoRequest] /\ job \in [Worker -> Jobs]
          BY <3>2 DEF DeleteAtOnce, Answer, TypeInv, Requested
        <4>2. r = NoRequest
          BY <2>5, <4>1
        <4> QED
          BY <2>3, <3>1, <3>2, <4>2, NoRequestFits DEF DeleteAtOnce, MetaOnly
      <3>3. CASE Unlink(w)
        BY <2>3, <2>5, <3>1, <3>3 DEF Unlink, MetaOnly
      <3>4. CASE UnlinkMeta(w)
        <4>1. job' = [job EXCEPT ![w] = NoRequest] /\ job \in [Worker -> Jobs]
          BY <3>4 DEF UnlinkMeta, Answer, TypeInv, Requested
        <4>2. r = NoRequest
          BY <2>5, <4>1
        <4>3. files[id] = Absent /\ files' = files /\ metas' = metas \ {id}
          BY <1>3, <3>4 DEF UnlinkMeta, MetasWithout, Serving, OrphanInv, Orderly, MetaOnly
        <4> QED
          BY <4>2, <4>3, NoRequestFits DEF MetaOnly
      <3> QED
        BY <1>3, <3>2, <3>3, <3>4
    <2>8. \A v \in Worker \ {w} :
            /\ job[v].temp # Idle => files'[job[v].temp] = files[job[v].temp]
            /\ job[v].at \in MetaOnly => files'[job[v].id] = files[job[v].id]
      <3> SUFFICES ASSUME NEW v \in Worker \ {w}
                   PROVE  /\ job[v].temp # Idle => files'[job[v].temp] = files[job[v].temp]
                          /\ job[v].at \in MetaOnly => files'[job[v].id] = files[job[v].id]
        OBVIOUS
      <3>1. job[v].temp # Idle => job[v].temp \in Path \ {id}
        BY <2>3, JobOf, NamesAreNumbers DEF Jobs
      <3>2. job[v].at \in MetaOnly => job[v].id \in Path /\ files[job[v].id] = Absent
        BY <1>3, DeletersFit, DeletersAcked, NamesAreNumbers DEF OrphanInv, Orderly
      <3> HIDE DEF id
      <3> QED
        BY <2>7, <3>1, <3>2
    <2>9. deleting' \subseteq acked'
      BY <1>3, <2>6 DEF OrphanInv, Orderly
    <2>10. r.at \in MetaOnly => files'[r.id] = Absent
      BY <2>7
    <2>11. metas \subseteq Key
      BY DEF TypeInv, Stored
    <2> HIDE DEF id
    <2>12. \A u \in Temp : files'[u] # Absent => files[u] # Absent /\ job[w].temp # u
      BY <2>2, <2>3, <2>7, NamesAreNumbers
    <2>13. \A k \in Key \ metas' : files'[k] # Absent => k \notin metas /\ files[k] # Absent
      BY <2>3, <2>7, NamesAreNumbers
    <2>14. \A k \in metas' : files'[k] = Absent =>
             \/ r.id = k /\ r.at \in MetaOnly
             \/ k \in metas /\ files[k] = Absent /\ k # id
      BY <2>3, <2>7, <2>11, NamesAreNumbers
    <2> QED
      BY <2>2, <2>5, <2>6, <2>8, <2>9, <2>10, <2>12, <2>13, <2>14, StepLeavesNoOrphan DEF id
  <1> QED
    BY <1>1, <1>2, <1>3 DEF Deletion, Reading

LEMMA OrphanStep ==
  ASSUME TypeInv, FilesInv, OrphanInv, [Next]_vars
  PROVE  OrphanInv'
  <1>1. ASSUME UNCHANGED <<store, ledger, job, faults>> PROVE OrphanInv'
    BY <1>1 DEF OrphanInv, Orderly, Owned, DataOnly, MetaOnly, store, ledger
  <1>2. CASE UNCHANGED vars
    BY <1>1, <1>2 DEF vars, store, ledger
  <1>3. CASE Outside
    BY <1>1, <1>3, WorldKept
  <1>4. ASSUME NEW w \in Worker, Put(w) PROVE OrphanInv'
    BY <1>4, StoringLeavesNoOrphan, AnsweringLeavesNoOrphan, TempLeavesNoOrphan,
      PlacingLeavesNoOrphan, FailingLeavesNoOrphan DEF Put
  <1> QED
    BY <1>2, <1>3, <1>4, ReadingLeavesNoOrphan, DeletionLeavesNoOrphan, TakingLeavesNoOrphan,
      NextSteps DEF Reading

LEMMA OrphanStart ==
  ASSUME Init
  PROVE  OrphanInv
  <1>1. PICK k \in SUBSET Key :
          files = [p \in Path |-> IF p \in k THEN Data(p) ELSE Absent] /\ metas = k
    BY DEF Init
  <1>2. /\ \A t \in Temp : files[t] = Absent
        /\ \A p \in Key : files[p] # Absent <=> p \in metas
    BY <1>1, NamesAreNumbers, DataIsThere
  <1>3. \A w \in Worker : job[w] = NoRequest
    BY DEF Init
  <1>4. Orderly
    BY <1>3, NoRequestFits DEF Init, Orderly, MetaOnly
  <1>5. Owned
    BY <1>1, <1>2 DEF Owned
  <1> QED
    BY <1>4, <1>5 DEF OrphanInv

(* "so no orphan remains": between requests there is no temporary file, no file without its *)
(* metadata and no metadata without their file, unless a worker or the medium failed, or a    *)
(* delete named a file whose upload was not answered.                                         *)
THEOREM NothingIsOrphaned == Spec => []NoOrphans
  <1>1. Spec => []OrphanInv
    <2>1. TypeInv /\ FilesInv /\ OrphanInv /\ [Next]_vars => OrphanInv'
      BY OrphanStep
    <2> QED
      BY <2>1, OrphanStart, FilesHold, PTL DEF Spec
  <1>2. ASSUME TypeInv, OrphanInv PROVE NoOrphans
    <2> SUFFICES ASSUME \A w \in Worker : Serving(w, "idle"), faults = 0, ~early
                 PROVE  /\ \A t \in Temp : files[t] = Absent
                        /\ metas = {k \in Key : files[k] # Absent}
      BY DEF NoOrphans
    <2>1. ASSUME NEW w \in Worker PROVE job[w].at = "idle" /\ job[w].temp = Idle
      <3>1. Fits(job[w]) /\ job[w].at = "idle"
        BY <1>2, JobOf DEF Serving
      <3> QED
        BY <3>1 DEF Fits, Filling
    <2>2. Owned
      BY <1>2 DEF OrphanInv
    <2>3. \A t \in Temp : files[t] = Absent
      BY <2>1, <2>2, NamesAreNumbers DEF Owned
    <2>4. \A k \in Key : k \in metas <=> files[k] # Absent
      BY <2>1, <2>2 DEF Owned, MetaOnly, DataOnly
    <2>5. metas \subseteq Key
      BY <1>2 DEF TypeInv, Stored
    <2> QED
      BY <2>3, <2>4, <2>5
  <1> QED
    BY <1>1, <1>2, FilesHold, PTL

-----------------------------------------------------------------------------
(* A walk through the pages *)

Listing(j) == j.todo \cup DOMAIN j.found

(* A name is in the listing, or comes after it and the listing has more than a page. *)
Covers(names, k) == k \in names \/ (Cardinality(names) > PageSize /\ \A p \in names : p < k)

(* What a request for the next page of a walk has found. *)
Lists(j, walked) ==
  /\ walked.at = "waiting"
  /\ \A p \in Listing(j) : p > walked.after
  /\ j.at # "list" /\ ~walked.thinned =>
       /\ \A p \in DOMAIN j.found : j.found[p] # "absent"
       /\ \A k \in walked.must : k > walked.after => Covers(Listing(j), k)

(* What the pages so far have shown. *)
Shown(walked) ==
  /\ \A p \in Path : walked.seen[p] <= 1
  /\ walked.at \in {"waiting", "more"} =>
       /\ \A p \in Path : p > walked.after => walked.seen[p] = 0
       /\ ~walked.thinned => \A k \in walked.must : k <= walked.after => walked.seen[k] = 1
  /\ walked.at = "over" /\ ~walked.thinned => \A k \in walked.must : walked.seen[k] = 1

OneSearches == \A v, w \in Worker : job[v].op = "search" /\ job[w].op = "search" => v = w

PageInv ==
  /\ OneSearches
  /\ \A w \in Worker : job[w].op = "search" => Lists(job[w], walk)
  /\ Shown(walk)
  /\ walk.must \subseteq acked \ deleting

LEMMA WalkFits ==
  ASSUME TypeInv
  PROVE  walk \in Walks /\ walk.must \subseteq Path /\ walk.after \in Nat
         /\ walk.seen \in [Path -> Nat] /\ job \in [Worker -> Jobs]
  BY NamesAreNumbers DEF TypeInv, Walks, Requested

(* The step of a worker that neither takes up a search nor shows a page. *)
LEMMA PagesKept ==
  ASSUME TypeInv, PageInv, NEW w \in Worker, NEW r \in Jobs, job' = [job EXCEPT ![w] = r],
         r.op = "search" => job[w].op = "search" /\ Lists(r, walk'),
         walk'.after = walk.after, walk'.seen = walk.seen, walk'.must \subseteq walk.must,
         walk.thinned => walk'.thinned,
         walk'.at = walk.at \/ (walk'.at = "start" /\ job[w].op = "search" /\ r.op # "search"),
         walk'.must \subseteq acked' \ deleting'
  PROVE  PageInv'
  <1>1. job' \in [Worker -> Jobs] /\ job'[w] = r /\ \A v \in Worker \ {w} : job'[v] = job[v]
    BY WalkFits
  <1>2. \A v \in Worker : job'[v].op = "search" => job[v].op = "search"
    BY <1>1
  <1>3. OneSearches'
    BY <1>2 DEF PageInv, OneSearches
  <1>4. ASSUME NEW v \in Worker, job'[v].op = "search" PROVE Lists(job'[v], walk')
    <2>1. CASE v = w
      BY <1>1, <1>4, <2>1
    <2>2. CASE v # w
      <3>1. job'[v] = job[v] /\ job[v].op = "search" /\ Lists(job[v], walk)
        BY <1>1, <1>4, <2>2 DEF PageInv
      <3>2. walk'.at = walk.at
        BY <2>2, <3>1 DEF PageInv, OneSearches
      <3> QED
        BY <3>1, <3>2 DEF Lists
    <2> QED
      BY <2>1, <2>2
  <1>5. Shown(walk')
    <2>1. Shown(walk)
      BY DEF PageInv
    <2> QED
      BY <2>1 DEF Shown
  <1> QED
    BY <1>3, <1>4, <1>5 DEF PageInv

LEMMA SearchKeepsPages ==
  ASSUME TypeInv, PageInv, NEW w \in Worker, Search(w)
  PROVE  PageInv'
  <1>1. \A v \in Worker : job[v].op # "search"
    BY DEF PageInv, Lists, Search
  <1>2. acked' = acked /\ deleting' = deleting /\ walk \in Walks
    BY WalkFits DEF Search, ledger
  <1>3. CASE walk.at = "more" /\ walk.kid \notin kids.accepted
    <2>1. job' = job /\ walk' = [walk EXCEPT !.at = "start"]
      BY <1>3 DEF Search
    <2>2. /\ walk'.at = "start" /\ walk'.seen = walk.seen /\ walk'.must = walk.must
      BY <1>2, <2>1 DEF Walks
    <2>3. Shown(walk')
      BY <2>2 DEF PageInv, Shown
    <2> QED
      BY <1>1, <1>2, <2>1, <2>2, <2>3 DEF PageInv, OneSearches
  <1>4. CASE ~(walk.at = "more" /\ walk.kid \notin kids.accepted)
    <2> DEFINE r == Request("search", Idle, "list")
    <2>1. job' = [job EXCEPT ![w] = r] /\ job \in [Worker -> Jobs]
      BY <1>4, WalkFits DEF Search, Begin
    <2>2. r.at = "list" /\ Listing(r) = {}
      BY DEF Request, Listing
    <2> HIDE DEF r
    <2>3. \A v \in Worker : job'[v].op = "search" => v = w /\ job'[v] = r
      BY <1>1, <2>1
    <2>4. /\ walk'.at = "waiting" /\ Shown(walk')
          /\ walk'.must \subseteq acked' \ deleting'
      <3>1. CASE walk.at = "more"
        <4>1. walk' = [walk EXCEPT !.at = "waiting"]
          BY <1>4, <3>1 DEF Search
        <4>2. /\ walk'.at = "waiting" /\ walk'.seen = walk.seen /\ walk'.must = walk.must
              /\ walk'.after = walk.after /\ walk'.thinned = walk.thinned
          BY <1>2, <4>1 DEF Walks
        <4> QED
          BY <1>2, <3>1, <4>2 DEF PageInv, Shown
      <3>2. CASE walk.at # "more"
        <4>1. walk' = [at |-> "waiting", after |-> 0, kid |-> Idle, seen |-> Unseen,
                       must |-> acked \ deleting, thinned |-> FALSE]
          BY <1>4, <3>2 DEF Search
        <4>2. /\ walk'.at = "waiting" /\ walk'.seen = Unseen /\ walk'.must = acked \ deleting
              /\ walk'.after = 0
          BY <4>1
        <4>3. \A p \in Path : Unseen[p] = 0
          BY DEF Unseen
        <4>4. \A k \in walk'.must : k \in Nat \ {0}
          BY <4>2, NamesAreNumbers DEF TypeInv, Stored
        <4>5. \A k \in walk'.must : ~(k <= walk'.after)
          BY <4>2, <4>4
        <4>6. Shown(walk')
          BY <4>2, <4>3, <4>5 DEF Shown
        <4> QED
          BY <1>2, <4>2, <4>6
      <3> QED
        BY <3>1, <3>2
    <2>5. Lists(r, walk')
      BY <2>2, <2>4 DEF Lists
    <2>6. OneSearches'
      BY <2>3 DEF OneSearches
    <2> QED
      BY <2>3, <2>4, <2>5, <2>6 DEF PageInv
  <1> QED
    BY <1>3, <1>4

(* A listing names one more than a page: what it leaves out comes after a page of others. *)
LEMMA NamesCover ==
  ASSUME TypeInv, FilesInv, PageInv
  PROVE  /\ Names(walk.after) \subseteq Path
         /\ \A p \in Names(walk.after) : p > walk.after
         /\ \A k \in walk.must : k > walk.after => Covers(Names(walk.after), k)
  <1> DEFINE all == Listed(walk.after)
             names == Names(walk.after)
  <1>1. all \subseteq Path /\ \A p \in all : p > walk.after
    BY DEF Listed
  <1>2. all \in SUBSET Nat /\ IsFiniteSet(all) /\ PageSize \in Nat /\ PageSize + 1 \in Nat
    <2>1. all \in SUBSET Path /\ all \in SUBSET Nat /\ PageSize \in Nat
      BY <1>1, NamesAreNumbers
    <2>2. IsFiniteSet(all)
      BY <2>1, NamesAreNumbers, FS_Subset
    <2> HIDE DEF all
    <2> QED
      BY <2>1, <2>2
  <1>3. names = Firsts(all, PageSize + 1)
    BY DEF Names
  <1> HIDE DEF all, names
  <1>4. /\ names \subseteq all
        /\ Cardinality(names) \in Nat
        /\ \A p \in names, q \in all \ names : p < q
        /\ names # all => Cardinality(names) >= PageSize + 1
    BY <1>2, <1>3, FirstsOf
  <1>5. ASSUME NEW k \in walk.must, k > walk.after PROVE Covers(names, k)
    <2>1. k \in Key /\ k \in Path /\ k \in acked \ deleting
      BY WalkFits, NamesAreNumbers DEF PageInv, Walks
    <2>2. files[k] # Absent
      BY <2>1, DataIsThere DEF FilesInv, UploadedIsThere
    <2>3. k \in all
      BY <1>5, <2>1, <2>2 DEF all, Listed
    <2>4. ASSUME k \notin names PROVE Cardinality(names) > PageSize /\ \A p \in names : p < k
      <3>1. Cardinality(names) >= PageSize + 1
        BY <1>4, <2>3, <2>4
      <3> QED
        BY <1>2, <1>4, <2>3, <2>4, <3>1
    <2> QED
      BY <2>4 DEF Covers
  <1> QED
    BY <1>1, <1>4, <1>5 DEF names

LEMMA ListingKeepsPages ==
  ASSUME TypeInv, FilesInv, PageInv, NEW w \in Worker, ListAtOnce(w) \/ ListNames(w)
  PROVE  PageInv'
  <1> DEFINE names == Names(walk.after)
  <1>1. job[w] \in Jobs /\ Fits(job[w]) /\ job[w].at = "list"
    BY JobOf DEF ListAtOnce, ListNames, Serving
  <1>2. job[w].op = "search" /\ job[w].todo = {} /\ DOMAIN job[w].found = {}
    BY <1>1 DEF Fits, Heading
  <1>3. /\ names \subseteq Path /\ \A p \in names : p > walk.after
        /\ \A k \in walk.must : k > walk.after => Covers(names, k)
    BY NamesCover
  <1>4. UNCHANGED <<walk, acked, deleting>>
    BY OnlySearchesWalk, LedgerKept DEF Reading, ledger
  <1>5. walk.at = "waiting"
    BY <1>2 DEF PageInv, Lists
  <1> HIDE DEF names
  <1>6. \E r \in Jobs : /\ job' = [job EXCEPT ![w] = r] /\ Listing(r) = names
                        /\ \A p \in DOMAIN r.found : r.found[p] = "named"
    <2>1. CASE ListAtOnce(w)
      <3> DEFINE heads == [p \in names |-> "named"]
                 r == [job[w] EXCEPT !.at = "headed", !.found = heads]
      <3>1. job' = [job EXCEPT ![w] = r]
        BY <2>1 DEF ListAtOnce, Step, names
      <3>2. heads \in Heads
        <4>1. heads \in [names -> {"absent", "named", "unnamed"}]
          OBVIOUS
        <4> QED
          BY <1>3, <4>1, HeadsOf
      <3>3. DOMAIN heads = names /\ \A p \in names : heads[p] = "named"
        OBVIOUS
      <3> HIDE DEF heads
      <3>4. r \in Jobs /\ r.found = heads /\ r.todo = {}
        BY <1>1, <1>2, <3>2 DEF Jobs
      <3> QED
        BY <3>1, <3>3, <3>4 DEF Listing
    <2>2. CASE ListNames(w)
      <3> DEFINE r == [job[w] EXCEPT !.todo = names,
                                     !.at = IF names = {} THEN "headed" ELSE "head"]
      <3>1. job' = [job EXCEPT ![w] = r]
        BY <2>2 DEF ListNames, Step, names
      <3>2. r \in Jobs /\ r.found = job[w].found /\ r.todo = names
        BY <1>1, <1>3 DEF Jobs, Heading
      <3> QED
        BY <1>2, <3>1, <3>2 DEF Listing
    <2> QED
      BY <2>1, <2>2
  <1>7. PICK r \in Jobs : /\ job' = [job EXCEPT ![w] = r] /\ Listing(r) = names
                          /\ \A p \in DOMAIN r.found : r.found[p] = "named"
    BY <1>6
  <1>8. Lists(r, walk)
    BY <1>3, <1>5, <1>7 DEF Lists
  <1>9. walk.must \subseteq acked \ deleting
    BY DEF PageInv
  <1> QED
    BY <1>2, <1>4, <1>7, <1>8, <1>9, PagesKept

(* The path whose head is known is in the listing as it was. *)
LEMMA HeadedLists ==
  ASSUME TypeInv, PageInv, NEW w \in Worker, job[w].op = "search", job[w].at \in Heading,
         NEW info \in {"absent", "named", "unnamed"}, Headed(w, info) \in Jobs,
         NEW walked, walked.at = walk.at, walked.after = walk.after, walked.must = walk.must,
         walk.thinned => walked.thinned, info = "absent" => walked.thinned
  PROVE  Lists(Headed(w, info), walked)
  <1> DEFINE found == job[w].found
             heads == [p \in DOMAIN found \cup {Due(w)} |->
                         IF p = Due(w) THEN info ELSE found[p]]
             r == Headed(w, info)
  <1>1. job[w] \in Jobs /\ Fits(job[w])
    BY JobOf
  <1>2. job[w].todo \in SUBSET Nat /\ job[w].todo # {}
    BY <1>1, NamesAreNumbers DEF Jobs, Fits
  <1>3. Due(w) \in job[w].todo
    BY <1>2, LeastOf DEF Due
  <1>4. r.found = heads /\ r.todo = job[w].todo \ {Due(w)}
    BY <1>1 DEF Headed, Jobs
  <1>5. /\ DOMAIN heads = DOMAIN found \cup {Due(w)}
        /\ \A p \in DOMAIN heads : heads[p] = info \/ (p \in DOMAIN found /\ heads[p] = found[p])
    OBVIOUS
  <1> HIDE DEF heads, r
  <1>6. Listing(r) = Listing(job[w])
    BY <1>3, <1>4, <1>5 DEF Listing
  <1>7. Lists(job[w], walk) /\ job[w].at # "list"
    BY DEF PageInv, Heading
  <1>8. ASSUME ~walked.thinned PROVE \A p \in DOMAIN heads : heads[p] # "absent"
    BY <1>5, <1>7, <1>8 DEF Lists
  <1> QED
    BY <1>4, <1>6, <1>7, <1>8 DEF Lists, r

LEMMA HeadKeepsPages ==
  ASSUME TypeInv, PageInv, NEW w \in Worker, HeadObject(w)
  PROVE  PageInv'
  <1>1. job[w] \in Jobs /\ Fits(job[w]) /\ walk \in Walks
    BY JobOf, WalkFits
  <1>2. UNCHANGED <<acked, deleting>>
    BY LedgerKept DEF Reading, ledger
  <1>3. walk.must \subseteq acked' \ deleting'
    BY <1>2 DEF PageInv
  <1>4. PICK r \in Jobs : Fits(r) /\ Follows(r, job[w]) /\ job' = [job EXCEPT ![w] = r]
    BY HeadMoves DEF Moves, Becomes
  <1>5. job'[w] = r
    BY <1>4, WalkFits
  <1>6. r.op \in {"none", job[w].op}
    BY <1>4 DEF Follows
  <1>7. CASE Vanished(w)
    <2>1. r = NoRequest
      BY <1>5, <1>7, WalkFits DEF Vanished, Answer
    <2>2. r.op # "search"
      BY <2>1, NoRequestFits
    <2>3. /\ walk'.after = walk.after /\ walk'.seen = walk.seen /\ walk'.must = walk.must
          /\ walk'.thinned = walk.thinned
          /\ walk'.at = walk.at \/ (walk'.at = "start" /\ job[w].op = "search")
      BY <1>1, <1>7 DEF Vanished, Walks
    <2> QED
      BY <1>3, <1>4, <2>2, <2>3, PagesKept
  <1>8. CASE ~Vanished(w) /\ job[w].op # "search"
    <2>1. UNCHANGED walk \/ walk' = [walk EXCEPT !.thinned = walk.thinned \/ FALSE]
      BY <1>8 DEF HeadObject, HeadAtOnce, HeadIsFile, HeadBytes, HeadMeta, HeadStat
    <2>2. /\ walk'.after = walk.after /\ walk'.seen = walk.seen /\ walk'.must = walk.must
          /\ walk'.thinned = walk.thinned /\ walk'.at = walk.at
      BY <1>1, <2>1 DEF Walks
    <2>3. r.op # "search"
      BY <1>6, <1>8
    <2> QED
      BY <1>3, <1>4, <2>2, <2>3, PagesKept
  <1>9. CASE ~Vanished(w) /\ job[w].op = "search"
    <2>1. job[w].at \in Heading /\ medium = "local"
      BY <1>1, <1>9
      DEF HeadObject, HeadAtOnce, HeadIsFile, HeadBytes, HeadMeta, HeadStat, Serving, Heading, Fits
    <2>2. Lists(job[w], walk)
      BY <1>9 DEF PageInv
    <2>3. /\ walk'.after = walk.after /\ walk'.seen = walk.seen /\ walk'.must = walk.must
          /\ walk.thinned => walk'.thinned
          /\ walk'.at = walk.at
      <3>1. CASE HeadIsFile(w)
        <4>1. UNCHANGED walk \/ walk' = [walk EXCEPT !.thinned = walk.thinned \/ TRUE]
          BY <1>9, <3>1 DEF HeadIsFile
        <4> QED
          BY <1>1, <4>1 DEF Walks
      <3>2. CASE HeadAtOnce(w) \/ HeadBytes(w) \/ HeadMeta(w) \/ HeadStat(w)
        BY <3>2 DEF HeadAtOnce, HeadBytes, HeadMeta, HeadStat
      <3> QED
        BY <1>9, <3>1, <3>2 DEF HeadObject
    <2>4. Lists(r, walk')
      <3>1. CASE HeadIsFile(w) /\ files[Due(w)] = Absent
        <4>1. walk' = [walk EXCEPT !.thinned = walk.thinned \/ TRUE]
          BY <1>9, <3>1 DEF HeadIsFile
        <4>2. walk'.thinned
          BY <1>1, <4>1 DEF Walks
        <4>3. r = Headed(w, "absent")
          BY <1>5, <3>1, WalkFits DEF HeadIsFile, Step
        <4> QED
          BY <1>4, <1>9, <2>1, <2>3, <4>2, <4>3, HeadedLists
      <3>2. CASE HeadStat(w)
        <4>1. r = Headed(w, Info(job[w].named)) /\ Info(job[w].named) \in {"named", "unnamed"}
          BY <1>5, <3>2, WalkFits DEF HeadStat, Step, Info
        <4> QED
          BY <1>4, <1>9, <2>1, <2>3, <4>1, HeadedLists
      <3>3. CASE (HeadIsFile(w) /\ files[Due(w)] # Absent) \/ HeadBytes(w) \/ HeadMeta(w)
        <4>1. r.todo = job[w].todo /\ r.found = job[w].found /\ UNCHANGED walk
          <5>1. CASE HeadMeta(w)
            <6>1. r = [job[w] EXCEPT !.named = Due(w) \in metas, !.at = "head stat"]
              BY <1>5, <5>1, WalkFits DEF HeadMeta, Step
            <6> QED
              BY <1>1, <5>1, <6>1 DEF HeadMeta, Jobs
          <5>2. CASE (HeadIsFile(w) /\ files[Due(w)] # Absent) \/ HeadBytes(w)
            <6>1. UNCHANGED walk /\ \E at : Goto(w, at)
              BY <5>2 DEF HeadIsFile, HeadBytes
            <6>2. \E at : r = [job[w] EXCEPT !.at = at]
              BY <1>5, <6>1, WalkFits DEF Goto, Step
            <6> QED
              BY <1>1, <6>1, <6>2 DEF Jobs
          <5> QED
            BY <3>3, <5>1, <5>2
        <4>2. job[w].at # "list"
          BY <2>1 DEF Heading
        <4> QED
          BY <2>2, <4>1, <4>2 DEF Lists, Listing
      <3> QED
        BY <1>9, <2>1, <3>1, <3>2, <3>3 DEF HeadObject, HeadAtOnce
    <2> QED
      BY <1>3, <1>4, <1>9, <2>3, <2>4, PagesKept
  <1> QED
    BY <1>7, <1>8, <1>9

LEMMA PageKeepsPages ==
  ASSUME TypeInv, PageInv, NEW w \in Worker, Page(w)
  PROVE  PageInv'
  <1> DEFINE S == Still(w)
             page == Firsts(S, PageSize)
             more == Cardinality(S) > PageSize
             last == Max(page)
  <1>1. job[w] \in Jobs /\ Fits(job[w]) /\ job[w].op = "search" /\ job[w].at = "headed"
    BY JobOf DEF Page, Serving
  <1>2. Lists(job[w], walk) /\ Shown(walk) /\ walk \in Walks
    BY <1>1, WalkFits DEF PageInv
  <1>3. S \in SUBSET Path /\ PageSize \in Nat
    BY StillOf, NamesAreNumbers
  <1>4. /\ Cardinality(S) \in Nat /\ page \in SUBSET S
        /\ \A p \in page, q \in S \ page : p < q
        /\ ~more => page = S
        /\ more => last \in page /\ \A p \in page : p <= last
    <2>1. /\ Cardinality(S) \in Nat /\ page \in SUBSET S
          /\ \A p \in page, q \in S \ page : p < q
          /\ Cardinality(S) <= PageSize => page = S
          /\ Cardinality(S) > PageSize => last \in page /\ \A p \in page : p <= last
      BY <1>3, PageOf
    <2> HIDE DEF S, page, last
    <2> QED
      BY <1>3, <2>1
  <1>5. S \subseteq DOMAIN job[w].found /\ DOMAIN job[w].found = Listing(job[w])
    <2>1. job[w].todo = {}
      BY <1>1 DEF Fits, Heading
    <2> QED
      BY <2>1 DEF Still, Listing
  <1>6. ~walk.thinned => S = Listing(job[w])
    <2>1. ~walk.thinned => \A p \in DOMAIN job[w].found : job[w].found[p] # "absent"
      BY <1>1, <1>2 DEF Lists
    <2> QED
      BY <1>5, <2>1 DEF Still
  <1>7. walk' = Turned(page, more)
    BY PageTurns
  <1>8. UNCHANGED <<acked, deleting>> /\ job' = [job EXCEPT ![w] = NoRequest]
    BY LedgerKept DEF Page, Answer, Reading, Reply, ledger
  <1> HIDE DEF S, page, more, last
  <1>9. /\ walk'.seen = [p \in Path |-> IF p \in page THEN walk.seen[p] + 1 ELSE walk.seen[p]]
        /\ walk'.at = (IF more THEN "more" ELSE "over")
        /\ walk'.must = walk.must /\ walk'.thinned = walk.thinned
        /\ more => walk'.after = last
    BY <1>2, <1>7 DEF Turned, Walks, last
  <1>10. \A p \in page : p \in Path /\ p > walk.after /\ walk.seen[p] = 0
    BY <1>2, <1>3, <1>4, <1>5 DEF Lists, Shown
  <1>11. \A p \in Path : walk'.seen[p] = IF p \in page THEN 1 ELSE walk.seen[p]
    BY <1>9, <1>10
  (* Whoever had to be in this listing and comes before what follows is on the page. *)
  <1>12. ASSUME ~walk.thinned, NEW k \in walk.must, more => k <= last
         PROVE  walk'.seen[k] = 1
    <2>1. k \in Path /\ k \in Nat /\ walk.after \in Nat
      BY WalkFits, NamesAreNumbers
    <2>2. CASE k <= walk.after
      <3>1. walk.seen[k] = 1
        BY <1>2, <1>12, <2>2 DEF Lists, Shown
      <3> QED
        BY <1>11, <2>1, <3>1
    <2>3. CASE k > walk.after
      <3>1. Covers(S, k)
        BY <1>1, <1>2, <1>6, <1>12, <2>3 DEF Lists
      <3>2. k \in page
        <4>1. CASE ~more
          BY <1>4, <3>1, <4>1 DEF Covers, more
        <4>2. CASE more
          <5>1. last \in page /\ last \in S /\ last \in Nat /\ k <= last
            BY <1>3, <1>4, <1>12, <4>2, NamesAreNumbers
          <5>2. ~(last < k)
            BY <2>1, <5>1
          <5>3. k \in S
            BY <3>1, <5>1, <5>2 DEF Covers
          <5> QED
            BY <1>4, <5>1, <5>2, <5>3
        <4> QED
          BY <4>1, <4>2
      <3> QED
        BY <1>11, <2>1, <3>2
    <2> QED
      BY <2>1, <2>2, <2>3
  <1>13. more => \A p \in Path : p > last => walk'.seen[p] = 0
    <2> SUFFICES ASSUME more, NEW p \in Path, p > last PROVE walk'.seen[p] = 0
      OBVIOUS
    <2>1. last \in page /\ last \in Nat /\ last > walk.after /\ walk.after \in Nat /\ p \in Nat
      BY <1>3, <1>4, <1>10, WalkFits, NamesAreNumbers
    <2>2. p > walk.after /\ ~(p <= last)
      BY <2>1
    <2>3. p \notin page
      BY <1>4, <2>2
    <2>4. walk.seen[p] = 0
      BY <1>2, <2>2 DEF Lists, Shown
    <2> QED
      BY <1>11, <2>3, <2>4
  <1>14. \A p \in Path : walk'.seen[p] <= 1
    BY <1>2, <1>11 DEF Shown
  <1>15. Shown(walk')
    BY <1>9, <1>12, <1>13, <1>14 DEF Shown
  <1>16. \A v \in Worker : job'[v].op # "search"
    <2>1. \A v \in Worker \ {w} : job[v].op # "search"
      BY <1>1 DEF PageInv, OneSearches
    <2> QED
      BY <1>8, <2>1, NoRequestFits, WalkFits
  <1> QED
    BY <1>8, <1>9, <1>15, <1>16 DEF PageInv, OneSearches

(* Everything else a worker does leaves the walk alone, or a delete relieves it of a name. *)
LEMMA OthersDoNotSearch ==
  ASSUME TypeInv, NEW w \in Worker, Put(w) \/ (Reply(w) /\ ~Page(w)) \/ Deletion(w)
  PROVE  job[w].op # "search"
  <1>1. job[w] \in Jobs /\ Fits(job[w])
    BY JobOf
  <1>2. CASE Put(w)
    <2>1. job[w].at \in Creating
      BY <1>2 DEF Put, PutBlob, PutObject, DescribeObject, MakeTemp, WriteTemp, ReplaceData,
        ReplaceMeta, StatUploaded, PutFails, Serving, Creating
    <2> QED
      BY <1>1, <2>1 DEF Fits
  <1>3. CASE Reply(w) /\ ~Page(w)
    <2>1. \/ job[w].at \in Getting
          \/ job[w].op \in {"read", "download", "content", "signed", "batch"}
      BY <1>3 DEF Reply, Missing, ReadAnswer, Download, Presigned, Content, Get, GetBytes,
        SignedAnswer, BatchAnswer, FoundIt, Serving, Getting
    <2> QED
      BY <1>1, <2>1 DEF Fits
  <1>4. CASE Deletion(w)
    <2>1. job[w].at \in Removing \/ job[w].op = "delete"
      BY <1>4 DEF Deletion, DeleteFound, DeleteAtOnce, DeleteIsFile, Unlink, DeleteHasMeta,
        UnlinkMeta, Serving, Removing
    <2> QED
      BY <1>1, <2>1 DEF Fits
  <1> QED
    BY <1>2, <1>3, <1>4

LEMMA OtherMovesKeepPages ==
  ASSUME TypeInv, PageInv, NEW w \in Worker, Put(w) \/ (Reply(w) /\ ~Page(w)) \/ Deletion(w)
  PROVE  PageInv'
  <1>1. job[w].op # "search" /\ UNCHANGED walk
    BY OthersDoNotSearch, OnlySearchesWalk
  <1>2. PICK r \in Jobs : Follows(r, job[w]) /\ job' = [job EXCEPT ![w] = r]
    BY PutMoves, ReplyMoves, DeletionMoves DEF Moves, Becomes
  <1>3. r.op # "search"
    BY <1>1, <1>2 DEF Follows
  <1>4. acked \subseteq acked' /\ deleting' = deleting
    BY LedgerKept DEF Reading, ledger, Answers201
  <1>5. walk'.must \subseteq acked' \ deleting'
    BY <1>1, <1>4 DEF PageInv
  <1> QED
    BY <1>1, <1>2, <1>3, <1>5, PagesKept

LEMMA TakingKeepsPages ==
  ASSUME TypeInv, PageInv, NEW w \in Worker, Taking(w)
  PROVE  PageInv'
  <1>1. walk \in Walks /\ walk.must \subseteq acked \ deleting /\ job \in [Worker -> Jobs]
    BY WalkFits DEF PageInv
  <1>2. UNCHANGED acked
    BY LedgerKept DEF Upload
  <1>3. CASE Search(w)
    BY <1>3, SearchKeepsPages
  <1>4. CASE Crash(w)
    <2>1. job' = [job EXCEPT ![w] = NoRequest] /\ UNCHANGED deleting
      BY <1>4 DEF Crash, ledger
    <2>2. /\ walk'.after = walk.after /\ walk'.seen = walk.seen /\ walk'.must = walk.must
          /\ walk'.thinned = walk.thinned
          /\ walk'.at = walk.at \/ (walk'.at = "start" /\ job[w].op = "search")
      BY <1>1, <1>4 DEF Crash, Walks
    <2> QED
      BY <1>1, <1>2, <2>1, <2>2, NoRequestFits, PagesKept
  <1>5. ASSUME NEW p \in Path, Delete(w, p) PROVE PageInv'
    <2> DEFINE r == [Request("delete", p, "head") EXCEPT !.todo = {p}]
    <2>1. job' = [job EXCEPT ![w] = r] /\ deleting' = deleting \cup {p}
      BY <1>5 DEF Delete, Begin
    <2>2. r \in Jobs /\ r.op = "delete"
      <3>1. Request("delete", p, "head") \in Jobs /\ Request("delete", p, "head").op = "delete"
        BY RequestIsJob DEF Heading, OfOnePath, Request
      <3> QED
        BY <3>1 DEF Jobs
    <2> HIDE DEF r
    <2>3. /\ walk'.after = walk.after /\ walk'.seen = walk.seen /\ walk'.must = walk.must \ {p}
          /\ walk'.thinned = walk.thinned /\ walk'.at = walk.at
      BY <1>1, <1>5 DEF Delete, Walks
    <2> QED
      BY <1>1, <1>2, <2>1, <2>2, <2>3, PagesKept
  <1>6. CASE ~Search(w) /\ ~Crash(w) /\ ~\E p \in Path : Delete(w, p)
    <2>1. UNCHANGED <<walk, deleting>>
      BY <1>6, OnlySearchesWalk, LedgerKept
    <2>2. UNCHANGED job \/ (Begins(w) /\ job'[w].op # "search")
      BY <1>6, WhatBegins, TakingBegins
    <2>3. \E r \in Jobs : job' = [job EXCEPT ![w] = r] /\ (r = job[w] \/ r.op # "search")
      <3>1. CASE UNCHANGED job
        BY <1>1, <3>1
      <3>2. CASE Begins(w) /\ job'[w].op # "search"
        BY <1>1, <3>2 DEF Begins, Becomes
      <3> QED
        BY <2>2, <3>1, <3>2
    <2>4. PICK r \in Jobs : job' = [job EXCEPT ![w] = r] /\ (r = job[w] \/ r.op # "search")
      BY <2>3
    <2>5. r.op = "search" => job[w].op = "search" /\ Lists(r, walk')
      BY <2>1, <2>4 DEF PageInv
    <2> QED
      BY <1>1, <1>2, <2>1, <2>4, <2>5, PagesKept
  <1> QED
    BY <1>3, <1>4, <1>5, <1>6

LEMMA PageStep ==
  ASSUME TypeInv, FilesInv, PageInv, [Next]_vars
  PROVE  PageInv'
  <1>1. ASSUME UNCHANGED <<job, walk, acked, deleting>> PROVE PageInv'
    BY <1>1 DEF PageInv, OneSearches
  <1>2. CASE UNCHANGED vars
    BY <1>1, <1>2 DEF vars
  <1>3. CASE Outside
    BY <1>1, <1>3, WorldKept DEF ledger
  <1> QED
    BY <1>2, <1>3, ListingKeepsPages, HeadKeepsPages, PageKeepsPages, OtherMovesKeepPages,
      TakingKeepsPages, NextSteps

(* A walk through the pages lists no file twice, and in the end every file that was there *)
(* from its first page to its last, whoever uploads, deletes or dies in the meantime.       *)
THEOREM WalksAreComplete == Spec => []PagesComplete
  <1>1. Init => PageInv
    <2> SUFFICES ASSUME Init PROVE PageInv
      OBVIOUS
    <2>1. \A w \in Worker : job[w].op # "search"
      BY NoRequestFits DEF Init
    <2>2. walk.at = "start" /\ walk.seen = Unseen /\ walk.must = {}
      BY DEF Init
    <2>3. \A p \in Path : Unseen[p] <= 1
      BY DEF Unseen
    <2> QED
      BY <2>1, <2>2, <2>3 DEF PageInv, OneSearches, Shown
  <1>2. TypeInv /\ FilesInv /\ PageInv /\ [Next]_vars => PageInv'
    BY PageStep
  <1>3. PageInv => PagesComplete
    BY DEF PageInv, Shown, PagesComplete
  <1> QED
    BY <1>1, <1>2, <1>3, FilesHold, PTL DEF Spec
=============================================================================
