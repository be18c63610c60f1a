--------------------------- MODULE BackgroundProofs ---------------------------
(***************************************************************************)
(* Theorems about Background, for all applications, clients, tasks, queue  *)
(* sizes, retries and numbers of edits.                                    *)
(***************************************************************************)
EXTENDS Background, SequenceTheorems, WellFoundedInduction, TLAPS

-----------------------------------------------------------------------------
(* Sequences of parts *)

LEMMA LeastIndex ==
  ASSUME NEW I \in SUBSET Nat, I # {}
  PROVE  Min(I) \in I
  <1>1. PICK x \in I : \A y \in I : ~(<<y, x>> \in OpToRel(<, Nat))
    <2>1. I \subseteq Nat
      OBVIOUS
    <2> QED
      BY <2>1, WFMin, NatLessThanWellFounded
  <1>2. \A y \in I : x <= y
    <2> SUFFICES ASSUME NEW y \in I PROVE x <= y
      OBVIOUS
    <2>1. x \in Nat /\ y \in Nat
      OBVIOUS
    <2>2. ~(y < x)
      BY <1>1, <2>1 DEF OpToRel
    <2> HIDE <1>1
    <2> QED
      BY <2>1, <2>2
  <1> QED
    BY <1>2 DEF Min

LEMMA FrontOf ==
  ASSUME NEW S, NEW s \in Seq(S), s # <<>>
  PROVE  /\ Front(s) \in Seq(S) /\ Len(s) \in Nat \ {0} /\ Len(Front(s)) = Len(s) - 1
         /\ \A i \in 1 .. Len(s) - 1 : Front(s)[i] = s[i]
         /\ Last(s) = s[Len(s)] /\ Last(s) \in S
  <1>1. Len(s) \in Nat \ {0}
    BY EmptySeq
  <1> DEFINE m == Len(s) - 1
  <1>2. m \in Int /\ 0 <= m /\ (\A i \in 1 .. m : s[i] \in S) /\ s[Len(s)] \in S
    BY <1>1, LenProperties
  <1> HIDE DEF m
  <1>3. /\ SubSeq(s, 1, m) \in Seq(S)
        /\ Len(SubSeq(s, 1, m)) = IF 1 <= m THEN m - 1 + 1 ELSE 0
        /\ \A i \in 1 .. m - 1 + 1 : SubSeq(s, 1, m)[i] = s[1 + i - 1]
    BY <1>2, SubSeqProperties
  <1>4. Len(SubSeq(s, 1, m)) = m /\ \A i \in 1 .. m : SubSeq(s, 1, m)[i] = s[i]
    BY <1>2, <1>3
  <1> QED
    BY <1>1, <1>2, <1>3, <1>4 DEF m, Front, Last

(* The sequence without the first place of an element. *)
LEMMA RemovedOnce ==
  ASSUME NEW S, NEW s \in Seq(S), NEW k \in 1 .. Len(s)
  PROVE  /\ RemoveAt(s, k) \in Seq(S) /\ Len(RemoveAt(s, k)) = Len(s) - 1
         /\ \A i \in 1 .. Len(s) - 1 : RemoveAt(s, k)[i] = IF i < k THEN s[i] ELSE s[i + 1]
  <1> DEFINE a == SubSeq(s, 1, k - 1)
             b == SubSeq(s, k + 1, Len(s))
  <1>1. Len(s) \in Nat /\ k \in Nat /\ 1 <= k /\ k <= Len(s) /\ \A i \in 1 .. Len(s) : s[i] \in S
    BY LenProperties
  <1>2. a \in Seq(S) /\ Len(a) = k - 1 /\ \A i \in 1 .. k - 1 : a[i] = s[i]
    <2> DEFINE m == k - 1
    <2>1. m \in Int /\ 0 <= m /\ \A i \in 1 .. m : s[i] \in S
      BY <1>1
    <2> HIDE DEF m
    <2>2. /\ SubSeq(s, 1, m) \in Seq(S)
          /\ Len(SubSeq(s, 1, m)) = IF 1 <= m THEN m - 1 + 1 ELSE 0
          /\ \A i \in 1 .. m - 1 + 1 : SubSeq(s, 1, m)[i] = s[1 + i - 1]
      BY <2>1, SubSeqProperties
    <2>3. Len(SubSeq(s, 1, m)) = m /\ \A i \in 1 .. m : SubSeq(s, 1, m)[i] = s[i]
      BY <2>1, <2>2
    <2> QED
      BY <2>2, <2>3 DEF m
  <1>3. b \in Seq(S) /\ Len(b) = Len(s) - k /\ \A i \in 1 .. Len(s) - k : b[i] = s[k + i]
    <2> DEFINE m == k + 1
               n == Len(s)
    <2>1. m \in Int /\ n \in Int /\ m <= n + 1 /\ \A i \in m .. n : s[i] \in S
      BY <1>1
    <2>2. m = k + 1
      OBVIOUS
    <2> HIDE DEF m, n
    <2>3. /\ SubSeq(s, m, n) \in Seq(S)
          /\ Len(SubSeq(s, m, n)) = IF m <= n THEN n - m + 1 ELSE 0
          /\ \A i \in 1 .. n - m + 1 : SubSeq(s, m, n)[i] = s[m + i - 1]
      BY <2>1, SubSeqProperties
    <2>4. Len(SubSeq(s, m, n)) = n - k /\ \A i \in 1 .. n - k : SubSeq(s, m, n)[i] = s[k + i]
      BY <1>1, <2>1, <2>2, <2>3
    <2> QED
      BY <2>3, <2>4 DEF m, n
  <1>4. RemoveAt(s, k) = a \o b
    BY DEF RemoveAt
  <1> HIDE DEF a, b
  <1>5. /\ a \o b \in Seq(S) /\ Len(a \o b) = Len(a) + Len(b)
        /\ \A i \in 1 .. Len(a) + Len(b) : (a \o b)[i] = IF i <= Len(a) THEN a[i] ELSE b[i - Len(a)]
    BY <1>2, <1>3, ConcatProperties
  <1>6. Len(a \o b) = Len(s) - 1
    BY <1>1, <1>2, <1>3, <1>5
  <1>7. ASSUME NEW i \in 1 .. Len(s) - 1
        PROVE  (a \o b)[i] = IF i < k THEN s[i] ELSE s[i + 1]
    <2>1. (a \o b)[i] = IF i <= Len(a) THEN a[i] ELSE b[i - Len(a)]
      BY <1>1, <1>2, <1>3, <1>5
    <2>2. CASE i < k
      BY <1>1, <1>2, <2>1, <2>2
    <2>3. CASE ~(i < k)
      <3>1. i - Len(a) \in 1 .. Len(s) - k /\ k + (i - Len(a)) = i + 1
        BY <1>1, <1>2, <2>3
      <3>2. b[i - Len(a)] = s[i + 1]
        BY <1>3, <3>1
      <3> QED
        BY <1>1, <1>2, <2>1, <2>3, <3>2
    <2> QED
      BY <2>2, <2>3
  <1> QED
    BY <1>4, <1>5, <1>6, <1>7

LEMMA RemovedFirst ==
  ASSUME NEW S, NEW s \in Seq(S), NEW e
  PROVE  RemoveFirst(s, e) = s \/ \E k \in 1 .. Len(s) : RemoveFirst(s, e) = RemoveAt(s, k)
  <1> SUFFICES ASSUME \E i \in 1 .. Len(s) : s[i] = e
               PROVE  \E k \in 1 .. Len(s) : RemoveFirst(s, e) = RemoveAt(s, k)
    BY DEF RemoveFirst
  <1> DEFINE I == {i \in 1 .. Len(s) : s[i] = e}
  <1>1. RemoveFirst(s, e) = RemoveAt(s, SelectInSeq(s, LAMBDA v : v = e))
    BY DEF RemoveFirst
  <1>2. SelectInSeq(s, LAMBDA v : v = e) = Min(I)
    BY DEF SelectInSeq
  <1>3. I \in SUBSET Nat /\ I # {}
    BY LenProperties
  <1>4. Min(I) \in 1 .. Len(s)
    BY <1>3, LeastIndex
  <1> QED
    BY <1>1, <1>2, <1>4

-----------------------------------------------------------------------------
(* The parts of a manifest, in order *)

(* There is one scheduler and one manager of engines. *)
Single == {"scheduler", "database"}

LEMMA SequenceOf ==
  ASSUME manifest \in Manifests
  PROVE  /\ Sequence \in Seq(Part)
         /\ \A i, j \in 1 .. Len(Sequence) :
              Sequence[i] = Sequence[j] /\ Sequence[i] \in Single => i = j
  <1> DEFINE ms == manifest.managers
             rs == manifest.resources
  <1>1. /\ ms \in Seq(Part \ ResourcePart) /\ rs \in Seq(ResourcePart)
        /\ \A i, j \in DOMAIN ms : ms[i] = ms[j] => i = j \/ ms[i] \in Fallible
    BY ManifestAssumption
  <1>2. ms \in Seq(Part) /\ rs \in Seq(Part)
    <2>1. Part \ ResourcePart \subseteq Part /\ ResourcePart \subseteq Part
      BY DEF Part, ResourcePart, Fallible
    <2> QED
      BY <1>1, <2>1, SeqMonotonic
  <1>3. /\ Len(ms) \in Nat /\ Len(rs) \in Nat /\ DOMAIN ms = 1 .. Len(ms)
        /\ \A i \in 1 .. Len(ms) : ms[i] \in Part \ ResourcePart
        /\ \A i \in 1 .. Len(rs) : rs[i] \in ResourcePart
    BY <1>1, LenProperties, ElementOfSeq
  <1> HIDE DEF ms, rs
  <1>4. \A part \in Single : part \notin ResourcePart /\ part \notin Fallible
    BY DEF Single, ResourcePart, Fallible
  <1>5. CASE mode = "server"
    <2>1. Sequence = ms \o rs
      BY <1>5 DEF Sequence, ms, rs
    <2>2. /\ ms \o rs \in Seq(Part) /\ Len(ms \o rs) = Len(ms) + Len(rs)
          /\ \A i \in 1 .. Len(ms) + Len(rs) :
               (ms \o rs)[i] = IF i <= Len(ms) THEN ms[i] ELSE rs[i - Len(ms)]
      BY <1>2, ConcatProperties
    <2>3. ASSUME NEW i \in 1 .. Len(ms) + Len(rs), (ms \o rs)[i] \in Single
          PROVE  i \in 1 .. Len(ms) /\ (ms \o rs)[i] = ms[i]
      <3>1. CASE i <= Len(ms)
        BY <1>3, <2>2, <3>1
      <3>2. CASE ~(i <= Len(ms))
        <4>1. i - Len(ms) \in 1 .. Len(rs)
          BY <1>3, <3>2
        <4> QED
          BY <1>3, <1>4, <2>2, <2>3, <3>2, <4>1
      <3> QED
        BY <3>1, <3>2
    <2>4. ASSUME NEW i \in 1 .. Len(ms) + Len(rs), NEW j \in 1 .. Len(ms) + Len(rs),
                 (ms \o rs)[i] = (ms \o rs)[j], (ms \o rs)[i] \in Single
          PROVE  i = j
      <3>1. /\ i \in DOMAIN ms /\ (ms \o rs)[i] = ms[i]
            /\ j \in DOMAIN ms /\ (ms \o rs)[j] = ms[j]
        BY <1>3, <2>3, <2>4
      <3>2. ms[i] \notin Fallible
        BY <1>4, <2>4, <3>1
      <3> QED
        BY <1>1, <2>4, <3>1, <3>2
    <2> QED
      BY <2>1, <2>2, <2>4
  <1>6. CASE mode # "server"
    <2>1. Sequence = RemoveFirst(ms, "scheduler")
      BY <1>6 DEF Sequence, ms
    <2>2. CASE Sequence = ms
      BY <1>1, <1>2, <1>3, <1>4, <2>2
    <2>3. CASE \E k \in 1 .. Len(ms) : Sequence = RemoveAt(ms, k)
      <3>1. PICK k \in 1 .. Len(ms) : Sequence = RemoveAt(ms, k)
        BY <2>3
      <3>2. /\ Sequence \in Seq(Part) /\ Len(Sequence) = Len(ms) - 1
            /\ \A i \in 1 .. Len(ms) - 1 : Sequence[i] = IF i < k THEN ms[i] ELSE ms[i + 1]
        BY <1>2, <3>1, RemovedOnce
      <3>3. ASSUME NEW i \in 1 .. Len(ms) - 1, NEW j \in 1 .. Len(ms) - 1,
                   Sequence[i] = Sequence[j], Sequence[i] \in Single
            PROVE  i = j
        <4>1. /\ i \in DOMAIN ms /\ i + 1 \in DOMAIN ms /\ j \in DOMAIN ms /\ j + 1 \in DOMAIN ms
          BY <1>3
        <4>2. \A a, b \in DOMAIN ms : ms[a] = ms[b] /\ ms[a] \in Single => a = b
          BY <1>1, <1>4
        <4> QED
          BY <1>3, <3>2, <3>3, <4>1, <4>2
      <3> QED
        BY <3>2, <3>3
    <2> QED
      BY <1>2, <2>1, <2>2, <2>3, RemovedFirst
  <1> QED
    BY <1>5, <1>6

-----------------------------------------------------------------------------
(* The life of the parts *)

SchedulerInv ==
  /\ scheduler = [entered |-> scheduler.entered, loop |-> scheduler.loop, since |-> scheduler.since]
  /\ scheduler.entered \in BOOLEAN
  /\ scheduler.loop.state \in {"none", "asleep", "idle", "failed"}
  /\ ~scheduler.entered => scheduler.loop.state = "none" /\ runs = {}
  /\ runs \subseteq fired
  /\ elapsed \in Nat /\ \A r \in fired : r.at \in Nat

SessionsInv ==
  /\ sessions = [entered |-> sessions.entered, engines |-> sessions.engines]
  /\ sessions.entered \in BOOLEAN
  /\ ~sessions.entered => sessions.engines = {}

(* The parts are entered in the order of the manifest, and a part is open while it is entered. *)
PartsInv ==
  /\ manifest \in Manifests /\ phase \in Phases /\ mode \in {"server", "command"}
  /\ opened \in Seq(Part)
  /\ \A i \in 1 .. Len(opened) : i \in 1 .. Len(Sequence) /\ opened[i] = Sequence[i]
  /\ phase \in {"rejected", "off"} => opened = <<>>
  /\ phase = "on" => opened = Sequence
  /\ targets # <<>> => phase = "on" /\ mode = "command"
  /\ scheduler.entered <=> IsOpen("scheduler")
  /\ sessions.entered <=> IsOpen("database")

LifeInv == SchedulerInv /\ SessionsInv /\ PartsInv

LEMMA OpenIs ==
  ASSUME opened \in Seq(Part), NEW part
  PROVE  IsOpen(part) <=> \E i \in 1 .. Len(opened) : opened[i] = part
  BY LenProperties DEF IsOpen, ToSet

LEMMA OpenWill ==
  ASSUME opened' \in Seq(Part), NEW part
  PROVE  IsOpen(part)' <=> \E i \in 1 .. Len(opened') : opened'[i] = part
  BY LenProperties DEF IsOpen, ToSet

(* What is entered next, and what that opens. *)
LEMMA EnterOpens ==
  ASSUME LifeInv, Enter
  PROVE  LET part == Sequence[Len(opened) + 1]
         IN  /\ part \in Part /\ opened' \in Seq(Part)
             /\ \A i \in 1 .. Len(opened') :
                  i \in 1 .. Len(Sequence) /\ opened'[i] = Sequence[i]
             /\ \A q \in Part : IsOpen(q)' <=> IsOpen(q) \/ q = part
             /\ part \in Single => ~IsOpen(part)
  <1> DEFINE part == Sequence[Len(opened) + 1]
  <1>1. opened \in Seq(Part) /\ opened' = Append(opened, part) /\ Len(opened) < Len(Sequence)
    BY DEF Enter, LifeInv, PartsInv
  <1>2. /\ Sequence \in Seq(Part)
        /\ \A i, j \in 1 .. Len(Sequence) :
             Sequence[i] = Sequence[j] /\ Sequence[i] \in Single => i = j
    BY SequenceOf DEF LifeInv, PartsInv
  <1>3. \A i \in 1 .. Len(opened) : i \in 1 .. Len(Sequence) /\ opened[i] = Sequence[i]
    BY DEF LifeInv, PartsInv
  <1>4. Len(opened) \in Nat /\ Len(Sequence) \in Nat
    BY <1>1, <1>2, LenProperties
  <1> HIDE DEF part
  <1>5. Len(opened) + 1 \in 1 .. Len(Sequence) /\ part = Sequence[Len(opened) + 1] /\ part \in Part
    BY <1>1, <1>2, <1>4, ElementOfSeq DEF part
  <1>6. /\ opened' \in Seq(Part) /\ Len(opened') = Len(opened) + 1
        /\ \A i \in 1 .. Len(opened) : opened'[i] = opened[i]
        /\ opened'[Len(opened) + 1] = part
    BY <1>1, <1>5, AppendProperties
  <1>7. \A i \in 1 .. Len(opened') : i \in 1 .. Len(opened) \/ i = Len(opened) + 1
    BY <1>4, <1>6
  <1>8. \A i \in 1 .. Len(opened') : i \in 1 .. Len(Sequence) /\ opened'[i] = Sequence[i]
    BY <1>3, <1>5, <1>6, <1>7
  <1>9. ASSUME NEW q \in Part PROVE IsOpen(q)' <=> IsOpen(q) \/ q = part
    <2>1. Len(opened) + 1 \in 1 .. Len(opened') /\ \A i \in 1 .. Len(opened) : i \in 1 .. Len(opened')
      BY <1>4, <1>6
    <2> QED
      BY <1>1, <1>6, <1>7, <2>1, OpenIs, OpenWill
  <1>10. ASSUME part \in Single, IsOpen(part) PROVE FALSE
    <2>1. PICK i \in 1 .. Len(opened) : opened[i] = part
      BY <1>1, <1>10, OpenIs
    <2>2. i = Len(opened) + 1
      BY <1>2, <1>3, <1>5, <1>10, <2>1
    <2> QED
      BY <1>4, <2>1, <2>2
  <1> QED
    BY <1>5, <1>6, <1>8, <1>9, <1>10 DEF part

(* What is exited next, and what that closes. *)
LEMMA ExitCloses ==
  ASSUME LifeInv, Exit
  PROVE  LET part == Last(opened)
         IN  /\ part \in Part /\ opened' \in Seq(Part) /\ IsOpen(part)
             /\ \A i \in 1 .. Len(opened') :
                  i \in 1 .. Len(Sequence) /\ opened'[i] = Sequence[i]
             /\ \A q \in Part : IsOpen(q)' => IsOpen(q)
             /\ \A q \in Part \ {part} : IsOpen(q) => IsOpen(q)'
             /\ \A q \in Single : q = part => ~IsOpen(q)'
  <1> DEFINE part == Last(opened)
  <1>1. opened \in Seq(Part) /\ opened' = Front(opened) /\ opened # <<>>
    BY DEF Exit, LifeInv, PartsInv
  <1>2. \A i, j \in 1 .. Len(Sequence) :
          Sequence[i] = Sequence[j] /\ Sequence[i] \in Single => i = j
    BY SequenceOf DEF LifeInv, PartsInv
  <1>3. \A i \in 1 .. Len(opened) : i \in 1 .. Len(Sequence) /\ opened[i] = Sequence[i]
    BY DEF LifeInv, PartsInv
  <1>4. /\ opened' \in Seq(Part) /\ Len(opened) \in Nat \ {0} /\ Len(opened') = Len(opened) - 1
        /\ \A i \in 1 .. Len(opened) - 1 : opened'[i] = opened[i]
        /\ part = opened[Len(opened)] /\ part \in Part
    BY <1>1, FrontOf
  <1> HIDE DEF part
  <1>5. /\ \A i \in 1 .. Len(opened') : i \in 1 .. Len(opened) /\ i # Len(opened)
                                        /\ opened'[i] = opened[i]
        /\ \A i \in 1 .. Len(opened) : i \in 1 .. Len(opened') \/ i = Len(opened)
        /\ Len(opened) \in 1 .. Len(opened)
    BY <1>4
  <1>6. \A q \in Part : IsOpen(q)' => IsOpen(q)
    BY <1>1, <1>4, <1>5, OpenIs, OpenWill
  <1>7. \A q \in Part \ {part} : IsOpen(q) => IsOpen(q)'
    BY <1>1, <1>4, <1>5, OpenIs, OpenWill
  <1>8. ASSUME NEW q \in Single, q = part, IsOpen(q)' PROVE FALSE
    <2>1. PICK i \in DOMAIN opened' : opened'[i] = q
      BY <1>8 DEF IsOpen, ToSet
    <2>2. i \in 1 .. Len(opened')
      BY <1>4, LenProperties
    <2> QED
      BY <1>2, <1>3, <1>4, <1>5, <1>8, <2>1, <2>2
  <1>9. IsOpen(part)
    BY <1>1, <1>4, <1>5, OpenIs
  <1> QED
    BY <1>3, <1>4, <1>5, <1>6, <1>7, <1>8, <1>9 DEF part

(* Where a loop stands that has planned. *)
LEMMA PlannedState ==
  ASSUME NEW e
  PROVE  Planned(e).state \in {"asleep", "idle", "failed"}
  BY DEF Planned, Loop

LEMMA SchedulerSteps ==
  ASSUME LifeInv, SchedulerNext
  PROVE  SchedulerInv' /\ scheduler'.entered = scheduler.entered
  <1>1. SchedulerInv
    BY DEF LifeInv
  <1>2. CASE Wake
    <2> DEFINE loop == Planned(elapsed)
    <2>1. scheduler' = [scheduler EXCEPT !.loop = loop] /\ scheduler.entered
      BY <1>1, <1>2 DEF Wake, SchedulerInv
    <2>2. loop.state \in {"asleep", "idle", "failed"}
      BY PlannedState
    <2>3. runs' \subseteq fired' /\ elapsed' = elapsed /\ \A r \in fired' : r.at \in Nat
      BY <1>1, <1>2 DEF Wake, SchedulerInv
    <2> HIDE DEF loop
    <2> QED
      BY <1>1, <2>1, <2>2, <2>3 DEF SchedulerInv
  <1>3. CASE Pass \/ \E r \in runs : EndRun(r)
    BY <1>1, <1>3 DEF Pass, EndRun, SchedulerInv
  <1> QED
    BY <1>2, <1>3 DEF SchedulerNext

LEMMA EnterKeepsLife ==
  ASSUME LifeInv, Enter
  PROVE  LifeInv'
  <1> DEFINE part == Sequence[Len(opened) + 1]
  <1>1. /\ part \in Part /\ opened' \in Seq(Part)
        /\ \A i \in 1 .. Len(opened') : i \in 1 .. Len(Sequence) /\ opened'[i] = Sequence[i]
        /\ \A q \in Part : IsOpen(q)' <=> IsOpen(q) \/ q = part
        /\ part \in Single => ~IsOpen(part)
    BY EnterOpens
  <1>2. /\ IF part = "scheduler" THEN EnterScheduler(manifest.enabled) ELSE UNCHANGED schedulerVars
        /\ IF part = "database" THEN EnterSessions ELSE UNCHANGED sessionVars
        /\ UNCHANGED <<manifest, mode, phase, targets>> /\ phase = "entering"
    BY DEF Enter
  <1>3. SchedulerInv /\ SessionsInv /\ PartsInv
    BY DEF LifeInv
  <1>4. "scheduler" \in Part /\ "database" \in Part
    BY DEF Part
  <1> HIDE DEF part
  <1>5. SchedulerInv' /\ (scheduler'.entered <=> scheduler.entered \/ part = "scheduler")
    <2>1. CASE part = "scheduler"
      <3> DEFINE loop == IF manifest.enabled THEN Planned(elapsed) ELSE Loop("none", 0)
      <3>1. /\ scheduler' = [entered |-> TRUE, since |-> elapsed, loop |-> loop]
            /\ fired' = {} /\ runs' = runs /\ elapsed' = elapsed
        BY <1>2, <2>1 DEF EnterScheduler
      <3>2. loop.state \in {"none", "asleep", "idle", "failed"}
        BY PlannedState DEF Loop
      <3>3. runs = {}
        BY <1>1, <1>3, <2>1 DEF SchedulerInv, PartsInv, Single
      <3> HIDE DEF loop
      <3> QED
        BY <1>3, <2>1, <3>1, <3>2, <3>3 DEF SchedulerInv
    <2>2. CASE part # "scheduler"
      BY <1>2, <1>3, <2>2 DEF SchedulerInv, schedulerVars
    <2> QED
      BY <2>1, <2>2
  <1>6. SessionsInv' /\ (sessions'.entered <=> sessions.entered \/ part = "database")
    BY <1>2, <1>3 DEF SessionsInv, sessionVars, EnterSessions
  <1>7. PartsInv'
    <2>1. Sequence' = Sequence
      BY <1>2 DEF Sequence
    <2>2. (scheduler'.entered <=> IsOpen("scheduler")') /\ (sessions'.entered <=> IsOpen("database")')
      BY <1>1, <1>3, <1>4, <1>5, <1>6 DEF PartsInv
    <2> QED
      BY <1>1, <1>2, <1>3, <2>1, <2>2 DEF PartsInv
  <1> QED
    BY <1>5, <1>6, <1>7 DEF LifeInv

LEMMA ExitKeepsLife ==
  ASSUME LifeInv, Exit
  PROVE  LifeInv'
  <1> DEFINE part == Last(opened)
  <1>1. /\ part \in Part /\ opened' \in Seq(Part)
        /\ \A i \in 1 .. Len(opened') : i \in 1 .. Len(Sequence) /\ opened'[i] = Sequence[i]
        /\ \A q \in Part : IsOpen(q)' => IsOpen(q)
        /\ \A q \in Part \ {part} : IsOpen(q) => IsOpen(q)'
        /\ \A q \in Single : q = part => ~IsOpen(q)'
    BY ExitCloses
  <1>2. /\ \E raises : Effect(part, raises)
        /\ UNCHANGED <<manifest, mode, targets>> /\ phase = "exiting" /\ phase' \in {"broken", "exiting"}
    BY DEF Exit
  <1>3. SchedulerInv /\ SessionsInv /\ PartsInv
    BY DEF LifeInv
  <1>4. "scheduler" \in Part /\ "database" \in Part
    BY DEF Part
  <1> HIDE DEF part
  <1>5. SchedulerInv' /\ (scheduler'.entered <=> scheduler.entered /\ part # "scheduler")
    <2>1. CASE part = "scheduler"
      <3>1. scheduler' = Closed /\ runs' = {} /\ fired' = fired /\ elapsed' = elapsed
        BY <1>2, <2>1 DEF Effect, ExitScheduler
      <3> QED
        BY <1>3, <2>1, <3>1 DEF SchedulerInv, Closed, Loop
    <2>2. CASE part # "scheduler"
      <3>1. UNCHANGED schedulerVars
        BY <1>2, <2>2 DEF Effect
      <3> QED
        BY <1>3, <2>2, <3>1 DEF SchedulerInv, schedulerVars
    <2> QED
      BY <2>1, <2>2
  <1>6. SessionsInv' /\ (sessions'.entered <=> sessions.entered /\ part # "database")
    <2>1. CASE part = "database"
      <3>1. sessions' = [entered |-> FALSE, engines |-> {}]
        BY <1>2, <2>1 DEF Effect, ExitSessions
      <3> QED
        BY <2>1, <3>1 DEF SessionsInv
    <2>2. CASE part # "database"
      <3>1. UNCHANGED sessionVars
        BY <1>2, <2>2 DEF Effect
      <3> QED
        BY <1>3, <2>2, <3>1 DEF SessionsInv, sessionVars
    <2> QED
      BY <2>1, <2>2
  <1>7. PartsInv'
    <2>1. Sequence' = Sequence
      BY <1>2 DEF Sequence
    <2>2. scheduler'.entered <=> IsOpen("scheduler")'
      <3>1. CASE part = "scheduler"
        <4>1. "scheduler" \in Single
          BY DEF Single
        <4> QED
          BY <1>1, <1>5, <3>1, <4>1
      <3>2. CASE part # "scheduler"
        <4>1. IsOpen("scheduler") <=> IsOpen("scheduler")'
          BY <1>1, <1>4, <3>2
        <4> QED
          BY <1>3, <1>5, <3>2, <4>1 DEF PartsInv
      <3> QED
        BY <3>1, <3>2
    <2>3. sessions'.entered <=> IsOpen("database")'
      <3>1. CASE part = "database"
        <4>1. "database" \in Single
          BY DEF Single
        <4> QED
          BY <1>1, <1>6, <3>1, <4>1
      <3>2. CASE part # "database"
        <4>1. IsOpen("database") <=> IsOpen("database")'
          BY <1>1, <1>4, <3>2
        <4> QED
          BY <1>3, <1>6, <3>2, <4>1 DEF PartsInv
      <3> QED
        BY <3>1, <3>2
    <2>4. phase' \in Phases
      BY <1>2 DEF Phases
    <2> QED
      BY <1>1, <1>2, <1>3, <2>1, <2>2, <2>3, <2>4 DEF PartsInv
  <1> QED
    BY <1>5, <1>6, <1>7 DEF LifeInv

LEMMA LifeStep ==
  ASSUME LifeInv, [Next]_vars
  PROVE  LifeInv'
  <1>1. SchedulerInv /\ SessionsInv /\ PartsInv
    BY DEF LifeInv
  <1>2. ASSUME UNCHANGED schedulerVars PROVE SchedulerInv'
    BY <1>1, <1>2 DEF SchedulerInv, schedulerVars
  <1>3. ASSUME UNCHANGED sessions PROVE SessionsInv'
    BY <1>1, <1>3 DEF SessionsInv
  <1>4. ASSUME UNCHANGED <<manifest, mode, opened, scheduler, sessions>>,
               phase' \in Phases \ {"rejected"}, phase' = "off" => opened = <<>>,
               phase' = "on" => opened = Sequence,
               targets' # <<>> => phase' = "on" /\ mode = "command"
        PROVE  LifeInv' <=> SchedulerInv'
    <2>1. Sequence' = Sequence
      BY <1>4 DEF Sequence
    <2>2. PartsInv'
      BY <1>1, <1>4, <2>1 DEF PartsInv, IsOpen
    <2> QED
      BY <1>3, <1>4, <2>2 DEF LifeInv
  <1>5. ASSUME UNCHANGED lifeVars, scheduler'.entered = scheduler.entered,
               sessions'.entered = sessions.entered
        PROVE  PartsInv'
    BY <1>1, <1>5 DEF PartsInv, IsOpen, Sequence, lifeVars
  <1>6. CASE UNCHANGED vars
    BY <1>2, <1>3, <1>5, <1>6 DEF vars, schedulerVars, sessionVars, LifeInv
  <1>7. CASE Start
    <2>1. UNCHANGED <<manifest, opened, targets>> /\ phase = "off" /\ mode' \in {"server", "command"}
          /\ phase' \in {"broken", "entering"} /\ UNCHANGED <<scheduler, schedulerVars, sessions>>
      BY <1>7 DEF Start, Modes, schedulerVars, sessionVars
    <2>2. opened = <<>> /\ 1 .. Len(opened) = {}
      BY <1>1, <2>1 DEF PartsInv
    <2>3. PartsInv'
      BY <1>1, <2>1, <2>2 DEF PartsInv, IsOpen, Phases
    <2> QED
      BY <1>2, <1>3, <2>1, <2>3 DEF LifeInv
  <1>8. CASE FailEnter
    <2>1. UNCHANGED <<manifest, mode, opened, targets, scheduler, schedulerVars, sessions>>
          /\ phase = "entering" /\ phase' \in {"broken", "exiting"}
      BY <1>8 DEF FailEnter, schedulerVars, sessionVars
    <2>2. targets = <<>>
      BY <1>1, <2>1 DEF PartsInv
    <2> QED
      BY <1>2, <1>4, <2>1, <2>2 DEF Phases
  <1>9. CASE Serve
    <2>1. UNCHANGED <<manifest, mode, opened, scheduler, schedulerVars, sessions>>
          /\ phase' = "on" /\ opened = Sequence /\ (mode = "server" => targets' = <<>>)
      BY <1>9 DEF Serve, schedulerVars, sessionVars
    <2>2. mode \in {"server", "command"}
      BY <1>1 DEF PartsInv
    <2> QED
      BY <1>2, <1>4, <2>1, <2>2 DEF Phases
  <1>10. CASE EndTarget
    <2>1. UNCHANGED <<manifest, mode, phase, opened, scheduler, schedulerVars, sessions>>
          /\ phase = "on" /\ targets # <<>>
      BY <1>10 DEF EndTarget, schedulerVars, sessionVars
    <2>2. mode = "command" /\ opened = Sequence
      BY <1>1, <2>1 DEF PartsInv
    <2> QED
      BY <1>2, <1>4, <2>1, <2>2 DEF Phases
  <1>11. CASE Stop
    <2>1. UNCHANGED <<manifest, mode, opened, targets, scheduler, schedulerVars, sessions>>
          /\ phase' = "exiting" /\ targets = <<>>
      BY <1>11 DEF Stop, schedulerVars, sessionVars
    <2> QED
      BY <1>2, <1>4, <2>1 DEF Phases
  <1>12. CASE Off
    <2>1. UNCHANGED <<manifest, mode, opened, targets, scheduler, schedulerVars, sessions>>
          /\ phase = "exiting" /\ phase' = "off" /\ opened = <<>>
      BY <1>12 DEF Off, schedulerVars
    <2>2. targets = <<>>
      BY <1>1, <2>1 DEF PartsInv
    <2> QED
      BY <1>2, <1>4, <2>1, <2>2 DEF Phases
  <1>13. CASE Write \/ ClientConnects \/ PrincipalsChange \/ (RealtimeNext /\ UNCHANGED <<schedulerVars, sessionVars, lifeVars>>)
    BY <1>2, <1>3, <1>5, <1>13 DEF Write, ClientConnects, PrincipalsChange, schedulerVars, sessionVars, LifeInv
  <1>14. CASE AskSession
    <2>1. UNCHANGED <<schedulerVars, lifeVars>> /\ \E name : get_session_maker(name)
      BY <1>14 DEF AskSession
    <2>2. SessionsInv' /\ sessions'.entered = sessions.entered
      BY <1>1, <2>1 DEF SessionsInv, get_session_maker
    <2> QED
      BY <1>2, <1>5, <2>1, <2>2 DEF schedulerVars, LifeInv
  <1>15. CASE SchedulerNext /\ UNCHANGED <<realtimeVars, sessionVars, lifeVars>>
    BY <1>3, <1>5, <1>15, SchedulerSteps DEF sessionVars, LifeInv
  <1> QED
    BY <1>6, <1>7, <1>8, <1>9, <1>10, <1>11, <1>12, <1>13, <1>14, <1>15, EnterKeepsLife,
      ExitKeepsLife DEF Next, Lifecycle

LEMMA LifeStart ==
  ASSUME Init
  PROVE  LifeInv
  <1>1. /\ scheduler = Closed /\ runs = {} /\ fired = {} /\ elapsed = 0 /\ opened = <<>> /\ targets = <<>>
        /\ sessions = [entered |-> FALSE, engines |-> {}] /\ mode = "server"
        /\ phase \in {"off", "rejected"} /\ manifest \in Manifests
    BY DEF Init, SchedulerInit, SessionsInit
  <1>2. 1 .. Len(opened) = {} /\ opened \in Seq(Part) /\ ToSet(opened) = {}
    BY <1>1, EmptySeq DEF ToSet
  <1> QED
    BY <1>1, <1>2 DEF LifeInv, SchedulerInv, SessionsInv, PartsInv, Closed, Loop, Phases, IsOpen

-----------------------------------------------------------------------------
(* The stream's state *)

Asks == [path : Path, filter : Filter]

Connection ==
  [phase : {"away", "open", "gone", "closed"}, principal : Client \cup {Anonymous},
   reader : {"off", "on", "ended"}, asks : Asks \cup {None}]

(* What a lookup has read. *)
Read == [path : Path, groups : SUBSET Group, policy : Policy \cup {None}]

RightsTypes ==
  /\ resolver \in Resolver /\ grants \in [Client -> GrantsUnder(resolver)]
  /\ cache \in [Client -> [Path -> {None} \cup Filter]]
  /\ fetch \in [Client -> [Lookups -> {None} \cup Read]]
  /\ recent \in [Client -> SUBSET GrantsUnder(resolver)]

ChannelInv ==
  /\ channel \in [redis : BOOLEAN, closed : BOOLEAN, members : SUBSET Client]
  /\ channel.closed => channel.members = {}

HubTypes ==
  /\ log \in Seq(Event)
  /\ conn \in [Client -> Connection]
  /\ queue \in [Client -> Seq(Nat)] /\ told \in [Client -> Seq(Nat)]
  /\ taken \in [Client -> SUBSET Nat] /\ joined \in [Client -> Nat]
  /\ subs \in [Client -> [Path -> Filter]]
  /\ RightsTypes

DeliveriesInv ==
  \A d \in deliveries :
    /\ d = [id |-> d.id, by |-> d.by, inline |-> d.inline, events |-> d.events, posts |-> d.posts]
    /\ d.inline \in BOOLEAN /\ d.events \in Seq(Event) /\ d.posts \in 0 .. Retries + 1

(* What the parts of the application do to the stream. *)
RunsEnd ==
  /\ deliveries' \subseteq deliveries
  /\ UNCHANGED <<log, channel, queue, conn, subs, told, joined, taken, rights>>

Fired ==
  \E by : \E inline \in BOOLEAN, events \in Seq(Event), hooked \in BOOLEAN :
    Fire(by, inline, events, hooked)

StreamMove ==
  \/ RunsEnd
  \/ OpenChannel
  \/ CloseChannel
  \/ Fired
  \/ \E c \in Client, posture \in {"open", "optional", "required"} : Connect(c, posture)
  \/ \E c \in Client : PrincipalStep(c)
  \/ RealtimeNext

(* The steps about what a client may read: of its subscription, of requests and of others. *)
Looks(c) ==
  \/ FetchGroups(c) \/ FetchPolicies(c) \/ Subscribe(c) \/ RequestResolved(c)
  \/ RequestResolves(c) \/ Drop(c) \/ ChangeGrants(c)

(* They touch no event and no queue, and only the end of a wait touches a subscription. *)
LEMMA RightsAlone ==
  ASSUME NEW c, Looks(c)
  PROVE  /\ UNCHANGED hubVars /\ resolver' = resolver /\ Remembers(c)
         /\ Subscribe(c) \/ UNCHANGED <<conn, subs>>
         /\ ChangeGrants(c) \/ grants' = grants
  <1>1. CASE FetchGroups(c) \/ RequestResolves(c)
    BY <1>1 DEF FetchGroups, RequestResolves, ReadGroups
  <1>2. CASE FetchPolicies(c) \/ Drop(c) \/ ChangeGrants(c)
    BY <1>2 DEF FetchPolicies, Drop, ChangeGrants
  <1>3. CASE Subscribe(c) \/ RequestResolved(c)
    BY <1>3 DEF Subscribe, RequestResolved, Answers
  <1> QED
    BY <1>1, <1>2, <1>3 DEF Looks

-----------------------------------------------------------------------------
(* Filters *)

LEMMA ConstantFilters == AllFilter \in Filter /\ NoMatchFilter \in Filter
  BY DEF AllFilter, NoMatchFilter, Filter

LEMMA FiltersMeet ==
  ASSUME NEW f \in Filter, NEW g \in Filter
  PROVE  f \cap g \in Filter
  <1>1. CASE f \subseteq Class \/ g \subseteq Class
    BY <1>1 DEF Filter
  <1>2. CASE f = Class \cup {NoItem} /\ g = Class \cup {NoItem}
    <2>1. f \cap g = Class \cup {NoItem}
      BY <1>2
    <2> QED
      BY <2>1 DEF Filter
  <1> QED
    BY <1>1, <1>2 DEF Filter

(* A principal's policies reduce to a filter, whatever groups they are bound to. *)
LEMMA GrantsReduce ==
  ASSUME NEW r \in Resolver, NEW g \in GrantsUnder(r), NEW p \in Path
  PROVE  /\ g.groups \in SUBSET Group /\ g.policies[p] \in Policy
         /\ \A groups \in SUBSET Group : g.policies[p][groups] \in Filter
  <1>1. g.groups \in SUBSET Group /\ g.policies \in [Path -> r.policies] /\ r.policies \subseteq Policy
    BY DEF GrantsUnder, Resolver
  <1>2. g.policies[p] \in Policy
    BY <1>1
  <1>3. g.policies[p] \in [SUBSET Group -> Filter]
    BY <1>2, RealtimeAssumption
  <1> QED
    BY <1>1, <1>2, <1>3

(* What the resolver answers at once is a filter, if it is an answer. *)
LEMMA PolicyOf ==
  ASSUME RightsTypes, NEW principal \in Client \cup {Anonymous}, NEW p \in Path
  PROVE  PolicyFilter(principal, p) \in {None} \cup Filter
  <1>1. CASE principal = Anonymous /\ resolver.stored
    BY <1>1, ConstantFilters DEF PolicyFilter
  <1>2. CASE principal = Anonymous /\ ~resolver.stored
    <2>1. resolver.default[p] \in Policy
      BY DEF RightsTypes, Resolver
    <2>2. resolver.default[p] \in [SUBSET Group -> Filter]
      BY <2>1, RealtimeAssumption
    <2>3. PolicyFilter(principal, p) = resolver.default[p][{}]
      BY <1>2 DEF PolicyFilter
    <2> QED
      BY <2>2, <2>3
  <1>3. CASE principal # Anonymous /\ ~resolver.stored
    <2>1. PolicyFilter(principal, p) = grants[principal].policies[p][{}]
      BY <1>3 DEF PolicyFilter
    <2>2. resolver \in Resolver /\ grants[principal] \in GrantsUnder(resolver)
      BY <1>3 DEF RightsTypes
    <2> QED
      BY <2>1, <2>2, GrantsReduce
  <1>4. CASE principal # Anonymous /\ resolver.stored
    <2>1. PolicyFilter(principal, p) = cache[principal][p]
      BY <1>4 DEF PolicyFilter
    <2> QED
      BY <1>4, <2>1 DEF RightsTypes
  <1> QED
    BY <1>1, <1>2, <1>3, <1>4 DEF RightsTypes, Resolver

-----------------------------------------------------------------------------
(* Sequences of positions *)

LEMMA HeadAndTail ==
  ASSUME NEW S, NEW s \in Seq(S), s # <<>>
  PROVE  /\ Len(s) \in Nat \ {0} /\ Head(s) \in S /\ Head(s) = s[1]
         /\ Tail(s) \in Seq(S) /\ Len(Tail(s)) = Len(s) - 1
         /\ \A i \in 1 .. Len(s) - 1 : Tail(s)[i] = s[i + 1]
  <1>1. Len(s) \in Nat \ {0} /\ Head(s) = s[1]
    BY EmptySeq
  <1>2. Tail(s) \in Seq(S) /\ Len(Tail(s)) = Len(s) - 1 /\ Head(s) \in S
    BY HeadTailProperties
  <1>3. \A i \in 1 .. Len(Tail(s)) : Tail(s)[i] = s[i + 1]
    BY HeadTailProperties
  <1> QED
    BY <1>1, <1>2, <1>3

LEMMA Appended ==
  ASSUME NEW S, NEW s \in Seq(S), NEW e \in S
  PROVE  /\ Append(s, e) \in Seq(S) /\ Len(s) \in Nat /\ Len(Append(s, e)) = Len(s) + 1
         /\ \A i \in 1 .. Len(s) : Append(s, e)[i] = s[i]
         /\ Append(s, e)[Len(s) + 1] = e
  BY AppendProperties, LenProperties

LEMMA EventsAre ==
  ASSUME NEW kind \in Kinds, NEW p \in Path, NEW class \in Class, NEW found \in BOOLEAN
  PROVE  Events(kind, p, class, found) \in Seq(Event)
  <1>1. [path |-> p, kind |-> kind, class |-> class] \in Event
    BY DEF Event
  <1> HIDE DEF Event
  <1> QED
    BY <1>1 DEF Events

-----------------------------------------------------------------------------
(* Trigger runs *)

LEMMA RunGoesOn ==
  ASSUME DeliveriesInv, NEW d \in deliveries, NEW e,
         e \in {[d EXCEPT !.events = x] : x \in Seq(Event)}
               \cup {[d EXCEPT !.posts = x] : x \in 0 .. Retries + 1},
         deliveries' = (deliveries \ {d}) \cup Remaining(e)
  PROVE  /\ DeliveriesInv'
         /\ \A x \in deliveries' : x \in deliveries \/ (x.by = d.by /\ x.inline = d.inline)
  <1>1. /\ d = [id |-> d.id, by |-> d.by, inline |-> d.inline, events |-> d.events, posts |-> d.posts]
        /\ d.inline \in BOOLEAN /\ d.events \in Seq(Event) /\ d.posts \in 0 .. Retries + 1
    BY DEF DeliveriesInv
  <1>2. /\ e = [id |-> e.id, by |-> e.by, inline |-> e.inline, events |-> e.events, posts |-> e.posts]
        /\ e.inline \in BOOLEAN /\ e.events \in Seq(Event) /\ e.posts \in 0 .. Retries + 1
        /\ e.by = d.by /\ e.inline = d.inline
    <2>1. CASE e \in {[d EXCEPT !.events = x] : x \in Seq(Event)}
      <3>1. PICK x \in Seq(Event) : e = [d EXCEPT !.events = x]
        BY <2>1
      <3>2. e = [id |-> d.id, by |-> d.by, inline |-> d.inline, events |-> x, posts |-> d.posts]
        BY <1>1, <3>1
      <3> QED
        BY <1>1, <3>2
    <2>2. CASE e \in {[d EXCEPT !.posts = x] : x \in 0 .. Retries + 1}
      <3>1. PICK x \in 0 .. Retries + 1 : e = [d EXCEPT !.posts = x]
        BY <2>2
      <3>2. e = [id |-> d.id, by |-> d.by, inline |-> d.inline, events |-> d.events, posts |-> x]
        BY <1>1, <3>1
      <3> QED
        BY <1>1, <3>2
    <2> QED
      BY <2>1, <2>2
  <1>3. \A x \in deliveries' : x \in deliveries \/ x = e
    BY DEF Remaining
  <1> QED
    BY <1>2, <1>3 DEF DeliveriesInv

(* A step of the hub or of a run keeps who runs and who waits. *)
LEMMA DeliveryKeeps ==
  ASSUME DeliveriesInv, HubTypes, NEW d \in deliveries, DeliveryStep(d)
  PROVE  /\ DeliveriesInv'
         /\ \A x \in deliveries' : x \in deliveries \/ (x.by = d.by /\ x.inline = d.inline)
  <1>1. /\ d.inline \in BOOLEAN /\ d.events \in Seq(Event) /\ d.posts \in 0 .. Retries + 1
    BY DEF DeliveriesInv
  <1>2. CASE Publish(d)
    <2>1. d.events # <<>>
      BY <1>2 DEF Publish
    <2>2. Tail(d.events) \in Seq(Event) /\ <<>> \in Seq(Event)
      BY <1>1, <2>1, HeadAndTail
    <2>3. \E x \in Seq(Event) : deliveries' = (deliveries \ {d}) \cup Remaining([d EXCEPT !.events = x])
      BY <1>2, <2>2 DEF Publish
    <2> QED
      BY <2>3, RunGoesOn
  <1>3. CASE Post(d)
    <2>1. d.posts <= Retries
      BY <1>3 DEF Post
    <2>2. Retries + 1 \in 0 .. Retries + 1 /\ d.posts + 1 \in 0 .. Retries + 1
      BY <1>1, <2>1, RealtimeAssumption
    <2>3. \E x \in 0 .. Retries + 1 :
            deliveries' = (deliveries \ {d}) \cup Remaining([d EXCEPT !.posts = x])
      BY <1>3, <2>2 DEF Post
    <2> QED
      BY <2>3, RunGoesOn
  <1> QED
    BY <1>2, <1>3 DEF DeliveryStep

LEMMA FiredKeeps ==
  ASSUME DeliveriesInv, NEW by, NEW inline \in BOOLEAN, NEW events \in Seq(Event),
         NEW hooked, Fire(by, inline, events, hooked)
  PROVE  /\ DeliveriesInv'
         /\ \A x \in deliveries' : x \in deliveries \/ (x.by = by /\ x.inline = inline)
  <1> DEFINE posts == IF hooked THEN 0 ELSE Retries + 1
  <1> DEFINE d == [id |-> edits, by |-> by, inline |-> inline, events |-> events, posts |-> posts]
  <1>1. posts \in 0 .. Retries + 1
    BY RealtimeAssumption
  <1>2. \A x \in deliveries' : x \in deliveries \/ x = d
    BY DEF Fire, Remaining
  <1> HIDE DEF posts
  <1> QED
    BY <1>1, <1>2 DEF DeliveriesInv

(* No client and nothing about its rights touches a run. *)
LEMMA ClientsApart ==
  ASSUME NEW c \in Client, ClientStep(c) \/ PrincipalStep(c)
  PROVE  UNCHANGED deliveries
  <1>1. CASE StartReader(c) \/ Take(c) \/ EndReader(c) \/ AskSubscribe(c) \/ Unsubscribe(c)
             \/ Hangup(c) \/ Disconnect(c)
    BY <1>1 DEF StartReader, Take, EndReader, AskSubscribe, Unsubscribe, Hangup, Disconnect, Receive
  <1>2. CASE Looks(c)
    BY <1>2, RightsAlone DEF hubVars
  <1> QED
    BY <1>1, <1>2 DEF ClientStep, PrincipalStep, Looks

LEMMA DeliveriesStep ==
  ASSUME DeliveriesInv, HubTypes, StreamMove
  PROVE  DeliveriesInv'
  <1>1. CASE RunsEnd
    BY <1>1 DEF RunsEnd, DeliveriesInv
  <1>2. CASE UNCHANGED deliveries
    BY <1>2 DEF DeliveriesInv
  <1>3. CASE Fired
    BY <1>3, FiredKeeps DEF Fired
  <1>4. CASE \E d \in deliveries : DeliveryStep(d)
    BY <1>4, DeliveryKeeps
  <1>5. ASSUME NEW c \in Client, ClientStep(c) \/ PrincipalStep(c) PROVE UNCHANGED deliveries
    BY <1>5, ClientsApart
  <1>6. ASSUME NEW c, NEW posture, Connect(c, posture) PROVE UNCHANGED deliveries
    BY <1>6 DEF Connect
  <1> QED
    BY <1>1, <1>2, <1>3, <1>4, <1>5, <1>6 DEF StreamMove, OpenChannel, CloseChannel, RealtimeNext
-----------------------------------------------------------------------------
(* The hub keeps its types *)

LEMMA ChannelSteps ==
  ASSUME ChannelInv, StreamMove
  PROVE  ChannelInv' /\ channel'.redis = channel.redis
  <1>1. channel = [redis |-> channel.redis, closed |-> channel.closed, members |-> channel.members]
        /\ channel.redis \in BOOLEAN /\ channel.closed \in BOOLEAN /\ channel.members \subseteq Client
        /\ (channel.closed => channel.members = {})
    BY DEF ChannelInv
  <1>2. ASSUME UNCHANGED channel PROVE ChannelInv' /\ channel'.redis = channel.redis
    BY <1>2 DEF ChannelInv
  <1>3. ASSUME NEW closed \in BOOLEAN, NEW members \in SUBSET Client, closed => members = {},
               channel' = [redis |-> channel.redis, closed |-> closed, members |-> members]
        PROVE  ChannelInv' /\ channel'.redis = channel.redis
    BY <1>1, <1>3 DEF ChannelInv
  <1>4. ASSUME NEW c \in Client, Discarded(c) PROVE ChannelInv' /\ channel'.redis = channel.redis
    <2>1. channel' = [redis |-> channel.redis, closed |-> channel.closed,
                      members |-> channel.members \ {c}]
      BY <1>1, <1>4 DEF Discarded
    <2> QED
      BY <1>1, <1>3, <2>1
  <1>5. CASE RunsEnd \/ Fired
    BY <1>2, <1>5 DEF RunsEnd, Fired, Fire
  <1>6. CASE OpenChannel
    <2>1. channel' = [redis |-> channel.redis, closed |-> channel.closed /\ ~channel.redis,
                      members |-> channel.members]
      BY <1>1, <1>6 DEF OpenChannel
    <2> QED
      BY <1>1, <1>3, <2>1
  <1>7. CASE CloseChannel
    <2>1. channel' = [redis |-> channel.redis, closed |-> TRUE, members |-> {}]
      BY <1>1, <1>7 DEF CloseChannel
    <2> QED
      BY <1>1, <1>3, <2>1
  <1>8. ASSUME NEW c \in Client, NEW posture, Connect(c, posture)
        PROVE  ChannelInv' /\ channel'.redis = channel.redis
    BY <1>2, <1>8 DEF Connect
  <1>9. ASSUME NEW c \in Client, ClientStep(c)
        PROVE  ChannelInv' /\ channel'.redis = channel.redis
    <2>1. CASE StartReader(c)
      <3>1. CASE channel.closed
        BY <1>2, <2>1, <3>1 DEF StartReader
      <3>2. CASE ~channel.closed
        <4>1. channel' = [redis |-> channel.redis, closed |-> channel.closed,
                          members |-> channel.members \cup {c}]
          BY <1>1, <2>1, <3>2 DEF StartReader, Joins
        <4> QED
          BY <1>1, <1>3, <3>2, <4>1
      <3> QED
        BY <3>1, <3>2
    <2>2. CASE Take(c)
      <3>1. Discarded(c) \/ UNCHANGED channel
        BY <2>2 DEF Take
      <3> QED
        BY <1>2, <1>4, <3>1
    <2>3. CASE Disconnect(c)
      BY <1>4, <2>3 DEF Disconnect
    <2>4. CASE EndReader(c) \/ AskSubscribe(c) \/ Unsubscribe(c) \/ Hangup(c)
      <3>1. UNCHANGED channel
        BY <2>4 DEF EndReader, AskSubscribe, Unsubscribe, Hangup, Receive
      <3> QED
        BY <1>2, <3>1
    <2>5. CASE Looks(c)
      BY <1>2, <2>5, RightsAlone DEF hubVars
    <2> QED
      BY <1>9, <2>1, <2>2, <2>3, <2>4, <2>5 DEF ClientStep, Looks
  <1>10. ASSUME NEW d, DeliveryStep(d) PROVE ChannelInv' /\ channel'.redis = channel.redis
    BY <1>2, <1>10 DEF DeliveryStep, Publish, Post
  <1>11. ASSUME NEW c \in Client, PrincipalStep(c) PROVE ChannelInv' /\ channel'.redis = channel.redis
    BY <1>2, <1>11, RightsAlone DEF PrincipalStep, Looks, hubVars
  <1> QED
    BY <1>5, <1>6, <1>7, <1>8, <1>9, <1>10, <1>11 DEF StreamMove, RealtimeNext

LEMMA Offered ==
  ASSUME NEW q \in Seq(Nat), NEW position \in Nat
  PROVE  _offer(q, position) \in Seq(Nat)
  <1>1. CASE q = <<>>
    <2>1. Bounded /\ Len(q) = QueueMaxsize => FALSE
      BY <1>1, EmptySeq DEF Bounded
    <2> QED
      BY <2>1 DEF _offer
  <1>2. CASE q # <<>>
    <2>1. Tail(q) \in Seq(Nat)
      BY <1>2, HeadAndTail
    <2> QED
      BY <2>1 DEF _offer
  <1> QED
    BY <1>1, <1>2

(* A connection that differs in one field. *)
LEMMA Reconnected ==
  ASSUME NEW k \in Connection,
         NEW phase_ \in {"away", "open", "gone", "closed"}, NEW reader_ \in {"off", "on", "ended"},
         NEW asks_ \in Asks \cup {None}
  PROVE  /\ [k EXCEPT !.phase = phase_] \in Connection
         /\ [k EXCEPT !.reader = reader_] \in Connection
         /\ [k EXCEPT !.asks = asks_] \in Connection
  BY DEF Connection

(* Whoever comes is itself or anonymous, and is let in or refused. *)
LEMMA ConnectsAs ==
  ASSUME NEW c \in Client, NEW posture, Connect(c, posture)
  PROVE  \E principal \in {c, Anonymous}, refused \in BOOLEAN :
           conn' = [conn EXCEPT ![c] = [Away EXCEPT !.phase = IF refused THEN "closed" ELSE "open",
                                                   !.principal = principal]]
  <1>1. PICK credential \in Credentials :
          LET known   == posture # "open" /\ credential = "valid"
              refused == \/ posture # "open" /\ credential = "invalid"
                         \/ posture = "required" /\ ~known
          IN  conn' = [conn EXCEPT ![c] = [Away EXCEPT !.phase = IF refused THEN "closed" ELSE "open",
                                                      !.principal = IF known THEN c ELSE Anonymous]]
    BY DEF Connect
  <1> DEFINE known == posture # "open" /\ credential = "valid"
             refused == \/ posture # "open" /\ credential = "invalid"
                        \/ posture = "required" /\ ~known
             principal == IF known THEN c ELSE Anonymous
  <1>2. refused \in BOOLEAN /\ principal \in {c, Anonymous}
    OBVIOUS
  <1>3. conn' = [conn EXCEPT ![c] = [Away EXCEPT !.phase = IF refused THEN "closed" ELSE "open",
                                                !.principal = principal]]
    BY <1>1
  <1> HIDE DEF refused, principal
  <1> QED
    BY <1>2, <1>3

LEMMA SubscribedType ==
  ASSUME HubTypes, NEW c \in Client, NEW asked \in Asks, NEW policyFilter \in Filter,
         Subscribed(c, asked, policyFilter)
  PROVE  subs' \in [Client -> [Path -> Filter]]
  <1>1. asked.path \in Path /\ policyFilter \cap asked.filter \in Filter
    BY FiltersMeet DEF Asks
  <1> QED
    BY <1>1 DEF Subscribed, HubTypes

(* What a lookup that has an answer has read. *)
LEMMA ReadIs ==
  ASSUME HubTypes, NEW c \in Client, NEW l \in Lookups, fetch[c][l] # None
  PROVE  /\ fetch[c][l] \in Read /\ fetch[c][l].path \in Path
         /\ fetch[c][l].groups \in SUBSET Group
         /\ fetch[c][l].policy # None => fetch[c][l].policy \in [SUBSET Group -> Filter]
  <1>1. fetch[c][l] \in Read
    BY DEF HubTypes, RightsTypes
  <1> QED
    BY <1>1, RealtimeAssumption DEF Read

LEMMA LooksTypes ==
  ASSUME HubTypes, NEW c \in Client, Looks(c)
  PROVE  HubTypes'
  <1>1. UNCHANGED <<log, queue, told, joined, taken, resolver>> /\ Remembers(c)
    BY RightsAlone DEF hubVars
  <1>2. /\ resolver \in Resolver /\ grants \in [Client -> GrantsUnder(resolver)]
        /\ cache \in [Client -> [Path -> {None} \cup Filter]]
        /\ fetch \in [Client -> [Lookups -> {None} \cup Read]]
        /\ recent \in [Client -> SUBSET GrantsUnder(resolver)]
        /\ conn \in [Client -> Connection] /\ subs \in [Client -> [Path -> Filter]]
    BY DEF HubTypes, RightsTypes
  <1>3. grants' \in [Client -> GrantsUnder(resolver)]
    <2>1. CASE ChangeGrants(c)
      BY <1>2, <2>1 DEF ChangeGrants
    <2> QED
      BY <1>2, <2>1, RightsAlone
  <1>4. recent' \in [Client -> SUBSET GrantsUnder(resolver)]
    <2> DEFINE was == IF Phase(c) = "away" /\ Forgotten(c)' THEN {} ELSE recent[c]
    <2>1. was \subseteq GrantsUnder(resolver) /\ grants'[c] \in GrantsUnder(resolver)
      BY <1>2, <1>3
    <2>2. recent' = [recent EXCEPT ![c] = was \cup {grants'[c]}]
      BY <1>1 DEF Remembers
    <2> HIDE DEF was
    <2> QED
      BY <1>2, <2>1, <2>2
  <1>5. ASSUME NEW l \in Lookups, NEW path \in Path, ReadGroups(c, l, path)
        PROVE  cache' = cache /\ fetch' \in [Client -> [Lookups -> {None} \cup Read]]
    <2>1. grants[c].groups \in SUBSET Group
      BY <1>2, GrantsReduce
    <2>2. [path |-> path, groups |-> grants[c].groups, policy |-> None] \in Read
      BY <2>1 DEF Read
    <2> QED
      BY <1>2, <1>5, <2>2 DEF ReadGroups
  <1>6. ASSUME NEW l \in Lookups, NEW policyFilter \in Filter, Answers(c, l, policyFilter)
        PROVE  /\ fetch' \in [Client -> [Lookups -> {None} \cup Read]]
               /\ cache' \in [Client -> [Path -> {None} \cup Filter]]
    <2>1. fetch[c][l].path \in Path
      BY <1>6, ReadIs DEF Answers
    <2> QED
      BY <1>2, <1>6, <2>1 DEF Answers
  <1>7. CASE FetchGroups(c)
    <2>1. conn[c].asks.path \in Path
      BY <1>2, <1>7 DEF FetchGroups, Connection, Asks
    <2>2. ReadGroups(c, "socket", conn[c].asks.path) /\ UNCHANGED <<conn, subs>>
      BY <1>7 DEF FetchGroups, ReadGroups
    <2>3. cache' = cache /\ fetch' \in [Client -> [Lookups -> {None} \cup Read]]
      BY <1>5, <2>1, <2>2, RealtimeAssumption
    <2> QED
      BY <1>1, <1>2, <1>3, <1>4, <2>2, <2>3 DEF HubTypes, RightsTypes
  <1>8. CASE RequestResolves(c)
    <2>1. PICK l \in Lookups, path \in Path : ReadGroups(c, l, path)
      BY <1>8 DEF RequestResolves
    <2>2. cache' = cache /\ fetch' \in [Client -> [Lookups -> {None} \cup Read]]
      BY <1>5, <2>1
    <2>3. UNCHANGED <<conn, subs>>
      BY <2>1 DEF ReadGroups
    <2> QED
      BY <1>1, <1>2, <1>3, <1>4, <2>2, <2>3 DEF HubTypes, RightsTypes
  <1>9. CASE FetchPolicies(c)
    <2>1. PICK l \in Lookups :
            /\ fetch[c][l] # None
            /\ fetch' = [fetch EXCEPT ![c][l].policy = grants[c].policies[fetch[c][l].path]]
      BY <1>9 DEF FetchPolicies
    <2>2. fetch[c][l] \in Read /\ grants[c].policies[fetch[c][l].path] \in Policy
      BY <1>2, <2>1, ReadIs, GrantsReduce
    <2>3. [fetch[c][l] EXCEPT !.policy = grants[c].policies[fetch[c][l].path]] \in Read
      BY <2>2 DEF Read
    <2>4. fetch' \in [Client -> [Lookups -> {None} \cup Read]]
      BY <1>2, <2>1, <2>3
    <2>5. UNCHANGED <<conn, subs, cache>>
      BY <1>9 DEF FetchPolicies
    <2> QED
      BY <1>1, <1>2, <1>3, <1>4, <2>4, <2>5 DEF HubTypes, RightsTypes
  <1>10. CASE Subscribe(c)
    <2>1. PICK policyFilter \in Filter :
            Answers(c, "socket", policyFilter) /\ Subscribed(c, conn[c].asks, policyFilter)
      BY <1>10 DEF Subscribe
    <2>2. conn' = [conn EXCEPT ![c].asks = None]
      BY <1>10 DEF Subscribe
    <2>3. conn' \in [Client -> Connection]
      BY <1>2, <2>2, Reconnected
    <2>4. conn[c].asks \in Asks
      BY <1>2, <1>10 DEF Subscribe, Connection
    <2>5. subs' \in [Client -> [Path -> Filter]]
      BY <2>1, <2>4, SubscribedType
    <2>6. /\ fetch' \in [Client -> [Lookups -> {None} \cup Read]]
          /\ cache' \in [Client -> [Path -> {None} \cup Filter]]
      BY <1>6, <2>1, RealtimeAssumption
    <2> QED
      BY <1>1, <1>3, <1>4, <1>2, <2>3, <2>5, <2>6 DEF HubTypes, RightsTypes
  <1>11. CASE RequestResolved(c)
    <2>1. PICK l \in Lookups, policyFilter \in Filter : Answers(c, l, policyFilter)
      BY <1>11 DEF RequestResolved
    <2>2. UNCHANGED <<conn, subs>>
      BY <1>11 DEF RequestResolved
    <2>3. /\ fetch' \in [Client -> [Lookups -> {None} \cup Read]]
          /\ cache' \in [Client -> [Path -> {None} \cup Filter]]
      BY <1>6, <2>1
    <2> QED
      BY <1>1, <1>2, <1>3, <1>4, <2>2, <2>3 DEF HubTypes, RightsTypes
  <1>12. CASE Drop(c)
    <2>1. cache' \in [Client -> [Path -> {None} \cup Filter]]
      BY <1>2, <1>12 DEF Drop
    <2>2. UNCHANGED <<conn, subs, fetch>>
      BY <1>12 DEF Drop
    <2> QED
      BY <1>1, <1>2, <1>3, <1>4, <2>1, <2>2 DEF HubTypes, RightsTypes
  <1>13. CASE ChangeGrants(c)
    <2>1. UNCHANGED <<conn, subs, fetch, cache>>
      BY <1>13 DEF ChangeGrants
    <2> QED
      BY <1>1, <1>2, <1>3, <1>4, <2>1 DEF HubTypes, RightsTypes
  <1> QED
    BY <1>7, <1>8, <1>9, <1>10, <1>11, <1>12, <1>13 DEF Looks

LEMMA HubTypesStep ==
  ASSUME HubTypes, DeliveriesInv, StreamMove
  PROVE  HubTypes'
  <1> USE DEF HubTypes
  <1>1. CASE RunsEnd \/ OpenChannel \/ CloseChannel \/ Fired
    BY <1>1 DEF RunsEnd, OpenChannel, CloseChannel, Fired, Fire, clientVars, rights, RightsTypes
  <1>2. ASSUME NEW c \in Client, NEW posture, Connect(c, posture) PROVE HubTypes'
    <2>1. PICK principal \in {c, Anonymous}, refused \in BOOLEAN :
            conn' = [conn EXCEPT ![c] = [Away EXCEPT !.phase = IF refused THEN "closed" ELSE "open",
                                                    !.principal = principal]]
      BY <1>2, ConnectsAs
    <2>2. [Away EXCEPT !.phase = IF refused THEN "closed" ELSE "open", !.principal = principal]
            \in Connection
      BY DEF Away, Connection
    <2>3. conn' \in [Client -> Connection]
      BY <2>1, <2>2
    <2> QED
      BY <1>2, <2>3 DEF Connect, rights, RightsTypes
  <1>3. ASSUME NEW c \in Client, ClientStep(c) PROVE HubTypes'
    <2> USE DEF clientVars, rights, RightsTypes
    <2>1. CASE StartReader(c)
      <3>1. \A r \in {"off", "on", "ended"} : [conn EXCEPT ![c].reader = r] \in [Client -> Connection]
        BY Reconnected
      <3>2. Len(log) \in Nat
        BY LenProperties
      <3>3. joined' \in [Client -> Nat]
        BY <2>1, <3>2 DEF StartReader, Joins
      <3> QED
        BY <2>1, <3>1, <3>3 DEF StartReader
    <2>2. CASE Take(c)
      <3>1. conn[c].reader = "on" /\ queue[c] # <<>> /\ queue[c] \in Seq(Nat) /\ told[c] \in Seq(Nat)
        BY <2>2 DEF Take
      <3>2. Head(queue[c]) \in Nat /\ Tail(queue[c]) \in Seq(Nat) /\ <<>> \in Seq(Nat)
        BY <3>1, HeadAndTail
      <3>3. Append(told[c], Head(queue[c])) \in Seq(Nat)
        BY <3>1, <3>2, Appended
      <3>4. [conn EXCEPT ![c].reader = "ended"] \in [Client -> Connection]
        BY Reconnected
      <3>5. taken' \in [Client -> SUBSET Nat]
        BY <2>2, <3>2 DEF Take
      <3>6. told' \in [Client -> Seq(Nat)]
        BY <2>2, <3>3 DEF Take
      <3>7. queue' \in [Client -> Seq(Nat)]
        BY <2>2, <3>2 DEF Take
      <3>8. conn' \in [Client -> Connection]
        BY <2>2, <3>4 DEF Take
      <3> QED
        BY <2>2, <3>5, <3>6, <3>7, <3>8 DEF Take
    <2>3. CASE EndReader(c)
      <3>1. conn' \in [Client -> Connection]
        BY <2>3, Reconnected DEF EndReader
      <3>2. queue' \in [Client -> Seq(Nat)]
        BY <2>3 DEF EndReader
      <3> QED
        BY <2>3, <3>1, <3>2 DEF EndReader
    <2>4. CASE AskSubscribe(c)
      <3>1. PICK asked \in Asks :
              LET found == PolicyFilter(conn[c].principal, asked.path)
              IN  IF found = None THEN conn' = [conn EXCEPT ![c].asks = asked] /\ UNCHANGED subs
                                  ELSE Subscribed(c, asked, found) /\ UNCHANGED conn
        BY <2>4 DEF AskSubscribe, Asks
      <3>2. asked.path \in Path /\ asked.filter \in Filter
        BY DEF Asks
      <3>3. PolicyFilter(conn[c].principal, asked.path) \in {None} \cup Filter
        BY <3>2, PolicyOf DEF Connection
      <3>4. UNCHANGED <<log, queue, told, taken, joined>> /\ RightsTypes'
        BY <2>4 DEF AskSubscribe, Receive, RightsTypes
      <3>5. CASE PolicyFilter(conn[c].principal, asked.path) = None
        <4>1. conn' = [conn EXCEPT ![c].asks = asked] /\ subs' = subs
          BY <3>1, <3>5
        <4>2. [conn[c] EXCEPT !.asks = asked] \in Connection
          BY Reconnected
        <4>3. conn' \in [Client -> Connection]
          BY <4>1, <4>2
        <4> QED
          BY <3>4, <4>1, <4>3
      <3>6. CASE PolicyFilter(conn[c].principal, asked.path) # None
        <4>1. Subscribed(c, asked, PolicyFilter(conn[c].principal, asked.path)) /\ conn' = conn
          BY <3>1, <3>6
        <4>2. subs' \in [Client -> [Path -> Filter]]
          BY <3>2, <3>3, <3>6, <4>1, SubscribedType
        <4> QED
          BY <3>4, <4>1, <4>2
      <3> QED
        BY <3>5, <3>6
    <2>5. CASE Looks(c)
      BY <2>5, LooksTypes
    <2>6. CASE Unsubscribe(c)
      <3>1. subs' \in [Client -> [Path -> Filter]]
        BY <2>6, ConstantFilters DEF Unsubscribe
      <3> QED
        BY <2>6, <3>1 DEF Unsubscribe, Receive
    <2>7. CASE Hangup(c)
      <3>1. conn' \in [Client -> Connection]
        BY <2>7, Reconnected DEF Hangup
      <3> QED
        BY <2>7, <3>1 DEF Hangup
    <2>8. CASE Disconnect(c)
      <3>1. [conn[c] EXCEPT !.phase = "closed", !.reader = "off"] \in Connection
        BY DEF Connection
      <3>2. conn' \in [Client -> Connection] /\ queue' \in [Client -> Seq(Nat)]
        BY <2>8, <3>1 DEF Disconnect
      <3>3. subs' \in [Client -> [Path -> Filter]]
        BY <2>8, ConstantFilters DEF Disconnect, NoSubscriptions
      <3> QED
        BY <2>8, <3>2, <3>3 DEF Disconnect
    <2> QED
      BY <1>3, <2>1, <2>2, <2>3, <2>4, <2>5, <2>6, <2>7, <2>8 DEF ClientStep, Looks
  <1>4. ASSUME NEW d \in deliveries, DeliveryStep(d) PROVE HubTypes'
    <2>1. CASE Post(d)
      BY <2>1 DEF Post, clientVars, rights, RightsTypes
    <2>2. CASE Publish(d)
      <3>1. d.events # <<>> /\ d.events \in Seq(Event)
        BY <2>2 DEF Publish, DeliveriesInv
      <3>2. Append(log, Head(d.events)) \in Seq(Event)
        BY <3>1, HeadAndTail, Appended
      <3>3. Len(log) + 1 \in Nat
        BY LenProperties
      <3>4. FannedOut(Len(log) + 1) \in [Client -> Seq(Nat)]
        BY <3>3, Offered DEF FannedOut
      <3> QED
        BY <2>2, <3>2, <3>4 DEF Publish, clientVars, rights, RightsTypes
    <2> QED
      BY <1>4, <2>1, <2>2 DEF DeliveryStep
  <1>5. ASSUME NEW c \in Client, PrincipalStep(c) PROVE HubTypes'
    BY <1>5, LooksTypes DEF PrincipalStep, Looks
  <1> QED
    BY <1>1, <1>2, <1>3, <1>4, <1>5 DEF StreamMove, RealtimeNext
-----------------------------------------------------------------------------
(* What is known of one client *)

Session(c) ==
  /\ conn[c].principal \in {c, Anonymous}
  /\ Phase(c) \in {"away", "closed"} => conn[c].asks = None /\ conn[c].reader = "off"
  /\ queue[c] # <<>> => conn[c].reader = "on"
  /\ c \in channel.members => conn[c].reader = "on"

(* It was sent, has taken and waits for events of the log, in its order. *)
InOrder(c) ==
  /\ taken[c] \subseteq 1 .. Len(log)
  /\ \A i \in 1 .. Len(queue[c]) : queue[c][i] \in 1 .. Len(log)
  /\ \A i \in 1 .. Len(told[c]) : told[c][i] \in 1 .. Len(log)
  /\ \A i, j \in 1 .. Len(queue[c]) : i < j => queue[c][i] < queue[c][j]
  /\ \A i, j \in 1 .. Len(told[c]) : i < j => told[c][i] < told[c][j]
  /\ \A i \in 1 .. Len(told[c]), j \in 1 .. Len(queue[c]) : told[c][i] < queue[c][j]

(* What it waits for is the end of the log. *)
AtTheEnd(c) ==
  c \in channel.members =>
    \A k \in 1 .. Len(queue[c]) : queue[c][k] = Len(log) - Len(queue[c]) + k

Accounted(c) ==
  c \in channel.members =>
    \A i \in joined[c] + 1 .. Len(log) :
      \/ \E k \in 1 .. Len(queue[c]) : queue[c][k] = i
      \/ i \in taken[c]
      \/ Bounded /\ i + QueueMaxsize <= Len(log)

(* The filters its stored policies have made of the groups it has been in. *)
Reduced(c, p) == {g.policies[p][h.groups] : g, h \in recent[c]}

(* What a lookup has read so far. *)
Sourced(c, r) ==
  /\ \E h \in recent[c] : r.groups = h.groups
  /\ r.policy # None => \E g \in recent[c] : r.policy = g.policies[r.path]

(* What is cached and what lookups have read is of the grants remembered. *)
Found(c) ==
  /\ grants[c] \in recent[c]
  /\ \A p \in Path : cache[c][p] # None => cache[c][p] \in Reduced(c, p)
  /\ \A l \in Lookups : fetch[c][l] # None => Sourced(c, fetch[c][l])

(* The lookup of a socket is that of the message it waits with. *)
Awaited(c) ==
  /\ fetch[c]["socket"] # None => conn[c].asks # None /\ fetch[c]["socket"].path = conn[c].asks.path
  /\ conn[c].asks # None => conn[c].principal = c /\ resolver.stored

(* What it is subscribed to, and was sent, it could read. *)
Granted(c) ==
  /\ Phase(c) = "away" => subs[c] = NoSubscriptions /\ told[c] = <<>>
  /\ \A p \in Path : \A x \in subs[c][p] : \E f \in MayRead(c, p) : x \in f
  /\ \A i \in 1 .. Len(told[c]) :
       \E f \in MayRead(c, log[told[c][i]].path) : Payload(log[told[c][i]]) \in f

Rightful(c) == Found(c) /\ Awaited(c) /\ Granted(c)

Known(c) == Session(c) /\ InOrder(c) /\ AtTheEnd(c) /\ Accounted(c) /\ Rightful(c)

StreamInv == \A c \in Client : Known(c)

-----------------------------------------------------------------------------
(* What depends on nothing else *)

LEMMA SessionKept ==
  ASSUME NEW c \in Client, Session(c), conn'[c] = conn[c], queue'[c] = queue[c],
         c \in channel'.members => c \in channel.members
  PROVE  Session(c)'
  BY DEF Session, Phase

LEMMA InOrderKept ==
  ASSUME NEW c \in Client, InOrder(c), queue'[c] = queue[c], told'[c] = told[c],
         taken'[c] = taken[c], Len(log') = Len(log)
  PROVE  InOrder(c)'
  BY DEF InOrder

LEMMA WaitingKept ==
  ASSUME NEW c \in Client, AtTheEnd(c), Accounted(c), queue'[c] = queue[c],
         taken'[c] = taken[c], joined'[c] = joined[c], Len(log') = Len(log),
         c \in channel'.members => c \in channel.members, channel'.redis = channel.redis
  PROVE  AtTheEnd(c)' /\ Accounted(c)'
  BY DEF AtTheEnd, Accounted, Bounded

(* What may be read only grows while the principal remains. *)
RightsKept(c) ==
  /\ conn'[c].principal = conn[c].principal /\ resolver' = resolver
  /\ grants'[c] = grants[c] \/ resolver.stored
  /\ recent[c] \subseteq recent'[c]

LEMMA MayReadGrows ==
  ASSUME NEW c \in Client, NEW p \in Path, Session(c), RightsKept(c), RightsTypes
  PROVE  MayRead(c, p) \subseteq MayRead(c, p)'
  <1>1. CASE conn[c].principal = Anonymous \/ ~resolver.stored
    <2>1. PolicyFilter(conn[c].principal, p)' = PolicyFilter(conn[c].principal, p)
      <3>1. CASE conn[c].principal = Anonymous
        <4>1. conn'[c].principal = Anonymous /\ resolver' = resolver
          BY <3>1 DEF RightsKept
        <4>2. CASE resolver.stored
          BY <3>1, <4>1, <4>2 DEF PolicyFilter
        <4>3. CASE ~resolver.stored
          BY <3>1, <4>1, <4>3 DEF PolicyFilter
        <4> QED
          BY <4>2, <4>3
      <3>2. CASE conn[c].principal # Anonymous
        <4>1. /\ ~resolver.stored /\ resolver' = resolver
              /\ conn[c].principal = c /\ conn'[c].principal = c /\ grants'[c] = grants[c]
          BY <1>1, <3>2 DEF Session, RightsKept
        <4> QED
          BY <3>2, <4>1 DEF PolicyFilter
      <3> QED
        BY <3>1, <3>2
    <2> QED
      BY <1>1, <2>1 DEF MayRead, RightsKept
  <1>2. CASE ~(conn[c].principal = Anonymous \/ ~resolver.stored)
    <2>1. MayRead(c, p) = {g.policies[p][h.groups] : g, h \in recent[c]}
      BY <1>2 DEF MayRead
    <2>2. MayRead(c, p)' = {g.policies[p][h.groups] : g, h \in recent'[c]}
      BY <1>2 DEF MayRead, RightsKept
    <2> QED
      BY <2>1, <2>2 DEF RightsKept
  <1> QED
    BY <1>1, <1>2

(* What is answered at once may be read. *)
LEMMA PolicyWithin ==
  ASSUME NEW c \in Client, NEW p \in Path, Session(c), Found(c),
         PolicyFilter(conn[c].principal, p) # None
  PROVE  PolicyFilter(conn[c].principal, p) \in MayRead(c, p)
  <1>1. CASE conn[c].principal = Anonymous \/ ~resolver.stored
    BY <1>1 DEF MayRead
  <1>2. CASE ~(conn[c].principal = Anonymous \/ ~resolver.stored)
    <2>1. conn[c].principal = c
      BY <1>2 DEF Session
    <2>2. PolicyFilter(conn[c].principal, p) = cache[c][p]
      BY <1>2, <2>1 DEF PolicyFilter
    <2>3. cache[c][p] \in Reduced(c, p)
      BY <2>2 DEF Found
    <2> QED
      BY <1>2, <2>2, <2>3 DEF MayRead, Reduced
  <1> QED
    BY <1>1, <1>2

(* What was sent stays within what may be read, which only grows. *)
LEMMA SentStays ==
  ASSUME HubTypes, NEW c \in Client, InOrder(c), Granted(c), told'[c] = told[c],
         \A i \in 1 .. Len(log) : log'[i] = log[i],
         \A p \in Path : MayRead(c, p) \subseteq MayRead(c, p)'
  PROVE  \A i \in 1 .. Len(told'[c]) :
           \E f \in MayRead(c, log[told[c][i]].path)' : Payload(log[told[c][i]])' \in f
  <1> SUFFICES ASSUME NEW i \in 1 .. Len(told[c])
               PROVE  \E f \in MayRead(c, log[told[c][i]].path)' : Payload(log[told[c][i]])' \in f
    OBVIOUS
  <1>1. told[c][i] \in 1 .. Len(log)
    BY DEF InOrder
  <1>2. log[told[c][i]].path \in Path /\ log'[told'[c][i]] = log[told[c][i]]
    <2>1. log \in Seq(Event)
      BY DEF HubTypes
    <2>2. log[told[c][i]] \in Event
      BY <1>1, <2>1, ElementOfSeq
    <2> QED
      BY <1>1, <2>2 DEF Event
  <1>3. PICK f \in MayRead(c, log[told[c][i]].path) : Payload(log[told[c][i]]) \in f
    BY DEF Granted
  <1>4. PICK p \in Path : p = log[told[c][i]].path
    BY <1>2
  <1>5. f \in MayRead(c, p)
    BY <1>3, <1>4
  <1>6. f \in MayRead(c, p)'
    BY <1>5
  <1>7. log'[told'[c][i]].path = p
    BY <1>2, <1>4
  <1>8. Payload(log[told[c][i]])' = Payload(log[told[c][i]])
    BY <1>2 DEF Payload
  <1> QED
    BY <1>3, <1>6, <1>7, <1>8

LEMMA GrantedKept ==
  ASSUME HubTypes, NEW c \in Client, Session(c), InOrder(c), Granted(c),
         Phase(c) = "away" \/ RightsKept(c),
         conn'[c].phase = "away" => conn[c].phase = "away",
         subs'[c] = subs[c] \/ conn'[c].phase # "away",
         \A p \in Path : subs'[c][p] \subseteq subs[c][p],
         told'[c] = told[c], \A i \in 1 .. Len(log) : log'[i] = log[i]
  PROVE  Granted(c)'
  <1>1. conn'[c].phase = "away" => subs'[c] = NoSubscriptions /\ told'[c] = <<>>
    BY DEF Granted, Phase
  <1>2. CASE Phase(c) = "away"
    <2>1. subs[c] = NoSubscriptions /\ told'[c] = <<>>
      BY <1>2 DEF Granted
    <2>2. \A p \in Path : \A x \in subs'[c][p] : FALSE
      BY <2>1 DEF NoSubscriptions, NoMatchFilter
    <2>3. \A i \in 1 .. Len(told'[c]) : FALSE
      BY <2>1
    <2> QED
      BY <1>1, <2>2, <2>3 DEF Granted, Phase
  <1>3. CASE RightsKept(c)
    <2>1. ASSUME NEW p \in Path, NEW x \in subs'[c][p] PROVE \E f \in MayRead(c, p)' : x \in f
      <3>1. PICK f \in MayRead(c, p) : x \in f
        BY <2>1 DEF Granted
      <3>2. f \in MayRead(c, p)'
        BY <1>3, MayReadGrows DEF HubTypes
      <3> QED
        BY <3>1, <3>2
    <2>2. \A p \in Path : MayRead(c, p) \subseteq MayRead(c, p)'
      BY <1>3, MayReadGrows DEF HubTypes
    <2>3. \A i \in 1 .. Len(told'[c]) :
            \E f \in MayRead(c, log[told[c][i]].path)' : Payload(log[told[c][i]])' \in f
      BY <2>2, SentStays
    <2> QED
      BY <1>1, <2>1, <2>3 DEF Granted, Phase
  <1> QED
    BY <1>2, <1>3

(* Nobody looks up or changes what the client may read. *)
RightsStill(c) ==
  /\ resolver' = resolver /\ grants'[c] = grants[c] /\ cache'[c] = cache[c]
  /\ fetch'[c] = fetch[c] /\ recent'[c] = recent[c]

LEMMA FoundStill ==
  ASSUME NEW c \in Client, Found(c), RightsStill(c)
  PROVE  Found(c)'
  BY DEF Found, RightsStill, Reduced, Sourced

(* What changes neither rights, nor what was asked and sent, keeps it rightful. *)
LEMMA RightfulKept ==
  ASSUME HubTypes, NEW c \in Client, Session(c), InOrder(c), Rightful(c), RightsStill(c),
         conn'[c].principal = conn[c].principal, conn'[c].asks = conn[c].asks,
         conn'[c].phase = "away" => conn[c].phase = "away",
         subs'[c] = subs[c] \/ conn'[c].phase # "away",
         \A p \in Path : subs'[c][p] \subseteq subs[c][p],
         told'[c] = told[c], \A i \in 1 .. Len(log) : log'[i] = log[i]
  PROVE  Rightful(c)'
  <1>1. Found(c)'
    BY FoundStill DEF Rightful
  <1>2. Awaited(c)'
    BY DEF Rightful, Awaited, RightsStill
  <1>3. RightsKept(c)
    BY DEF RightsKept, RightsStill
  <1>4. Granted(c)'
    BY <1>3, GrantedKept DEF Rightful
  <1> QED
    BY <1>1, <1>2, <1>4 DEF Rightful

(* A client whose part of the stream does not change. *)
Undisturbed(c) ==
  /\ conn'[c] = conn[c] /\ queue'[c] = queue[c] /\ subs'[c] = subs[c]
  /\ told'[c] = told[c] /\ joined'[c] = joined[c] /\ taken'[c] = taken[c]
  /\ RightsStill(c) /\ log' = log
  /\ channel'.redis = channel.redis
  /\ c \in channel'.members => c \in channel.members

LEMMA KnownKept ==
  ASSUME HubTypes, HubTypes', NEW c \in Client, Known(c), Undisturbed(c)
  PROVE  Known(c)'
  <1>1. Session(c)' /\ InOrder(c)' /\ AtTheEnd(c)' /\ Accounted(c)'
    BY SessionKept, InOrderKept, WaitingKept DEF Undisturbed, Known
  <1>2. Rightful(c)'
    BY RightfulKept DEF Undisturbed, Known
  <1> QED
    BY <1>1, <1>2 DEF Known
-----------------------------------------------------------------------------
(* The steps of a client *)

LEMMA ConnectKnown ==
  ASSUME HubTypes, HubTypes', ChannelInv', NEW c \in Client, Known(c), NEW posture,
         Connect(c, posture)
  PROVE  Known(c)'
  <1>1. Phase(c) = "away" /\ Session(c) /\ InOrder(c) /\ AtTheEnd(c) /\ Accounted(c) /\ Rightful(c)
    BY DEF Connect, Known
  <1>2. UNCHANGED <<log, channel, queue, subs, told, joined, taken>>
    BY DEF Connect
  <1>3. PICK principal \in {c, Anonymous}, refused \in BOOLEAN :
          conn' = [conn EXCEPT ![c] = [Away EXCEPT !.phase = IF refused THEN "closed" ELSE "open",
                                                  !.principal = principal]]
    BY ConnectsAs
  <1> DEFINE phase_ == IF refused THEN "closed" ELSE "open"
  <1>4. phase_ \in {"closed", "open"}
    OBVIOUS
  <1> HIDE DEF phase_
  <1>5. conn'[c] = [phase |-> phase_, principal |-> principal, reader |-> "off", asks |-> None]
    BY <1>3 DEF HubTypes, Away, phase_
  <1>6. queue[c] = <<>> /\ c \notin channel.members
    BY <1>1 DEF Session
  <1>7. Session(c)'
    <2>1. /\ conn'[c].phase = phase_ /\ conn'[c].principal = principal
          /\ conn'[c].reader = "off" /\ conn'[c].asks = None
      BY <1>5
    <2>2. queue'[c] = <<>> /\ c \notin channel'.members
      BY <1>2, <1>6
    <2> QED
      BY <2>1, <2>2 DEF Session, Phase
  <1>8. InOrder(c)' /\ AtTheEnd(c)' /\ Accounted(c)'
    BY <1>1, <1>2, InOrderKept, WaitingKept
  <1>9. RightsStill(c)
    BY DEF Connect, rights, RightsStill
  <1>10. Found(c)'
    BY <1>1, <1>9, FoundStill DEF Rightful
  <1>11. Awaited(c)'
    <2>1. conn[c].asks = None
      BY <1>1 DEF Session
    <2> QED
      BY <1>1, <1>5, <1>9, <2>1 DEF Rightful, Awaited, RightsStill
  <1>12. Granted(c)'
    <2>1. conn'[c].phase # "away"
      BY <1>4, <1>5
    <2> QED
      BY <1>1, <1>2, <2>1, GrantedKept DEF Rightful
  <1> QED
    BY <1>7, <1>8, <1>10, <1>11, <1>12 DEF Known, Rightful

LEMMA StartReaderKnown ==
  ASSUME HubTypes, HubTypes', ChannelInv, ChannelInv', NEW c \in Client, Known(c), StartReader(c)
  PROVE  Known(c)'
  <1>1. /\ Session(c) /\ InOrder(c) /\ AtTheEnd(c) /\ Accounted(c) /\ Rightful(c)
        /\ Phase(c) \in {"open", "gone"} /\ conn[c].reader = "off"
    BY DEF StartReader, Known
  <1>2. /\ UNCHANGED <<log, queue, subs, told, taken, rights>>
        /\ conn'[c].reader \in {"on", "ended"}
        /\ conn'[c].phase = conn[c].phase /\ conn'[c].principal = conn[c].principal
        /\ conn'[c].asks = conn[c].asks
    BY DEF StartReader, HubTypes, Connection, rights
  <1>3. queue[c] = <<>> /\ c \notin channel.members
    BY <1>1 DEF Session
  <1>4. \A k \in 1 .. Len(queue[c]) : FALSE
    BY <1>3
  <1>5. c \in channel'.members => conn'[c].reader = "on" /\ joined'[c] = Len(log)
    <2>1. CASE channel.closed
      BY <1>3, <2>1 DEF StartReader
    <2>2. CASE ~channel.closed
      BY <2>2 DEF StartReader, Joins, HubTypes, Connection
    <2> QED
      BY <2>1, <2>2
  <1>6. Session(c)'
    BY <1>1, <1>2, <1>3, <1>5 DEF Session, Phase
  <1>7. InOrder(c)'
    BY <1>1, <1>2, InOrderKept
  <1>8. AtTheEnd(c)'
    BY <1>2, <1>4 DEF AtTheEnd
  <1>9. Accounted(c)'
    <2>1. Len(log) \in Nat
      BY LenProperties DEF HubTypes
    <2>2. \A i \in Len(log) + 1 .. Len(log) : FALSE
      BY <2>1
    <2> QED
      BY <1>2, <1>5, <2>2 DEF Accounted
  <1>10. Rightful(c)'
    BY <1>1, <1>2, RightfulKept DEF RightsStill, rights
  <1> QED
    BY <1>6, <1>7, <1>8, <1>9, <1>10 DEF Known

LEMMA EndReaderKnown ==
  ASSUME HubTypes, HubTypes', ChannelInv, ChannelInv', NEW c \in Client, Known(c), EndReader(c)
  PROVE  Known(c)'
  <1>1. /\ Session(c) /\ InOrder(c) /\ AtTheEnd(c) /\ Accounted(c) /\ Rightful(c)
        /\ conn[c].reader = "on" /\ channel.closed
    BY DEF EndReader, Known
  <1>2. /\ UNCHANGED <<log, channel, subs, told, joined, taken, rights>>
        /\ conn'[c] = [conn[c] EXCEPT !.reader = "ended"]
        /\ queue'[c] = <<>>
    BY DEF EndReader, HubTypes, rights
  <1>3. /\ conn'[c].reader = "ended" /\ conn'[c].phase = conn[c].phase
        /\ conn'[c].principal = conn[c].principal /\ conn'[c].asks = conn[c].asks
    BY <1>2 DEF HubTypes, Connection
  <1>4. c \notin channel'.members
    BY <1>1, <1>2 DEF ChannelInv
  <1>5. Session(c)'
    BY <1>1, <1>2, <1>3, <1>4 DEF Session, Phase
  <1>6. \A k \in 1 .. Len(queue'[c]) : FALSE
    BY <1>2
  <1>7. InOrder(c)'
    BY <1>1, <1>2, <1>6 DEF InOrder
  <1>8. AtTheEnd(c)' /\ Accounted(c)'
    BY <1>4 DEF AtTheEnd, Accounted
  <1>9. Rightful(c)'
    BY <1>1, <1>2, <1>3, RightfulKept DEF RightsStill, rights
  <1> QED
    BY <1>5, <1>7, <1>8, <1>9 DEF Known

LEMMA DisconnectKnown ==
  ASSUME HubTypes, HubTypes', ChannelInv, ChannelInv', NEW c \in Client, Known(c), Disconnect(c)
  PROVE  Known(c)'
  <1>1. /\ Session(c) /\ InOrder(c) /\ AtTheEnd(c) /\ Accounted(c) /\ Rightful(c)
    BY DEF Known
  <1>2. /\ UNCHANGED <<log, told, joined, taken, rights>>
        /\ conn'[c] = [conn[c] EXCEPT !.phase = "closed", !.reader = "off"]
        /\ Phase(c) = "gone" /\ conn[c].asks = None
        /\ queue'[c] = <<>> /\ subs'[c] = NoSubscriptions
    BY DEF Disconnect, HubTypes, rights
  <1>3. /\ conn'[c].phase = "closed" /\ conn'[c].reader = "off" /\ conn'[c].asks = None
        /\ conn'[c].principal = conn[c].principal
    BY <1>2 DEF HubTypes, Connection
  <1>4. c \notin channel'.members
    BY DEF Disconnect, Discarded, ChannelInv
  <1>5. Session(c)'
    BY <1>1, <1>2, <1>3, <1>4 DEF Session, Phase
  <1>6. \A k \in 1 .. Len(queue'[c]) : FALSE
    BY <1>2
  <1>7. InOrder(c)'
    BY <1>1, <1>2, <1>6 DEF InOrder
  <1>8. AtTheEnd(c)' /\ Accounted(c)'
    BY <1>4 DEF AtTheEnd, Accounted
  <1>9. \A p \in Path : \A x \in subs'[c][p] : FALSE
    BY <1>2 DEF NoSubscriptions, NoMatchFilter
  <1>10. Rightful(c)'
    BY <1>1, <1>2, <1>3, <1>9, RightfulKept DEF RightsStill, rights
  <1> QED
    BY <1>5, <1>7, <1>8, <1>10 DEF Known

(* A subscription to what may be read. *)
LEMMA SubscribedWithin ==
  ASSUME HubTypes, NEW c \in Client, Granted(c), NEW asked \in Asks, NEW policyFilter,
         Subscribed(c, asked, policyFilter), policyFilter \in MayRead(c, asked.path)',
         \A p \in Path : MayRead(c, p) \subseteq MayRead(c, p)'
  PROVE  \A p \in Path : \A x \in subs'[c][p] : \E f \in MayRead(c, p)' : x \in f
  <1> SUFFICES ASSUME NEW p \in Path, NEW x \in subs'[c][p]
               PROVE  \E f \in MayRead(c, p)' : x \in f
    OBVIOUS
  <1>1. subs'[c] = [subs[c] EXCEPT ![asked.path] = policyFilter \cap asked.filter]
        /\ subs[c] \in [Path -> Filter]
    BY DEF Subscribed, HubTypes
  <1>2. CASE p = asked.path
    BY <1>1, <1>2
  <1>3. CASE p # asked.path
    <2>1. x \in subs[c][p]
      BY <1>1, <1>3
    <2> QED
      BY <2>1 DEF Granted
  <1> QED
    BY <1>2, <1>3

(* Messages touch neither the queue nor what was sent. *)
LEMMA MessageKnown ==
  ASSUME HubTypes, HubTypes', ChannelInv, NEW c \in Client, Known(c),
         AskSubscribe(c) \/ Unsubscribe(c) \/ Hangup(c)
  PROVE  Known(c)'
  <1>1. Session(c) /\ InOrder(c) /\ AtTheEnd(c) /\ Accounted(c) /\ Rightful(c)
    BY DEF Known
  <1>2. UNCHANGED <<log, channel, queue, told, joined, taken, rights>> /\ Phase(c) = "open"
    BY DEF AskSubscribe, Unsubscribe, Hangup, Receive, clientVars
  <1>3. InOrder(c)' /\ AtTheEnd(c)' /\ Accounted(c)'
    BY <1>1, <1>2, InOrderKept, WaitingKept
  <1>4. conn[c] \in Connection /\ subs[c] \in [Path -> Filter]
    BY DEF HubTypes
  <1>5. RightsStill(c)
    BY <1>2 DEF RightsStill, rights
  <1>6. Found(c)'
    BY <1>1, <1>5, FoundStill DEF Rightful
  <1>7. CASE AskSubscribe(c)
    <2>1. PICK asked \in Asks :
            LET found == PolicyFilter(conn[c].principal, asked.path)
            IN  IF found = None THEN conn' = [conn EXCEPT ![c].asks = asked] /\ UNCHANGED subs
                                ELSE Subscribed(c, asked, found) /\ UNCHANGED conn
      BY <1>7 DEF AskSubscribe, Asks
    <2> DEFINE found == PolicyFilter(conn[c].principal, asked.path)
    <2>2. asked.path \in Path /\ conn[c].asks = None
      BY <1>7 DEF Asks, AskSubscribe, Receive
    <2>3. CASE found = None
      <3>1. conn'[c] = [conn[c] EXCEPT !.asks = asked] /\ subs' = subs
        BY <2>1, <2>3 DEF HubTypes
      <3>2. /\ conn'[c].phase = "open" /\ conn'[c].principal = conn[c].principal
            /\ conn'[c].reader = conn[c].reader
        BY <1>2, <1>4, <3>1 DEF Connection, Phase
      <3>3. Session(c)'
        BY <1>1, <1>2, <3>2 DEF Session, Phase
      <3>4. conn[c].principal = c /\ resolver.stored
        <4>1. conn[c].principal \in {c, Anonymous} /\ RightsTypes
          BY <1>1 DEF Session, HubTypes
        <4>2. CASE conn[c].principal = Anonymous /\ resolver.stored
          BY <2>3, <4>2, ConstantFilters, RealtimeAssumption DEF PolicyFilter
        <4>3. CASE conn[c].principal = Anonymous /\ ~resolver.stored
          <5>1. resolver.default[asked.path] \in [SUBSET Group -> Filter]
            BY <2>2, <4>1, RealtimeAssumption DEF RightsTypes, Resolver
          <5>2. found = resolver.default[asked.path][{}]
            BY <4>3 DEF PolicyFilter
          <5> QED
            BY <2>3, <5>1, <5>2, RealtimeAssumption
        <4>4. CASE conn[c].principal # Anonymous /\ ~resolver.stored
          <5>1. grants[c].policies[asked.path][{}] \in Filter
            BY <2>2, <4>1, GrantsReduce DEF RightsTypes
          <5>2. found = grants[c].policies[asked.path][{}]
            BY <4>1, <4>4 DEF PolicyFilter
          <5> QED
            BY <2>3, <5>1, <5>2, RealtimeAssumption
        <4> QED
          BY <4>1, <4>2, <4>3, <4>4
      <3>5. fetch[c]["socket"] = None
        BY <1>1, <2>2 DEF Rightful, Awaited
      <3>6. Awaited(c)'
        BY <1>5, <3>2, <3>4, <3>5 DEF Awaited, RightsStill
      <3>7. Granted(c)'
        BY <1>1, <1>2, <1>5, <3>1, <3>2, GrantedKept DEF Rightful, RightsKept, RightsStill
      <3> QED
        BY <1>3, <1>6, <3>3, <3>6, <3>7 DEF Known, Rightful
    <2>4. CASE found # None
      <3>1. Subscribed(c, asked, found) /\ conn' = conn
        BY <2>1, <2>4
      <3>2. Session(c)'
        BY <1>1, <1>2, <3>1, SessionKept
      <3>3. Awaited(c)'
        BY <1>1, <1>5, <3>1 DEF Rightful, Awaited, RightsStill
      <3>4. RightsKept(c)
        BY <1>5, <3>1 DEF RightsKept, RightsStill
      <3>5. \A p \in Path : MayRead(c, p) \subseteq MayRead(c, p)'
        BY <1>1, <3>4, MayReadGrows DEF HubTypes
      <3>6. found \in MayRead(c, asked.path)
        BY <1>1, <2>2, <2>4, PolicyWithin DEF Rightful
      <3>7. found \in MayRead(c, asked.path)'
        <4> DEFINE p == asked.path
        <4>1. p \in Path /\ found \in MayRead(c, p)
          BY <2>2, <3>6
        <4> HIDE DEF p, found
        <4>2. found \in MayRead(c, p)'
          BY <3>5, <4>1
        <4> QED
          BY <4>2 DEF p
      <3> HIDE DEF found
      <3>8. \A p \in Path : \A x \in subs'[c][p] : \E f \in MayRead(c, p)' : x \in f
        BY <1>1, <3>1, <3>5, <3>7, SubscribedWithin DEF Rightful
      <3>9. \A i \in 1 .. Len(told'[c]) :
              \E f \in MayRead(c, log[told[c][i]].path)' : Payload(log[told[c][i]])' \in f
        BY <1>1, <1>2, <3>5, SentStays DEF Rightful
      <3>10. Granted(c)'
        BY <1>2, <3>1, <3>8, <3>9 DEF Granted, Phase
      <3> QED
        BY <1>3, <1>6, <3>2, <3>3, <3>10 DEF Known, Rightful
    <2> QED
      BY <2>3, <2>4
  <1>8. CASE Unsubscribe(c)
    <2>1. conn' = conn /\ \E p \in Path : subs'[c] = [subs[c] EXCEPT ![p] = NoMatchFilter]
      BY <1>8 DEF Unsubscribe, HubTypes
    <2>2. Session(c)'
      BY <1>1, <1>2, <2>1, SessionKept
    <2>3. \A p \in Path : subs'[c][p] \subseteq subs[c][p]
      BY <1>4, <2>1 DEF NoMatchFilter
    <2>4. Rightful(c)'
      BY <1>1, <1>2, <1>5, <2>1, <2>3, RightfulKept DEF Phase
    <2> QED
      BY <1>3, <2>2, <2>4 DEF Known
  <1>9. CASE Hangup(c)
    <2>1. subs' = subs /\ conn'[c] = [conn[c] EXCEPT !.phase = "gone"]
      BY <1>9 DEF Hangup, HubTypes
    <2>2. /\ conn'[c].phase = "gone" /\ conn'[c].principal = conn[c].principal
          /\ conn'[c].reader = conn[c].reader /\ conn'[c].asks = conn[c].asks
      BY <1>4, <2>1 DEF Connection
    <2>3. Session(c)'
      BY <1>1, <1>2, <2>1, <2>2 DEF Session, Phase
    <2>4. Rightful(c)'
      BY <1>1, <1>2, <1>5, <2>1, <2>2, RightfulKept DEF Phase
    <2> QED
      BY <1>3, <2>3, <2>4 DEF Known
  <1> QED
    BY <1>7, <1>8, <1>9

-----------------------------------------------------------------------------
(* The steps about what a client may read *)

(* What is remembered has the current grants, and all that was while anything of it is held. *)
LEMMA Remembered ==
  ASSUME RightsTypes, NEW c \in Client, Remembers(c)
  PROVE  /\ grants'[c] \in recent'[c]
         /\ recent[c] \subseteq recent'[c] \/ (Phase(c) = "away" /\ Forgotten(c)')
  <1>1. recent'[c] =
          (IF Phase(c) = "away" /\ Forgotten(c)' THEN {} ELSE recent[c]) \cup {grants'[c]}
    BY DEF RightsTypes, Remembers
  <1> QED
    BY <1>1

(* Nothing is cached or read but from what is remembered. *)
LEMMA FoundMoves ==
  ASSUME HubTypes, HubTypes', NEW c \in Client, Found(c), Remembers(c),
         \A p \in Path : cache'[c][p] \in {None, cache[c][p]} \cup Reduced(c, p),
         \A l \in Lookups :
           \/ fetch'[c][l] \in {None, fetch[c][l]}
           \/ /\ grants'[c] = grants[c]
              /\ \/ fetch'[c][l].groups = grants[c].groups /\ fetch'[c][l].policy = None
                 \/ /\ fetch[c][l] # None /\ fetch'[c][l].groups = fetch[c][l].groups
                    /\ fetch'[c][l].policy = grants[c].policies[fetch'[c][l].path]
  PROVE  Found(c)'
  <1>1. /\ grants'[c] \in recent'[c]
        /\ recent[c] \subseteq recent'[c] \/ Forgotten(c)'
    BY Remembered DEF HubTypes
  <1>2. CASE Forgotten(c)'
    BY <1>1, <1>2 DEF Found, Forgotten
  <1>3. CASE recent[c] \subseteq recent'[c]
    <2>1. ASSUME NEW p \in Path, cache'[c][p] # None PROVE cache'[c][p] \in Reduced(c, p)'
      <3>1. cache'[c][p] \in Reduced(c, p)
        BY <2>1 DEF Found
      <3> QED
        BY <1>3, <3>1 DEF Reduced
    <2>2. ASSUME NEW l \in Lookups, fetch'[c][l] # None
          PROVE  Sourced(c, fetch[c][l])'
      <3>1. fetch[c][l] # None => Sourced(c, fetch[c][l])
        BY DEF Found
      <3>2. CASE fetch'[c][l] = fetch[c][l]
        BY <1>3, <2>2, <3>1, <3>2 DEF Sourced
      <3>3. CASE /\ grants'[c] = grants[c]
                 /\ fetch'[c][l].groups = grants[c].groups /\ fetch'[c][l].policy = None
        BY <1>1, <3>3 DEF Sourced
      <3>4. CASE /\ grants'[c] = grants[c]
                 /\ fetch[c][l] # None /\ fetch'[c][l].groups = fetch[c][l].groups
                 /\ fetch'[c][l].policy = grants[c].policies[fetch'[c][l].path]
        BY <1>1, <1>3, <3>1, <3>4 DEF Sourced
      <3> QED
        BY <2>2, <3>2, <3>3, <3>4
    <2> QED
      BY <1>1, <2>1, <2>2 DEF Found
  <1> QED
    BY <1>1, <1>2, <1>3

(* An answer is of the policies and the groups that were read. *)
LEMMA AnswerReduced ==
  ASSUME HubTypes, NEW c \in Client, Found(c), NEW l \in Lookups, NEW policyFilter,
         Answers(c, l, policyFilter)
  PROVE  policyFilter \in Reduced(c, fetch[c][l].path)
  <1>1. /\ fetch[c][l] # None /\ fetch[c][l].policy # None
        /\ policyFilter = fetch[c][l].policy[fetch[c][l].groups]
    BY DEF Answers
  <1>2. PICK h \in recent[c] : fetch[c][l].groups = h.groups
    BY <1>1 DEF Found, Sourced
  <1>3. PICK g \in recent[c] : fetch[c][l].policy = g.policies[fetch[c][l].path]
    BY <1>1 DEF Found, Sourced
  <1> DEFINE p == fetch[c][l].path
  <1>4. policyFilter = g.policies[p][h.groups]
    BY <1>1, <1>2, <1>3
  <1> HIDE DEF p
  <1>5. policyFilter \in {x.policies[p][y.groups] : x, y \in recent[c]}
    BY <1>4
  <1> QED
    BY <1>5 DEF Reduced, p

LEMMA LooksFound ==
  ASSUME HubTypes, HubTypes', NEW c \in Client, Found(c), Looks(c)
  PROVE  Found(c)'
  <1>1. Remembers(c) /\ (ChangeGrants(c) \/ grants' = grants)
    BY RightsAlone
  <1>2. cache[c] \in [Path -> {None} \cup Filter] /\ fetch[c] \in [Lookups -> {None} \cup Read]
        /\ cache \in [Client -> [Path -> {None} \cup Filter]]
        /\ fetch \in [Client -> [Lookups -> {None} \cup Read]]
    BY DEF HubTypes, RightsTypes
  <1>3. ASSUME NEW l \in Lookups, NEW path \in Path, ReadGroups(c, l, path) PROVE Found(c)'
    <2>1. /\ cache' = cache /\ grants' = grants
          /\ fetch' = [fetch EXCEPT ![c][l] =
               [path |-> path, groups |-> grants[c].groups, policy |-> None]]
      BY <1>3 DEF ReadGroups
    <2>2. \A m \in Lookups : \/ fetch'[c][m] = fetch[c][m]
                             \/ fetch'[c][m].groups = grants[c].groups /\ fetch'[c][m].policy = None
      BY <1>2, <2>1
    <2> QED
      BY <1>1, <2>1, <2>2, FoundMoves
  <1>4. ASSUME NEW l \in Lookups, NEW policyFilter \in Filter, Answers(c, l, policyFilter)
        PROVE  Found(c)'
    <2>1. policyFilter \in Reduced(c, fetch[c][l].path)
      BY <1>4, AnswerReduced
    <2>2. \A p \in Path : cache'[c][p] = cache[c][p] \/ (p = fetch[c][l].path /\ cache'[c][p] = policyFilter)
      BY <1>2, <1>4 DEF Answers
    <2>3. \A m \in Lookups : fetch'[c][m] \in {None, fetch[c][m]}
      BY <1>2, <1>4 DEF Answers
    <2> QED
      BY <1>1, <2>1, <2>2, <2>3, FoundMoves
  <1>5. CASE FetchGroups(c)
    <2>1. conn[c].asks.path \in Path
      BY <1>5 DEF FetchGroups, HubTypes, Connection, Asks
    <2> QED
      BY <1>3, <1>5, <2>1, RealtimeAssumption DEF FetchGroups
  <1>6. CASE RequestResolves(c)
    BY <1>3, <1>6 DEF RequestResolves
  <1>7. CASE FetchPolicies(c)
    <2>1. PICK l \in Lookups :
            /\ fetch[c][l] # None
            /\ fetch' = [fetch EXCEPT ![c][l].policy = grants[c].policies[fetch[c][l].path]]
      BY <1>7 DEF FetchPolicies
    <2>2. fetch'[c] = [fetch[c] EXCEPT ![l] =
            [fetch[c][l] EXCEPT !.policy = grants[c].policies[fetch[c][l].path]]]
      BY <1>2, <2>1
    <2>3. fetch[c][l] \in Read
      BY <2>1, ReadIs
    <2>4. /\ fetch'[c][l].groups = fetch[c][l].groups /\ fetch'[c][l].path = fetch[c][l].path
          /\ fetch'[c][l].policy = grants[c].policies[fetch'[c][l].path]
          /\ \A m \in Lookups \ {l} : fetch'[c][m] = fetch[c][m]
      BY <1>2, <2>2, <2>3 DEF Read
    <2>5. cache' = cache /\ grants' = grants
      BY <1>7 DEF FetchPolicies
    <2>6. \A m \in Lookups :
            \/ fetch'[c][m] \in {None, fetch[c][m]}
            \/ /\ fetch[c][m] # None /\ fetch'[c][m].groups = fetch[c][m].groups
               /\ fetch'[c][m].policy = grants[c].policies[fetch'[c][m].path]
      BY <2>1, <2>4
    <2> HIDE <2>1, <2>2, <2>4
    <2> QED
      BY <1>1, <2>5, <2>6, FoundMoves
  <1>8. CASE Subscribe(c)
    BY <1>4, <1>8, RealtimeAssumption DEF Subscribe
  <1>9. CASE RequestResolved(c)
    BY <1>4, <1>9 DEF RequestResolved
  <1>10. CASE Drop(c)
    <2>1. fetch' = fetch /\ \A p \in Path : cache'[c][p] \in {None, cache[c][p]}
      BY <1>2, <1>10 DEF Drop
    <2> QED
      BY <1>1, <2>1, FoundMoves
  <1>11. CASE ChangeGrants(c)
    <2>1. fetch' = fetch /\ cache' = cache
      BY <1>11 DEF ChangeGrants
    <2> QED
      BY <1>1, <2>1, FoundMoves
  <1> QED
    BY <1>5, <1>6, <1>7, <1>8, <1>9, <1>10, <1>11 DEF Looks

(* A lookup is made for the message that waits, and no other is awaited meanwhile. *)
LEMMA LooksAwaited ==
  ASSUME HubTypes, HubTypes', NEW c \in Client, Awaited(c), Looks(c)
  PROVE  Awaited(c)'
  <1>1. resolver' = resolver /\ (Subscribe(c) \/ UNCHANGED <<conn, subs>>)
    BY RightsAlone
  <1>2. fetch \in [Client -> [Lookups -> {None} \cup Read]] /\ conn[c] \in Connection
        /\ conn \in [Client -> Connection] /\ "socket" \in Lookups
    BY RealtimeAssumption DEF HubTypes, RightsTypes
  <1>3. CASE Subscribe(c)
    <2>1. fetch'[c]["socket"] = None
      BY <1>2, <1>3 DEF Subscribe, Answers
    <2>2. conn'[c].asks = None
      BY <1>2, <1>3 DEF Subscribe, Connection
    <2> QED
      BY <2>1, <2>2 DEF Awaited
  <1>4. CASE UNCHANGED conn /\ FetchGroups(c)
    <2>1. /\ conn[c].asks # None
          /\ fetch' = [fetch EXCEPT ![c]["socket"] =
               [path |-> conn[c].asks.path, groups |-> grants[c].groups, policy |-> None]]
      BY <1>4 DEF FetchGroups, ReadGroups
    <2>2. fetch'[c]["socket"].path = conn[c].asks.path
      BY <1>2, <2>1
    <2> QED
      BY <1>1, <1>4, <2>1, <2>2 DEF Awaited
  <1>5. CASE UNCHANGED conn /\ FetchPolicies(c)
    <2>1. PICK l \in Lookups :
            /\ fetch[c][l] # None
            /\ fetch' = [fetch EXCEPT ![c][l].policy = grants[c].policies[fetch[c][l].path]]
      BY <1>5 DEF FetchPolicies
    <2>2. fetch[c][l] \in Read
      BY <2>1, ReadIs
    <2>3. fetch'[c]["socket"] = fetch[c]["socket"]
          \/ (fetch[c]["socket"] # None /\ fetch'[c]["socket"].path = fetch[c]["socket"].path)
      BY <1>2, <2>1, <2>2 DEF Read
    <2> QED
      BY <1>1, <1>5, <2>3 DEF Awaited
  <1>6. CASE UNCHANGED conn /\ (RequestResolved(c) \/ RequestResolves(c) \/ Drop(c) \/ ChangeGrants(c))
    <2>1. fetch'[c]["socket"] = fetch[c]["socket"]
      BY <1>2, <1>6 DEF RequestResolved, Answers, RequestResolves, ReadGroups, Drop, ChangeGrants
    <2> QED
      BY <1>1, <1>6, <2>1 DEF Awaited
  <1> QED
    BY <1>1, <1>3, <1>4, <1>5, <1>6 DEF Looks

LEMMA LooksKnown ==
  ASSUME HubTypes, HubTypes', ChannelInv, NEW c \in Client, Known(c), Looks(c)
  PROVE  Known(c)'
  <1>1. Session(c) /\ InOrder(c) /\ AtTheEnd(c) /\ Accounted(c) /\ Rightful(c)
    BY DEF Known
  <1>2. /\ log' = log /\ channel' = channel /\ queue' = queue /\ told' = told
        /\ joined' = joined /\ taken' = taken /\ resolver' = resolver
    BY RightsAlone DEF hubVars
  <1>3. /\ Remembers(c)
        /\ Subscribe(c) \/ UNCHANGED <<conn, subs>>
        /\ ChangeGrants(c) \/ grants' = grants
    BY RightsAlone
  <1>4. InOrder(c)' /\ AtTheEnd(c)' /\ Accounted(c)'
    BY <1>1, <1>2, InOrderKept, WaitingKept
  <1>5. Found(c)' /\ Awaited(c)'
    BY <1>1, LooksFound, LooksAwaited DEF Rightful
  <1>6. conn[c] \in Connection /\ conn \in [Client -> Connection]
    BY DEF HubTypes
  <1>7. /\ conn'[c].phase = conn[c].phase /\ conn'[c].principal = conn[c].principal
        /\ conn'[c].reader = conn[c].reader
        /\ Phase(c) \in {"away", "closed"} => conn'[c].asks = None
    <2>1. CASE Subscribe(c)
      BY <1>6, <2>1 DEF Subscribe, Connection
    <2>2. CASE UNCHANGED conn
      BY <1>1, <2>2 DEF Session
    <2> QED
      BY <1>3, <2>1, <2>2
  <1>8. Session(c)'
    BY <1>1, <1>2, <1>7 DEF Session, Phase
  <1>9. Phase(c) = "away" \/ RightsKept(c)
    <2>1. grants'[c] = grants[c] \/ resolver.stored
      BY <1>3 DEF ChangeGrants
    <2>2. recent[c] \subseteq recent'[c] \/ Phase(c) = "away"
      BY <1>3, Remembered DEF HubTypes
    <2> QED
      BY <1>2, <1>7, <2>1, <2>2 DEF RightsKept
  <1>10. CASE UNCHANGED <<conn, subs>>
    <2>1. Granted(c)'
      BY <1>1, <1>2, <1>9, <1>10, GrantedKept DEF Rightful, Phase
    <2> QED
      BY <1>4, <1>5, <1>8, <2>1 DEF Known, Rightful
  <1>11. CASE Subscribe(c)
    <2>1. PICK policyFilter \in Filter :
            Answers(c, "socket", policyFilter) /\ Subscribed(c, conn[c].asks, policyFilter)
      BY <1>11 DEF Subscribe
    <2>2. conn[c].asks \in Asks /\ conn[c].asks # None
      BY <1>6, <1>11 DEF Subscribe, Connection
    <2>3. Phase(c) # "away"
      BY <1>1, <2>2 DEF Session
    <2>4. RightsKept(c) /\ recent[c] \subseteq recent'[c]
      BY <1>9, <2>3 DEF RightsKept
    <2>5. \A p \in Path : MayRead(c, p) \subseteq MayRead(c, p)'
      BY <1>1, <2>4, MayReadGrows DEF HubTypes
    <2>6. fetch[c]["socket"].path = conn[c].asks.path /\ conn[c].principal = c /\ resolver.stored
      BY <1>1, <2>1, <2>2 DEF Rightful, Awaited, Answers
    <2>7. policyFilter \in Reduced(c, conn[c].asks.path)
      BY <1>1, <2>1, <2>6, AnswerReduced, RealtimeAssumption DEF Rightful
    <2>8. PICK asked \in Asks : asked = conn[c].asks
      BY <2>2
    <2>9. PICK p \in Path : p = asked.path
      BY DEF Asks
    <2>10. policyFilter \in MayRead(c, p)
      BY <2>6, <2>7, <2>8, <2>9, RealtimeAssumption DEF MayRead, Reduced
    <2>11. policyFilter \in MayRead(c, p)'
      BY <2>5, <2>10
    <2>12. policyFilter \in MayRead(c, asked.path)' /\ Subscribed(c, asked, policyFilter)
      BY <2>1, <2>8, <2>9, <2>11
    <2>13. \A r \in Path : \A x \in subs'[c][r] : \E f \in MayRead(c, r)' : x \in f
      BY <1>1, <2>5, <2>12, SubscribedWithin DEF Rightful
    <2>14. \A i \in 1 .. Len(told'[c]) :
             \E f \in MayRead(c, log[told[c][i]].path)' : Payload(log[told[c][i]])' \in f
      BY <1>1, <1>2, <2>5, SentStays DEF Rightful
    <2>15. Granted(c)'
      BY <1>2, <1>7, <2>3, <2>13, <2>14 DEF Granted, Phase
    <2> QED
      BY <1>4, <1>5, <1>8, <2>15 DEF Known, Rightful
  <1> QED
    BY <1>3, <1>10, <1>11

-----------------------------------------------------------------------------
(* The steps that move events *)

LEMMA TakeKnown ==
  ASSUME HubTypes, HubTypes', ChannelInv, ChannelInv', NEW c \in Client, Known(c), Take(c)
  PROVE  Known(c)'
  <1> DEFINE position == Head(queue[c])
             e == log[position]
             admitted == Payload(e) \in subs[c][e.path]
             ends == channel.closed \/ (admitted /\ Phase(c) = "gone")
             sent == admitted /\ Phase(c) = "open"
  <1>1. Session(c) /\ InOrder(c) /\ AtTheEnd(c) /\ Accounted(c) /\ Rightful(c)
    BY DEF Known
  <1>2. /\ conn[c].reader = "on" /\ queue[c] # <<>>
        /\ UNCHANGED <<log, subs, joined, rights>>
        /\ taken'[c] = taken[c] \cup {position}
        /\ told'[c] = IF sent THEN Append(told[c], position) ELSE told[c]
        /\ queue'[c] = IF ends THEN <<>> ELSE Tail(queue[c])
    BY DEF Take, HubTypes, rights
  <1>3. IF ends THEN conn'[c] = [conn[c] EXCEPT !.reader = "ended"] /\ Discarded(c)
                ELSE UNCHANGED <<conn, channel>>
    BY DEF Take, HubTypes
  <1>4. /\ Len(queue[c]) \in Nat \ {0} /\ position = queue[c][1]
        /\ Len(Tail(queue[c])) = Len(queue[c]) - 1
        /\ \A i \in 1 .. Len(queue[c]) - 1 : Tail(queue[c])[i] = queue[c][i + 1]
    BY <1>2, HeadAndTail DEF HubTypes
  <1>5. Len(log) \in Nat /\ Len(told[c]) \in Nat /\ told[c] \in Seq(Nat) /\ conn[c] \in Connection
    BY LenProperties DEF HubTypes
  <1>6. position \in 1 .. Len(log) /\ e \in Event
    <2>1. position \in 1 .. Len(log)
      BY <1>1, <1>4 DEF InOrder
    <2> QED
      BY <2>1, ElementOfSeq DEF HubTypes
  <1> HIDE DEF position
  <1>7. ends => c \notin channel'.members
    BY <1>3 DEF Discarded, ChannelInv
  <1>8. ~ends => UNCHANGED <<conn, channel>>
    BY <1>3
  <1>9. /\ conn'[c].phase = conn[c].phase /\ conn'[c].principal = conn[c].principal
        /\ conn'[c].asks = conn[c].asks
        /\ conn'[c].reader = IF ends THEN "ended" ELSE "on"
    BY <1>2, <1>3, <1>5 DEF Connection
  <1>10. Phase(c) \in {"open", "gone"}
    BY <1>1, <1>2, <1>5 DEF Session, Connection, Phase
  <1> HIDE DEF ends
  <1>11. Session(c)'
    <2>1. CASE ends
      BY <1>1, <1>2, <1>7, <1>9, <1>10, <2>1 DEF Session, Phase
    <2>2. CASE ~ends
      BY <1>1, <1>2, <1>8, <1>9, <1>10, <2>2 DEF Session, Phase
    <2> QED
      BY <2>1, <2>2
  <1>12. ASSUME NEW i \in 1 .. Len(queue'[c])
         PROVE  /\ ~ends /\ i \in Nat /\ i + 1 \in 1 .. Len(queue[c]) /\ queue'[c][i] = queue[c][i + 1]
    <2>1. ~ends
      <3>1. CASE ends
        <4>1. Len(queue'[c]) = 0
          BY <1>2, <3>1
        <4> QED
          BY <4>1
      <3> QED
        BY <3>1
    <2>2. queue'[c] = Tail(queue[c])
      BY <1>2, <2>1
    <2> QED
      BY <1>4, <2>1, <2>2
  <1>13. ASSUME NEW i \in 1 .. Len(told'[c])
         PROVE  /\ i \in Nat
                /\ \/ i \in 1 .. Len(told[c]) /\ told'[c][i] = told[c][i]
                   \/ sent /\ i = Len(told[c]) + 1 /\ told'[c][i] = position
    <2>1. CASE sent
      <3>1. told'[c] = Append(told[c], position) /\ position \in Nat
        BY <1>2, <1>6, <2>1
      <3>2. /\ Len(told'[c]) = Len(told[c]) + 1
            /\ \A k \in 1 .. Len(told[c]) : told'[c][k] = told[c][k]
            /\ told'[c][Len(told[c]) + 1] = position
        BY <1>5, <3>1, Appended
      <3> QED
        BY <1>5, <2>1, <3>2
    <2>2. CASE ~sent
      BY <1>2, <1>5, <2>2
    <2> QED
      BY <2>1, <2>2
  <1> HIDE DEF sent
  <1>14. InOrder(c)'
    <2>1. taken'[c] \subseteq 1 .. Len(log')
      BY <1>1, <1>2, <1>6 DEF InOrder
    <2>2. \A i \in 1 .. Len(queue'[c]) : queue'[c][i] \in 1 .. Len(log')
      BY <1>1, <1>2, <1>12 DEF InOrder
    <2>3. \A i \in 1 .. Len(told'[c]) : told'[c][i] \in 1 .. Len(log')
      BY <1>1, <1>2, <1>6, <1>13 DEF InOrder
    <2>4. ASSUME NEW i \in 1 .. Len(queue'[c]), NEW j \in 1 .. Len(queue'[c]), i < j
          PROVE  queue'[c][i] < queue'[c][j]
      <3>1. /\ i + 1 \in 1 .. Len(queue[c]) /\ queue'[c][i] = queue[c][i + 1]
            /\ j + 1 \in 1 .. Len(queue[c]) /\ queue'[c][j] = queue[c][j + 1] /\ i + 1 < j + 1
        BY <1>12, <2>4
      <3> QED
        BY <1>1, <3>1 DEF InOrder
    <2>5. ASSUME NEW i \in 1 .. Len(told[c]) PROVE told[c][i] < position
      <3>1. 1 \in 1 .. Len(queue[c])
        BY <1>4
      <3> QED
        BY <1>1, <1>4, <3>1 DEF InOrder
    <2>6. ASSUME NEW i \in 1 .. Len(told'[c]), NEW j \in 1 .. Len(told'[c]), i < j
          PROVE  told'[c][i] < told'[c][j]
      <3>1. i \in 1 .. Len(told[c]) /\ told'[c][i] = told[c][i]
        <4>1. j \in Nat /\ (j \in 1 .. Len(told[c]) \/ j = Len(told[c]) + 1)
          BY <1>13
        <4>2. i # Len(told[c]) + 1
          BY <1>5, <2>6, <4>1
        <4> QED
          BY <1>13, <4>2
      <3>2. CASE j \in 1 .. Len(told[c]) /\ told'[c][j] = told[c][j]
        BY <1>1, <2>6, <3>1, <3>2 DEF InOrder
      <3>3. CASE told'[c][j] = position
        BY <2>5, <3>1, <3>3
      <3> QED
        BY <1>13, <3>2, <3>3
    <2>7. ASSUME NEW i \in 1 .. Len(told'[c]), NEW j \in 1 .. Len(queue'[c])
          PROVE  told'[c][i] < queue'[c][j]
      <3>1. j \in Nat /\ j >= 1 /\ j + 1 \in 1 .. Len(queue[c]) /\ queue'[c][j] = queue[c][j + 1]
        BY <1>12
      <3>2. CASE i \in 1 .. Len(told[c]) /\ told'[c][i] = told[c][i]
        BY <1>1, <3>1, <3>2 DEF InOrder
      <3>3. CASE told'[c][i] = position
        <4>1. 1 \in 1 .. Len(queue[c]) /\ 1 < j + 1
          BY <1>4, <3>1
        <4> QED
          BY <1>1, <1>4, <3>1, <3>3, <4>1 DEF InOrder
      <3> QED
        BY <1>13, <3>2, <3>3
    <2> QED
      BY <2>1, <2>2, <2>3, <2>4, <2>6, <2>7 DEF InOrder
  <1>15. AtTheEnd(c)'
    <2> SUFFICES ASSUME c \in channel'.members, NEW k \in 1 .. Len(queue'[c])
                 PROVE  queue'[c][k] = Len(log') - Len(queue'[c]) + k
      BY DEF AtTheEnd
    <2>1. ~ends /\ c \in channel.members
      BY <1>7, <1>8
    <2>2. k \in Nat /\ k + 1 \in 1 .. Len(queue[c]) /\ queue'[c][k] = queue[c][k + 1]
      BY <1>12
    <2>3. queue[c][k + 1] = Len(log) - Len(queue[c]) + (k + 1)
      BY <1>1, <2>1, <2>2 DEF AtTheEnd
    <2>4. Len(queue'[c]) = Len(queue[c]) - 1
      BY <1>2, <1>4, <2>1
    <2>5. log' = log
      BY <1>2
    <2>6. Len(log) - Len(queue[c]) + (k + 1) = Len(log) - (Len(queue[c]) - 1) + k
      BY <1>4, <1>5, <2>2
    <2> QED
      BY <2>2, <2>3, <2>4, <2>5, <2>6
  <1>16. Accounted(c)'
    <2> SUFFICES ASSUME c \in channel'.members, NEW i \in joined[c] + 1 .. Len(log)
                 PROVE  \/ \E k \in 1 .. Len(queue'[c]) : queue'[c][k] = i
                        \/ i \in taken'[c]
                        \/ Bounded' /\ i + QueueMaxsize <= Len(log)
      BY <1>2 DEF Accounted
    <2>1. ~ends /\ c \in channel.members /\ UNCHANGED channel
      BY <1>7, <1>8
    <2>2. \/ \E k \in 1 .. Len(queue[c]) : queue[c][k] = i
          \/ i \in taken[c]
          \/ Bounded /\ i + QueueMaxsize <= Len(log)
      BY <1>1, <2>1 DEF Accounted
    <2>3. ASSUME NEW k \in 1 .. Len(queue[c]), queue[c][k] = i
          PROVE  i = position \/ \E m \in 1 .. Len(queue'[c]) : queue'[c][m] = i
      <3>1. CASE k = 1
        BY <1>4, <2>3, <3>1
      <3>2. CASE k # 1
        <4>1. queue'[c] = Tail(queue[c])
          BY <1>2, <2>1
        <4>2. k - 1 \in 1 .. Len(queue[c]) - 1 /\ (k - 1) + 1 = k
          BY <1>4, <3>2
        <4>3. k - 1 \in 1 .. Len(queue'[c]) /\ queue'[c][k - 1] = i
          BY <1>4, <2>3, <4>1, <4>2
        <4> QED
          BY <4>3
      <3> QED
        BY <3>1, <3>2
    <2> QED
      BY <1>2, <2>1, <2>2, <2>3 DEF Bounded
  <1>17. RightsStill(c) /\ RightsKept(c)
    BY <1>2, <1>9 DEF rights, RightsStill, RightsKept
  <1>18. \A p \in Path : MayRead(c, p) \subseteq MayRead(c, p)'
    BY <1>1, <1>17, MayReadGrows DEF HubTypes
  <1>19. Granted(c)'
    <2>1. \A p \in Path : \A x \in subs'[c][p] : \E f \in MayRead(c, p)' : x \in f
      BY <1>1, <1>2, <1>18 DEF Rightful, Granted
    <2>2. ASSUME NEW i \in 1 .. Len(told'[c])
          PROVE  \E f \in MayRead(c, log[told[c][i]].path)' : Payload(log[told[c][i]])' \in f
      <3>1. PICK k \in 1 .. Len(log) : k = told'[c][i]
        BY <1>2, <1>14 DEF InOrder
      <3>2. log[k].path \in Path
        <4>1. log \in Seq(Event)
          BY DEF HubTypes
        <4>2. log[k] \in Event
          BY <4>1, ElementOfSeq
        <4> QED
          BY <4>2 DEF Event
      <3>3. \E f \in MayRead(c, log[k].path) : Payload(log[k]) \in f
        <4>1. CASE i \in 1 .. Len(told[c]) /\ told'[c][i] = told[c][i]
          BY <1>1, <3>1, <4>1 DEF Rightful, Granted
        <4>2. CASE sent /\ told'[c][i] = position
          BY <1>1, <3>1, <3>2, <4>2 DEF sent, Rightful, Granted
        <4> QED
          BY <1>13, <4>1, <4>2
      <3>4. PICK p \in Path : p = log[k].path
        BY <3>2
      <3>5. PICK f \in MayRead(c, p) : Payload(log[k]) \in f
        BY <3>3, <3>4
      <3>6. f \in MayRead(c, p)'
        BY <1>18
      <3>7. log'[told'[c][i]] = log[k] /\ log'[told'[c][i]].path = p
        BY <1>2, <3>1, <3>4
      <3>8. Payload(log[told[c][i]])' = Payload(log[k])
        BY <3>7 DEF Payload
      <3> QED
        BY <3>5, <3>6, <3>7, <3>8
    <2>3. conn'[c].phase # "away"
      BY <1>9, <1>10 DEF Phase
    <2> QED
      BY <2>1, <2>2, <2>3 DEF Granted, Phase
  <1>20. Found(c)' /\ Awaited(c)'
    BY <1>1, <1>9, <1>17, FoundStill DEF Rightful, Awaited, RightsStill
  <1> QED
    BY <1>11, <1>14, <1>15, <1>16, <1>19, <1>20 DEF Known, Rightful

(* A queue that is offered an event is what it was, perhaps without its head, and the event. *)
LEMMA OfferedIs ==
  ASSUME NEW q \in Seq(Nat), NEW position \in Nat
  PROVE  LET r == _offer(q, position)
         IN  /\ r \in Seq(Nat) /\ Len(q) \in Nat /\ Len(r) \in Nat \ {0}
             /\ r[Len(r)] = position
             /\ \/ Len(r) = Len(q) + 1 /\ \A i \in 1 .. Len(q) : r[i] = q[i]
                \/ /\ Bounded /\ Len(q) = QueueMaxsize /\ Len(r) = Len(q)
                   /\ \A i \in 1 .. Len(q) - 1 : r[i] = q[i + 1]
  <1> DEFINE drops == Bounded /\ Len(q) = QueueMaxsize
             kept == IF drops THEN Tail(q) ELSE q
             r == _offer(q, position)
  <1>1. Len(q) \in Nat
    BY LenProperties
  <1>2. drops => q # <<>>
    BY EmptySeq DEF Bounded
  <1>3. kept \in Seq(Nat)
    BY <1>2, HeadAndTail
  <1>4. r = Append(kept, position)
    BY DEF _offer
  <1> HIDE DEF r
  <1>5. /\ r \in Seq(Nat) /\ Len(r) = Len(kept) + 1 /\ Len(kept) \in Nat
        /\ (\A i \in 1 .. Len(kept) : r[i] = kept[i]) /\ r[Len(kept) + 1] = position
    <2> HIDE DEF kept
    <2> QED
      BY <1>3, <1>4, Appended
  <1>6. Len(r) \in Nat \ {0} /\ r[Len(r)] = position
    BY <1>5
  <1>7. CASE drops
    <2>1. Len(kept) = Len(q) - 1 /\ \A i \in 1 .. Len(q) - 1 : kept[i] = q[i + 1]
      BY <1>2, <1>7, HeadAndTail
    <2> HIDE DEF kept
    <2> QED
      BY <1>1, <1>5, <1>6, <1>7, <2>1 DEF r
  <1>8. CASE ~drops
    <2>1. kept = q
      BY <1>8
    <2> QED
      BY <1>1, <1>5, <1>6, <2>1 DEF r
  <1> QED
    BY <1>7, <1>8

LEMMA PublishKnown ==
  ASSUME HubTypes, HubTypes', ChannelInv, NEW c \in Client, Known(c), NEW event \in Event,
         log' = Append(log, event), queue' = FannedOut(Len(log) + 1),
         UNCHANGED <<channel, conn, subs, told, joined, taken, rights>>
  PROVE  Known(c)'
  <1>1. Session(c) /\ InOrder(c) /\ AtTheEnd(c) /\ Accounted(c) /\ Rightful(c)
    BY DEF Known
  <1>2. /\ Len(log) \in Nat /\ Len(log') = Len(log) + 1
        /\ \A i \in 1 .. Len(log) : log'[i] = log[i]
    BY Appended DEF HubTypes
  <1>3. Rightful(c)'
    BY <1>1, <1>2, RightfulKept DEF RightsStill, rights
  <1>4. \A x \in 1 .. Len(log) : x \in 1 .. Len(log') /\ x < Len(log')
    BY <1>2
  <1>5. CASE c \notin channel.members
    <2>1. queue'[c] = queue[c]
      BY <1>5 DEF FannedOut
    <2>2. Session(c)'
      BY <1>1, <2>1, SessionKept
    <2>3. InOrder(c)'
      BY <1>1, <1>4, <2>1 DEF InOrder
    <2>4. AtTheEnd(c)' /\ Accounted(c)'
      BY <1>5 DEF AtTheEnd, Accounted
    <2> QED
      BY <1>3, <2>2, <2>3, <2>4 DEF Known
  <1>6. CASE c \in channel.members
    <2> DEFINE q == queue[c]
               r == queue'[c]
               n == Len(log)
    <2>1. r = _offer(q, n + 1)
      BY <1>6 DEF FannedOut
    <2>2. q \in Seq(Nat) /\ n + 1 \in Nat
      BY <1>2 DEF HubTypes
    <2> HIDE DEF q, r, n
    <2>3. /\ Len(q) \in Nat /\ Len(r) \in Nat \ {0} /\ r[Len(r)] = n + 1
          /\ \/ Len(r) = Len(q) + 1 /\ \A i \in 1 .. Len(q) : r[i] = q[i]
             \/ /\ Bounded /\ Len(q) = QueueMaxsize /\ Len(r) = Len(q)
                /\ \A i \in 1 .. Len(q) - 1 : r[i] = q[i + 1]
      <3> DEFINE o == n + 1
                 offered == _offer(q, o)
      <3>1. o \in Nat
        BY <2>2
      <3> HIDE DEF o
      <3>2. /\ Len(q) \in Nat /\ Len(offered) \in Nat \ {0} /\ offered[Len(offered)] = o
            /\ \/ Len(offered) = Len(q) + 1 /\ \A i \in 1 .. Len(q) : offered[i] = q[i]
               \/ /\ Bounded /\ Len(q) = QueueMaxsize /\ Len(offered) = Len(q)
                  /\ \A i \in 1 .. Len(q) - 1 : offered[i] = q[i + 1]
        BY <2>2, <3>1, OfferedIs
      <3>3. r = offered
        BY <2>1 DEF o
      <3> HIDE DEF offered
      <3> QED
        BY <3>2, <3>3 DEF o
    <2>4. \A k \in 1 .. Len(q) : q[k] = n - Len(q) + k /\ q[k] \in 1 .. n
      BY <1>1, <1>6 DEF AtTheEnd, InOrder, q, n
    <2>5. \A k \in 1 .. Len(r) : r[k] = (n + 1) - Len(r) + k
      <3> SUFFICES ASSUME NEW k \in 1 .. Len(r) PROVE r[k] = (n + 1) - Len(r) + k
        OBVIOUS
      <3>1. n \in Nat
        BY <1>2 DEF n
      <3>2. CASE k = Len(r)
        BY <2>3, <3>1, <3>2
      <3>3. CASE k # Len(r) /\ Len(r) = Len(q) + 1 /\ \A i \in 1 .. Len(q) : r[i] = q[i]
        <4>1. k \in 1 .. Len(q)
          BY <2>3, <3>3
        <4> QED
          BY <2>3, <2>4, <3>1, <3>3, <4>1
      <3>4. CASE k # Len(r) /\ Len(r) = Len(q) /\ \A i \in 1 .. Len(q) - 1 : r[i] = q[i + 1]
        <4>1. k \in 1 .. Len(q) - 1 /\ k + 1 \in 1 .. Len(q)
          BY <2>3, <3>4
        <4>2. r[k] = n - Len(q) + (k + 1)
          BY <2>4, <3>4, <4>1
        <4> QED
          BY <2>3, <3>1, <3>4, <4>2
      <3> QED
        BY <2>3, <3>2, <3>3, <3>4
    <2>6. Len(r) <= n + 1
      <3>1. n \in Nat
        BY <1>2 DEF n
      <3>2. CASE q = <<>>
        <4>1. Len(q) = 0
          BY <3>2
        <4> QED
          BY <2>3, <3>1, <4>1
      <3>3. CASE q # <<>>
        <4>1. 1 \in 1 .. Len(q)
          BY <2>2, <3>3, HeadAndTail
        <4>2. n - Len(q) + 1 >= 1
          BY <2>4, <4>1
        <4> QED
          BY <2>3, <3>1, <4>2
      <3> QED
        BY <3>2, <3>3
    <2>7. Session(c)'
      BY <1>1, <1>6 DEF Session, Phase
    <2>8. Len(log') = n + 1 /\ n \in Nat
      BY <1>2 DEF n
    <2>9. InOrder(c)'
      <3>1. taken'[c] \subseteq 1 .. n + 1 /\ \A i \in 1 .. Len(told[c]) : told[c][i] \in 1 .. n + 1
        BY <1>1, <1>4, <2>8 DEF InOrder, n
      <3>2. \A i \in 1 .. Len(r) : r[i] \in 1 .. n + 1
        BY <2>3, <2>5, <2>6, <2>8
      <3>3. \A i, j \in 1 .. Len(r) : i < j => r[i] < r[j]
        BY <2>3, <2>5, <2>8
      <3>4. ASSUME NEW i \in 1 .. Len(told[c]), NEW j \in 1 .. Len(r) PROVE told[c][i] < r[j]
        <4>1. told[c][i] \in 1 .. n /\ \A k \in 1 .. Len(q) : told[c][i] < q[k]
          BY <1>1 DEF InOrder, n, q
        <4>2. CASE j = Len(r)
          BY <2>3, <2>8, <4>1, <4>2
        <4>3. CASE j # Len(r) /\ Len(r) = Len(q) + 1 /\ \A k \in 1 .. Len(q) : r[k] = q[k]
          BY <2>3, <4>1, <4>3
        <4>4. CASE j # Len(r) /\ Len(r) = Len(q) /\ \A k \in 1 .. Len(q) - 1 : r[k] = q[k + 1]
          <5>1. j \in 1 .. Len(q) - 1 /\ j + 1 \in 1 .. Len(q)
            BY <2>3, <4>4
          <5> QED
            BY <4>1, <4>4, <5>1
        <4> QED
          BY <2>3, <4>2, <4>3, <4>4
      <3> QED
        BY <1>1, <2>8, <3>1, <3>2, <3>3, <3>4 DEF InOrder, r
    <2>10. AtTheEnd(c)'
      BY <2>5, <2>8 DEF AtTheEnd, r
    <2>11. Accounted(c)'
      <3> SUFFICES ASSUME NEW i \in joined[c] + 1 .. n + 1
                   PROVE  \/ \E k \in 1 .. Len(r) : r[k] = i
                          \/ i \in taken[c]
                          \/ Bounded /\ i + QueueMaxsize <= n + 1
        BY <2>8 DEF Accounted, Bounded, r
      <3>1. joined[c] \in Nat /\ QueueMaxsize \in Nat
        BY RealtimeAssumption DEF HubTypes
      <3>2. CASE i = n + 1
        <4>1. Len(r) \in 1 .. Len(r)
          BY <2>3
        <4> QED
          BY <2>3, <3>2, <4>1
      <3>3. CASE i # n + 1
        <4>1. i \in joined[c] + 1 .. n
          BY <2>8, <3>1, <3>3
        <4>2. \/ \E k \in 1 .. Len(q) : q[k] = i
              \/ i \in taken[c]
              \/ Bounded /\ i + QueueMaxsize <= n
          BY <1>1, <1>6, <4>1 DEF Accounted, n, q
        <4>3. ASSUME NEW k \in 1 .. Len(q), q[k] = i
              PROVE  \/ \E m \in 1 .. Len(r) : r[m] = i
                     \/ Bounded /\ i + QueueMaxsize <= n + 1
          <5>1. CASE Len(r) = Len(q) + 1 /\ \A x \in 1 .. Len(q) : r[x] = q[x]
            BY <2>3, <4>3, <5>1
          <5>2. CASE Bounded /\ Len(q) = QueueMaxsize /\ Len(r) = Len(q)
                     /\ \A x \in 1 .. Len(q) - 1 : r[x] = q[x + 1]
            <6>1. CASE k = 1
              BY <2>3, <2>4, <2>8, <4>3, <5>2, <6>1
            <6>2. CASE k # 1
              <7>1. k - 1 \in 1 .. Len(q) - 1 /\ (k - 1) + 1 = k /\ k - 1 \in 1 .. Len(r)
                BY <2>3, <5>2, <6>2
              <7>2. r[k - 1] = i
                BY <4>3, <5>2, <7>1
              <7> QED
                BY <7>1, <7>2
            <6> QED
              BY <6>1, <6>2
          <5> QED
            BY <2>3, <5>1, <5>2
        <4>4. ASSUME i + QueueMaxsize <= n PROVE i + QueueMaxsize <= n + 1
          BY <2>8, <3>1, <4>1, <4>4
        <4> QED
          BY <4>2, <4>3, <4>4
      <3> QED
        BY <3>2, <3>3
    <2> QED
      BY <1>3, <2>7, <2>9, <2>10, <2>11 DEF Known
  <1> QED
    BY <1>5, <1>6
-----------------------------------------------------------------------------
(* All clients *)

(* A step of one client does not disturb another. *)
LEMMA OthersUndisturbed ==
  ASSUME HubTypes, ChannelInv, ChannelInv', NEW a \in Client, NEW c \in Client, a # c,
         channel'.redis = channel.redis,
         ClientStep(a) \/ PrincipalStep(a) \/ \E posture : Connect(a, posture)
  PROVE  Undisturbed(c)
  <1>1. ASSUME Discarded(a) PROVE c \in channel'.members => c \in channel.members
    BY <1>1 DEF Discarded, ChannelInv
  <1>2. CASE StartReader(a)
    BY <1>2 DEF StartReader, Joins, HubTypes, ChannelInv, Undisturbed, RightsStill, rights
  <1>3. CASE Take(a)
    <2>1. Discarded(a) \/ UNCHANGED channel
      BY <1>3 DEF Take
    <2>2. conn'[c] = conn[c]
      BY <1>3 DEF Take, HubTypes
    <2>3. told'[c] = told[c] /\ queue'[c] = queue[c] /\ taken'[c] = taken[c]
      BY <1>3 DEF Take, HubTypes
    <2> QED
      BY <1>1, <1>3, <2>1, <2>2, <2>3 DEF Take, Undisturbed, RightsStill, rights
  <1>4. CASE EndReader(a)
    BY <1>4 DEF EndReader, HubTypes, Undisturbed, RightsStill, rights
  <1>5. CASE AskSubscribe(a) \/ Unsubscribe(a)
    <2>1. UNCHANGED <<log, channel, queue, told, joined, taken, rights>>
      BY <1>5 DEF AskSubscribe, Unsubscribe, Receive
    <2>2. conn'[c] = conn[c] /\ subs'[c] = subs[c]
      BY <1>5 DEF AskSubscribe, Unsubscribe, Subscribed, HubTypes
    <2> QED
      BY <2>1, <2>2 DEF Undisturbed, RightsStill, rights
  <1>6. CASE Hangup(a)
    BY <1>6 DEF Hangup, HubTypes, Undisturbed, RightsStill, rights
  <1>7. CASE Disconnect(a)
    BY <1>1, <1>7 DEF Disconnect, HubTypes, Undisturbed, RightsStill, rights
  <1>8. CASE \E posture : Connect(a, posture)
    BY <1>8 DEF Connect, HubTypes, Undisturbed, RightsStill, rights
  <1>9. CASE Looks(a)
    <2>1. /\ UNCHANGED hubVars /\ resolver' = resolver /\ Remembers(a)
          /\ Subscribe(a) \/ UNCHANGED <<conn, subs>>
      BY <1>9, RightsAlone
    <2>2. conn'[c] = conn[c] /\ subs'[c] = subs[c]
      BY <2>1 DEF Subscribe, Subscribed, HubTypes
    <2>3. recent'[c] = recent[c]
      BY <2>1 DEF Remembers, HubTypes, RightsTypes
    <2>4. grants'[c] = grants[c]
      <3>1. CASE ChangeGrants(a)
        BY <3>1 DEF ChangeGrants, HubTypes, RightsTypes
      <3>2. CASE grants' = grants
        BY <3>2
      <3> QED
        BY <1>9, <3>1, <3>2, RightsAlone
    <2>5. cache'[c] = cache[c] /\ fetch'[c] = fetch[c]
      <3>1. ASSUME NEW l, NEW path, ReadGroups(a, l, path)
            PROVE  cache'[c] = cache[c] /\ fetch'[c] = fetch[c]
        BY <3>1 DEF ReadGroups, HubTypes, RightsTypes
      <3>2. ASSUME NEW l, NEW f, Answers(a, l, f) PROVE cache'[c] = cache[c] /\ fetch'[c] = fetch[c]
        BY <3>2 DEF Answers, HubTypes, RightsTypes
      <3>3. CASE FetchPolicies(a)
        BY <3>3 DEF FetchPolicies, HubTypes, RightsTypes
      <3>4. CASE Drop(a)
        BY <3>4 DEF Drop, HubTypes, RightsTypes
      <3>5. CASE ChangeGrants(a)
        BY <3>5 DEF ChangeGrants
      <3> QED
        BY <1>9, <3>1, <3>2, <3>3, <3>4, <3>5 DEF Looks, FetchGroups, RequestResolves, Subscribe,
          RequestResolved
    <2> QED
      BY <2>1, <2>2, <2>3, <2>4, <2>5 DEF Undisturbed, RightsStill, hubVars
  <1> QED
    BY <1>2, <1>3, <1>4, <1>5, <1>6, <1>7, <1>8, <1>9 DEF ClientStep, PrincipalStep, Looks

HubInv == HubTypes /\ ChannelInv /\ DeliveriesInv /\ StreamInv

LEMMA StreamStep ==
  ASSUME HubInv, StreamMove
  PROVE  HubInv'
  <1>1. HubTypes /\ ChannelInv /\ DeliveriesInv /\ StreamInv
    BY DEF HubInv
  <1>2. HubTypes' /\ DeliveriesInv' /\ ChannelInv' /\ channel'.redis = channel.redis
    BY <1>1, HubTypesStep, DeliveriesStep, ChannelSteps
  <1>3. ASSUME NEW c \in Client PROVE Known(c)'
    <2>1. Known(c)
      BY <1>1 DEF StreamInv
    <2>2. ASSUME Undisturbed(c) PROVE Known(c)'
      BY <1>1, <1>2, <2>1, <2>2, KnownKept
    <2>3. CASE RunsEnd \/ OpenChannel \/ CloseChannel \/ Fired
      <3>1. UNCHANGED <<log, queue, conn, subs, told, joined, taken, rights>>
        BY <2>3 DEF RunsEnd, OpenChannel, CloseChannel, Fired, Fire, clientVars, rights
      <3>2. c \in channel'.members => c \in channel.members
        BY <1>1, <2>3 DEF RunsEnd, OpenChannel, CloseChannel, Fired, Fire, ChannelInv
      <3> QED
        BY <1>2, <2>2, <3>1, <3>2 DEF Undisturbed, RightsStill, rights
    <2>4. ASSUME NEW a \in Client, NEW posture, Connect(a, posture) PROVE Known(c)'
      <3>1. CASE a = c
        BY <1>1, <1>2, <2>1, <2>4, <3>1, ConnectKnown
      <3>2. CASE a # c
        <4>1. Undisturbed(c)
          BY <1>1, <1>2, <2>4, <3>2, OthersUndisturbed
        <4> QED
          BY <2>2, <4>1
      <3> QED
        BY <3>1, <3>2
    <2>5. ASSUME NEW a \in Client, ClientStep(a) PROVE Known(c)'
      <3>1. CASE a = c
        <4>1. ClientStep(c)
          BY <2>5, <3>1
        <4>2. CASE StartReader(c)
          BY <1>1, <1>2, <2>1, <4>2, StartReaderKnown
        <4>3. CASE Take(c)
          BY <1>1, <1>2, <2>1, <4>3, TakeKnown
        <4>4. CASE EndReader(c)
          BY <1>1, <1>2, <2>1, <4>4, EndReaderKnown
        <4>5. CASE Disconnect(c)
          BY <1>1, <1>2, <2>1, <4>5, DisconnectKnown
        <4>6. CASE AskSubscribe(c) \/ Unsubscribe(c) \/ Hangup(c)
          BY <1>1, <1>2, <2>1, <4>6, MessageKnown
        <4>7. CASE Looks(c)
          BY <1>1, <1>2, <2>1, <4>7, LooksKnown
        <4> QED
          BY <4>1, <4>2, <4>3, <4>4, <4>5, <4>6, <4>7 DEF ClientStep, Looks
      <3>2. CASE a # c
        <4>1. Undisturbed(c)
          BY <1>1, <1>2, <2>5, <3>2, OthersUndisturbed
        <4> QED
          BY <2>2, <4>1
      <3> QED
        BY <3>1, <3>2
    <2>6. ASSUME NEW d \in deliveries, DeliveryStep(d) PROVE Known(c)'
      <3>1. CASE Post(d)
        <4>1. Undisturbed(c)
          BY <3>1 DEF Post, Undisturbed, RightsStill, clientVars, rights
        <4> QED
          BY <2>2, <4>1
      <3>2. CASE Publish(d) /\ channel.redis /\ channel.closed
        <4>1. Undisturbed(c)
          BY <3>2 DEF Publish, Undisturbed, RightsStill, clientVars, rights
        <4> QED
          BY <2>2, <4>1
      <3>3. CASE Publish(d) /\ ~(channel.redis /\ channel.closed)
        <4>1. d.events # <<>> /\ d.events \in Seq(Event)
          BY <1>1, <3>3 DEF Publish, DeliveriesInv
        <4>2. Head(d.events) \in Event
          BY <4>1, HeadAndTail
        <4>3. log' = Append(log, Head(d.events)) /\ queue' = FannedOut(Len(log) + 1)
          BY <3>3 DEF Publish
        <4>4. UNCHANGED <<channel, conn, subs, told, joined, taken, rights>>
          BY <3>3 DEF Publish, clientVars, rights
        <4> QED
          BY <1>1, <1>2, <2>1, <4>2, <4>3, <4>4, PublishKnown
      <3> QED
        BY <2>6, <3>1, <3>2, <3>3 DEF DeliveryStep
    <2>7. ASSUME NEW a \in Client, PrincipalStep(a) PROVE Known(c)'
      <3>1. CASE a = c
        <4>1. Looks(c)
          BY <2>7, <3>1 DEF PrincipalStep, Looks
        <4> QED
          BY <1>1, <1>2, <2>1, <4>1, LooksKnown
      <3>2. CASE a # c
        <4>1. Undisturbed(c)
          BY <1>1, <1>2, <2>7, <3>2, OthersUndisturbed
        <4> QED
          BY <2>2, <4>1
      <3> QED
        BY <3>1, <3>2
    <2> QED
      BY <2>3, <2>4, <2>5, <2>6, <2>7 DEF StreamMove, RealtimeNext
  <1> QED
    BY <1>2, <1>3 DEF HubInv, StreamInv

LEMMA StreamStart ==
  ASSUME NEW redis \in BOOLEAN, NEW r \in Resolver, RealtimeInit(redis, r)
  PROVE  HubInv
  <1>1. /\ log = <<>> /\ deliveries = {} /\ channel = [redis |-> redis, closed |-> redis, members |-> {}]
        /\ queue = [c \in Client |-> <<>>] /\ told = [c \in Client |-> <<>>]
        /\ taken = [c \in Client |-> {}] /\ joined = [c \in Client |-> 0]
        /\ conn = [c \in Client |-> Away] /\ subs = [c \in Client |-> NoSubscriptions]
        /\ resolver = r /\ grants \in [Client -> GrantsUnder(r)]
        /\ cache = [c \in Client |-> [p \in Path |-> None]]
        /\ fetch = [c \in Client |-> [l \in Lookups |-> None]]
        /\ recent = [c \in Client |-> {grants[c]}]
    BY DEF RealtimeInit, NewChannel
  <1>2. Away \in Connection /\ NoSubscriptions \in [Path -> Filter]
    BY ConstantFilters DEF Away, Connection, NoSubscriptions
  <1>3. <<>> \in Seq(Nat) /\ <<>> \in Seq(Event) /\ Len(<<>>) = 0
    OBVIOUS
  <1>4. HubTypes
    <2>1. RightsTypes
      BY <1>1 DEF RightsTypes
    <2> QED
      BY <1>1, <1>2, <1>3, <2>1, ConstantFilters DEF HubTypes
  <1>5. ChannelInv /\ DeliveriesInv
    BY <1>1 DEF ChannelInv, DeliveriesInv
  <1>6. ASSUME NEW c \in Client PROVE Known(c)
    <2>1. /\ queue[c] = <<>> /\ told[c] = <<>> /\ taken[c] = {}
          /\ subs[c] = NoSubscriptions /\ c \notin channel.members
          /\ conn[c] = [phase |-> "away", principal |-> Anonymous, reader |-> "off", asks |-> None]
      BY <1>1 DEF Away
    <2>2. (\A i \in 1 .. Len(queue[c]) : FALSE) /\ (\A i \in 1 .. Len(told[c]) : FALSE)
      BY <2>1, <1>3
    <2>3. Session(c)
      BY <2>1 DEF Session, Phase
    <2>4. InOrder(c)
      BY <2>1, <2>2 DEF InOrder
    <2>5. AtTheEnd(c) /\ Accounted(c)
      BY <2>1 DEF AtTheEnd, Accounted
    <2>6. \A p \in Path : \A x \in subs[c][p] : FALSE
      BY <2>1 DEF NoSubscriptions, NoMatchFilter
    <2>7. Granted(c)
      BY <2>1, <2>2, <2>6 DEF Granted, Phase
    <2>8. Found(c) /\ Awaited(c)
      BY <1>1, <2>1, RealtimeAssumption DEF Found, Awaited
    <2> QED
      BY <2>3, <2>4, <2>5, <2>7, <2>8 DEF Known, Rightful
  <1> QED
    BY <1>4, <1>5, <1>6 DEF HubInv, StreamInv

-----------------------------------------------------------------------------
(* What the invariant says of the stream *)

LEMMA TheEnd ==
  ASSUME NEW n \in Nat, NEW q \in Seq(Nat),
         \A k \in 1 .. Len(q) : q[k] = n - Len(q) + k /\ q[k] \in 1 .. n
  PROVE  q = SubSeq([i \in 1 .. n |-> i], n - Len(q) + 1, n)
  <1> DEFINE s == [i \in 1 .. n |-> i]
             m == n - Len(q) + 1
  <1>1. s \in Seq(Nat) /\ Len(s) = n
    <2>1. s \in [1 .. n -> Nat]
      OBVIOUS
    <2> QED
      BY <2>1, SeqDef, LenProperties, IsASeq
  <1>2. Len(q) \in Nat /\ Len(q) <= n
    <2>1. Len(q) \in Nat
      BY LenProperties
    <2>2. CASE Len(q) = 0
      BY <2>2
    <2>3. CASE Len(q) # 0
      <3>1. 1 \in 1 .. Len(q)
        BY <2>1, <2>3
      <3>2. n - Len(q) + 1 >= 1
        BY <3>1
      <3> QED
        BY <2>1, <3>2
    <2> QED
      BY <2>2, <2>3
  <1>3. m \in Int /\ m >= 1 /\ \A i \in m .. n : s[i] \in Nat
    BY <1>2
  <1> DEFINE r == SubSeq(s, m, n)
  <1>4. \A i \in 1 .. n : s[i] = i
    OBVIOUS
  <1>5. m = n - Len(q) + 1
    OBVIOUS
  <1> HIDE DEF s, m
  <1>6. /\ r \in Seq(Nat) /\ Len(r) = IF m <= n THEN n - m + 1 ELSE 0
        /\ \A i \in 1 .. n - m + 1 : r[i] = s[m + i - 1]
    BY <1>3, SubSeqProperties
  <1>7. Len(r) = Len(q)
    BY <1>2, <1>5, <1>6
  <1>8. \A k \in 1 .. Len(q) : q[k] = r[k]
    <2> SUFFICES ASSUME NEW k \in 1 .. Len(q) PROVE q[k] = r[k]
      OBVIOUS
    <2>1. k \in 1 .. n - m + 1 /\ m + k - 1 = n - Len(q) + k
      BY <1>2, <1>5
    <2>2. r[k] = s[n - Len(q) + k] /\ n - Len(q) + k \in 1 .. n
      BY <1>6, <2>1
    <2> QED
      BY <1>4, <2>2
  <1>9. q = r
    BY <1>6, <1>7, <1>8, SeqEqual
  <1> QED
    BY <1>9 DEF s, m

LEMMA StreamIsFaithful ==
  ASSUME HubInv
  PROVE  StreamFaithful
  <1>1. HubTypes /\ StreamInv /\ ChannelInv
    BY DEF HubInv
  <1>2. NothingElseLost
    <2> SUFFICES ASSUME NEW c \in channel.members
                 PROVE  /\ queue[c] = SubSeq([i \in DOMAIN log |-> i], Len(log) - Len(queue[c]) + 1, Len(log))
                        /\ \A i \in joined[c] + 1 .. Len(log) :
                             \/ i \in Positions(c) \cup taken[c]
                             \/ Bounded /\ i + QueueMaxsize <= Len(log)
      BY DEF NothingElseLost
    <2>1. c \in Client
      BY <1>1 DEF ChannelInv
    <2>2. AtTheEnd(c) /\ Accounted(c) /\ InOrder(c)
      BY <1>1, <2>1 DEF StreamInv, Known
    <2>3. queue[c] \in Seq(Nat) /\ Len(log) \in Nat /\ DOMAIN log = 1 .. Len(log)
          /\ DOMAIN queue[c] = 1 .. Len(queue[c])
      BY <1>1, <2>1, LenProperties DEF HubTypes
    <2>4. \A k \in 1 .. Len(queue[c]) :
            queue[c][k] = Len(log) - Len(queue[c]) + k /\ queue[c][k] \in 1 .. Len(log)
      BY <2>2 DEF AtTheEnd, InOrder
    <2>5. queue[c] = SubSeq([i \in 1 .. Len(log) |-> i], Len(log) - Len(queue[c]) + 1, Len(log))
      BY <2>3, <2>4, TheEnd
    <2>6. queue[c] = SubSeq([i \in DOMAIN log |-> i], Len(log) - Len(queue[c]) + 1, Len(log))
      BY <2>3, <2>5
    <2>7. \A i \in joined[c] + 1 .. Len(log) :
            \/ i \in Positions(c) \cup taken[c]
            \/ Bounded /\ i + QueueMaxsize <= Len(log)
      BY <2>2, <2>3 DEF Accounted, Positions
    <2> QED
      BY <2>6, <2>7
  <1>3. SentInOrder
    <2> SUFFICES ASSUME NEW c \in Client PROVE \A i, j \in DOMAIN told[c] : i < j => told[c][i] < told[c][j]
      BY DEF SentInOrder
    <2>1. DOMAIN told[c] = 1 .. Len(told[c])
      BY <1>1, LenProperties DEF HubTypes
    <2>2. InOrder(c)
      BY <1>1 DEF StreamInv, Known
    <2> QED
      BY <2>1, <2>2 DEF InOrder
  <1>4. SentWithinGrants
    <2> SUFFICES ASSUME NEW c \in Client, NEW i \in DOMAIN told[c]
                 PROVE  \E f \in MayRead(c, log[told[c][i]].path) : Payload(log[told[c][i]]) \in f
      BY DEF SentWithinGrants
    <2>1. i \in 1 .. Len(told[c])
      BY <1>1, LenProperties DEF HubTypes
    <2> QED
      BY <1>1, <2>1 DEF StreamInv, Known, Rightful, Granted
  <1> QED
    BY <1>2, <1>3, <1>4 DEF StreamFaithful
-----------------------------------------------------------------------------
(* The stream under the life of the application *)

LEMMA StreamMoves ==
  ASSUME LifeInv, [Next]_vars
  PROVE  StreamMove
  <1>1. ASSUME UNCHANGED realtimeVars PROVE StreamMove
    BY <1>1 DEF realtimeVars, clientVars, rights, StreamMove, RunsEnd
  <1>2. CASE UNCHANGED vars
    BY <1>1, <1>2 DEF vars
  <1>3. CASE Start \/ FailEnter \/ Serve \/ EndTarget \/ Stop
    BY <1>1, <1>3 DEF Start, FailEnter, Serve, EndTarget, Stop
  <1>4. CASE Enter
    <2>1. OpenChannel \/ UNCHANGED realtimeVars
      BY <1>4 DEF Enter
    <2> QED
      BY <1>1, <2>1 DEF StreamMove
  <1>5. CASE Exit
    <2>1. \E raises : Effect(Last(opened), raises)
      BY <1>5 DEF Exit
    <2>2. CloseChannel \/ RunsEnd \/ UNCHANGED realtimeVars
      BY <2>1 DEF Effect, aclose, RunsEnd, clientVars, rights
    <2> QED
      BY <1>1, <2>2 DEF StreamMove
  <1>6. CASE Off
    <2>1. RunsEnd
      BY <1>6 DEF Off, RunsEnd, clientVars, rights
    <2> QED
      BY <2>1 DEF StreamMove
  <1>7. /\ manifest.background \in BOOLEAN /\ manifest.hooked \in BOOLEAN
        /\ manifest.posture \in {"open", "optional", "required"}
    BY ManifestAssumption DEF LifeInv, PartsInv
  <1>8. CASE Write
    <2>1. PICK by \in Writing, kind \in Kinds, p \in Path, class \in Class, found \in BOOLEAN :
            Fire(by, ~manifest.background,
                 IF Streams THEN Events(kind, p, class, found) ELSE <<>>, manifest.hooked)
      BY <1>8 DEF Write
    <2>2. (IF Streams THEN Events(kind, p, class, found) ELSE <<>>) \in Seq(Event)
      BY EventsAre
    <2> DEFINE inline == ~manifest.background
               events == IF Streams THEN Events(kind, p, class, found) ELSE <<>>
    <2>3. inline \in BOOLEAN
      OBVIOUS
    <2>4. Fire(by, inline, events, manifest.hooked) /\ events \in Seq(Event)
      BY <2>1, <2>2
    <2> HIDE DEF inline, events
    <2>5. Fired
      <3> DEFINE hooked == manifest.hooked
      <3>1. hooked \in BOOLEAN /\ Fire(by, inline, events, hooked)
        BY <1>7, <2>4
      <3> HIDE DEF hooked
      <3> QED
        BY <2>3, <2>4, <3>1 DEF Fired
    <2> QED
      BY <2>5 DEF StreamMove
  <1>9. CASE ClientConnects
    BY <1>7, <1>9 DEF ClientConnects, StreamMove
  <1>10. CASE PrincipalsChange
    BY <1>10 DEF PrincipalsChange, StreamMove
  <1>11. CASE AskSession \/ (SchedulerNext /\ UNCHANGED <<realtimeVars, sessionVars, lifeVars>>)
    BY <1>1, <1>11 DEF AskSession
  <1>12. CASE RealtimeNext
    BY <1>12 DEF StreamMove
  <1> QED
    BY <1>2, <1>3, <1>4, <1>5, <1>6, <1>8, <1>9, <1>10, <1>11, <1>12 DEF Next, Lifecycle

-----------------------------------------------------------------------------
(* What a part started and what it leaves *)

(* Somebody who can wait for triggers now. *)
Holds(writer) ==
  \/ writer \in runs
  \/ writer = Request /\ phase = "on" /\ mode = "server"
  \/ writer = Command /\ mode = "command" /\ phase \notin {"rejected", "off"}

OwnedInv ==
  /\ \A d \in deliveries : d.inline => Holds(d.by)
  /\ \A d \in deliveries : d.by = Request =>
       phase \in {"on", "exiting", "broken"} /\ (IsOpen("triggered") \/ IsOpen("builder"))
  /\ undisposed # {} => phase = "broken" \/ (mode = "command" /\ phase # "off")

(* No run of the scheduler is a request or the command. *)
LEMMA WritersDiffer ==
  ASSUME LifeInv
  PROVE  Request # Command /\ Request \notin runs /\ Command \notin runs
  <1>1. \A r \in runs : r.at \in Nat
    BY DEF LifeInv, SchedulerInv
  <1>2. Request.at = -1 /\ Command.at = -2
    BY DEF Request, Command
  <1>3. -1 \notin Nat /\ -2 \notin Nat /\ -1 # -2
    OBVIOUS
  <1> QED
    BY <1>1, <1>2, <1>3

(* With nothing open no loop, run or engine is left. *)
LEMMA NothingOpen ==
  ASSUME LifeInv, opened = <<>>
  PROVE  runs = {} /\ sessions.engines = {} /\ \A part : ~IsOpen(part)
  <1>1. \A part : ~IsOpen(part)
    BY DEF IsOpen, ToSet
  <1> QED
    BY <1>1 DEF LifeInv, SchedulerInv, SessionsInv, PartsInv

LEMMA ServedParts ==
  ASSUME LifeInv, phase = "on", mode = "server", Declares("triggered") \/ Declares("builder")
  PROVE  IsOpen("triggered") \/ IsOpen("builder")
  BY DEF LifeInv, PartsInv, Sequence, Declares, IsOpen

(* Runs of triggers end, and whoever waits goes on waiting. *)
LEMMA OwnedKept ==
  ASSUME OwnedInv, deliveries' \subseteq deliveries, UNCHANGED <<phase, mode, opened, undisposed>>,
         runs \subseteq runs'
  PROVE  OwnedInv'
  BY DEF OwnedInv, Holds, IsOpen

LEMMA ExitOwned ==
  ASSUME LifeInv, LifeInv', OwnedInv, Exit
  PROVE  OwnedInv'
  <1> DEFINE part == Last(opened)
  <1>1. PICK raises \in MayRaise(part) :
          Effect(part, raises) /\ phase' = IF raises /\ mode = "server" THEN "broken" ELSE "exiting"
    BY DEF Exit
  <1>2. phase = "exiting" /\ mode' = mode
    BY DEF Exit
  <1>3. \A q \in Part \ {part} : IsOpen(q) => IsOpen(q)'
    BY ExitCloses
  <1>4. MayRaise(part) \subseteq BOOLEAN /\ mode \in {"server", "command"}
    BY DEF MayRaise, LifeInv, PartsInv
  <1>5. Request # Command /\ Request \notin runs /\ Command \notin runs
    BY WritersDiffer
  <1> HIDE DEF part
  <1>6. deliveries' \subseteq deliveries
    BY <1>1 DEF Effect, CloseChannel, aclose, realtimeVars
  <1>7. \A d \in deliveries' : d.inline => Holds(d.by)'
    <2> SUFFICES ASSUME NEW d \in deliveries', d.inline PROVE Holds(d.by)'
      OBVIOUS
    <2>1. d.by \in runs \/ (d.by = Command /\ mode = "command")
      BY <1>2, <1>6 DEF OwnedInv, Holds
    <2>2. CASE d.by = Command /\ mode = "command"
      <3>1. phase' \notin {"rejected", "off"}
        BY <1>1
      <3> QED
        BY <1>2, <2>2, <3>1 DEF Holds, Command
    <2>3. CASE d.by \in runs
      <3>1. CASE part = "scheduler"
        <4>1. deliveries' = {x \in deliveries : ~(x.inline /\ x.by \in runs)}
          BY <1>1, <3>1 DEF Effect
        <4> QED
          BY <2>3, <4>1
      <3>2. CASE part # "scheduler"
        <4>1. runs' = runs
          BY <1>1, <3>2 DEF Effect, schedulerVars
        <4> QED
          BY <2>3, <4>1 DEF Holds
      <3> QED
        BY <3>1, <3>2
    <2> QED
      BY <2>1, <2>2, <2>3
  <1>8. \A d \in deliveries' : d.by = Request =>
          phase' \in {"on", "exiting", "broken"} /\ (IsOpen("triggered")' \/ IsOpen("builder")')
    <2> SUFFICES ASSUME NEW d \in deliveries', d.by = Request
                 PROVE  IsOpen("triggered")' \/ IsOpen("builder")'
      BY <1>1
    <2>1. IsOpen("triggered") \/ IsOpen("builder")
      BY <1>6 DEF OwnedInv
    <2>2. "triggered" \in Part /\ "builder" \in Part
      BY DEF Part
    <2>3. CASE part \in {"triggered", "builder"}
      <3>1. d.inline
        BY <1>1, <2>3 DEF Effect, aclose
      <3> QED
        BY <1>2, <1>5, <1>6, <3>1 DEF OwnedInv, Holds
    <2>4. CASE part \notin {"triggered", "builder"}
      BY <1>3, <2>1, <2>2, <2>4
    <2> QED
      BY <2>3, <2>4
  <1>9. undisposed' # {} => phase' = "broken" \/ (mode' = "command" /\ phase' # "off")
    <2> SUFFICES ASSUME undisposed' # {}, mode # "command" PROVE phase' = "broken"
      BY <1>1, <1>2
    <2>1. undisposed = {} /\ mode = "server"
      BY <1>2, <1>4 DEF OwnedInv
    <2>2. part = "database" /\ ExitSessions(raises)
      BY <1>1, <2>1 DEF Effect, sessionVars
    <2>3. raises
      BY <1>4, <2>1, <2>2 DEF ExitSessions
    <2> QED
      BY <1>1, <2>1, <2>3
  <1> QED
    BY <1>7, <1>8, <1>9 DEF OwnedInv, Request

LEMMA WriteOwned ==
  ASSUME LifeInv, HubInv, OwnedInv, Write
  PROVE  OwnedInv'
  <1>1. PICK by \in Writing, kind \in Kinds, p \in Path, class \in Class, found \in BOOLEAN :
          Fire(by, ~manifest.background,
               IF Streams THEN Events(kind, p, class, found) ELSE <<>>, manifest.hooked)
    BY DEF Write
  <1>2. /\ UNCHANGED <<runs, phase, mode, opened, undisposed>>
        /\ Declares("triggered") \/ Declares("builder")
    BY DEF Write, schedulerVars, sessionVars, lifeVars
  <1>3. (IF Streams THEN Events(kind, p, class, found) ELSE <<>>) \in Seq(Event)
    BY EventsAre
  <1>4. \A x \in deliveries' : x \in deliveries \/ x.by = by
    <2> DEFINE inline == ~manifest.background
               events == IF Streams THEN Events(kind, p, class, found) ELSE <<>>
    <2>1. inline \in BOOLEAN
      OBVIOUS
    <2>2. DeliveriesInv
      BY DEF HubInv
    <2>3. Fire(by, inline, events, manifest.hooked) /\ events \in Seq(Event)
      BY <1>1, <1>3
    <2> HIDE DEF inline, events
    <2> QED
      BY <2>1, <2>2, <2>3, FiredKeeps
  <1>5. Request # Command /\ Request \notin runs
    BY WritersDiffer
  <1>6. Holds(by)
    <2>1. targets # <<>> => phase = "on" /\ mode = "command"
      BY DEF LifeInv, PartsInv
    <2> QED
      BY <2>1 DEF Writing, Holds
  <1>7. by = Request => phase = "on" /\ (IsOpen("triggered") \/ IsOpen("builder"))
    BY <1>2, <1>5, ServedParts DEF Writing
  <1>8. \A w : Holds(w) => Holds(w)'
    BY <1>2 DEF Holds
  <1>9. \A part : IsOpen(part)' <=> IsOpen(part)
    BY <1>2 DEF IsOpen
  <1> QED
    BY <1>2, <1>4, <1>6, <1>7, <1>8, <1>9 DEF OwnedInv, Request

LEMMA OwnedStep ==
  ASSUME LifeInv, LifeInv', HubInv, OwnedInv, [Next]_vars
  PROVE  OwnedInv'
  <1>1. mode \in {"server", "command"} /\ phase \in Phases
    BY DEF LifeInv, PartsInv
  <1>2. Request # Command /\ Request \notin runs /\ Command \notin runs
    BY WritersDiffer
  <1>3. ASSUME phase \notin {"on", "exiting", "broken"} PROVE \A d \in deliveries : d.by # Request
    BY <1>3 DEF OwnedInv
  (* No request has been served yet. *)
  <1>4. ASSUME phase \in {"off", "entering"}, UNCHANGED <<deliveries, runs, undisposed>>,
               phase' \notin {"rejected", "off"}, phase = "entering" => mode' = mode
        PROVE  OwnedInv'
    <2>1. \A d \in deliveries : d.by # Request
      BY <1>3, <1>4
    <2>2. phase = "off" => runs = {}
      BY NothingOpen DEF LifeInv, PartsInv
    <2>3. \A d \in deliveries : d.inline => d.by \in runs \/ (d.by = Command /\ mode' = "command")
      BY <1>4, <2>1, <2>2 DEF OwnedInv, Holds
    <2>4. \A d \in deliveries : d.inline => Holds(d.by)'
      BY <1>4, <2>3 DEF Holds, Command
    <2>5. undisposed # {} => phase = "entering" /\ mode' = "command"
      BY <1>4 DEF OwnedInv
    <2> QED
      BY <1>4, <2>1, <2>4, <2>5 DEF OwnedInv, Request
  <1>5. CASE UNCHANGED vars
    BY <1>5, OwnedKept DEF vars, realtimeVars, sessionVars, lifeVars, schedulerVars
  <1>6. CASE Start
    <2>1. UNCHANGED <<deliveries, runs, undisposed>> /\ phase = "off" /\ phase' \in {"broken", "entering"}
      BY <1>6 DEF Start, realtimeVars, sessionVars, schedulerVars
    <2> QED
      BY <1>4, <2>1
  <1>7. CASE Enter
    <2>1. /\ UNCHANGED <<deliveries, runs, undisposed, phase, mode>> /\ phase = "entering"
      BY <1>7 DEF Enter, realtimeVars, sessionVars, schedulerVars, EnterScheduler, EnterSessions, OpenChannel
    <2> QED
      BY <1>4, <2>1
  <1>8. CASE FailEnter
    <2>1. /\ UNCHANGED <<deliveries, runs, undisposed, mode>> /\ phase = "entering"
          /\ phase' \in {"broken", "exiting"}
      BY <1>8 DEF FailEnter, realtimeVars, sessionVars, schedulerVars
    <2> QED
      BY <1>4, <2>1
  <1>9. CASE Serve
    <2>1. /\ UNCHANGED <<deliveries, runs, undisposed, mode>> /\ phase = "entering" /\ phase' = "on"
      BY <1>9 DEF Serve, realtimeVars, sessionVars, schedulerVars
    <2> QED
      BY <1>4, <2>1
  <1>10. CASE EndTarget
    BY <1>10, OwnedKept DEF EndTarget, realtimeVars, sessionVars, schedulerVars
  <1>11. CASE Stop
    <2>1. /\ UNCHANGED <<deliveries, runs, undisposed, mode, opened>> /\ phase = "on" /\ phase' = "exiting"
          /\ ~Awaits(Request)
      BY <1>11 DEF Stop, realtimeVars, sessionVars, schedulerVars
    <2>2. \A d \in deliveries : d.inline => Holds(d.by)'
      BY <2>1 DEF OwnedInv, Holds, Awaits, Command
    <2>3. \A part : IsOpen(part)' <=> IsOpen(part)
      BY <2>1 DEF IsOpen
    <2> QED
      BY <2>1, <2>2, <2>3 DEF OwnedInv, Request
  <1>12. CASE Exit
    BY <1>12, ExitOwned
  <1>13. CASE Off
    <2>1. /\ phase = "exiting" /\ phase' = "off" /\ opened = <<>> /\ UNCHANGED <<runs, mode, opened>>
          /\ IF mode = "command" THEN deliveries' = {} /\ undisposed' = {}
             ELSE UNCHANGED <<deliveries, undisposed>>
      BY <1>13 DEF Off, schedulerVars
    <2>2. runs = {} /\ \A part : ~IsOpen(part)
      BY <2>1, NothingOpen
    <2>3. mode = "server" => undisposed = {} /\ \A d \in deliveries : ~d.inline /\ d.by # Request
      BY <2>1, <2>2 DEF OwnedInv, Holds
    <2>4. undisposed' = {} /\ \A d \in deliveries' : ~d.inline /\ d.by # Request
      BY <1>1, <2>1, <2>3
    <2> QED
      BY <2>4 DEF OwnedInv, Request
  <1>14. CASE Write
    BY <1>14, WriteOwned
  <1>15. CASE AskSession
    <2>1. \E name : get_session_maker(name)
      BY <1>15 DEF AskSession
    <2>2. UNCHANGED <<undisposed, deliveries, phase, mode, opened, runs>>
      BY <1>15, <2>1 DEF AskSession, get_session_maker, realtimeVars, lifeVars, schedulerVars
    <2> QED
      BY <2>2, OwnedKept
  <1>16. CASE ClientConnects \/ PrincipalsChange
    <2>1. UNCHANGED <<undisposed, deliveries, phase, mode, opened, runs>>
      BY <1>16, ClientsApart DEF ClientConnects, Connect, PrincipalsChange, sessionVars, lifeVars, schedulerVars
    <2> QED
      BY <2>1, OwnedKept
  <1>17. CASE /\ SchedulerNext
              /\ \A r \in runs \ runs' : ~Awaits(r)
              /\ UNCHANGED <<realtimeVars, sessionVars, lifeVars>>
    <2>1. UNCHANGED <<undisposed, deliveries, phase, mode, opened>>
      BY <1>17 DEF realtimeVars, sessionVars, lifeVars
    <2>2. ASSUME NEW d \in deliveries, d.inline PROVE Holds(d.by)'
      <3>1. CASE d.by \in runs
        <4>1. d.by \in runs'
          BY <1>17, <2>2, <3>1 DEF Awaits
        <4> QED
          BY <4>1 DEF Holds
      <3>2. CASE d.by \notin runs
        BY <2>1, <2>2, <3>2 DEF OwnedInv, Holds, Request, Command
      <3> QED
        BY <3>1, <3>2
    <2>3. \A part : IsOpen(part)' <=> IsOpen(part)
      BY <2>1 DEF IsOpen
    <2> QED
      BY <2>1, <2>2, <2>3 DEF OwnedInv, Request
  <1>18. CASE RealtimeNext /\ UNCHANGED <<schedulerVars, sessionVars, lifeVars>>
    <2>1. UNCHANGED <<undisposed, phase, mode, opened, runs>>
      BY <1>18 DEF schedulerVars, sessionVars, lifeVars
    <2>2. ASSUME NEW c \in Client, ClientStep(c) PROVE OwnedInv'
      <3>1. UNCHANGED deliveries
        BY <2>2, ClientsApart
      <3> QED
        BY <2>1, <3>1, OwnedKept
    <2>3. ASSUME NEW d \in deliveries, DeliveryStep(d) PROVE OwnedInv'
      <3>1. \A x \in deliveries' : x \in deliveries \/ (x.by = d.by /\ x.inline = d.inline)
        BY <2>3, DeliveryKeeps DEF HubInv
      <3>2. \A w : Holds(w) => Holds(w)'
        BY <2>1 DEF Holds
      <3>3. \A part : IsOpen(part)' <=> IsOpen(part)
        BY <2>1 DEF IsOpen
      <3>4. \A x \in deliveries' : x.inline => Holds(x.by)'
        BY <3>1, <3>2 DEF OwnedInv
      <3>5. \A x \in deliveries' : x.by = Request =>
              phase \in {"on", "exiting", "broken"} /\ (IsOpen("triggered") \/ IsOpen("builder"))
        BY <3>1 DEF OwnedInv
      <3> QED
        BY <2>1, <3>3, <3>4, <3>5 DEF OwnedInv, Request
    <2> QED
      BY <1>18, <2>2, <2>3 DEF RealtimeNext
  <1> QED
    BY <1>5, <1>6, <1>7, <1>8, <1>9, <1>10, <1>11, <1>12, <1>13, <1>14, <1>15, <1>16, <1>17, <1>18
      DEF Next, Lifecycle
-----------------------------------------------------------------------------
(* Theorems *)

(* The inductive invariant *)
AppInv == LifeInv /\ HubInv /\ OwnedInv

LEMMA AppStart ==
  ASSUME Init
  PROVE  AppInv
  <1>1. PICK m \in Manifests : RealtimeInit("redis" \in ToSet(m.managers), m.resolver)
    BY DEF Init
  <1>2. HubInv
    <2> DEFINE redis == "redis" \in ToSet(m.managers)
    <2>1. redis \in BOOLEAN /\ RealtimeInit(redis, m.resolver)
      BY <1>1
    <2>2. m.resolver \in Resolver
      BY ManifestAssumption
    <2> HIDE DEF redis
    <2> QED
      BY <2>1, <2>2, StreamStart
  <1>3. deliveries = {} /\ undisposed = {}
    BY DEF Init, RealtimeInit, SessionsInit
  <1> QED
    BY <1>2, <1>3, LifeStart DEF AppInv, OwnedInv

LEMMA AppStep ==
  ASSUME AppInv, [Next]_vars
  PROVE  AppInv'
  <1>1. LifeInv /\ HubInv /\ OwnedInv
    BY DEF AppInv
  <1>2. LifeInv'
    BY <1>1, LifeStep
  <1>3. HubInv'
    BY <1>1, StreamMoves, StreamStep
  <1>4. OwnedInv'
    BY <1>1, <1>2, OwnedStep
  <1> QED
    BY <1>2, <1>3, <1>4 DEF AppInv

(* What the lifecycle, the hub and the trigger runs rely on of one another. *)
THEOREM AppAlways == Spec => []AppInv
  <1>1. Init => AppInv
    BY AppStart
  <1>2. AppInv /\ [Next]_vars => AppInv'
    BY AppStep
  <1> QED
    BY <1>1, <1>2, PTL DEF Spec

LEMMA TypesFollow ==
  ASSUME AppInv
  PROVE  TypeOK
  <1>1. /\ SchedulerInv /\ PartsInv /\ HubTypes /\ ChannelInv /\ DeliveriesInv /\ StreamInv
    BY DEF AppInv, LifeInv, HubInv
  <1>2. IsPrefix(opened, Sequence)
    <2> DEFINE n == Len(opened)
    <2>1. /\ opened \in Seq(Part) /\ Sequence \in Seq(Part)
          /\ \A i \in 1 .. n : i \in 1 .. Len(Sequence) /\ opened[i] = Sequence[i]
      BY <1>1, SequenceOf DEF PartsInv
    <2>2. n \in Nat /\ Len(Sequence) \in Nat
      BY <2>1, LenProperties
    <2>3. n <= Len(Sequence)
      <3>1. CASE n = 0
        BY <2>2, <3>1
      <3>2. CASE n # 0
        <4>1. n \in 1 .. n
          BY <2>2, <3>2
        <4> QED
          BY <2>1, <2>2, <4>1
      <3> QED
        BY <3>1, <3>2
    <2>4. \A i \in 1 .. n : Sequence[i] \in Part
      BY <2>1, ElementOfSeq
    <2> DEFINE s == SubSeq(Sequence, 1, n)
    <2>5. Len(opened) = n
      OBVIOUS
    <2> HIDE DEF n
    <2>6. /\ s \in Seq(Part) /\ Len(s) = IF 1 <= n THEN n - 1 + 1 ELSE 0
          /\ \A i \in 1 .. n - 1 + 1 : s[i] = Sequence[1 + i - 1]
      BY <2>2, <2>4, SubSeqProperties
    <2>7. Len(s) = n /\ \A i \in 1 .. n : s[i] = Sequence[i]
      BY <2>2, <2>6
    <2>8. opened = s
      <3> HIDE DEF s
      <3> QED
        BY <2>1, <2>5, <2>6, <2>7, SeqEqual
    <2> QED
      BY <2>3, <2>5, <2>8 DEF IsPrefix, n
  <1>3. ASSUME NEW c \in Client
        PROVE  /\ Phase(c) \in {"away", "open", "gone", "closed"}
               /\ conn[c].reader \in {"off", "on", "ended"}
               /\ subs[c] \in [Path -> Filter] /\ cache[c] \in [Path -> {None} \cup Filter]
               /\ grants[c] \in GrantsUnder(resolver)
               /\ ToSet(queue[c]) \cup ToSet(told[c]) \cup taken[c] \subseteq DOMAIN log
               /\ queue[c] # <<>> => conn[c].reader = "on"
               /\ c \in channel.members => conn[c].reader = "on"
    <2>1. Session(c) /\ InOrder(c)
      BY <1>1 DEF StreamInv, Known
    <2>2. /\ conn[c] \in Connection /\ subs[c] \in [Path -> Filter]
          /\ cache[c] \in [Path -> {None} \cup Filter] /\ grants[c] \in GrantsUnder(resolver)
      BY <1>1 DEF HubTypes, RightsTypes
    <2>3. DOMAIN log = 1 .. Len(log) /\ DOMAIN queue[c] = 1 .. Len(queue[c])
          /\ DOMAIN told[c] = 1 .. Len(told[c])
      BY <1>1, LenProperties DEF HubTypes
    <2>4. ToSet(queue[c]) \cup ToSet(told[c]) \cup taken[c] \subseteq DOMAIN log
      BY <2>1, <2>3 DEF InOrder, ToSet
    <2> QED
      BY <2>1, <2>2, <2>4 DEF Session, Connection, Phase
  <1>4. \A d \in deliveries : d.posts \in 0 .. Retries + 1 /\ d.events \in Seq(Event)
    BY <1>1 DEF DeliveriesInv
  <1>5. log \in Seq(Event)
    BY <1>1 DEF HubTypes
  <1> QED
    BY <1>1, <1>2, <1>3, <1>4, <1>5 DEF TypeOK, SchedulerInv, PartsInv

(* The manifest enters its parts in order and has the scheduler and the engines when it *)
(* has entered them; what waits for a client is of the log, and a queue is in the       *)
(* channel only while a reader reads it (manifest.py, realtime_routes.py).              *)
THEOREM TypesCorrect == Spec => []TypeOK
  <1>1. AppInv => TypeOK
    BY TypesFollow
  <1> QED
    BY <1>1, AppAlways, PTL

(* A client loses an event only to QueueMaxsize newer ones, is sent events in the order *)
(* of publication, once, and only of what it may read: an anonymous one of the default, *)
(* a principal of what its roles carry, or of what stored policies made of its groups   *)
(* since it connected, or before that if a lookup of then was under way or its answer   *)
(* in the resolver's cache (realtime_channel.py, realtime_routes.py, auth_role.py,      *)
(* auth_rbac_resolver.py).                                                              *)
THEOREM StreamsAreFaithful == Spec => []StreamFaithful
  <1>1. AppInv => StreamFaithful
    BY StreamIsFaithful DEF AppInv
  <1> QED
    BY <1>1, AppAlways, PTL

(* No loop or run of a scheduler, no queue of a closed channel, no engine of a manager  *)
(* and no trigger run of a request outlives the part it belongs to (manifest.py,        *)
(* scheduler.py, trigger_runner.py, session_manager.py).                                *)
THEOREM NothingOutlives == Spec => []NothingOutlivesItsOwner
  <1>1. AppInv => NothingOutlivesItsOwner
    <2> SUFFICES ASSUME AppInv PROVE NothingOutlivesItsOwner
      OBVIOUS
    <2>1. SchedulerInv /\ SessionsInv /\ PartsInv /\ ChannelInv /\ OwnedInv
      BY DEF AppInv, LifeInv, HubInv
    <2>2. ASSUME phase = "off" PROVE \A d \in deliveries : ~d.inline
      <3>1. runs = {}
        BY <2>1, <2>2, NothingOpen DEF AppInv, PartsInv
      <3> QED
        BY <2>1, <2>2, <3>1 DEF OwnedInv, Holds
    <2>3. ASSUME ~IsOpen("triggered"), ~IsOpen("builder") PROVE \A d \in deliveries : d.by # Request
      BY <2>1, <2>3 DEF OwnedInv
    <2>4. undisposed # {} => phase = "broken" \/ mode = "command"
      BY <2>1 DEF OwnedInv
    <2> QED
      BY <2>1, <2>2, <2>3, <2>4 DEF NothingOutlivesItsOwner, SchedulerInv, SessionsInv, ChannelInv
  <1> QED
    BY <1>1, AppAlways, PTL

-----------------------------------------------------------------------------
(* Numbers: quotients, least elements, induction and recursion *)

(* A greater factor gives a greater product, by the other factor at least. *)
LEMMA Product ==
  ASSUME NEW a \in Nat, NEW b \in Nat, NEW u \in Nat, a + 1 <= b
  PROVE  a * u \in Nat /\ b * u \in Nat /\ a * u + u <= b * u
  <1>1. PICK d \in Nat : b = a + 1 + d
    <2>1. b - (a + 1) \in Nat /\ b = a + 1 + (b - (a + 1))
      OBVIOUS
    <2> QED
      BY <2>1
  <1>2. b * u = a * u + u + d * u /\ d * u \in Nat /\ a * u \in Nat
    BY <1>1
  <1> QED
    BY <1>2

(* A number is its quotient times the divisor, and the rest. *)
LEMMA Quotient ==
  ASSUME NEW t \in Nat, NEW u \in Nat \ {0}
  PROVE  /\ t \div u \in Nat /\ t % u \in 0 .. u - 1
         /\ t = (t \div u) * u + (t % u)
  OBVIOUS

(* The quotient is the one number with the dividend within a divisor above its multiple. *)
LEMMA QuotientIs ==
  ASSUME NEW t \in Nat, NEW u \in Nat \ {0}, NEW q \in Nat, q * u <= t, t < q * u + u
  PROVE  t \div u = q /\ t % u = t - q * u
  <1>1. /\ t \div u \in Nat /\ t % u \in 0 .. u - 1
        /\ t = (t \div u) * u + (t % u)
    BY Quotient
  <1>2. CASE t \div u + 1 <= q
    BY <1>1, <1>2, Product
  <1>3. CASE q + 1 <= t \div u
    BY <1>1, <1>3, Product
  <1>4. t \div u = q
    BY <1>1, <1>2, <1>3
  <1> QED
    BY <1>1, <1>4
(* The least of a set of naturals, from the order being well-founded. *)
LEMMA LeastNat ==
  ASSUME NEW T \in SUBSET Nat, T # {}
  PROVE  \E x \in T : \A y \in T : x <= y
  <1> DEFINE R == OpToRel(<, Nat)
  <1>1. IsWellFoundedOn(R, Nat)
    BY NatLessThanWellFounded
  <1>2. \A x, y \in Nat : <<x, y>> \in R <=> x < y
    BY DEF OpToRel
  <1> HIDE DEF R
  <1>3. PICK x \in T : \A y \in T : ~ (<<y, x>> \in R)
    BY <1>1, WFMin
  <1>4. \A y \in T : ~(y < x)
    BY <1>2, <1>3
  <1>5. T \subseteq Nat
    OBVIOUS
  <1> QED
    BY <1>3, <1>4, <1>5

(* Induction from 0 to N, on the set of what has the property. *)
LEMMA UpTo ==
  ASSUME NEW N \in Nat, NEW T, 0 \in T, \A n \in 1..N : n - 1 \in T => n \in T
  PROVE  0..N \subseteq T
  <1> SUFFICES ASSUME 0..N \ T # {} PROVE FALSE
    OBVIOUS
  <1>1. 0..N \ T \in SUBSET Nat
    OBVIOUS
  <1>2. PICK x \in 0..N \ T : \A y \in 0..N \ T : x <= y
    BY <1>1, LeastNat
  <1>3. x \in 1..N /\ x - 1 \in 0..N /\ ~(x <= x - 1)
    BY <1>2
  <1> QED
    BY <1>2, <1>3

Recurs(f, N, base, step) == f[0] = base /\ \A n \in 1..N : f[n] = step[n][f[n - 1]]

(* A function defined by recursion from 0 to N exists. *)
LEMMA Recursion ==
  ASSUME NEW N \in Nat, NEW S, NEW base \in S, NEW step \in [1..N -> [S -> S]]
  PROVE  \E f \in [0..N -> S] : Recurs(f, N, base, step)
  <1> DEFINE T == {m \in 0..N : \E f \in [0..m -> S] : Recurs(f, m, base, step)}
  <1>0. \A m \in 0..N : m \in T <=> \E f \in [0..m -> S] : Recurs(f, m, base, step)
    OBVIOUS
  <1> HIDE DEF T
  <1>1. 0 \in T
    <2> DEFINE f == [n \in 0..0 |-> base]
    <2>1. f \in [0..0 -> S] /\ Recurs(f, 0, base, step)
      BY DEF Recurs
    <2> HIDE DEF f
    <2>2. 0 \in 0..N
      OBVIOUS
    <2> QED
      BY <1>0, <2>1, <2>2
  <1>2. ASSUME NEW m \in 1..N, m - 1 \in T PROVE m \in T
    <2>1. PICK f \in [0..(m - 1) -> S] : Recurs(f, m - 1, base, step)
      BY <1>0, <1>2
    <2> DEFINE g == [n \in 0..m |-> IF n = m THEN step[m][f[m - 1]] ELSE f[n]]
    <2>2. m - 1 \in 0..(m - 1) /\ \A n \in 0..m : n # m => n \in 0..(m - 1)
      OBVIOUS
    <2>3. f[m - 1] \in S /\ step[m] \in [S -> S]
      BY <2>2
    <2>4. g \in [0..m -> S] /\ g[m] = step[m][f[m - 1]] /\ \A n \in 0..(m - 1) : g[n] = f[n]
      BY <2>2, <2>3
    <2> HIDE DEF g
    <2>5. g[0] = base
      BY <2>1, <2>4 DEF Recurs
    <2>6. ASSUME NEW n \in 1..m PROVE g[n] = step[n][g[n - 1]]
      <3>1. n - 1 \in 0..(m - 1)
        OBVIOUS
      <3> QED
        BY <2>1, <2>4, <3>1 DEF Recurs
    <2>7. Recurs(g, m, base, step)
      BY <2>5, <2>6 DEF Recurs
    <2> QED
      BY <1>0, <2>4, <2>7
  <1>3. \A m \in 1..N : m - 1 \in T => m \in T
    BY <1>2
  <1>4. 0..N \subseteq T
    BY <1>1, <1>3, UpTo
  <1>5. N \in T
    BY <1>4
  <1> QED
    BY <1>0, <1>5

-----------------------------------------------------------------------------
(* The calendar *)

Months == Len(MonthDays)

(* The sizes of the calendar. *)
LEMMA Sizes ==
  /\ MinutesPerHour \in Nat \ {0} /\ HoursPerDay \in Nat \ {0} /\ DaysPerWeek \in Nat \ {0}
  /\ MaxIterations \in Nat \ {0} /\ MinutesPerDay \in Nat \ {0}
  /\ Months \in Nat \ {0} /\ DOMAIN MonthDays = 1 .. Months
  /\ \A m \in 1 .. Months : MonthDays[m] \in Nat \ {0}
  <1>1. /\ MinutesPerHour \in Nat \ {0} /\ HoursPerDay \in Nat \ {0} /\ DaysPerWeek \in Nat \ {0}
        /\ MaxIterations \in Nat \ {0} /\ MonthDays \in Seq(Nat \ {0}) /\ MonthDays # <<>>
    BY CalendarAssumption
  <1>2. MinutesPerDay \in Nat \ {0}
    BY <1>1 DEF MinutesPerDay
  <1>3. Months \in Nat /\ Months # 0 /\ DOMAIN MonthDays = 1 .. Months
    BY <1>1, EmptySeq, LenProperties DEF Months
  <1>4. \A m \in 1 .. Months : MonthDays[m] \in Nat \ {0}
    BY <1>1, <1>3, ElementOfSeq DEF Months
  <1> QED
    BY <1>1, <1>2, <1>3, <1>4

(* The days of the first n months are what the recursion says. *)
LEMMA DaysAre ==
  /\ Days \in [0 .. Months -> Nat]
  /\ Days[0] = 0
  /\ \A n \in 1 .. Months : Days[n] = Days[n - 1] + MonthDays[n]
  <1> DEFINE step == [n \in 1 .. Months |-> [x \in Nat |-> x + MonthDays[n]]]
  <1>1. step \in [1 .. Months -> [Nat -> Nat]]
    BY Sizes
  <1>2. PICK f \in [0 .. Months -> Nat] : Recurs(f, Months, 0, step)
    BY <1>1, Sizes, Recursion
  <1>3. f[0] = 0 /\ \A n \in 1 .. Months : f[n] = f[n - 1] + MonthDays[n]
    <2>1. \A n \in 1 .. Months : n - 1 \in 0 .. Months
      BY Sizes
    <2> QED
      BY <1>2, <2>1 DEF Recurs
  <1> HIDE DEF step
  <1> DEFINE Is(g) == g = [n \in 0 .. Months |-> IF n = 0 THEN 0 ELSE g[n - 1] + MonthDays[n]]
  <1>4. Is(f)
    <2>1. \A n \in 0 .. Months : f[n] = IF n = 0 THEN 0 ELSE f[n - 1] + MonthDays[n]
      BY <1>3, Sizes
    <2> QED
      BY <1>2, <2>1
  <1>5. \E g : Is(g)
    BY <1>4
  <1>6. Days = CHOOSE g : Is(g)
    BY DEF Days, Months
  <1>7. Is(Days)
    <2> HIDE DEF Is
    <2> QED
      BY <1>5, <1>6
  <1>8. \A n \in 1 .. Months : Days[n] = Days[n - 1] + MonthDays[n]
    BY <1>7, Sizes
  <1>9. Days[0] = 0 /\ DOMAIN Days = 0 .. Months
    BY <1>7, Sizes
  <1>10. \A n \in 0 .. Months : Days[n] \in Nat
    <2> DEFINE T == {n \in 0 .. Months : Days[n] \in Nat}
    <2>1. 0 \in T
      BY <1>9, Sizes
    <2>2. \A n \in 1 .. Months : n - 1 \in T => n \in T
      BY <1>8, Sizes
    <2> HIDE DEF T
    <2>3. 0 .. Months \subseteq T
      BY <2>1, <2>2, UpTo, Sizes
    <2> QED
      BY <2>3 DEF T
  <1> QED
    BY <1>7, <1>8, <1>9, <1>10

(* More months have more days. *)
LEMMA DaysGrow ==
  \A m, n \in 0 .. Months : m <= n => Days[m] <= Days[n]
  <1> DEFINE T == {n \in 0 .. Months : \A m \in 0 .. n : Days[m] <= Days[n]}
  <1>1. 0 \in T
    BY DaysAre, Sizes
  <1>2. ASSUME NEW n \in 1 .. Months, n - 1 \in T PROVE n \in T
    <2>1. n - 1 \in 0 .. Months /\ \A m \in 0 .. n : m = n \/ m \in 0 .. n - 1
      BY Sizes
    <2>2. Days[n - 1] \in Nat /\ Days[n] \in Nat /\ Days[n - 1] <= Days[n]
      BY <2>1, DaysAre, Sizes
    <2>3. \A m \in 0 .. n - 1 : Days[m] \in Nat /\ Days[m] <= Days[n - 1]
      BY <1>2, DaysAre, Sizes
    <2> QED
      BY <2>1, <2>2, <2>3, Sizes
  <1> HIDE DEF T
  <1>3. 0 .. Months \subseteq T
    BY <1>1, <1>2, UpTo, Sizes
  <1> QED
    BY <1>3, Sizes DEF T

(* A month begins where the one before it ends, within the year. *)
LEMMA Year ==
  /\ DaysPerYear = Days[Months] /\ DaysPerYear \in Nat \ {0}
  /\ \A m \in 1 .. Months : /\ DaysBefore(m) = Days[m - 1] /\ DaysBefore(m) \in Nat
                           /\ DaysBefore(m + 1) = Days[m] /\ DaysBefore(m + 1) \in 0 .. DaysPerYear
                           /\ DaysBefore(m + 1) = DaysBefore(m) + MonthDays[m]
  <1>1. DaysPerYear = Days[Months]
    <2>1. Len(MonthDays) + 1 - 1 = Months
      BY Sizes DEF Months
    <2> QED
      BY <2>1 DEF DaysPerYear, DaysBefore
  <1>2. ASSUME NEW m \in 1 .. Months
        PROVE  /\ DaysBefore(m) = Days[m - 1] /\ DaysBefore(m) \in Nat
               /\ DaysBefore(m + 1) = Days[m] /\ DaysBefore(m + 1) \in Nat
               /\ DaysBefore(m + 1) <= Days[Months]
               /\ DaysBefore(m + 1) = DaysBefore(m) + MonthDays[m]
    <2>1. m + 1 - 1 = m /\ m - 1 \in 0 .. Months /\ m \in 0 .. Months /\ Months \in 0 .. Months /\ m <= Months
      BY Sizes
    <2> QED
      BY <2>1, DaysAre, DaysGrow DEF DaysBefore
  <1>3. Days[Months] \in Nat /\ Days[Months] # 0
    <2>1. Months \in 1 .. Months /\ Months \in 0 .. Months /\ Months - 1 \in 0 .. Months
      BY Sizes
    <2>2. Days[Months] = Days[Months - 1] + MonthDays[Months] /\ Days[Months - 1] \in Nat
      BY <2>1, DaysAre
    <2> QED
      BY <2>1, <2>2, Sizes
  <1> QED
    BY <1>1, <1>2, <1>3

DayInYear(t) == DayOf(t) % DaysPerYear

(* A day of the year lies in one month. *)
InMonth(day, m) == DaysBefore(m) <= day /\ day < DaysBefore(m + 1)

(* The months divide the year. *)
LEMMA OneMonth ==
  ASSUME NEW day \in 0 .. DaysPerYear - 1
  PROVE  \E m \in 1 .. Months : InMonth(day, m) /\ \A k \in 1 .. Months : InMonth(day, k) => k = m
  <1> DEFINE L == {n \in 0 .. Months : day < Days[n]}
  <1>1. L \in SUBSET Nat /\ L # {}
    <2>1. Months \in 0 .. Months /\ day < Days[Months]
      BY Year, Sizes
    <2> QED
      BY <2>1
  <1>2. PICK n \in L : \A k \in L : n <= k
    BY <1>1, LeastNat
  <1>3. n \in 1 .. Months /\ n - 1 \in 0 .. Months
    BY <1>2, DaysAre, Sizes
  <1>4. InMonth(day, n)
    <2>1. ~(day < Days[n - 1])
      BY <1>2, <1>3
    <2>2. Days[n - 1] \in Nat /\ day < Days[n]
      BY <1>2, <1>3, DaysAre
    <2> QED
      BY <1>3, <2>1, <2>2, Year DEF InMonth
  <1>5. ASSUME NEW k \in 1 .. Months, InMonth(day, k) PROVE k = n
    <2>1. /\ Days[k - 1] <= day /\ day < Days[k] /\ Days[n - 1] <= day /\ day < Days[n]
      BY <1>3, <1>4, <1>5, Year DEF InMonth
    <2>2. ASSUME k < n PROVE FALSE
      <3>1. k <= n - 1 /\ k \in 0 .. Months
        BY <1>3, <2>2
      <3>2. Days[k] <= Days[n - 1] /\ Days[k] \in Nat /\ Days[n - 1] \in Nat
        BY <1>3, <3>1, DaysAre, DaysGrow
      <3> QED
        BY <2>1, <3>2
    <2>3. ASSUME n < k PROVE FALSE
      <3>1. n <= k - 1 /\ k - 1 \in 0 .. Months /\ n \in 0 .. Months
        BY <1>3, <2>3, Sizes
      <3>2. Days[n] <= Days[k - 1] /\ Days[n] \in Nat /\ Days[k - 1] \in Nat
        BY <3>1, DaysAre, DaysGrow
      <3> QED
        BY <2>1, <3>2
    <2> QED
      BY <1>3, <2>2, <2>3
  <1> QED
    BY <1>3, <1>4, <1>5

(* The month and the date of a moment. *)
LEMMA MonthIs ==
  ASSUME NEW t \in Nat
  PROVE  /\ DayOf(t) \in Nat /\ DayInYear(t) \in 0 .. DaysPerYear - 1
         /\ MonthOf(t) \in 1 .. Months /\ InMonth(DayInYear(t), MonthOf(t))
         /\ \A m \in 1 .. Months : InMonth(DayInYear(t), m) => MonthOf(t) = m
         /\ DateOf(t) \in 1 .. MonthDays[MonthOf(t)]
  <1>1. DayOf(t) \in Nat
    BY Quotient, Sizes DEF DayOf
  <1>2. DayInYear(t) \in 0 .. DaysPerYear - 1
    BY <1>1, Quotient, Year DEF DayInYear
  <1>3. PICK m \in 1 .. Months : InMonth(DayInYear(t), m) /\ \A k \in 1 .. Months : InMonth(DayInYear(t), k) => k = m
    BY <1>2, OneMonth
  <1>4. MonthOf(t) = CHOOSE k \in 1 .. Months : InMonth(DayInYear(t), k)
    BY Sizes DEF MonthOf, DayInYear, InMonth
  <1>5. MonthOf(t) = m
    BY <1>3, <1>4
  <1>6. DateOf(t) \in 1 .. MonthDays[m]
    <2>1. DaysBefore(m + 1) = DaysBefore(m) + MonthDays[m] /\ DaysBefore(m) \in Nat /\ MonthDays[m] \in Nat
      BY Year, Sizes
    <2>2. DateOf(t) = 1 + DayInYear(t) - DaysBefore(m)
      BY <1>5 DEF DateOf, DayInYear
    <2> QED
      BY <1>2, <1>3, <2>1, <2>2, Year DEF InMonth
  <1> QED
    BY <1>1, <1>2, <1>3, <1>5, <1>6

HoursOf(t) == t \div MinutesPerHour

(* The hours since the first midnight give the hour of the day. *)
LEMMA HourIs ==
  ASSUME NEW t \in Nat
  PROVE  /\ HoursOf(t) \in Nat /\ HourOf(t) = HoursOf(t) % HoursPerDay
         /\ HourOf(t) \in 0 .. HoursPerDay - 1 /\ MinuteOf(t) \in 0 .. MinutesPerHour - 1
         /\ t = HoursOf(t) * MinutesPerHour + MinuteOf(t)
  <1> DEFINE h == HoursOf(t)
             q == h \div HoursPerDay
             r == h % HoursPerDay
             m == MinuteOf(t)
  <1>1. h \in Nat /\ m \in 0 .. MinutesPerHour - 1 /\ t = h * MinutesPerHour + m
    BY Quotient, Sizes DEF HoursOf, MinuteOf
  <1> HIDE DEF h, m
  <1>2. q \in Nat /\ r \in 0 .. HoursPerDay - 1 /\ h = q * HoursPerDay + r
    BY <1>1, Quotient, Sizes
  <1> HIDE DEF q, r
  <1>3. r + 1 <= HoursPerDay /\ r \in Nat
    BY <1>2, Sizes
  <1>4. /\ r * MinutesPerHour \in Nat
        /\ r * MinutesPerHour + MinutesPerHour <= HoursPerDay * MinutesPerHour
    BY <1>3, Product, Sizes
  <1>5. h * MinutesPerHour = q * MinutesPerDay + r * MinutesPerHour /\ q * MinutesPerDay \in Nat
    BY <1>2, <1>3, Sizes DEF MinutesPerDay
  <1>6. HoursPerDay * MinutesPerHour = MinutesPerDay
    BY Sizes DEF MinutesPerDay
  <1> DEFINE a == q * MinutesPerDay
             b == r * MinutesPerHour
  <1>7. a \in Nat /\ b \in Nat /\ t = a + b + m /\ b + MinutesPerHour <= MinutesPerDay
    BY <1>1, <1>4, <1>5, <1>6
  <1>8. t % MinutesPerDay = t - a
    <2>1. a <= t /\ t < a + MinutesPerDay
      <3> HIDE DEF a, b
      <3> QED
        BY <1>1, <1>7, Sizes
    <2> QED
      BY <1>2, <2>1, QuotientIs, Sizes
  <1>9. (b + m) \div MinutesPerHour = r
    <2>1. b <= b + m /\ b + m < b + MinutesPerHour /\ b + m \in Nat
      <3> HIDE DEF a, b
      <3> QED
        BY <1>1, <1>7, Sizes
    <2> QED
      BY <1>3, <2>1, QuotientIs, Sizes
  <1>10. t - a = b + m
    <2> HIDE DEF a, b
    <2> QED
      BY <1>1, <1>7, Sizes
  <1>11. HourOf(t) = r
    BY <1>8, <1>9, <1>10 DEF HourOf
  <1> QED
    BY <1>1, <1>2, <1>11 DEF h, m, q, r

(* The moments of a day have its month, and match a schedule's days alike. *)
LEMMA SameDay ==
  ASSUME NEW s, NEW t \in Nat, NEW u \in Nat, DayOf(u) = DayOf(t)
  PROVE  MonthOf(u) = MonthOf(t) /\ (_day_matches(s, u) <=> _day_matches(s, t))
  <1>1. MonthOf(u) = MonthOf(t)
    BY MonthIs DEF DayInYear
  <1>2. DateOf(u) = DateOf(t) /\ _cron_weekday(u) = _cron_weekday(t)
    BY <1>1 DEF DateOf, _cron_weekday
  <1> QED
    BY <1>1, <1>2 DEF _day_matches

(* A day is what lies between two midnights. *)
LEMMA OneDay ==
  ASSUME NEW day \in Nat, NEW u \in Nat, Midnight(day) <= u, u < Midnight(day + 1)
  PROVE  DayOf(u) = day
  <1>1. Midnight(day) = day * MinutesPerDay /\ Midnight(day + 1) = day * MinutesPerDay + MinutesPerDay
    BY Sizes DEF Midnight
  <1>2. day * MinutesPerDay <= u /\ u < day * MinutesPerDay + MinutesPerDay
    BY <1>1
  <1>3. u \div MinutesPerDay = day
    BY <1>2, QuotientIs, Sizes
  <1> QED
    BY <1>3 DEF DayOf

(* A moment lies between two midnights. *)
LEMMA Midnights ==
  ASSUME NEW t \in Nat
  PROVE  /\ Midnight(DayOf(t)) \in Nat /\ Midnight(DayOf(t) + 1) \in Nat
         /\ Midnight(DayOf(t)) <= t /\ t < Midnight(DayOf(t) + 1)
  <1>1. /\ DayOf(t) \in Nat /\ t % MinutesPerDay \in 0 .. MinutesPerDay - 1
        /\ t = DayOf(t) * MinutesPerDay + (t % MinutesPerDay)
    BY Quotient, Sizes DEF DayOf
  <1>2. (DayOf(t) + 1) * MinutesPerDay = DayOf(t) * MinutesPerDay + MinutesPerDay
        /\ DayOf(t) * MinutesPerDay \in Nat
    BY <1>1, Sizes
  <1> QED
    BY <1>1, <1>2, Sizes DEF Midnight

(* Midnights come in the order of the days. *)
LEMMA MidnightsOrdered ==
  ASSUME NEW d \in Nat, NEW e \in Nat, d <= e
  PROVE  Midnight(d) \in Nat /\ Midnight(e) \in Nat /\ Midnight(d) <= Midnight(e)
  <1>1. Midnight(d) \in Nat /\ Midnight(e) \in Nat
    BY Sizes DEF Midnight
  <1>2. CASE d = e
    BY <1>1, <1>2
  <1>3. CASE d + 1 <= e
    BY <1>1, <1>3, Product, Sizes DEF Midnight
  <1> QED
    BY <1>1, <1>2, <1>3

(* The days of the month that t is in. *)
LEMMA SameMonth ==
  ASSUME NEW t \in Nat
  PROVE  /\ _first_of_next_month(t) \in Nat /\ t < _first_of_next_month(t)
         /\ \A u \in Nat : t <= u /\ u < _first_of_next_month(t) => MonthOf(u) = MonthOf(t)
  <1> DEFINE D == DayOf(t)
             d == DayInYear(t)
             m == MonthOf(t)
             q == D \div DaysPerYear
             z == (D - d) + DaysBefore(m + 1)
  <1>1. /\ D \in Nat /\ d \in 0 .. DaysPerYear - 1 /\ m \in 1 .. Months /\ InMonth(d, m)
    BY MonthIs
  <1>2. q \in Nat /\ D = q * DaysPerYear + d
    BY <1>1, Quotient, Year DEF DayInYear
  <1>3. /\ DaysPerYear \in Nat \ {0} /\ DaysBefore(m) \in Nat /\ DaysBefore(m + 1) \in 0 .. DaysPerYear
        /\ DaysBefore(m + 1) = DaysBefore(m) + MonthDays[m] /\ MonthDays[m] \in Nat
    BY <1>1, Year, Sizes
  <1>4. _first_of_next_month(t) = Midnight(z)
    <2>1. DateOf(t) = 1 + d - DaysBefore(m)
      BY DEF DateOf, DayInYear
    <2>2. (D - DateOf(t)) + 1 + MonthDays[m] = z
      <3> HIDE DEF d, m, D
      <3> QED
        BY <1>1, <1>3, <2>1 DEF z
    <2> QED
      BY <2>2 DEF _first_of_next_month
  <1> HIDE DEF D, d, m, q
  <1>5. q * DaysPerYear \in Nat
    BY <1>2, <1>3
  <1> DEFINE p == q * DaysPerYear
  <1>6. p \in Nat /\ D = p + d /\ z = p + DaysBefore(m + 1)
    BY <1>1, <1>2, <1>3, <1>5
  <1>7. z \in Nat /\ D + 1 <= z
    BY <1>1, <1>3, <1>6 DEF InMonth
  <1>8. Midnight(z) \in Nat /\ t < Midnight(z)
    BY <1>1, <1>7, Midnights, MidnightsOrdered DEF D
  <1>9. ASSUME NEW u \in Nat, t <= u, u < Midnight(z)
        PROVE  MonthOf(u) = m
    <2> DEFINE e == DayOf(u)
    <2>1. e \in Nat /\ Midnight(e) \in Nat /\ Midnight(e) <= u /\ u < Midnight(e + 1) /\ Midnight(e + 1) \in Nat
      BY MonthIs, Midnights
    <2> HIDE DEF e
    <2>2. e < z
      <3>1. ASSUME z <= e PROVE FALSE
        BY <1>7, <1>9, <2>1, <3>1, MidnightsOrdered
      <3> QED
        BY <1>7, <2>1, <3>1
    <2>3. D <= e
      <3>1. ASSUME e + 1 <= D PROVE FALSE
        <4>1. Midnight(e + 1) <= Midnight(D) /\ Midnight(D) \in Nat
          BY <1>1, <2>1, <3>1, MidnightsOrdered
        <4>2. Midnight(D) <= t
          BY Midnights DEF D
        <4> QED
          BY <1>9, <2>1, <4>1, <4>2
      <3> QED
        BY <1>1, <2>1, <3>1
    <2>4. p <= e /\ e < p + DaysPerYear
      BY <1>1, <1>3, <1>6, <2>1, <2>2, <2>3
    <2>5. e % DaysPerYear = e - p
      BY <1>2, <1>3, <2>1, <2>4, QuotientIs
    <2>6. InMonth(e - p, m)
      BY <1>1, <1>3, <1>6, <2>1, <2>2, <2>3 DEF InMonth
    <2>7. InMonth(DayInYear(u), m)
      BY <2>5, <2>6 DEF DayInYear, e
    <2> QED
      BY <1>1, <2>7, MonthIs
  <1> QED
    BY <1>4, <1>8, <1>9 DEF m

(* The next hour begins where this one ends. *)
LEMMA SameHour ==
  ASSUME NEW t \in Nat
  PROVE  LET next == (t - MinuteOf(t)) + MinutesPerHour
         IN  /\ next \in Nat /\ t < next
             /\ \A u \in Nat : t <= u /\ u < next => HourOf(u) = HourOf(t)
  <1> DEFINE h == HoursOf(t)
             m == MinuteOf(t)
             next == (t - m) + MinutesPerHour
  <1>1. h \in Nat /\ m \in 0 .. MinutesPerHour - 1 /\ t = h * MinutesPerHour + m /\ HourOf(t) = h % HoursPerDay
    BY HourIs
  <1> HIDE DEF h, m
  <1>2. h * MinutesPerHour \in Nat
    BY <1>1, Sizes
  <1> DEFINE a == h * MinutesPerHour
  <1>3. a \in Nat /\ t = a + m /\ next = a + MinutesPerHour
    BY <1>1, <1>2, Sizes
  <1>4. next \in Nat /\ t < next
    <2> HIDE DEF a
    <2> QED
      BY <1>1, <1>3, Sizes
  <1>5. ASSUME NEW u \in Nat, t <= u, u < next PROVE HourOf(u) = HourOf(t)
    <2>1. a <= u /\ u < a + MinutesPerHour
      <3> HIDE DEF a
      <3> QED
        BY <1>1, <1>3, <1>5, Sizes
    <2>2. HoursOf(u) = h
      BY <1>1, <2>1, QuotientIs, Sizes DEF HoursOf
    <2> QED
      BY <1>1, <2>2, HourIs
  <1> QED
    BY <1>4, <1>5 DEF m

(* Rolling a candidate forward goes on, and passes over nothing that matches (next_fire in cron.py). *)
LEMMA RollsOver ==
  ASSUME NEW s, NEW t \in Nat, ~matches(s, t)
  PROVE  /\ RollForward(s, t) \in Nat /\ t < RollForward(s, t)
         /\ \A u \in Nat : t <= u /\ u < RollForward(s, t) => ~matches(s, u)
  <1>1. CASE MonthOf(t) \notin s.months
    <2>1. RollForward(s, t) = _first_of_next_month(t)
      BY <1>1 DEF RollForward
    <2> QED
      BY <1>1, <2>1, SameMonth DEF matches
  <1>2. CASE MonthOf(t) \in s.months /\ ~_day_matches(s, t)
    <2>1. RollForward(s, t) = Midnight(DayOf(t) + 1)
      BY <1>2 DEF RollForward
    <2>2. RollForward(s, t) \in Nat /\ t < RollForward(s, t)
      BY <2>1, Midnights
    <2>3. ASSUME NEW u \in Nat, t <= u, u < RollForward(s, t) PROVE ~matches(s, u)
      <3>1. Midnight(DayOf(t)) <= u
        BY <2>3, Midnights
      <3>2. DayOf(u) = DayOf(t)
        BY <2>1, <2>3, <3>1, OneDay, MonthIs
      <3> QED
        BY <1>2, <3>2, SameDay DEF matches
    <2> QED
      BY <2>2, <2>3
  <1>3. CASE MonthOf(t) \in s.months /\ _day_matches(s, t) /\ HourOf(t) \notin s.hours
    <2>1. RollForward(s, t) = (t - MinuteOf(t)) + MinutesPerHour
      BY <1>3 DEF RollForward
    <2> QED
      BY <1>3, <2>1, SameHour DEF matches
  <1>4. CASE MonthOf(t) \in s.months /\ _day_matches(s, t) /\ HourOf(t) \in s.hours
    <2>1. RollForward(s, t) = t + 1
      BY <1>4 DEF RollForward
    <2>2. \A u \in Nat : t <= u /\ u < t + 1 => u = t
      OBVIOUS
    <2> QED
      BY <2>1, <2>2
  <1> QED
    BY <1>1, <1>2, <1>3, <1>4

(* What is between t and the next fire after it. *)
Skipped(s, after, t) == \A u \in Nat : after < u /\ u < t => ~matches(s, u)

(* next_fire returns the first minute after the given one that matches, if it returns (cron.py). *)
THEOREM NextFire ==
  ASSUME NEW s, NEW after \in Nat, next_fire(s, after) # NoFire
  PROVE  /\ next_fire(s, after) \in Nat /\ after < next_fire(s, after)
         /\ matches(s, next_fire(s, after)) /\ Skipped(s, after, next_fire(s, after))
  <1> DEFINE N == MaxIterations - 1
             C == {t \in Nat : after < t}
             roll == [t \in C |-> IF matches(s, t) THEN t ELSE RollForward(s, t)]
             step == [n \in 1 .. N |-> roll]
  <1>1. N \in Nat /\ after + 1 \in C
    BY Sizes
  <1>2. roll \in [C -> C]
    <2> SUFFICES ASSUME NEW t \in C PROVE (IF matches(s, t) THEN t ELSE RollForward(s, t)) \in C
      OBVIOUS
    <2> QED
      BY RollsOver
  <1>3. step \in [1 .. N -> [C -> C]] /\ \A n \in 1 .. N : step[n] = roll
    BY <1>2
  <1> DEFINE Is(g) == g = [n \in 0 .. N |->
               IF n = 0 THEN after + 1
               ELSE IF matches(s, g[n - 1]) THEN g[n - 1] ELSE RollForward(s, g[n - 1])]
  <1>4. \E g : Is(g)
    <2> HIDE DEF step
    <2>1. PICK f \in [0 .. N -> C] : Recurs(f, N, after + 1, step)
      <3> HIDE DEF C, N
      <3> QED
        BY <1>1, <1>3, Recursion
    <2>2. ASSUME NEW n \in 1 .. N PROVE f[n] = IF matches(s, f[n - 1]) THEN f[n - 1] ELSE RollForward(s, f[n - 1])
      <3>1. n - 1 \in 0 .. N
        BY <1>1
      <3>2. f[n] = roll[f[n - 1]] /\ f[n - 1] \in C
        <4> HIDE DEF roll, C, N
        <4> QED
          BY <1>3, <2>1, <3>1 DEF Recurs
      <3> QED
        BY <3>2
    <2>3. f[0] = after + 1
      BY <2>1 DEF Recurs
    <2>4. \A n \in 0 .. N : f[n] = IF n = 0 THEN after + 1
               ELSE IF matches(s, f[n - 1]) THEN f[n - 1] ELSE RollForward(s, f[n - 1])
      BY <1>1, <2>2, <2>3
    <2> HIDE DEF C, N
    <2>5. Is(f)
      BY <2>1, <2>4
    <2> QED
      BY <2>5
  <1> DEFINE candidate == CHOOSE g : Is(g)
  <1>5. next_fire(s, after) = IF matches(s, candidate[N]) THEN candidate[N] ELSE NoFire
    BY Zenon DEF next_fire
  <1>6. Is(candidate)
    <2> HIDE DEF Is
    <2> QED
      BY <1>4
  <1> HIDE DEF candidate
  <1>7. candidate[0] = after + 1 /\ \A n \in 1 .. N :
          candidate[n] = IF matches(s, candidate[n - 1]) THEN candidate[n - 1]
                         ELSE RollForward(s, candidate[n - 1])
    BY <1>1, <1>6
  <1>8. \A n \in 0 .. N : candidate[n] \in C /\ Skipped(s, after, candidate[n])
    <2> DEFINE T == {n \in 0 .. N : candidate[n] \in C /\ Skipped(s, after, candidate[n])}
    <2>1. 0 \in T
      BY <1>1, <1>7 DEF Skipped
    <2>2. ASSUME NEW n \in 1 .. N, n - 1 \in T PROVE n \in T
      <3>1. candidate[n - 1] \in C /\ Skipped(s, after, candidate[n - 1])
        BY <2>2
      <3> DEFINE t == candidate[n - 1]
      <3>2. CASE matches(s, t)
        BY <1>7, <3>1, <3>2
      <3>3. CASE ~matches(s, t)
        <4>1. candidate[n] = RollForward(s, t)
          BY <1>7, <3>3
        <4>2. /\ RollForward(s, t) \in Nat /\ t < RollForward(s, t)
              /\ \A u \in Nat : t <= u /\ u < RollForward(s, t) => ~matches(s, u)
          BY <3>1, <3>3, RollsOver
        <4> QED
          BY <3>1, <4>1, <4>2 DEF Skipped
      <3> QED
        BY <3>2, <3>3
    <2> HIDE DEF T, N
    <2>3. 0 .. N \subseteq T
      BY <1>1, <2>1, <2>2, UpTo
    <2> QED
      BY <2>3 DEF T
  <1>9. matches(s, candidate[N]) /\ next_fire(s, after) = candidate[N]
    BY <1>5
  <1>10. N \in 0 .. N
    BY <1>1
  <1> QED
    BY <1>8, <1>9, <1>10

-----------------------------------------------------------------------------
(* What an expression names *)

(* The longest month bounds the date. *)
LEMMA LongestMonth ==
  \A m \in 1 .. Months : MonthDays[m] \in 1 .. Bounds[3][2] /\ Bounds[3][2] \in Nat
  <1> DEFINE S == {MonthDays[m] : m \in DOMAIN MonthDays}
             U == {x \in Nat : \A y \in S : y <= x}
  <1>1. S \subseteq Nat \ {0} /\ S # {}
    BY Sizes
  <1>2. DaysPerYear \in U
    <2>1. ASSUME NEW m \in 1 .. Months PROVE MonthDays[m] <= DaysPerYear
      <3> DEFINE a == DaysBefore(m)
                 b == DaysBefore(m + 1)
      <3>1. a \in Nat /\ b \in 0 .. DaysPerYear /\ b = a + MonthDays[m] /\ MonthDays[m] \in Nat
        BY Year, Sizes
      <3> HIDE DEF a, b
      <3> QED
        BY <3>1, Year
    <2> QED
      BY <2>1, Year, Sizes
  <1>3. PICK x \in U : \A y \in U : x <= y
    BY <1>2, LeastNat
  <1>4. x \in S
    <2> SUFFICES ASSUME x \notin S PROVE FALSE
      OBVIOUS
    <2>1. x \in Nat /\ \A y \in S : y \in Nat /\ y <= x /\ y # x /\ y # 0
      BY <1>1, <1>3
    <2> HIDE DEF S
    <2>2. x # 0
      <3>1. PICK y \in S : TRUE
        BY <1>1
      <3>2. y \in Nat /\ y <= x /\ y # 0
        BY <2>1, <3>1
      <3> QED
        BY <2>1, <3>2
    <2>3. x - 1 \in Nat /\ \A y \in S : y <= x - 1
      BY <2>1, <2>2
    <2>4. x <= x - 1
      BY <1>3, <2>3
    <2> QED
      BY <2>1, <2>4
  <1>5. Max(S) \in S /\ \A y \in S : y <= Max(S)
    <2>1. \A y \in S : x >= y
      BY <1>1, <1>3
    <2>2. Max(S) \in S /\ \A y \in S : Max(S) >= y
      <3> HIDE DEF S
      <3> QED
        BY <1>4, <2>1 DEF Max
    <2> QED
      BY <1>1, <2>2
  <1>6. Bounds[3][2] = Max(S)
    BY DEF Bounds
  <1>7. \A m \in 1 .. Months : MonthDays[m] \in S
    BY Sizes
  <1> DEFINE longest == Max(S)
  <1> HIDE DEF U, S
  <1>8. longest \in Nat
    BY <1>1, <1>5
  <1>9. \A m \in 1 .. Months : MonthDays[m] \in Nat /\ MonthDays[m] # 0 /\ MonthDays[m] <= longest
    BY <1>1, <1>5, <1>7
  <1> HIDE DEF longest
  <1>10. \A m \in 1 .. Months : MonthDays[m] \in 1 .. longest
    BY <1>8, <1>9
  <1> QED
    BY <1>6, <1>8, <1>10 DEF longest

Field == 1 .. 5

(* The parts of a moment are within the bounds of their fields. *)
LEMMA BoundsAre ==
  /\ Len(Bounds) = 5
  /\ \A i \in Field : Bounds[i][1] \in {0, 1} /\ Bounds[i][2] \in Nat
  /\ Bounds[Weekday] = <<0, DaysPerWeek - 1>>
  /\ \A t \in Nat : /\ MinuteOf(t) \in Bounds[1][1] .. Bounds[1][2] /\ HourOf(t) \in Bounds[2][1] .. Bounds[2][2]
                    /\ DateOf(t) \in Bounds[3][1] .. Bounds[3][2] /\ MonthOf(t) \in Bounds[4][1] .. Bounds[4][2]
                    /\ _cron_weekday(t) \in Bounds[5][1] .. Bounds[5][2]
  <1>1. /\ Len(Bounds) = 5
        /\ Bounds[1] = <<0, MinutesPerHour - 1>> /\ Bounds[2] = <<0, HoursPerDay - 1>>
        /\ Bounds[3][1] = 1 /\ Bounds[4] = <<1, Months>> /\ Bounds[5] = <<0, DaysPerWeek - 1>>
    BY DEF Bounds, Months
  <1>2. 1 \in 1 .. Months /\ Bounds[3][2] \in Nat
    BY LongestMonth, Sizes
  <1>3. \A i \in Field : Bounds[i][1] \in {0, 1} /\ Bounds[i][2] \in Nat
    <2>1. \A i \in Field : i = 1 \/ i = 2 \/ i = 3 \/ i = 4 \/ i = 5
      BY DEF Field
    <2> QED
      BY <1>1, <1>2, <2>1, Sizes
  <1>4. ASSUME NEW t \in Nat
        PROVE  /\ MinuteOf(t) \in Bounds[1][1] .. Bounds[1][2] /\ HourOf(t) \in Bounds[2][1] .. Bounds[2][2]
               /\ DateOf(t) \in Bounds[3][1] .. Bounds[3][2] /\ MonthOf(t) \in Bounds[4][1] .. Bounds[4][2]
               /\ _cron_weekday(t) \in Bounds[5][1] .. Bounds[5][2]
    <2>1. MinuteOf(t) \in 0 .. MinutesPerHour - 1 /\ HourOf(t) \in 0 .. HoursPerDay - 1
      BY HourIs
    <2>2. MonthOf(t) \in 1 .. Months /\ DateOf(t) \in 1 .. MonthDays[MonthOf(t)] /\ DayOf(t) \in Nat
      BY MonthIs
    <2>3. DateOf(t) \in 1 .. Bounds[3][2]
      BY <2>2, LongestMonth, Sizes
    <2>4. _cron_weekday(t) \in 0 .. DaysPerWeek - 1
      BY <2>2, Quotient, Sizes DEF _cron_weekday
    <2> QED
      BY <1>1, <2>1, <2>2, <2>3, <2>4
  <1> QED
    BY <1>1, <1>3, <1>4 DEF Weekday

(* Multiples of a step. *)
LEMMA Steps ==
  ASSUME NEW v \in Nat, NEW from \in Nat, NEW step \in Nat \ {0}
  PROVE  (\E k \in 0 .. v : v = from + k * step) <=> from <= v /\ (v - from) % step = 0
  <1>1. ASSUME NEW k \in 0 .. v, v = from + k * step
        PROVE  from <= v /\ (v - from) % step = 0
    <2>1. k \in Nat /\ k * step \in Nat
      BY <1>1
    <2>2. v - from = k * step /\ from <= v /\ v - from \in Nat
      <3> DEFINE p == k * step
      <3>1. p \in Nat /\ v = from + p
        BY <1>1, <2>1
      <3> HIDE DEF p
      <3>2. v - from = p /\ from <= v /\ v - from \in Nat
        BY <3>1
      <3> QED
        BY <3>2 DEF p
    <2>3. k * step <= v - from /\ v - from < k * step + step
      BY <2>1, <2>2
    <2>4. (v - from) % step = (v - from) - k * step
      BY <2>1, <2>2, <2>3, QuotientIs
    <2> QED
      BY <2>2, <2>4
  <1>2. ASSUME from <= v, (v - from) % step = 0
        PROVE  \E k \in 0 .. v : v = from + k * step
    <2> DEFINE k == (v - from) \div step
    <2>1. v - from \in Nat
      BY <1>2
    <2>2. k \in Nat /\ v - from = k * step + ((v - from) % step)
      BY <2>1, Quotient
    <2> HIDE DEF k
    <2>3. k * step \in Nat
      BY <2>2
    <2>4. v - from = k * step
      BY <1>2, <2>2, <2>3
    <2>5. v = from + k * step
      <3> DEFINE p == k * step
      <3> HIDE DEF p
      <3> QED
        BY <2>3, <2>4 DEF p
    <2>6. k <= v
      <3>1. CASE k = 0
        BY <3>1
      <3>2. CASE k # 0
        <4>1. PICK d \in Nat : step = 1 + d
          <5>1. step - 1 \in Nat /\ step = 1 + (step - 1)
            OBVIOUS
          <5> QED
            BY <5>1
        <4>2. k * step = k + k * d /\ k * d \in Nat
          BY <2>2, <4>1
        <4> DEFINE p == k * d
        <4> HIDE DEF p
        <4> QED
          BY <2>2, <2>4, <4>2 DEF p
      <3> QED
        BY <3>1, <3>2
    <2> QED
      BY <2>2, <2>5, <2>6
  <1> QED
    BY <1>1, <1>2

Within(i, v) == v \in Bounds[i][1] .. Bounds[i][2]

(* An item of a field is expanded to what it lists (_parse_field in cron.py). *)
LEMMA ItemLists ==
  ASSUME NEW i \in Field, NEW item \in FieldItem, ~Malformed(item, i), NEW v \in Nat, Within(i, v)
  PROVE  Listed(item, i, v) <=>
           v \in {x \in From(item, i) .. Upto(item, i) : (x - From(item, i)) % Step(item) = 0}
  <1>1. /\ item.base \in {"*", "value", "range"} /\ item.from \in Int /\ item.to \in Int
        /\ item.step \in Nat \cup {NoStep} /\ item.step # 0
    BY DEF FieldItem, Malformed
  <1>2. Step(item) \in Nat \ {0}
    BY <1>1 DEF Step
  <1>3. Bounds[i][1] \in {0, 1} /\ Bounds[i][2] \in Nat
    BY BoundsAre
  <1>4. From(item, i) \in Int /\ Upto(item, i) \in Int
    BY <1>1, <1>3 DEF From, Upto, _resolve
  <1>5. ~(From(item, i) < Bounds[i][1]) /\ ~(Upto(item, i) > Bounds[i][2])
    BY DEF Malformed
  <1>8. From(item, i) \in Nat /\ Upto(item, i) <= Bounds[i][2]
    BY <1>3, <1>4, <1>5
  <1>6. CASE item.base = "value"
    <2>1. Step(item) = 1 /\ Upto(item, i) = From(item, i) /\ From(item, i) = _resolve(item.from, i)
      BY <1>1, <1>6 DEF Malformed, Step, Upto, From
    <2>2. v \in From(item, i) .. Upto(item, i) <=> v = From(item, i)
      BY <1>8, <2>1
    <2>3. (From(item, i) - From(item, i)) % Step(item) = 0
      BY <1>8, <2>1, QuotientIs
    <2>4. Listed(item, i, v) <=> v = _resolve(item.from, i)
      <3>1. CASE i = Weekday
        <4>1. v < DaysPerWeek /\ item.from <= DaysPerWeek
          <5>1. Bounds[i][2] = DaysPerWeek - 1 /\ Bounds[i][1] = 0
            BY <3>1, BoundsAre
          <5>2. _resolve(item.from, i) <= DaysPerWeek - 1
            BY <1>8, <2>1, <5>1
          <5> QED
            BY <1>1, <3>1, <5>1, <5>2, Sizes DEF _resolve, Within
        <4> QED
          BY <1>1, <1>6, <3>1, <4>1, Sizes DEF Listed, _resolve
      <3>2. CASE i # Weekday
        BY <1>6, <3>2 DEF Listed, _resolve
      <3> QED
        BY <3>1, <3>2
    <2> QED
      BY <2>1, <2>2, <2>3, <2>4
  <1>7. CASE item.base # "value"
    <2> DEFINE from == From(item, i)
               upto == Upto(item, i)
               step == Step(item)
    <2>1. Listed(item, i, v) <=> \E k \in 0 .. v : v = from + k * step /\ v <= upto
      BY <1>7 DEF Listed
    <2>2. from \in Nat /\ upto \in Int /\ step \in Nat \ {0}
      BY <1>2, <1>4, <1>8
    <2> HIDE DEF from, upto, step
    <2>3. Listed(item, i, v) <=> (\E k \in 0 .. v : v = from + k * step) /\ v <= upto
      BY <2>1
    <2>4. Listed(item, i, v) <=> from <= v /\ (v - from) % step = 0 /\ v <= upto
      BY <2>2, <2>3, Steps
    <2>5. v \in {x \in from .. upto : (x - from) % step = 0} <=> from <= v /\ (v - from) % step = 0 /\ v <= upto
      BY <2>2
    <2> QED
      BY <2>4, <2>5 DEF from, upto, step
  <1> QED
    BY <1>6, <1>7

(* The expressions there are, and those that are accepted. *)
Expression == [name : STRING, fields : Seq(Seq(FieldItem))]

(* The shorthands are sequences of fields. *)
LEMMA ShorthandFields ==
  ASSUME NEW name \in DOMAIN Shorthands
  PROVE  Shorthands[name] \in Seq(Seq(FieldItem))
  <1>1. \A v \in Int : Item("value", v, v, NoStep) \in FieldItem
    BY DEF Item, FieldItem
  <1>2. Item("*", 0, 0, NoStep) \in FieldItem
    BY DEF Item, FieldItem
  <1>3. Star \in Seq(FieldItem) /\ Just(0) \in Seq(FieldItem) /\ Just(1) \in Seq(FieldItem)
    BY <1>1, <1>2 DEF Star, Just
  <1>4. name \in {"yearly", "annually", "monthly", "weekly", "daily", "midnight", "hourly"}
    BY DEF Shorthands
  <1> DEFINE S == Seq(FieldItem)
  <1>5. \A a, b, c, d, e \in S : <<a, b, c, d, e>> \in Seq(S)
    <2> HIDE DEF S
    <2> QED
      OBVIOUS
  <1>6. Star \in S /\ Just(0) \in S /\ Just(1) \in S
    BY <1>3
  <1> HIDE DEF S
  <1>7. \A a, b, c, d, e \in {Star, Just(0), Just(1)} : <<a, b, c, d, e>> \in Seq(S)
    BY <1>5, <1>6
  <1>8. \E a, b, c, d, e \in {Star, Just(0), Just(1)} : Shorthands[name] = <<a, b, c, d, e>>
    <2>1. /\ Shorthands["yearly"] = <<Just(0), Just(0), Just(1), Just(1), Star>>
          /\ Shorthands["annually"] = <<Just(0), Just(0), Just(1), Just(1), Star>>
          /\ Shorthands["monthly"] = <<Just(0), Just(0), Just(1), Star, Star>>
          /\ Shorthands["weekly"] = <<Just(0), Just(0), Star, Star, Just(0)>>
          /\ Shorthands["daily"] = <<Just(0), Just(0), Star, Star, Star>>
          /\ Shorthands["midnight"] = <<Just(0), Just(0), Star, Star, Star>>
          /\ Shorthands["hourly"] = <<Just(0), Star, Star, Star, Star>>
      BY DEF Shorthands
    <2> HIDE DEF S
    <2> QED
      BY <1>4, <2>1, Zenon
  <1> QED
    BY <1>7, <1>8 DEF S

(* A field of an accepted expression lists a value iff it is parsed to it. *)
LEMMA FieldLists ==
  ASSUME NEW expression \in Expression, Parses(expression),
         NEW i \in Field, NEW v \in Nat, Within(i, v)
  PROVE  LET f == Fields(expression)
         IN  (\E j \in DOMAIN f[i] : Listed(f[i][j], i, v)) <=> v \in _parse_field(f[i], i)
  <1> DEFINE f == Fields(expression)
             Values(item) == {x \in From(item, i) .. Upto(item, i) : (x - From(item, i)) % Step(item) = 0}
  <1>1. f \in Seq(Seq(FieldItem))
    BY ShorthandFields DEF Expression, Fields, Parses
  <1>2. Len(f) = 5 /\ \A k \in DOMAIN f : f[k] # <<>> /\ \A j \in DOMAIN f[k] : ~Malformed(f[k][j], k)
    BY BoundsAre DEF Parses
  <1>3. i \in DOMAIN f
    BY <1>1, <1>2, LenProperties DEF Field
  <1>4. f[i] \in Seq(FieldItem)
    BY <1>1, <1>3
  <1>5. \A j \in DOMAIN f[i] : f[i][j] \in FieldItem /\ ~Malformed(f[i][j], i)
    BY <1>2, <1>3, <1>4
  <1>6. \A j \in DOMAIN f[i] : Listed(f[i][j], i, v) <=> v \in Values(f[i][j])
    <2> HIDE DEF f
    <2> QED
      BY <1>5, ItemLists
  <1>7. v \in _parse_field(f[i], i) <=> \E j \in DOMAIN f[i] : v \in Values(f[i][j])
    <2> HIDE DEF f
    <2> QED
      BY Zenon DEF _parse_field
  <1> HIDE DEF Values
  <1> QED
    BY <1>6, <1>7

(* A star lists every value of its field. *)
LEMMA StarLists ==
  ASSUME NEW i \in Field, NEW v \in Nat, Within(i, v)
  PROVE  \E j \in DOMAIN Star : Listed(Star[j], i, v)
  <1> DEFINE item == Item("*", 0, 0, NoStep)
  <1>1. 1 \in DOMAIN Star /\ Star[1] = item
    BY DEF Star
  <1>2. item.base = "*" /\ item.step = NoStep
    BY DEF Item
  <1>3. Step(item) = 1 /\ From(item, i) = Bounds[i][1] /\ Upto(item, i) = Bounds[i][2]
    BY <1>2 DEF Step, From, Upto
  <1>4. Bounds[i][1] \in {0, 1} /\ Bounds[i][2] \in Nat
    BY BoundsAre
  <1> DEFINE k == v - Bounds[i][1]
  <1>5. k \in 0 .. v /\ v = Bounds[i][1] + k * 1 /\ v <= Bounds[i][2]
    BY <1>4 DEF Within
  <1>6. \E n \in 0 .. v : v = From(item, i) + n * Step(item) /\ v <= Upto(item, i)
    BY <1>3, <1>5
  <1>7. Listed(item, i, v)
    <2> HIDE DEF item
    <2> QED
      BY <1>2, <1>6 DEF Listed
  <1> HIDE DEF item
  <1> QED
    BY <1>1, <1>7

(* The schedule that an accepted expression is parsed to matches the minutes it names. *)
THEOREM DueMatches ==
  ASSUME NEW expression \in Expression, Parses(expression), NEW t \in Nat
  PROVE  Due(expression, t) <=> matches(parse_cron(expression), t)
  <1> DEFINE f == Fields(expression)
             s == parse_cron(expression)
             has(i, v) == \E j \in DOMAIN f[i] : Listed(f[i][j], i, v)
  <1>1. \A i \in Field : \A v \in Nat : Within(i, v) => (has(i, v) <=> v \in _parse_field(f[i], i))
    BY FieldLists
  <1>2. /\ MinuteOf(t) \in Nat /\ Within(1, MinuteOf(t)) /\ HourOf(t) \in Nat /\ Within(2, HourOf(t))
        /\ DateOf(t) \in Nat /\ Within(3, DateOf(t)) /\ MonthOf(t) \in Nat /\ Within(4, MonthOf(t))
        /\ _cron_weekday(t) \in Nat /\ Within(5, _cron_weekday(t))
    <2>1. \A i \in Field : \A v : Within(i, v) => v \in Nat
      BY BoundsAre DEF Within
    <2>2. /\ Within(1, MinuteOf(t)) /\ Within(2, HourOf(t)) /\ Within(3, DateOf(t))
          /\ Within(4, MonthOf(t)) /\ Within(5, _cron_weekday(t))
      BY BoundsAre DEF Within
    <2> QED
      BY <2>1, <2>2 DEF Field
  <1>3. {1, 2, 3, 4, 5} \subseteq Field
    BY DEF Field
  <1>4. /\ f[3] = Star => has(3, DateOf(t))
        /\ f[5] = Star => has(5, _cron_weekday(t))
    BY <1>2, <1>3, StarLists
  <1> HIDE DEF has
  <1>5. /\ has(1, MinuteOf(t)) <=> MinuteOf(t) \in s.minutes
        /\ has(2, HourOf(t)) <=> HourOf(t) \in s.hours
        /\ has(3, DateOf(t)) <=> DateOf(t) \in s.days
        /\ has(4, MonthOf(t)) <=> MonthOf(t) \in s.months
        /\ has(5, _cron_weekday(t)) <=> _cron_weekday(t) \in s.weekdays
        /\ s.day_restricted <=> f[3] # Star
        /\ s.weekday_restricted <=> f[5] # Star
    BY <1>1, <1>2, <1>3 DEF parse_cron
  <1>6. Due(expression, t) <=>
          /\ has(1, MinuteOf(t)) /\ has(2, HourOf(t)) /\ has(4, MonthOf(t))
          /\ IF Star \in {f[3], f[5]} THEN has(3, DateOf(t)) /\ has(5, _cron_weekday(t))
             ELSE has(3, DateOf(t)) \/ has(5, _cron_weekday(t))
    BY Zenon DEF Due, has, Weekday
  <1>7. matches(s, t) <=>
          /\ MinuteOf(t) \in s.minutes /\ HourOf(t) \in s.hours /\ MonthOf(t) \in s.months
          /\ IF s.day_restricted /\ s.weekday_restricted
             THEN DateOf(t) \in s.days \/ _cron_weekday(t) \in s.weekdays
             ELSE /\ s.day_restricted => DateOf(t) \in s.days
                  /\ s.weekday_restricted => _cron_weekday(t) \in s.weekdays
    BY Zenon DEF matches, _day_matches
  <1> HIDE DEF f, s
  <1>8. Due(expression, t) <=> matches(s, t)
    <2>1. CASE f[3] = Star
      BY <1>4, <1>5, <1>6, <1>7, <2>1
    <2>2. CASE f[5] = Star
      BY <1>4, <1>5, <1>6, <1>7, <2>2
    <2>3. CASE f[3] # Star /\ f[5] # Star
      BY <1>5, <1>6, <1>7, <2>3
    <2> QED
      BY <2>1, <2>2, <2>3
  <1> QED
    BY <1>8 DEF s

-----------------------------------------------------------------------------
(* Minutes on a clock that does not change *)

MinuteStart(k) == k * TicksPerMinute

(* A tick is prompt for a minute. *)
Prompt(a, k) == MinuteStart(k) <= a /\ a <= MinuteStart(k) + Latency

(* The minutes follow each other. *)
LEMMA Minutes ==
  /\ TicksPerMinute \in Nat \ {0} /\ Latency \in Nat /\ Latency < TicksPerMinute
  /\ \A k \in Nat : MinuteStart(k) \in Nat
  /\ \A k, l \in Nat : k < l => MinuteStart(k) + TicksPerMinute <= MinuteStart(l)
  <1>1. TicksPerMinute \in Nat \ {0} /\ Latency \in Nat /\ Latency < TicksPerMinute
    BY ClockAssumption
  <1>2. ASSUME NEW k \in Nat PROVE MinuteStart(k) \in Nat
    BY <1>1 DEF MinuteStart
  <1>3. ASSUME NEW k \in Nat, NEW l \in Nat, k < l
        PROVE  MinuteStart(k) + TicksPerMinute <= MinuteStart(l)
    <2>1. k + 1 <= l
      BY <1>3
    <2> QED
      BY <1>1, <2>1, Product DEF MinuteStart
  <1> QED
    BY <1>1, <1>2, <1>3

(* A clock that does not change shows the minute that has begun. *)
LEMMA WallShows ==
  ASSUME ClockChange.by = 0, NEW e \in Nat
  PROVE  /\ Wall(e) = e /\ WallMinute(e) \in Nat
         /\ MinuteStart(WallMinute(e)) <= e /\ e < MinuteStart(WallMinute(e)) + TicksPerMinute
         /\ \A k \in Nat : MinuteStart(k) <= e /\ e < MinuteStart(k) + TicksPerMinute => WallMinute(e) = k
  <1>1. Wall(e) = e
    BY DEF Wall
  <1>2. /\ e \div TicksPerMinute \in Nat /\ e % TicksPerMinute \in 0 .. TicksPerMinute - 1
        /\ e = (e \div TicksPerMinute) * TicksPerMinute + (e % TicksPerMinute)
    BY Quotient, Minutes
  <1>3. WallMinute(e) = e \div TicksPerMinute
    BY <1>1 DEF WallMinute
  <1>4. MinuteStart(WallMinute(e)) = (e \div TicksPerMinute) * TicksPerMinute
        /\ MinuteStart(WallMinute(e)) \in Nat
    BY <1>2, <1>3, Minutes DEF MinuteStart
  <1>5. MinuteStart(WallMinute(e)) <= e /\ e < MinuteStart(WallMinute(e)) + TicksPerMinute
    BY <1>2, <1>4, Minutes
  <1>6. ASSUME NEW k \in Nat, MinuteStart(k) <= e, e < MinuteStart(k) + TicksPerMinute
        PROVE  WallMinute(e) = k
    <2>1. k * TicksPerMinute <= e /\ e < k * TicksPerMinute + TicksPerMinute
      BY <1>6 DEF MinuteStart
    <2>2. e \div TicksPerMinute = k
      BY <2>1, QuotientIs, Minutes
    <2> QED
      BY <1>3, <2>2
  <1> QED
    BY <1>1, <1>2, <1>3, <1>5, <1>6

(* A prompt tick is in its minute. *)
LEMMA PromptIn ==
  ASSUME ClockChange.by = 0, NEW a \in Nat, NEW k \in Nat, Prompt(a, k)
  PROVE  WallMinute(a) = k
  <1>1. MinuteStart(k) \in Nat /\ MinuteStart(k) <= a /\ a < MinuteStart(k) + TicksPerMinute
    BY Minutes DEF Prompt
  <1> QED
    BY <1>1, WallShows

(* The ticks at which a minute begins. *)
LEMMA MinuteBegins ==
  ASSUME ClockChange.by = 0, NEW e \in Nat \ {0}
  PROVE  WallMinute(e) # WallMinute(e - 1) <=> \E k \in Nat : e = MinuteStart(k) /\ WallMinute(e) = k
  <1>1. e - 1 \in Nat
    OBVIOUS
  <1> DEFINE k == WallMinute(e)
             l == WallMinute(e - 1)
  <1>2. /\ k \in Nat /\ MinuteStart(k) \in Nat /\ MinuteStart(k) <= e /\ e < MinuteStart(k) + TicksPerMinute
        /\ l \in Nat /\ MinuteStart(l) \in Nat /\ MinuteStart(l) <= e - 1
        /\ e - 1 < MinuteStart(l) + TicksPerMinute
    BY <1>1, WallShows, Minutes
  <1>3. ASSUME e # MinuteStart(k) PROVE l = k
    <2>1. MinuteStart(k) <= e - 1 /\ e - 1 < MinuteStart(k) + TicksPerMinute
      <3> DEFINE s == MinuteStart(k)
      <3>1. s \in Nat /\ s <= e /\ e < s + TicksPerMinute /\ s # e /\ TicksPerMinute \in Nat
        BY <1>2, <1>3, Minutes
      <3> HIDE DEF s
      <3>2. s <= e - 1 /\ e - 1 < s + TicksPerMinute
        BY <3>1
      <3> QED
        BY <3>2 DEF s
    <2> QED
      BY <1>1, <1>2, <2>1, WallShows
  <1>4. ASSUME e = MinuteStart(k), l = k PROVE FALSE
    <2>1. MinuteStart(k) <= e - 1
      BY <1>2, <1>4
    <2> HIDE DEF k, l
    <2> QED
      BY <1>4, <2>1
  <1> QED
    BY <1>2, <1>3, <1>4

-----------------------------------------------------------------------------
(* The plan *)

ActiveIn(tasks) == {i \in DOMAIN tasks : tasks[i].enabled /\ tasks[i].schedule # Unscheduled}

Matching(tasks, i, k) == matches(parse_cron(tasks[i].schedule), k)

(* Where a plan has the loop sleep to: no active task is due in between (scheduler.py). *)
LEMMA PlanIs ==
  ASSUME ClockChange.by = 0, NEW e \in Nat
  PROVE  /\ Planned(e).state = "idle" => Active = {}
         /\ Planned(e).state = "asleep" =>
              \E m \in Nat :
                /\ Planned(e).wakeAt = MinuteStart(m) /\ WallMinute(e) < m
                /\ \A i \in Active : \A k \in Nat : WallMinute(e) < k /\ k < m => ~Matching(table, i, k)
  <1> DEFINE now == WallMinute(e)
             upcoming == _upcoming(now)
  <1>1. now \in Nat /\ Wall(e) = e
    BY WallShows
  <1>2. \A t : t \in upcoming <=> \E i \in Active : t = next_fire(_schedules(i), now)
    BY Zenon DEF _upcoming
  <1>3. Planned(e) = IF upcoming = {} THEN Loop("idle", 0)
                     ELSE IF NoFire \in upcoming THEN Loop("failed", 0)
                     ELSE Loop("asleep", e + (Min(upcoming) * TicksPerMinute - Wall(e)))
    BY Zenon DEF Planned
  <1> HIDE DEF upcoming
  <1>4. \A s, w : Loop(s, w).state = s /\ Loop(s, w).wakeAt = w
    BY DEF Loop
  <1>5. ASSUME Planned(e).state = "idle" PROVE Active = {}
    <2>1. upcoming = {}
      BY <1>3, <1>4, <1>5
    <2> QED
      BY <1>2, <2>1
  <1>6. ASSUME Planned(e).state = "asleep"
        PROVE  \E m \in Nat :
                 /\ Planned(e).wakeAt = MinuteStart(m) /\ now < m
                 /\ \A i \in Active : \A k \in Nat : now < k /\ k < m => ~Matching(table, i, k)
    <2>1. /\ upcoming # {} /\ NoFire \notin upcoming
          /\ Planned(e).wakeAt = e + (Min(upcoming) * TicksPerMinute - Wall(e))
      BY <1>3, <1>4, <1>6
    <2>2. ASSUME NEW i \in Active
          PROVE  LET t == next_fire(_schedules(i), now)
                 IN  /\ t \in upcoming /\ t \in Nat /\ now < t
                     /\ \A k \in Nat : now < k /\ k < t => ~Matching(table, i, k)
      <3> DEFINE t == next_fire(_schedules(i), now)
      <3>1. t \in upcoming
        BY <1>2
      <3>2. t # NoFire
        BY <2>1, <3>1
      <3>3. t \in Nat /\ now < t /\ Skipped(_schedules(i), now, t)
        BY <1>1, <3>2, NextFire
      <3> HIDE DEF t, now
      <3>4. \A k \in Nat : now < k /\ k < t => ~Matching(table, i, k)
        BY <3>3 DEF Skipped, Matching, _schedules
      <3> QED
        BY <3>1, <3>3, <3>4 DEF t
    <2>3. upcoming \in SUBSET Nat
      BY <1>2, <2>2
    <2>4. PICK x \in upcoming : \A y \in upcoming : x <= y
      BY <2>1, <2>3, LeastNat
    <2> DEFINE m == Min(upcoming)
    <2>5. m \in upcoming /\ \A y \in upcoming : m <= y
      BY <2>4 DEF Min
    <2> HIDE DEF m, now
    <2>6. m \in Nat
      BY <2>3, <2>5
    <2>7. now < m
      BY <1>2, <2>2, <2>5
    <2>8. Planned(e).wakeAt = MinuteStart(m)
      <3>1. MinuteStart(m) \in Nat
        BY <2>6, Minutes
      <3>2. Planned(e).wakeAt = e + (MinuteStart(m) - e)
        BY <1>1, <2>1 DEF MinuteStart, m
      <3> QED
        BY <3>1, <3>2
    <2>9. ASSUME NEW i \in Active, NEW k \in Nat, now < k, k < m PROVE ~Matching(table, i, k)
      <3> DEFINE t == next_fire(_schedules(i), now)
      <3>1. t \in upcoming /\ t \in Nat /\ (now < k /\ k < t => ~Matching(table, i, k))
        BY <2>2
      <3>2. m <= t
        BY <2>5, <3>1
      <3> HIDE DEF t
      <3> QED
        BY <1>1, <2>6, <2>9, <3>1, <3>2
    <2> QED
      BY <2>6, <2>7, <2>8, <2>9
  <1> QED
    BY <1>5, <1>6

-----------------------------------------------------------------------------
(* The loop keeps to its schedules *)

(* The ticks at which a task was started. *)
TicksOf(tasks, i, F) == {r.at : r \in {f \in F : f.task = tasks[i].name}}

(* Every minute before the m-th that a task is due in has been answered, promptly, and *)
(* once, and nothing else has.                                                         *)
Answered(tasks, i, m, since, F) ==
  \A k \in Nat : k < m /\ since < MinuteStart(k) /\ Matching(tasks, i, k) =>
    \E a \in TicksOf(tasks, i, F) : Prompt(a, k)

Warranted(tasks, i, m, since, now, F) ==
  \A a \in TicksOf(tasks, i, F) :
    /\ a \in Nat /\ a <= now
    /\ \E k \in Nat : k < m /\ since < MinuteStart(k) /\ Matching(tasks, i, k) /\ Prompt(a, k)

OneEach(tasks, i, F) ==
  \A a, b \in TicksOf(tasks, i, F) : \A k \in Nat : Prompt(a, k) /\ Prompt(b, k) => a = b

(* The loop sleeps until the m-th minute. *)
Timed(tasks, m, since, now, F) ==
  /\ since < MinuteStart(m) /\ since <= now /\ now <= MinuteStart(m) + Latency
  /\ \A i \in ActiveIn(tasks) :
       Answered(tasks, i, m, since, F) /\ Warranted(tasks, i, m, since, now, F) /\ OneEach(tasks, i, F)

OnTime ==
  \E m \in Nat : /\ scheduler.loop.wakeAt = MinuteStart(m)
                 /\ Timed(table, m, scheduler.since, elapsed, fired)

ClockInv ==
  /\ table \in Seq(Entry) /\ scheduler.since \in Nat
  /\ phase # "rejected" => Constructible(table)
  /\ scheduler.loop.state = "idle" => Active = {}
  /\ scheduler.loop.state = "asleep" => OnTime

(* Only entering, exiting, waking and time move the scheduler. *)
LEMMA SchedulerMoves ==
  ASSUME [Next]_vars
  PROVE  /\ table' = table /\ (phase = "rejected" => phase' = "rejected")
         /\ \/ UNCHANGED <<elapsed, scheduler, fired>>
            \/ phase = "entering" /\ \E on : EnterScheduler(on)
            \/ ExitScheduler
            \/ Wake
            \/ Pass
  <1>1. CASE UNCHANGED vars
    BY <1>1 DEF vars, schedulerVars, lifeVars
  <1>2. CASE Start \/ FailEnter \/ Serve \/ EndTarget \/ Stop \/ Off
    BY <1>2 DEF Start, FailEnter, Serve, EndTarget, Stop, Off, schedulerVars
  <1>3. CASE Enter
    BY <1>3 DEF Enter, EnterScheduler, schedulerVars
  <1>4. CASE Exit
    <2>1. phase = "exiting" /\ \E part, raises : Effect(part, raises)
      BY <1>4 DEF Exit
    <2>2. ExitScheduler \/ UNCHANGED schedulerVars
      BY <2>1 DEF Effect
    <2> QED
      BY <2>1, <2>2 DEF ExitScheduler, schedulerVars
  <1>5. CASE Write \/ AskSession \/ ClientConnects \/ PrincipalsChange \/ (RealtimeNext /\ UNCHANGED <<schedulerVars, sessionVars, lifeVars>>)
    BY <1>5 DEF Write, AskSession, ClientConnects, PrincipalsChange, schedulerVars, lifeVars
  <1>6. CASE SchedulerNext /\ UNCHANGED <<realtimeVars, sessionVars, lifeVars>>
    BY <1>6 DEF SchedulerNext, Wake, Pass, EndRun, lifeVars
  <1> QED
    BY <1>1, <1>2, <1>3, <1>4, <1>5, <1>6 DEF Next, Lifecycle

(* The loop has not begun at first. *)
LEMMA ClockStart ==
  ASSUME Init
  PROVE  ClockInv
  <1>1. PICK m \in Manifests :
          /\ table = m.tasks /\ scheduler = Closed
          /\ phase = IF Constructible(m.tasks) THEN "off" ELSE "rejected"
    BY DEF Init, SchedulerInit
  <1>2. table \in Seq(Entry)
    BY <1>1, ManifestAssumption
  <1> QED
    BY <1>1, <1>2 DEF ClockInv, Closed, Loop

(* The loop begins. *)
LEMMA ClockEnters ==
  ASSUME ClockChange.by = 0, SchedulerInv, ClockInv, phase = "entering", NEW on, EnterScheduler(on)
  PROVE  /\ scheduler'.since \in Nat
         /\ scheduler'.loop.state = "idle" => Active = {}
         /\ scheduler'.loop.state = "asleep" => OnTime'
  <1> DEFINE e == elapsed
             loop == IF on THEN Planned(e) ELSE Loop("none", 0)
  <1>1. /\ scheduler' = [entered |-> TRUE, since |-> e, loop |-> loop]
        /\ fired' = {} /\ table' = table /\ elapsed' = e /\ e \in Nat
    BY DEF EnterScheduler, SchedulerInv
  <1>2. loop.state \in {"idle", "asleep"} => loop = Planned(e)
    BY DEF Loop
  <1> HIDE DEF e, loop
  <1>3. scheduler'.loop = loop /\ scheduler'.since = e
    BY <1>1
  <1>4. ASSUME loop.state = "idle" PROVE Active = {}
    BY <1>1, <1>2, <1>4, PlanIs
  <1>5. ASSUME loop.state = "asleep" PROVE OnTime'
    <2>1. PICK m \in Nat :
            /\ loop.wakeAt = MinuteStart(m) /\ WallMinute(e) < m
            /\ \A i \in Active : \A k \in Nat : WallMinute(e) < k /\ k < m => ~Matching(table, i, k)
      BY <1>1, <1>2, <1>5, PlanIs
    <2>2. /\ WallMinute(e) \in Nat /\ e < MinuteStart(WallMinute(e)) + TicksPerMinute
          /\ MinuteStart(WallMinute(e)) + TicksPerMinute <= MinuteStart(m)
          /\ MinuteStart(WallMinute(e)) \in Nat /\ MinuteStart(m) \in Nat
      BY <1>1, <2>1, WallShows, Minutes
    <2>3. e < MinuteStart(m) /\ e <= MinuteStart(m) + Latency
      BY <1>1, <2>2, Minutes
    <2>4. \A i : TicksOf(table, i, {}) = {}
      BY DEF TicksOf
    <2>5. ASSUME NEW i \in ActiveIn(table), NEW k \in Nat, k < m, e < MinuteStart(k), Matching(table, i, k)
          PROVE  FALSE
      <3>1. i \in Active
        BY DEF Active, ActiveIn
      <3>2. ~(WallMinute(e) < k)
        BY <2>1, <2>5, <3>1
      <3>3. k <= WallMinute(e)
        BY <2>2, <3>2
      <3>4. MinuteStart(k) <= MinuteStart(WallMinute(e))
        <4>1. CASE k = WallMinute(e)
          BY <2>2, <4>1
        <4>2. CASE k < WallMinute(e)
          BY <2>2, <4>2, Minutes
        <4> QED
          BY <2>2, <3>3, <4>1, <4>2
      <3>5. MinuteStart(WallMinute(e)) <= e
        BY <1>1, WallShows
      <3> QED
        BY <1>1, <2>2, <2>5, <3>4, <3>5, Minutes
    <2>6. Timed(table, m, e, e, {})
      BY <1>1, <2>3, <2>4, <2>5 DEF Timed, Answered, Warranted, OneEach
    <2> QED
      BY <1>1, <1>3, <2>1, <2>6 DEF OnTime
  <1> QED
    BY <1>1, <1>3, <1>4, <1>5

(* The runs of the m-th minute are started at tick x, and the ticks that gives a task. *)
Started(tasks, F, G, x, m) ==
  \A r : r \in G <=> r \in F \/ \E j \in ActiveIn(tasks) :
                        Matching(tasks, j, m) /\ r = [task |-> tasks[j].name, at |-> x]

Ticked(tasks, i, F, G, x, m) ==
  \A a : a \in TicksOf(tasks, i, G) <=>
           a \in TicksOf(tasks, i, F) \/ (a = x /\ Matching(tasks, i, m))

(* A wake-up adds its tick to the tasks that match, by their unique names. *)
LEMMA WakeTicks ==
  ASSUME NEW tasks, Constructible(tasks), NEW F, NEW G, NEW x, NEW m, NEW i \in ActiveIn(tasks),
         Started(tasks, F, G, x, m)
  PROVE  Ticked(tasks, i, F, G, x, m)
  <1> DEFINE J == {n \in ActiveIn(tasks) : Matching(tasks, n, m)}
             run(j) == [task |-> tasks[j].name, at |-> x]
  <1>1. \A j \in ActiveIn(tasks) : tasks[j].name = tasks[i].name => j = i
    BY DEF Constructible, ActiveIn
  <1>2. \A r : r \in G <=> r \in F \/ \E j \in J : r = run(j)
    BY DEF Started
  <1>3. \A H, a : a \in TicksOf(tasks, i, H) <=> \E r \in H : r.task = tasks[i].name /\ a = r.at
    BY DEF TicksOf
  <1>4. \A j : run(j).task = tasks[j].name /\ run(j).at = x
    OBVIOUS
  <1>5. \A j : j \in J <=> j \in ActiveIn(tasks) /\ Matching(tasks, j, m)
    OBVIOUS
  <1> HIDE DEF J, run
  <1>6. ASSUME NEW a PROVE a \in TicksOf(tasks, i, G) => a \in TicksOf(tasks, i, F) \/ (a = x /\ Matching(tasks, i, m))
    <2> SUFFICES ASSUME NEW r \in G, r.task = tasks[i].name, a = r.at
                 PROVE  a \in TicksOf(tasks, i, F) \/ (a = x /\ Matching(tasks, i, m))
      BY <1>3
    <2>1. CASE r \in F
      BY <1>3, <2>1
    <2>2. CASE \E j \in J : r = run(j)
      BY <1>1, <1>4, <1>5, <2>2
    <2> QED
      BY <1>2, <2>1, <2>2
  <1>7. ASSUME NEW a PROVE a \in TicksOf(tasks, i, F) => a \in TicksOf(tasks, i, G)
    BY <1>2, <1>3
  <1>8. Matching(tasks, i, m) => x \in TicksOf(tasks, i, G)
    <2> SUFFICES ASSUME Matching(tasks, i, m) PROVE x \in TicksOf(tasks, i, G)
      OBVIOUS
    <2>1. run(i) \in G
      BY <1>2, <1>5
    <2> QED
      BY <1>3, <1>4, <2>1
  <1> QED
    BY <1>6, <1>7, <1>8 DEF Ticked

(* The loop wakes in the minute it slept for. *)
LEMMA ClockWakes ==
  ASSUME ClockChange.by = 0, SchedulerInv, ClockInv, phase # "rejected", Wake
  PROVE  /\ scheduler'.since \in Nat
         /\ scheduler'.loop.state = "idle" => Active = {}
         /\ scheduler'.loop.state = "asleep" => OnTime'
  <1> DEFINE x == elapsed
             loop == Planned(x)
             tasks == table
             since == scheduler.since
             F == fired
             G == fired'
  <1>1. /\ scheduler' = [scheduler EXCEPT !.loop = loop] /\ table' = tasks /\ elapsed' = x
        /\ scheduler.loop.wakeAt <= x /\ x \in Nat /\ since \in Nat
        /\ fired' = fired \cup {[task |-> tasks[i].name, at |-> x] : i \in Starts(WallMinute(x))}
    BY DEF Wake, SchedulerInv, ClockInv
  <1>2. scheduler'.loop = loop /\ scheduler'.since = since
    BY <1>1 DEF SchedulerInv
  <1>3. Constructible(tasks) /\ OnTime
    BY DEF ClockInv, Wake
  <1>4. PICK m \in Nat : scheduler.loop.wakeAt = MinuteStart(m) /\ Timed(tasks, m, since, x, F)
    BY <1>3 DEF OnTime
  <1>5. /\ since < MinuteStart(m) /\ since <= x /\ x <= MinuteStart(m) + Latency /\ MinuteStart(m) <= x
        /\ \A i \in ActiveIn(tasks) :
             Answered(tasks, i, m, since, F) /\ Warranted(tasks, i, m, since, x, F) /\ OneEach(tasks, i, F)
    BY <1>1, <1>4 DEF Timed
  <1>6. Prompt(x, m) /\ WallMinute(x) = m
    BY <1>1, <1>5, PromptIn DEF Prompt
  <1>7. Starts(WallMinute(x)) = {n \in ActiveIn(tasks) : Matching(tasks, n, m)}
    BY <1>6 DEF Starts, Active, ActiveIn, Matching, _schedules
  <1>8. ASSUME NEW i \in ActiveIn(tasks)
        PROVE  \A a : a \in TicksOf(tasks, i, G) <=>
                        a \in TicksOf(tasks, i, F) \/ (a = x /\ Matching(tasks, i, m))
    <2>1. Started(tasks, F, G, x, m)
      <3>1. \A j : j \in Starts(WallMinute(x)) <=> j \in ActiveIn(tasks) /\ Matching(tasks, j, m)
        BY <1>7
      <3>2. G = F \cup {[task |-> tasks[j].name, at |-> x] : j \in Starts(WallMinute(x))}
        BY <1>1
      <3> HIDE DEF tasks, G, F, x
      <3> QED
        BY <3>1, <3>2, Zenon DEF Started
    <2> HIDE DEF tasks, G, F, x
    <2>2. Ticked(tasks, i, F, G, x, m)
      BY <1>3, <2>1, WakeTicks
    <2> QED
      BY <2>2 DEF Ticked
  <1>9. loop.state = "idle" => Active = {}
    BY <1>1, PlanIs
  <1>10. ASSUME loop.state = "asleep" PROVE OnTime'
    <2>1. PICK n \in Nat :
            /\ loop.wakeAt = MinuteStart(n) /\ m < n
            /\ \A i \in Active : \A k \in Nat : m < k /\ k < n => ~Matching(tasks, i, k)
      BY <1>1, <1>6, <1>10, PlanIs
    <2> HIDE DEF x, loop, tasks, since, F, G
    <2>2. /\ MinuteStart(m) \in Nat /\ MinuteStart(n) \in Nat
          /\ MinuteStart(m) + TicksPerMinute <= MinuteStart(n)
      BY <2>1, Minutes
    <2>3. since < MinuteStart(n) /\ since <= x /\ x <= MinuteStart(n) + Latency
      BY <1>1, <1>5, <2>2, Minutes
    <2>4. ASSUME NEW i \in ActiveIn(tasks) PROVE Answered(tasks, i, n, since, G)
      <3> SUFFICES ASSUME NEW k \in Nat, k < n, since < MinuteStart(k), Matching(tasks, i, k)
                   PROVE  \E a \in TicksOf(tasks, i, G) : Prompt(a, k)
        BY DEF Answered
      <3>1. CASE k < m
        <4>1. \E a \in TicksOf(tasks, i, F) : Prompt(a, k)
          BY <1>5, <3>1 DEF Answered
        <4> QED
          BY <1>8, <4>1
      <3>2. CASE k = m
        BY <1>6, <1>8, <3>2
      <3>3. CASE m < k
        <4>1. i \in Active
          BY DEF Active, ActiveIn, tasks
        <4> QED
          BY <2>1, <3>3, <4>1
      <3> QED
        BY <3>1, <3>2, <3>3
    <2>5. ASSUME NEW i \in ActiveIn(tasks) PROVE Warranted(tasks, i, n, since, x, G)
      <3> SUFFICES ASSUME NEW a \in TicksOf(tasks, i, G)
                   PROVE  /\ a \in Nat /\ a <= x
                          /\ \E k \in Nat : k < n /\ since < MinuteStart(k) /\ Matching(tasks, i, k) /\ Prompt(a, k)
        BY DEF Warranted
      <3>1. CASE a \in TicksOf(tasks, i, F)
        <4>1. a \in Nat /\ a <= x /\ \E k \in Nat : k < m /\ since < MinuteStart(k) /\ Matching(tasks, i, k) /\ Prompt(a, k)
          BY <1>5, <3>1 DEF Warranted
        <4>2. \A k \in Nat : k < m => k < n
          BY <2>1
        <4> QED
          BY <4>1, <4>2
      <3>2. CASE a = x /\ Matching(tasks, i, m)
        BY <1>1, <1>5, <1>6, <2>1, <3>2
      <3> QED
        BY <1>8, <3>1, <3>2
    <2>6. ASSUME NEW i \in ActiveIn(tasks) PROVE OneEach(tasks, i, G)
      <3>1. ASSUME NEW a \in TicksOf(tasks, i, F), NEW k \in Nat, Prompt(a, k), Prompt(x, k) PROVE FALSE
        <4>1. PICK l \in Nat : a \in Nat /\ l < m /\ Prompt(a, l)
          BY <1>5 DEF Warranted
        <4>2. k = m
          BY <1>1, <1>6, <3>1, PromptIn
        <4>3. WallMinute(a) = l /\ WallMinute(a) = m
          BY <3>1, <4>1, <4>2, PromptIn
        <4> QED
          BY <4>1, <4>3
      <3>2. \A a, b \in TicksOf(tasks, i, F) : \A k \in Nat : Prompt(a, k) /\ Prompt(b, k) => a = b
        BY <1>5 DEF OneEach
      <3> SUFFICES ASSUME NEW a \in TicksOf(tasks, i, G), NEW b \in TicksOf(tasks, i, G), NEW k \in Nat,
                          Prompt(a, k), Prompt(b, k)
                   PROVE  a = b
        BY DEF OneEach
      <3>3. (a \in TicksOf(tasks, i, F) \/ a = x) /\ (b \in TicksOf(tasks, i, F) \/ b = x)
        BY <1>8
      <3> QED
        BY <3>1, <3>2, <3>3
    <2>7. Timed(tasks, n, since, x, G)
      BY <2>3, <2>4, <2>5, <2>6 DEF Timed
    <2>8. scheduler'.loop.wakeAt = MinuteStart(n)
      BY <1>2, <2>1
    <2> QED
      BY <1>1, <1>2, <2>7, <2>8 DEF OnTime, tasks, x, G, since
  <1> QED
    BY <1>1, <1>2, <1>9, <1>10

(* Time passes. *)
LEMMA ClockPasses ==
  ASSUME SchedulerInv, ClockInv, Pass, scheduler.loop.state = "asleep"
  PROVE  OnTime'
  <1> DEFINE x == elapsed
             tasks == table
             since == scheduler.since
             F == fired
  <1>1. elapsed' = x + 1 /\ x \in Nat /\ since \in Nat /\ UNCHANGED <<table, scheduler, fired>>
        /\ x < scheduler.loop.wakeAt + Latency
    BY DEF Pass, SchedulerInv, ClockInv
  <1>2. PICK m \in Nat : scheduler.loop.wakeAt = MinuteStart(m) /\ Timed(tasks, m, since, x, F)
    BY DEF OnTime, ClockInv
  <1>3. MinuteStart(m) \in Nat /\ Latency \in Nat
    BY Minutes
  <1> HIDE DEF x, tasks, since, F
  <1>4. \A i \in ActiveIn(tasks) : Warranted(tasks, i, m, since, x, F) => Warranted(tasks, i, m, since, x + 1, F)
    BY <1>1 DEF Warranted
  <1>5. Timed(tasks, m, since, x + 1, F)
    BY <1>1, <1>2, <1>3, <1>4 DEF Timed
  <1> QED
    BY <1>1, <1>2, <1>5 DEF OnTime, x, tasks, since, F

(* Every step keeps the loop to its schedules. *)
LEMMA ClockStep ==
  ASSUME ClockChange.by = 0, AppInv, ClockInv, [Next]_vars
  PROVE  ClockInv'
  <1>1. LifeInv /\ SchedulerInv /\ PartsInv
    BY DEF AppInv, LifeInv
  <1>2. table' = table /\ (phase = "rejected" => phase' = "rejected")
    BY SchedulerMoves
  <1>3. Constructible(table)' <=> Constructible(table)
    BY <1>2 DEF Constructible
  <1>4. Active' = Active
    BY <1>2 DEF Active
  <1>5. table' \in Seq(Entry) /\ (phase' # "rejected" => Constructible(table)')
    BY <1>2, <1>3 DEF ClockInv
  <1>6. CASE UNCHANGED <<elapsed, scheduler, fired>>
    <2>1. OnTime => OnTime'
      BY <1>2, <1>6 DEF OnTime
    <2> QED
      BY <1>4, <1>5, <1>6, <2>1 DEF ClockInv
  <1>7. CASE phase = "entering" /\ \E on : EnterScheduler(on)
    <2>1. PICK on : EnterScheduler(on)
      BY <1>7
    <2> QED
      BY <1>1, <1>4, <1>5, <1>7, <2>1, ClockEnters DEF ClockInv
  <1>8. CASE ExitScheduler
    <2>1. scheduler' = Closed
      BY <1>8 DEF ExitScheduler
    <2> QED
      BY <1>5, <2>1 DEF ClockInv, Closed, Loop
  <1>9. CASE Wake
    <2>1. phase # "rejected"
      <3>1. scheduler.entered
        BY <1>1, <1>9 DEF SchedulerInv, Wake
      <3> QED
        BY <1>1, <3>1, NothingOpen DEF PartsInv
    <2> QED
      BY <1>1, <1>4, <1>5, <1>9, <2>1, ClockWakes DEF ClockInv
  <1>10. CASE Pass
    <2>1. scheduler' = scheduler
      BY <1>10 DEF Pass
    <2> QED
      BY <1>1, <1>4, <1>5, <1>10, <2>1, ClockPasses DEF ClockInv
  <1> QED
    BY <1>6, <1>7, <1>8, <1>9, <1>10, SchedulerMoves

(* The inductive invariant gives the property. *)
LEMMA ScheduleKept ==
  ASSUME ClockChange.by = 0, AppInv, ClockInv
  PROVE  OnSchedule
  <1> SUFFICES ASSUME scheduler.loop.state \in {"asleep", "idle"} PROVE OnSchedule
    BY DEF OnSchedule
  <1>1. LifeInv /\ SchedulerInv /\ PartsInv /\ elapsed \in Nat /\ scheduler.since \in Nat
    BY DEF AppInv, LifeInv, SchedulerInv, ClockInv
  <1>2. CASE scheduler.loop.state = "idle"
    <2>1. Active = {}
      BY <1>2 DEF ClockInv
    <2> QED
      BY <1>2, <2>1 DEF OnSchedule
  <1>3. CASE scheduler.loop.state = "asleep"
    <2> DEFINE since == scheduler.since
    <2>1. PICK m \in Nat : /\ scheduler.loop.wakeAt = MinuteStart(m)
                           /\ Timed(table, m, since, elapsed, fired)
      BY <1>3 DEF ClockInv, OnTime
    <2>2. phase # "rejected"
      <3>1. scheduler.entered
        BY <1>1, <1>3 DEF SchedulerInv
      <3> QED
        BY <1>1, <3>1, NothingOpen DEF PartsInv
    <2>3. Constructible(table) /\ table \in Seq(Entry)
      BY <2>2 DEF ClockInv
    <2>4. MinuteStart(m) \in Nat /\ Latency \in Nat
      BY Minutes
    <2>5. since <= elapsed /\ elapsed <= MinuteStart(m) + Latency
      BY <2>1 DEF Timed
    <2>6. elapsed \in since .. scheduler.loop.wakeAt + Latency
      BY <1>1, <2>1, <2>4, <2>5
    <2>7. ASSUME NEW i \in Active
          PROVE  LET ticks == {r.at : r \in {f \in fired : f.task = table[i].name}}
                     prompt(a, e) == e <= a /\ a <= e + Latency
                 IN  /\ \A e \in DueTicks(i) : e + Latency < elapsed =>
                          \E a \in ticks : prompt(a, e) /\ \A b \in ticks : prompt(b, e) => a = b
                     /\ \A a \in ticks : \E e \in DueTicks(i) : prompt(a, e)
      <3> DEFINE ticks == {r.at : r \in {f \in fired : f.task = table[i].name}}
                 prompt(a, e) == e <= a /\ a <= e + Latency
      <3>1. ticks = TicksOf(table, i, fired)
        BY DEF TicksOf
      <3>2. /\ Answered(table, i, m, since, fired) /\ Warranted(table, i, m, since, elapsed, fired)
            /\ OneEach(table, i, fired)
        BY <2>1 DEF Timed, Active, ActiveIn
      <3>3. i \in DOMAIN table /\ table[i].schedule # Unscheduled
        BY DEF Active
      <3>4. table[i].schedule \in Expression /\ Parses(table[i].schedule)
        <4>1. table[i] \in Entry
          BY <2>3, <3>3
        <4> QED
          BY <2>3, <3>3, <4>1 DEF Constructible, Entry, Expression
      <3>5. \A k \in Nat : Due(table[i].schedule, k) <=> Matching(table, i, k)
        BY <3>4, DueMatches DEF Matching
      <3> HIDE DEF ticks
      <3>6. ASSUME NEW e \in DueTicks(i), e + Latency < elapsed
            PROVE  \E a \in ticks : prompt(a, e) /\ \A b \in ticks : prompt(b, e) => a = b
        <4>1. /\ e \in Nat \ {0} /\ since < e
              /\ WallMinute(e) # WallMinute(e - 1) /\ Due(table[i].schedule, WallMinute(e))
          BY <1>1 DEF DueTicks
        <4>2. PICK k \in Nat : e = MinuteStart(k) /\ WallMinute(e) = k
          BY <4>1, MinuteBegins
        <4>3. Matching(table, i, k) /\ since < MinuteStart(k)
          BY <3>5, <4>1, <4>2
        <4>4. k < m
          <5>1. ASSUME m <= k PROVE FALSE
            <6>1. MinuteStart(m) <= MinuteStart(k)
              <7>1. CASE m = k
                BY <2>4, <7>1
              <7>2. CASE m < k
                BY <2>4, <4>1, <4>2, <7>2, Minutes
              <7> QED
                BY <5>1, <7>1, <7>2
            <6> QED
              BY <1>1, <2>4, <2>5, <3>6, <4>1, <4>2, <6>1
          <5> QED
            BY <5>1
        <4>5. PICK a \in ticks : Prompt(a, k)
          BY <3>1, <3>2, <4>3, <4>4 DEF Answered
        <4>6. \A b \in ticks : Prompt(b, k) => a = b
          BY <3>1, <3>2, <4>5 DEF OneEach
        <4> QED
          BY <4>2, <4>5, <4>6 DEF Prompt
      <3>7. ASSUME NEW a \in ticks PROVE \E e \in DueTicks(i) : prompt(a, e)
        <4>1. PICK k \in Nat : a \in Nat /\ a <= elapsed /\ since < MinuteStart(k)
                               /\ Matching(table, i, k) /\ Prompt(a, k)
          BY <3>1, <3>2 DEF Warranted
        <4> DEFINE e == MinuteStart(k)
        <4>2. e \in Nat \ {0} /\ e <= a /\ a <= e + Latency /\ since < e
          BY <1>1, <4>1, Minutes DEF Prompt
        <4> HIDE DEF e
        <4>3. e \in since + 1 .. elapsed
          BY <1>1, <4>1, <4>2
        <4>4. WallMinute(e) = k
          <5>1. e < e + TicksPerMinute /\ e <= e
            BY <4>2, Minutes
          <5> QED
            BY <4>2, <5>1, WallShows DEF e
        <4>5. WallMinute(e) # WallMinute(e - 1)
          BY <4>2, <4>4, MinuteBegins DEF e
        <4>6. Due(table[i].schedule, WallMinute(e))
          BY <3>5, <4>1, <4>4
        <4>7. e \in DueTicks(i)
          BY <4>3, <4>5, <4>6 DEF DueTicks
        <4> QED
          BY <4>2, <4>7
      <3> QED
        BY <3>6, <3>7 DEF ticks
    <2> QED
      BY <1>3, <2>6, <2>7 DEF OnSchedule
  <1> QED
    BY <1>2, <1>3

(* On a clock that does not change, the loop starts each active task once in every minute *)
(* its schedule names, within the latency of a wake-up, and in no other, and never sleeps *)
(* past its next fire (scheduler.py, cron.py).                                            *)
THEOREM SchedulesAreKept ==
  ASSUME ClockChange.by = 0
  PROVE  Spec => []OnSchedule
  <1>1. Init => ClockInv
    BY ClockStart
  <1>2. AppInv /\ ClockInv /\ [Next]_vars => ClockInv'
    BY ClockStep
  <1>3. AppInv /\ ClockInv => OnSchedule
    BY ScheduleKept
  <1> QED
    BY <1>1, <1>2, <1>3, AppAlways, PTL DEF Spec
=============================================================================
