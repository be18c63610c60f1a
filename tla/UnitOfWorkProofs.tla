-------------------------- MODULE UnitOfWorkProofs --------------------------
(***************************************************************************)
(* Theorems about UnitOfWork, for every set of requests, engines and       *)
(* batches and every number of faults.                                     *)
(***************************************************************************)
EXTENDS UnitOfWork, SequenceTheorems, TLAPS

Service == [engine : Engine, owns : BOOLEAN]

-----------------------------------------------------------------------------
(* Facts about the data *)

(* Taking the last element off a sequence leaves the others in place. *)
LEMMA RemoveLast ==
  ASSUME NEW S, NEW s \in Seq(S), s # <<>>
  PROVE  LET t == RemoveAt(s, Len(s))
         IN  /\ t \in Seq(S)
             /\ Len(t) = Len(s) - 1
             /\ \A i \in 1 .. Len(t) : t[i] = s[i]
  <1>1. Len(s) \in Nat /\ Len(s) # 0
    BY EmptySeq, LenProperties
  <1>2. /\ SubSeq(s, 1, Len(s) - 1) \in Seq(S)
        /\ Len(SubSeq(s, 1, Len(s) - 1)) = Len(s) - 1
        /\ \A i \in 1 .. Len(s) - 1 : SubSeq(s, 1, Len(s) - 1)[i] = s[i]
    <2> DEFINE m == Len(s) - 1
    <2>1. m \in Int /\ 0 <= m /\ \A i \in 1 .. m : s[i] \in S
      BY <1>1, LenProperties
    <2> HIDE DEF m
    <2>2. /\ SubSeq(s, 1, m) \in Seq(S)
          /\ Len(SubSeq(s, 1, m)) = IF 1 <= m THEN m - 1 + 1 ELSE 0
          /\ \A i \in 1 .. m - 1 + 1 : SubSeq(s, 1, m)[i] = s[1 + i - 1]
      BY <2>1, SubSeqProperties
    <2>3. Len(SubSeq(s, 1, m)) = m /\ \A i \in 1 .. m : SubSeq(s, 1, m)[i] = s[i]
      BY <2>1, <2>2
    <2> QED
      BY <2>2, <2>3 DEF m
  <1>3. SubSeq(s, Len(s) + 1, Len(s)) = <<>>
    <2>1. Len(s) \in Int /\ Len(s) + 1 \in Int /\ Len(s) < Len(s) + 1
      BY <1>1
    <2> QED
      BY <2>1, SubSeqEmpty
  <1>4. RemoveAt(s, Len(s)) = SubSeq(s, 1, Len(s) - 1)
    <2>1. SubSeq(s, 1, Len(s) - 1) \o <<>> = SubSeq(s, 1, Len(s) - 1)
      BY <1>2, ConcatEmptySeq
    <2> QED
      BY <1>3, <2>1 DEF RemoveAt
  <1> QED
    BY <1>1, <1>2, <1>4

(* A batch is a nonempty sequence of edits; the empty sequence stands for none. *)
LEMMA BatchType ==
  ASSUME Types, NEW r \in Request
  PROVE  /\ batch[r] \in Seq(Edit)
         /\ Len(batch[r]) \in Nat
         /\ \A p \in Positions(r) : /\ batch[r][p].res \in Resource
                                    /\ EngineOf[batch[r][p].res] \in Engine
         /\ \A b \in Batches : Len(b) > 0
  <1>1. batch[r] \in Seq(Edit) /\ Batches \subseteq Seq(Edit) \ {<<>>}
    <2>1. Batches \subseteq Seq(Edit) \ {<<>>}
      BY UnitAssumption
    <2>2. batch[r] \in Batches \cup {<<>>}
      BY DEF Types
    <2>3. <<>> \in Seq(Edit)
      BY EmptySeq
    <2> QED
      BY <2>1, <2>2, <2>3
  <1>2. \A p \in Positions(r) : batch[r][p] \in Edit
    BY <1>1, ElementOfSeq DEF Positions
  <1> QED
    BY <1>1, <1>2, UnitAssumption, LenProperties, EmptySeq DEF Edit

LEMMA RowTypes ==
  ASSUME Types, NEW r \in Request
  PROVE  /\ Written(r) \in Rows
         /\ Unwritten \notin Rows
         /\ \A x \in Resource : Seen(r, x) \in Rows
  BY UnitAssumption DEF Types, Rows, Written, Seen

-----------------------------------------------------------------------------
(* The handler's control: where request r stands in its batch. *)
Control(r) ==
  /\ pc[r] = "idle" => batch[r] = <<>> /\ at[r] = 0 /\ hits[r] = {} /\ fired[r] = <<>>
  /\ at[r] <= Len(batch[r])
  /\ pc[r] \in {"enter", "apply"} => at[r] < Len(batch[r])
  /\ pc[r] = "apply" => first[r] \in 1 .. at[r] + 1
  /\ pc[r] = "fire" => first[r] \in 1 .. at[r]
  /\ hits[r] \subseteq 1 .. at[r]
  /\ \A n \in DOMAIN fired[r] : {fired[r][n].from, fired[r][n].to} \subseteq 1 .. at[r]
  /\ pc[r] \in {"leave", "done"} /\ ~failed[r] => at[r] = Len(batch[r])

TypeInv == Types /\ \A r \in Request : Control(r)

(* What request r is doing leaves every other request as it was. *)
Step(r) == Accept(r) \/ Handle(r) \/ DeliverSome(r) \/ Fault(r)

Same(q) ==
  /\ <<batch[q], pc[q], at[q], first[q], hits[q], stack[q], open[q], writes[q]>>' =
       <<batch[q], pc[q], at[q], first[q], hits[q], stack[q], open[q], writes[q]>>
  /\ <<failed[q], taken[q], lost[q], fired[q]>>' = <<failed[q], taken[q], lost[q], fired[q]>>

LEMMA OthersSame ==
  ASSUME Types, NEW r \in Request, NEW q \in Request, q # r, Step(r)
  PROVE  Same(q)
  <1> USE DEF Types, Same, Goto, Unwinds
  <1>1. CASE Accept(r)
    BY <1>1 DEF Accept, run, sessions, outcome, triggers
  <1>2. CASE Enter(r)
    BY <1>2 DEF Enter, outcome, triggers
  <1>3. CASE EditHits(r)
    BY <1>3 DEF EditHits, EndOfEdit, outcome, triggers
  <1>4. CASE EditMisses(r)
    BY <1>4 DEF EditMisses, EndOfEdit, sessions, outcome, triggers
  <1>5. CASE EditRaises(r) \/ DeadlockAbort(r)
    BY <1>5 DEF EditRaises, DeadlockAbort, run, sessions, triggers
  <1>6. CASE Fire(r)
    BY <1>6 DEF Fire, run, sessions, outcome
  <1>7. CASE Await(r)
    BY <1>7 DEF Await, run, sessions, outcome, triggers
  <1>8. CASE LeaveUnowned(r) \/ Answer(r)
    BY <1>8 DEF LeaveUnowned, Answer, Pop, run, sessions, outcome, triggers
  <1>9. CASE \E e \in Engine : Commit(r, e) \/ Rollback(r, e)
    BY <1>9 DEF Commit, Rollback, Pop, EndTransaction, run, outcome, triggers
  <1>10. CASE DeliverSome(r)
    BY <1>10 DEF DeliverSome, Deliver, run, sessions, outcome
  <1>11. CASE Raise(r)
    BY <1>11 DEF Raise, run, sessions
  <1>12. CASE \E e \in Engine : CommitRaises(r, e)
    <2> PICK e \in Engine : CommitRaises(r, e)
      BY <1>12
    <2>1. taken'[q] = taken[q]
      BY DEF CommitRaises
    <2>2. /\ failed'[q] = failed[q] /\ lost'[q] = lost[q]
          /\ stack'[q] = stack[q] /\ writes'[q] = writes[q]
      BY DEF CommitRaises, Pop, EndTransaction
    <2>3. UNCHANGED <<batch, pc, run, open, fired>>
      BY DEF CommitRaises, triggers
    <2> QED
      BY <2>1, <2>2, <2>3 DEF run
  <1>13. CASE \E n \in DOMAIN fired[r] : DeliverFails(r, n)
    BY <1>13 DEF DeliverFails, run, sessions, outcome
  <1> QED
    BY <1>1, <1>2, <1>3, <1>4, <1>5, <1>6, <1>7, <1>8, <1>9, <1>10, <1>11,
       <1>12, <1>13 DEF Step, Handle, Exit, Fault

(* Every variable stays in its type. *)
LEMMA TypesStep ==
  ASSUME TypeInv, NEW r \in Request, Step(r)
  PROVE  Types'
  <1> USE DEF TypeInv, Labels, Goto, Unwinds
  <1>rows. /\ Written(r) \in Rows
           /\ \A x \in Resource : Seen(r, x) \in Rows
    BY RowTypes
  <1>edit. pc[r] \in {"enter", "apply"} =>
             Current(r).res \in Resource /\ EngineOf[Current(r).res] \in Engine
    <2> SUFFICES ASSUME pc[r] \in {"enter", "apply"}
                 PROVE  at[r] + 1 \in Positions(r)
      BY BatchType DEF Current
    <2> QED
      <3>1. at[r] \in Nat /\ Len(batch[r]) \in Nat
        BY BatchType DEF Types
      <3>2. at[r] < Len(batch[r])
        BY DEF Control
      <3> QED
        BY <3>1, <3>2 DEF Positions
  <1>pop. ASSUME stack[r] # <<>>, Pop(r)
          PROVE  stack' \in [Request -> Seq(Service)]
    <2>1. stack[r] \in Seq(Service) /\ stack \in [Request -> Seq(Service)]
      BY DEF Types, Service
    <2>2. RemoveAt(stack[r], Len(stack[r])) \in Seq(Service)
      BY <2>1, <1>pop, RemoveLast
    <2> QED
      BY <2>1, <2>2, <1>pop DEF Pop, NextToLeave
  <1>end. ASSUME NEW e \in Engine
          PROVE  /\ EndTransaction(r, e) =>
                      writes' \in [Request -> [Resource -> Rows \cup {Unwritten}]]
                 /\ Committed(r, e) \in [Resource -> Rows]
    <2>1. Ended(r, e) \in [Resource -> Rows \cup {Unwritten}]
      BY DEF Types, Ended
    <2>2. writes \in [Request -> [Resource -> Rows \cup {Unwritten}]]
      BY DEF Types
    <2> QED
      BY <1>rows, <2>1, <2>2 DEF Types, EndTransaction, Committed
  <1>2. CASE Accept(r)
    BY <1>2 DEF Types, Accept, run, sessions, outcome, triggers
  <1>3. CASE Enter(r)
    <2> DEFINE e == EngineOf[Current(r).res]
               opened == ({e} \cap Transactional) \ open[r]
    <2>1. e \in Engine
      BY <1>3, <1>edit DEF Enter
    <2>2. stack' \in [Request -> Seq(Service)]
      <3>1. Append(stack[r], [engine |-> e, owns |-> e \in opened]) \in Seq(Service)
        <4>1. stack[r] \in Seq(Service)
          BY DEF Types, Service
        <4>2. [engine |-> e, owns |-> e \in opened] \in Service
          BY <2>1 DEF Service
        <4> QED
          BY <4>1, <4>2, AppendProperties
      <3> QED
        BY <3>1, <1>3 DEF Enter, Types, Service
    <2>3. open' \in [Request -> SUBSET Engine]
      BY <2>1, <1>3 DEF Enter, Types
    <2>4. first' \in [Request -> Nat] /\ pc' \in [Request -> Labels]
      BY <1>3 DEF Enter, Types
    <2> QED
      BY <2>2, <2>3, <2>4, <1>3 DEF Types, Service, Enter, outcome, triggers
  <1>4. CASE EditHits(r) \/ EditMisses(r)
    <2> DEFINE x == Current(r).res
    <2>1. /\ table' = [table EXCEPT ![x] = Written(r)] \/ table' = table
          /\ writes' = [writes EXCEPT ![r][x] = Written(r)] \/ writes' = writes
          /\ hits' = [hits EXCEPT ![r] = @ \cup {at[r] + 1}] \/ hits' = hits
      BY <1>4 DEF EditHits, EditMisses, sessions
    <2>2. table' \in [Resource -> Rows]
      <3>1. table \in [Resource -> Rows]
        BY DEF Types
      <3> QED
        BY <3>1, <2>1, <1>rows
    <2>3. writes' \in [Request -> [Resource -> Rows \cup {Unwritten}]]
      <3>1. writes \in [Request -> [Resource -> Rows \cup {Unwritten}]]
        BY DEF Types
      <3> HIDE DEF x
      <3> QED
        BY <3>1, <2>1, <1>rows
    <2>4. at' \in [Request -> Nat] /\ hits' \in [Request -> SUBSET Nat]
      <3>1. at \in [Request -> Nat] /\ hits \in [Request -> SUBSET Nat]
        BY DEF Types
      <3>2. at' = [at EXCEPT ![r] = @ + 1]
        BY <1>4 DEF EditHits, EditMisses, EndOfEdit
      <3>3. at[r] \in Nat /\ at[r] + 1 \in Nat
        BY <3>1
      <3> QED
        BY <2>1, <3>1, <3>2, <3>3
    <2>5. pc' \in [Request -> Labels]
      BY <1>4 DEF Types, EditHits, EditMisses, EndOfEdit
    <2>6. UNCHANGED <<batch, first, stack, open, outcome, triggers, faults>>
      BY <1>4 DEF EditHits, EditMisses, sessions
    <2> QED
      BY <2>2, <2>3, <2>4, <2>5, <2>6 DEF Types, outcome, triggers
  <1>6. CASE EditRaises(r) \/ DeadlockAbort(r)
    BY <1>6 DEF Types, EditRaises, DeadlockAbort, run, sessions, triggers
  <1>7. CASE Fire(r)
    <2>1. FiredRun(r) \in [from : Nat, to : Nat]
      BY DEF Types, FiredRun
    <2>2. fired' \in [Request -> Seq([from : Nat, to : Nat])]
      <3>1. fired[r] \in Seq([from : Nat, to : Nat])
        BY DEF Types
      <3>2. Append(fired[r], FiredRun(r)) \in Seq([from : Nat, to : Nat])
        BY <3>1, <2>1, AppendProperties
      <3> QED
        BY <1>7, <3>2 DEF Types, Fire
    <2>3. tasks' \subseteq Request \X Nat
      <3>1. Len(fired[r]) \in Nat
        BY LenProperties DEF Types
      <3> QED
        BY <1>7, <3>1 DEF Types, Fire
    <2>4. pc' \in [Request -> Labels]
      BY <1>7 DEF Types, Fire, AfterRun
    <2> QED
      BY <1>7, <2>2, <2>3, <2>4 DEF Types, Fire, run, sessions, outcome
  <1>8. CASE Await(r)
    BY <1>8 DEF Types, Await, AfterRun, run, sessions, outcome, triggers
  <1>9. CASE LeaveUnowned(r)
    BY <1>9, <1>pop DEF Types, Service, LeaveUnowned, run, outcome, triggers
  <1>10. ASSUME NEW e \in Engine, Commit(r, e)
         PROVE  Types'
    <2>1. stack' \in [Request -> Seq(Service)]
      BY <1>10, <1>pop DEF Commit, Owner
    <2>2. table' \in [Resource -> Rows]
      BY <1>10, <1>end DEF Commit
    <2>3. writes' \in [Request -> [Resource -> Rows \cup {Unwritten}]]
      BY <1>10, <1>end DEF Commit
    <2> QED
      BY <1>10, <2>1, <2>2, <2>3 DEF Types, Service, Commit, run, triggers
  <1>11. ASSUME NEW e \in Engine, Rollback(r, e)
         PROVE  Types'
    <2>1. stack' \in [Request -> Seq(Service)]
      BY <1>11, <1>pop DEF Rollback, Owner
    <2>3. writes' \in [Request -> [Resource -> Rows \cup {Unwritten}]]
      BY <1>11, <1>end DEF Rollback
    <2> QED
      BY <1>11, <2>1, <2>3 DEF Types, Service, Rollback, run, outcome, triggers
  <1>12. CASE Answer(r)
    BY <1>12 DEF Types, Answer, run, sessions, outcome, triggers
  <1>13. CASE DeliverSome(r)
    <2> PICK n \in DOMAIN fired[r] : Deliver(r, n)
      BY <1>13 DEF DeliverSome
    <2>1. Events(r, n) \subseteq Request \X Nat
      <3>1. fired[r][n] \in [from : Nat, to : Nat]
        <4>1. fired[r] \in Seq([from : Nat, to : Nat])
          BY DEF Types
        <4> QED
          BY <4>1, LenProperties
      <3> QED
        BY <3>1 DEF Events
    <2> QED
      BY <2>1 DEF Types, Deliver, run, sessions, outcome
  <1>faults. faults < MaxFaults => faults + 1 \in 0 .. MaxFaults
    BY UnitAssumption DEF Types
  <1>14. CASE Raise(r)
    <2>1. faults' \in 0 .. MaxFaults /\ tasks' \subseteq Request \X Nat
      BY <1>14, <1>faults DEF Raise, Types
    <2> QED
      BY <1>14, <2>1 DEF Types, Raise, run, sessions
  <1>15. ASSUME NEW e \in Engine, CommitRaises(r, e)
         PROVE  Types'
    <2>1. stack' \in [Request -> Seq(Service)] /\ faults' \in 0 .. MaxFaults
      BY <1>15, <1>pop, <1>faults DEF CommitRaises, Owner
    <2>2. table' \in [Resource -> Rows]
      BY <1>15, <1>end DEF CommitRaises, Types
    <2>3. writes' \in [Request -> [Resource -> Rows \cup {Unwritten}]]
      BY <1>15, <1>end DEF CommitRaises
    <2>4. lost' \in [Request -> SUBSET Engine] /\ failed' \in [Request -> BOOLEAN]
      BY <1>15 DEF CommitRaises, Types
    <2>5. taken' \in [Request -> SUBSET Engine]
      <3>1. taken \in [Request -> SUBSET Engine]
        BY DEF Types
      <3>2. taken' = taken \/ taken' = [taken EXCEPT ![r] = @ \cup {e}]
        BY <1>15 DEF CommitRaises
      <3> QED
        BY <3>1, <3>2
    <2> QED
      BY <1>15, <2>1, <2>2, <2>3, <2>4, <2>5 DEF Types, Service, CommitRaises, run, triggers
  <1>16. ASSUME NEW n \in DOMAIN fired[r], DeliverFails(r, n)
         PROVE  Types'
    <2>1. faults' \in 0 .. MaxFaults
      BY <1>16, <1>faults DEF DeliverFails
    <2> QED
      BY <1>16, <2>1 DEF Types, DeliverFails, run, sessions, outcome
  <1> QED
    BY <1>2, <1>3, <1>4, <1>6, <1>7, <1>8, <1>9, <1>10, <1>11, <1>12, <1>13, <1>14,
       <1>15, <1>16 DEF Step, Handle, Exit, Fault

-----------------------------------------------------------------------------
LEMMA ControlStep ==
  ASSUME TypeInv, NEW r \in Request, Step(r)
  PROVE  \A q \in Request : Control(q)'
  <1> SUFFICES ASSUME NEW q \in Request
               PROVE  Control(q)'
    OBVIOUS
  <1> USE DEF TypeInv, Goto, Unwinds
  <1>1. CASE q # r
    <2>1. Same(q)
      BY <1>1, OthersSame
    <2> QED
      BY <2>1 DEF Same, Control
  <1> SUFFICES ASSUME q = r
               PROVE  Control(r)'
    BY <1>1
  <1>types. /\ at[r] \in Nat /\ first[r] \in Nat /\ Len(batch[r]) \in Nat
            /\ pc[r] \in Labels
    BY BatchType DEF Types
  <1>2. CASE Accept(r)
    <2>1. batch'[r] \in Batches /\ pc'[r] = "enter"
      BY <1>2 DEF Accept, Types
    <2>2. Len(batch'[r]) > 0 /\ Len(batch'[r]) \in Nat
      BY <2>1, BatchType, UnitAssumption, LenProperties
    <2>3. UNCHANGED <<at, first, hits, fired>>
      BY <1>2 DEF Accept, run, triggers
    <2> QED
      BY <1>2, <2>1, <2>2, <2>3 DEF Control, Accept
  <1>3. CASE Enter(r)
    <2>1. first'[r] = at[r] + 1 /\ pc'[r] = "apply"
      BY <1>3 DEF Enter, Types
    <2>2. UNCHANGED <<batch, at, hits, failed, fired>>
      BY <1>3 DEF Enter, outcome, triggers
    <2> QED
      BY <1>3, <1>types, <2>1, <2>2 DEF Control, Enter
  <1>4. CASE EditHits(r) \/ EditMisses(r)
    <2>1. at'[r] = at[r] + 1 /\ hits'[r] \subseteq hits[r] \cup {at[r] + 1}
      BY <1>4 DEF EditHits, EditMisses, EndOfEdit, Types
    <2>2. (pc'[r] = "apply" /\ at[r] + 1 < Len(batch[r])) \/ pc'[r] = "fire"
      BY <1>4 DEF EditHits, EditMisses, EndOfEdit, Types
    <2>3. UNCHANGED <<batch, first, failed, fired>>
      BY <1>4 DEF EditHits, EditMisses, outcome, triggers
    <2>4. pc[r] = "apply"
      BY <1>4 DEF EditHits, EditMisses
    <2>5. at'[r] <= Len(batch[r]) /\ hits'[r] \subseteq 1 .. at'[r]
      BY <1>types, <2>1, <2>4 DEF Control
    <2>6. first[r] \in 1 .. at'[r]
      BY <1>types, <2>1, <2>4 DEF Control
    <2>7. \A n \in DOMAIN fired[r] : {fired[r][n].from, fired[r][n].to} \subseteq 1 .. at'[r]
      BY <1>types, <2>1 DEF Control
    <2> QED
      BY <1>types, <2>1, <2>2, <2>3, <2>5, <2>6, <2>7 DEF Control
  <1>5. CASE EditRaises(r) \/ DeadlockAbort(r) \/ Raise(r)
    <2>1. pc'[r] = "leave" /\ failed'[r]
      BY <1>5 DEF EditRaises, DeadlockAbort, Raise, Types
    <2>2. UNCHANGED <<batch, at, first, hits, fired>>
      BY <1>5 DEF EditRaises, DeadlockAbort, Raise, run, triggers
    <2> QED
      BY <2>1, <2>2 DEF Control
  <1>more. \/ AfterRun(r) = "enter" /\ at[r] < Len(batch[r])
           \/ AfterRun(r) = "leave" /\ at[r] = Len(batch[r])
    <2>1. at[r] <= Len(batch[r])
      BY DEF Control
    <2>2. CASE More(r)
      BY <1>types, <2>1, <2>2 DEF AfterRun, More
    <2>3. CASE ~More(r)
      BY <1>types, <2>1, <2>3 DEF AfterRun, More
    <2> QED
      BY <2>2, <2>3
  <1>6. CASE Fire(r)
    <2>1. pc'[r] = "await" \/ pc'[r] = AfterRun(r)
      BY <1>6 DEF Fire, Types
    <2>2. UNCHANGED <<batch, at, first, hits, failed>>
      BY <1>6 DEF Fire, run, outcome
    <2>3. first[r] \in 1 .. at[r] /\ at[r] \in 1 .. at[r]
      BY <1>6, <1>types DEF Fire, Control
    <2>4. \A n \in DOMAIN fired'[r] : {fired'[r][n].from, fired'[r][n].to} \subseteq 1 .. at[r]
      <3>1. fired[r] \in Seq([from : Nat, to : Nat]) /\ FiredRun(r) \in [from : Nat, to : Nat]
        BY DEF Types, FiredRun
      <3>2. CASE fired' = fired
        BY <3>2 DEF Control
      <3>3. CASE fired'[r] = Append(fired[r], FiredRun(r))
        <4>1. {FiredRun(r).from, FiredRun(r).to} \subseteq 1 .. at[r]
          BY <2>3 DEF FiredRun
        <4>2. \A n \in DOMAIN fired'[r] :
                \/ n \in DOMAIN fired[r] /\ fired'[r][n] = fired[r][n]
                \/ fired'[r][n] = FiredRun(r)
          BY <3>1, <3>3, AppendProperties, LenProperties
        <4> QED
          BY <4>1, <4>2 DEF Control
      <3> QED
        BY <1>6, <3>2, <3>3 DEF Fire, Types
    <2> QED
      BY <1>more, <2>1, <2>2, <2>4 DEF Control
  <1>7. CASE Await(r)
    <2>1. pc'[r] = AfterRun(r)
      BY <1>7 DEF Await, Types
    <2>2. UNCHANGED <<batch, at, first, hits, failed, fired>>
      BY <1>7 DEF Await, run, outcome, triggers
    <2> QED
      BY <1>more, <2>1, <2>2 DEF Control
  <1>8. CASE LeaveUnowned(r) \/ \E e \in Engine : Commit(r, e) \/ Rollback(r, e)
    <2>1. UNCHANGED <<batch, pc, at, first, hits, failed, fired>>
      BY <1>8 DEF LeaveUnowned, Commit, Rollback, run, outcome, triggers
    <2> QED
      BY <2>1 DEF Control
  <1>9. CASE \E e \in Engine : CommitRaises(r, e)
    <2>1. UNCHANGED <<batch, pc, at, first, hits, fired>> /\ failed'[r]
      BY <1>9 DEF CommitRaises, run, triggers, Types
    <2>2. pc[r] = "leave"
      BY <1>9 DEF CommitRaises, Owner, Leaving
    <2> QED
      BY <2>1, <2>2 DEF Control
  <1>10. CASE Answer(r)
    <2>1. UNCHANGED <<batch, at, first, hits, failed, fired>>
      BY <1>10 DEF Answer, run, outcome, triggers
    <2>2. pc[r] = "leave" /\ pc'[r] = "done"
      BY <1>10 DEF Answer, Types
    <2> QED
      BY <2>1, <2>2 DEF Control
  <1>11. CASE DeliverSome(r) \/ \E n \in DOMAIN fired[r] : DeliverFails(r, n)
    <2>1. UNCHANGED <<batch, pc, at, first, hits, failed, fired>>
      BY <1>11 DEF DeliverSome, Deliver, DeliverFails, run, outcome
    <2> QED
      BY <2>1 DEF Control
  <1> QED
    BY <1>2, <1>3, <1>4, <1>5, <1>6, <1>7, <1>8, <1>9, <1>10, <1>11
       DEF Step, Handle, Exit, Fault

LEMMA TypeInvInit ==
  ASSUME Init
  PROVE  TypeInv
  <1>1. \A S : <<>> \in Seq(S) /\ Len(<<>>) = 0
    BY EmptySeq
  <1>2. Types
    <2>1. /\ stack \in [Request -> Seq([engine : Engine, owns : BOOLEAN])]
          /\ fired \in [Request -> Seq([from : Nat, to : Nat])]
      BY <1>1 DEF Init
    <2>2. /\ table \in [Resource -> Rows] /\ faults \in 0 .. MaxFaults
          /\ writes \in [Request -> [Resource -> Rows \cup {Unwritten}]]
      BY UnitAssumption DEF Init, Rows, NoWrites
    <2>3. /\ batch \in [Request -> Batches \cup {<<>>}] /\ pc \in [Request -> Labels]
          /\ at \in [Request -> Nat] /\ first \in [Request -> Nat]
          /\ hits \in [Request -> SUBSET Nat]
      BY DEF Init, Labels
    <2>4. /\ open \in [Request -> SUBSET Engine] /\ failed \in [Request -> BOOLEAN]
          /\ taken \in [Request -> SUBSET Engine] /\ lost \in [Request -> SUBSET Engine]
          /\ tasks \subseteq Request \X Nat /\ told \subseteq Request \X Nat
      BY DEF Init
    <2> QED
      BY <2>1, <2>2, <2>3, <2>4 DEF Types
  <1> QED
    BY <1>1, <1>2 DEF Init, TypeInv, Control

LEMMA TypeInvStep ==
  ASSUME TypeInv, [Next]_vars
  PROVE  TypeInv'
  <1>1. CASE UNCHANGED vars
    BY <1>1 DEF vars, TypeInv, Types, Control
  <1>2. CASE Next
    <2> PICK r \in Request : Step(r)
      BY <1>2 DEF Next, Step
    <2> QED
      BY TypesStep, ControlStep DEF TypeInv
  <1> QED
    BY <1>1, <1>2

(* TypeOK: what has run, has hit and has been fired lies within the batch. *)
THEOREM TypeInvariant == Spec => []TypeOK
  <1>1. TypeInv => TypeOK
    <2> SUFFICES ASSUME TypeInv, NEW r \in Request
                 PROVE  1 .. at[r] \subseteq Positions(r)
      BY DEF TypeInv, TypeOK, Control
    <2>1. at[r] \in Nat /\ Len(batch[r]) \in Nat /\ at[r] <= Len(batch[r])
      BY BatchType DEF TypeInv, Types, Control
    <2> QED
      BY <2>1 DEF Positions
  <1> QED
    BY <1>1, TypeInvInit, TypeInvStep, PTL DEF Spec

-----------------------------------------------------------------------------
(* Sessions: who owns them, and what has been committed *)

Early == {"idle", "enter", "apply", "fire", "await"}

Owns(r, k, e) == stack[r][k] = [engine |-> e, owns |-> TRUE]

Owned(r, e) == \E k \in DOMAIN stack[r] : Owns(r, k, e)

(* The engine of edit p of request r. *)
At(r, p) == EngineOf[batch[r][p].res]

(* A service with a session stands on or above the one that owns it; that is one. *)
Stacked(r) ==
  /\ \A i \in DOMAIN stack[r] : stack[r][i].engine \in Transactional =>
       /\ stack[r][i].engine \in open[r]
       /\ \E k \in 1 .. i : Owns(r, k, stack[r][i].engine)
  /\ \A i, k \in DOMAIN stack[r] : stack[r][i].owns /\ stack[r][i] = stack[r][k] => i = k
  /\ \A i \in DOMAIN stack[r] : stack[r][i].owns =>
       /\ stack[r][i].engine \in Transactional \ taken[r]
       /\ \E p \in Positions(r) : At(r, p) = stack[r][i].engine

(* Nothing is committed before the exit, and every engine used is open until then. *)
Uncommitted(r) ==
  /\ pc[r] = "idle" => stack[r] = <<>>
  /\ pc[r] \in Early => /\ taken[r] = {} /\ lost[r] = {} /\ ~failed[r]
                        /\ \A e \in open[r] : Owned(r, e)
  /\ ~failed[r] => \A p \in 1 .. at[r] : At(r, p) \in Transactional => At(r, p) \in open[r] \cup taken[r]
  /\ pc[r] = "apply" /\ At(r, at[r] + 1) \in Transactional => At(r, at[r] + 1) \in open[r]
  /\ failed[r] /\ lost[r] = {} => taken[r] = {}

SessionInv == TypeInv /\ \A r \in Request : Stacked(r) /\ Uncommitted(r)

(* What is left of the stack when its last service has been left. *)
LEMMA Popped ==
  ASSUME Types, NEW r \in Request, stack[r] # <<>>, Pop(r)
  PROVE  /\ Len(stack[r]) \in Nat \ {0}
         /\ DOMAIN stack[r] = 1 .. Len(stack[r])
         /\ DOMAIN stack'[r] = 1 .. Len(stack[r]) - 1
         /\ \A i \in DOMAIN stack'[r] : stack'[r][i] = stack[r][i]
         /\ NextToLeave(r) = Len(stack[r])
         /\ \A i \in DOMAIN stack[r] : i \in DOMAIN stack'[r] \/ i = NextToLeave(r)
  <1>1. stack[r] \in Seq(Service)
    BY DEF Types, Service
  <1>2. Len(stack[r]) \in Nat \ {0} /\ DOMAIN stack[r] = 1 .. Len(stack[r])
    BY <1>1, EmptySeq, LenProperties
  <1>3. stack'[r] = RemoveAt(stack[r], Len(stack[r]))
    BY DEF Pop, NextToLeave, Types
  <1>4. /\ stack'[r] \in Seq(Service) /\ Len(stack'[r]) = Len(stack[r]) - 1
        /\ \A i \in 1 .. Len(stack'[r]) : stack'[r][i] = stack[r][i]
    BY <1>1, <1>3, RemoveLast
  <1>5. DOMAIN stack'[r] = 1 .. Len(stack'[r])
    BY <1>4, LenProperties
  <1> QED
    BY <1>2, <1>4, <1>5 DEF NextToLeave

(* The services that stay still stand on the owner of their session. *)
LEMMA PopStacked ==
  ASSUME Types, NEW r \in Request, stack[r] # <<>>, Pop(r), Stacked(r),
         batch' = batch,
         NEW gone,
         open'[r] = open[r] \ gone,
         \A e \in gone : Owns(r, NextToLeave(r), e),
         \A e \in taken'[r] \ taken[r] : Owns(r, NextToLeave(r), e)
  PROVE  Stacked(r)'
  <1>1. /\ DOMAIN stack[r] = 1 .. Len(stack[r]) /\ Len(stack[r]) \in Nat \ {0}
        /\ DOMAIN stack'[r] = 1 .. Len(stack[r]) - 1
        /\ \A i \in DOMAIN stack'[r] : stack'[r][i] = stack[r][i]
        /\ NextToLeave(r) = Len(stack[r])
    BY Popped
  <1>2. ASSUME NEW i \in DOMAIN stack'[r], NEW e, Owns(r, NextToLeave(r), e)
        PROVE  ~Owns(r, i, e)
    BY <1>1, <1>2 DEF Stacked, Owns
  <1>3. ASSUME NEW i \in DOMAIN stack'[r], stack[r][i].engine \in Transactional
        PROVE  /\ stack[r][i].engine \in open[r] \ gone
               /\ \E k \in 1 .. i : stack'[r][k] = [engine |-> stack[r][i].engine, owns |-> TRUE]
    <2> PICK k \in 1 .. i : Owns(r, k, stack[r][i].engine)
      BY <1>1, <1>3 DEF Stacked
    <2>1. k \in DOMAIN stack'[r]
      BY <1>1
    <2>2. stack[r][i].engine \in open[r]
      BY <1>1, <1>3 DEF Stacked
    <2>3. stack[r][i].engine \notin gone
      BY <1>2, <2>1
    <2>4. stack'[r][k] = [engine |-> stack[r][i].engine, owns |-> TRUE]
      BY <1>1, <2>1 DEF Owns
    <2> QED
      BY <2>2, <2>3, <2>4
  <1>4. \A i \in DOMAIN stack'[r] : stack'[r][i].owns =>
          /\ stack'[r][i].engine \in Transactional \ taken'[r]
          /\ \E p \in Positions(r)' : At(r, p)' = stack'[r][i].engine
    <2> SUFFICES ASSUME NEW i \in DOMAIN stack'[r], stack[r][i].owns
                 PROVE  /\ stack[r][i].engine \in Transactional \ taken'[r]
                        /\ \E p \in Positions(r) : At(r, p) = stack[r][i].engine
      BY <1>1 DEF Positions, At
    <2>1. i \in DOMAIN stack[r]
      BY <1>1
    <2>2. stack[r][i] \in Service
      <3>1. stack[r] \in Seq(Service)
        BY DEF Types, Service
      <3> QED
        BY <3>1, <2>1, <1>1, ElementOfSeq
    <2>3. Owns(r, i, stack[r][i].engine)
      BY <2>2 DEF Owns, Service
    <2> QED
      BY <1>2, <2>1, <2>3 DEF Stacked
  <1> QED
    BY <1>1, <1>3, <1>4 DEF Stacked, Owns

LEMMA SessionStep ==
  ASSUME SessionInv, NEW r \in Request, Step(r)
  PROVE  \A q \in Request : Stacked(q)' /\ Uncommitted(q)'
  <1> SUFFICES ASSUME NEW q \in Request
               PROVE  Stacked(q)' /\ Uncommitted(q)'
    OBVIOUS
  <1> USE DEF SessionInv, TypeInv, Goto, Unwinds
  <1>1. CASE q # r
    <2>1. Same(q)
      BY <1>1, OthersSame
    <2> QED
      BY <2>1 DEF Same, Stacked, Uncommitted, Positions, At, Owned, Owns
  <1> SUFFICES ASSUME q = r
               PROVE  Stacked(r)' /\ Uncommitted(r)'
    BY <1>1
  <1>types. /\ at[r] \in Nat /\ first[r] \in Nat /\ Len(batch[r]) \in Nat
            /\ pc[r] \in Labels
    BY BatchType DEF Types
  <1>keep. ASSUME UNCHANGED <<batch, stack, open, taken>>
           PROVE  /\ Stacked(r)'
                  /\ \A p, e : At(r, p)' = At(r, p) /\ Owned(r, e)' = Owned(r, e)
    BY <1>keep DEF Stacked, Positions, At, Owned, Owns
  <1>2. CASE Accept(r)
    <2>1. stack[r] = <<>> /\ stack' = stack /\ open' = open /\ taken' = taken
      BY <1>2 DEF Accept, Uncommitted, sessions, outcome
    <2>2. DOMAIN stack[r] = {}
      BY <2>1
    <2>3. open[r] = {}
      BY <1>2, <2>2 DEF Accept, Uncommitted, Early, Owned
    <2>4. pc'[r] = "enter" /\ at'[r] = 0 /\ UNCHANGED <<failed, lost>>
      BY <1>2 DEF Accept, run, outcome, Types, Control
    <2>5. taken[r] = {} /\ lost[r] = {} /\ ~failed[r]
      BY <1>2 DEF Accept, Uncommitted, Early
    <2> QED
      BY <2>1, <2>2, <2>3, <2>4, <2>5 DEF Stacked, Uncommitted
  <1>3. CASE Enter(r)
    <2> DEFINE e == EngineOf[Current(r).res]
               opened == ({e} \cap Transactional) \ open[r]
               s == [engine |-> e, owns |-> e \in opened]
               n == Len(stack[r]) + 1
    <2>1. e = At(r, at[r] + 1) /\ e \in Engine /\ at[r] + 1 \in Positions(r)
      <3>1. at[r] + 1 \in Positions(r)
        BY <1>3, <1>types DEF Enter, Control, Positions
      <3> QED
        BY <3>1, BatchType DEF At, Current
    <2>2. stack'[r] = Append(stack[r], s) /\ open'[r] = open[r] \cup opened
      BY <1>3 DEF Enter, Types
    <2>own. /\ s \in Service /\ s.engine = e
            /\ e \in opened => s.owns /\ s = [engine |-> e, owns |-> TRUE]
            /\ e \notin opened => ~s.owns
      <3> HIDE DEF opened
      <3>1. CASE e \in opened
        <4>1. s = [engine |-> e, owns |-> TRUE]
          BY <3>1
        <4> HIDE DEF s
        <4> QED
          BY <2>1, <3>1, <4>1 DEF Service
      <3>2. CASE e \notin opened
        <4>0. (e \in opened) = FALSE
          BY <3>2
        <4>1. s = [engine |-> e, owns |-> FALSE]
          BY <4>0, Zenon
        <4> HIDE DEF s
        <4> QED
          BY <2>1, <3>2, <4>1 DEF Service
      <3> QED
        BY <3>1, <3>2
    <2>opened. /\ opened \subseteq {e} /\ opened \cap open[r] = {} /\ opened \subseteq Transactional
               /\ e \in Transactional => e \in open[r] \cup opened
      OBVIOUS
    <2> HIDE DEF s, opened
    <2>3. /\ n \in Nat \ {0} /\ DOMAIN stack[r] = 1 .. n - 1 /\ DOMAIN stack'[r] = 1 .. n
          /\ \A i \in 1 .. n - 1 : stack'[r][i] = stack[r][i]
          /\ stack'[r][n] = s
      <3>1. stack[r] \in Seq(Service) /\ s \in Service
        BY <2>own DEF Types, Service
      <3>2. stack'[r] \in Seq(Service) /\ Len(stack'[r]) = n
        BY <3>1, <2>2, AppendProperties
      <3> QED
        BY <3>1, <3>2, <2>2, AppendProperties, LenProperties
    <2>4. /\ UNCHANGED <<batch, at, failed, taken, lost>>
          /\ pc'[r] = "apply" /\ pc[r] = "enter"
      BY <1>3 DEF Enter, outcome, Types
    <2>5. /\ taken[r] = {} /\ lost[r] = {} /\ ~failed[r]
          /\ \A d \in open[r] : Owned(r, d)
      BY <2>4 DEF Uncommitted, Early
    <2> HIDE DEF e, n
    <2>6. \A d \in open[r] : \E k \in 1 .. n - 1 : stack'[r][k] = [engine |-> d, owns |-> TRUE]
      BY <2>3, <2>5 DEF Owned, Owns
    <2>7. \A i \in 1 .. n - 1 : /\ stack[r][i] \in Service
                                /\ stack[r][i].owns => stack[r][i].engine \in open[r]
      <3>1. stack[r] \in Seq(Service)
        BY DEF Types, Service
      <3> QED
        BY <3>1, <2>3, LenProperties DEF Stacked
    <2>8. Stacked(r)'
      <3>1. \A i \in 1 .. n : stack'[r][i].engine \in Transactional =>
              /\ stack'[r][i].engine \in open'[r]
              /\ \E k \in 1 .. i : stack'[r][k] = [engine |-> stack'[r][i].engine, owns |-> TRUE]
        <4> TAKE i \in 1 .. n
        <4>1. CASE i # n
          <5>1. i \in 1 .. n - 1 /\ \A k \in 1 .. i : k \in 1 .. n - 1
            BY <4>1, <2>3
          <5>2. stack[r][i].engine \in Transactional =>
                  /\ stack[r][i].engine \in open[r]
                  /\ \E k \in 1 .. i : stack[r][k] = [engine |-> stack[r][i].engine, owns |-> TRUE]
            BY <5>1, <2>3 DEF Stacked, Owns
          <5> QED
            BY <5>1, <5>2, <2>2, <2>3
        <4>2. CASE i = n /\ e \in open[r]
          BY <4>2, <2>2, <2>3, <2>6, <2>own
        <4>3. CASE i = n /\ e \notin open[r]
          BY <4>3, <2>2, <2>3, <2>own, <2>opened
        <4> QED
          BY <4>1, <4>2, <4>3
      <3>2. \A i, k \in 1 .. n : stack'[r][i].owns /\ stack'[r][i] = stack'[r][k] => i = k
        <4>1. \A i \in 1 .. n - 1 : stack[r][i].owns => stack[r][i] # s
          BY <2>7, <2>own, <2>opened
        <4>2. \A i \in 1 .. n - 1 : s.owns => stack[r][i] # s
          BY <2>7, <2>own, <2>opened
        <4>3. \A i, k \in 1 .. n - 1 : stack[r][i].owns /\ stack[r][i] = stack[r][k] => i = k
          BY <2>3 DEF Stacked
        <4> QED
          BY <2>3, <4>1, <4>2, <4>3
      <3>3. \A i \in 1 .. n : stack'[r][i].owns =>
              /\ stack'[r][i].engine \in Transactional \ taken'[r]
              /\ \E p \in Positions(r)' : At(r, p)' = stack'[r][i].engine
        <4>1. Positions(r)' = Positions(r) /\ \A p : At(r, p)' = At(r, p)
          BY <2>4 DEF Positions, At
        <4> TAKE i \in 1 .. n
        <4>2. CASE i # n
          BY <4>1, <4>2, <2>3, <2>4 DEF Stacked
        <4>3. CASE i = n
          BY <4>1, <4>3, <2>1, <2>3, <2>4, <2>5, <2>own, <2>opened
        <4> QED
          BY <4>2, <4>3
      <3> QED
        BY <2>3, <3>1, <3>2, <3>3 DEF Stacked, Owns
    <2>9. \A d \in open'[r] : \E k \in 1 .. n : stack'[r][k] = [engine |-> d, owns |-> TRUE]
      <3> TAKE d \in open'[r]
      <3>1. CASE d \in open[r]
        BY <3>1, <2>3, <2>6
      <3>2. CASE d \notin open[r]
        <4>1. d = e /\ e \in opened
          BY <3>2, <2>2, <2>opened
        <4>2. stack'[r][n] = [engine |-> d, owns |-> TRUE] /\ n \in 1 .. n
          BY <4>1, <2>3, <2>own
        <4> QED
          BY <4>2
      <3> QED
        BY <3>1, <3>2
    <2>10. e \in Transactional => e \in open'[r]
      BY <2>2, <2>opened
    <2>11. \A p : At(r, p)' = At(r, p)
      BY <2>4 DEF At
    <2> QED
      BY <2>1, <2>2, <2>3, <2>4, <2>5, <2>8, <2>9, <2>10, <2>11 DEF Uncommitted, Owned, Owns
  <1>4. CASE EditHits(r) \/ EditMisses(r)
    <2>1. /\ UNCHANGED <<batch, stack, open, taken, lost, failed>>
          /\ at'[r] = at[r] + 1 /\ pc[r] = "apply" /\ pc'[r] \in {"apply", "fire"}
      BY <1>4 DEF EditHits, EditMisses, EndOfEdit, sessions, outcome, Types
    <2>2. At(r, at[r] + 1) \in Transactional => At(r, at[r] + 1) \in open[r]
      BY <2>1 DEF Uncommitted
    <2>3. pc'[r] = "apply" => At(r, at[r] + 1 + 1) = At(r, at[r] + 1)
      <3>1. at[r] + 2 = at[r] + 1 + 1
        BY <1>types
      <3> QED
        BY <1>4, <3>1 DEF EditHits, EditMisses, EndOfEdit, Types, At, Current
    <2>4. /\ taken[r] = {} /\ lost[r] = {} /\ ~failed[r] /\ \A e \in open[r] : Owned(r, e)
      BY <2>1 DEF Uncommitted, Early
    <2>5. \A p \in 1 .. at[r] + 1 : p \in 1 .. at[r] \/ p = at[r] + 1
      BY <1>types
    <2>6. \A p \in 1 .. at[r] + 1 : At(r, p) \in Transactional => At(r, p) \in open[r]
      BY <2>2, <2>4, <2>5 DEF Uncommitted
    <2>7. Stacked(r)' /\ \A p, e : At(r, p)' = At(r, p) /\ Owned(r, e)' = Owned(r, e)
      BY <1>keep, <2>1
    <2> QED
      BY <2>1, <2>2, <2>3, <2>4, <2>6, <2>7 DEF Uncommitted
  <1>5. CASE EditRaises(r) \/ DeadlockAbort(r) \/ Raise(r)
    <2>1. /\ UNCHANGED <<batch, stack, open, taken, lost, at>>
          /\ pc'[r] = "leave" /\ failed'[r] /\ pc[r] \in Early
      BY <1>5 DEF EditRaises, DeadlockAbort, Deadlocked, WaitsFor, Raise, run, sessions, Types, Early
    <2>2. taken[r] = {}
      BY <2>1 DEF Uncommitted
    <2>3. Stacked(r)'
      BY <1>keep, <2>1
    <2> QED
      BY <2>1, <2>2, <2>3 DEF Uncommitted, Early
  <1>6. CASE Fire(r) \/ Await(r)
    <2>1. /\ UNCHANGED <<batch, stack, open, taken, lost, failed, at>>
          /\ pc[r] \in {"fire", "await"} /\ pc'[r] \in {"await", "enter", "leave"}
      BY <1>6 DEF Fire, Await, AfterRun, run, sessions, outcome, Types
    <2>2. Stacked(r)' /\ \A p, e : At(r, p)' = At(r, p) /\ Owned(r, e)' = Owned(r, e)
      BY <1>keep, <2>1
    <2> QED
      BY <2>1, <2>2 DEF Uncommitted, Early
  <1>7. CASE LeaveUnowned(r)
    <2>1. /\ UNCHANGED <<batch, open, taken, lost, failed, at, pc>> /\ Pop(r)
          /\ pc[r] = "leave" /\ stack[r] # <<>>
      BY <1>7 DEF LeaveUnowned, Leaving, outcome, run
    <2>2. Stacked(r)'
      BY <2>1, PopStacked
    <2> QED
      BY <2>1, <2>2 DEF Uncommitted, Early, At
  <1>8. ASSUME NEW e \in Engine, Commit(r, e)
        PROVE  Stacked(r)' /\ Uncommitted(r)'
    <2>1. /\ UNCHANGED <<batch, lost, failed, at, pc>> /\ Pop(r) /\ ~failed[r]
          /\ pc[r] = "leave" /\ stack[r] # <<>> /\ Owns(r, NextToLeave(r), e)
          /\ open'[r] = open[r] \ {e} /\ taken'[r] = taken[r] \cup {e}
      BY <1>8 DEF Commit, Owner, Owns, Leaving, run, Types
    <2>2. Stacked(r)'
      BY <2>1, PopStacked
    <2> QED
      BY <2>1, <2>2 DEF Uncommitted, Early, At
  <1>9. ASSUME NEW e \in Engine, Rollback(r, e)
        PROVE  Stacked(r)' /\ Uncommitted(r)'
    <2>1. /\ UNCHANGED <<batch, lost, failed, at, pc, taken>> /\ Pop(r) /\ failed[r]
          /\ pc[r] = "leave" /\ stack[r] # <<>> /\ Owns(r, NextToLeave(r), e)
          /\ open'[r] = open[r] \ {e}
      BY <1>9 DEF Rollback, Owner, Owns, Leaving, run, outcome, Types
    <2>2. Stacked(r)'
      BY <2>1, PopStacked
    <2> QED
      BY <2>1, <2>2 DEF Uncommitted, Early, At
  <1>10. ASSUME NEW e \in Engine, CommitRaises(r, e)
         PROVE  Stacked(r)' /\ Uncommitted(r)'
    <2>1. /\ UNCHANGED <<batch, at, pc, open>> /\ Pop(r)
          /\ pc[r] = "leave" /\ stack[r] # <<>> /\ Owns(r, NextToLeave(r), e)
      BY <1>10 DEF CommitRaises, Owner, Owns, Leaving, run
    <2>2. failed'[r] /\ e \in lost'[r]
      BY <1>10 DEF CommitRaises, Types
    <2>3. taken'[r] \subseteq taken[r] \cup {e}
      <3>1. taken' = taken \/ taken' = [taken EXCEPT ![r] = @ \cup {e}]
        BY <1>10 DEF CommitRaises
      <3> QED
        BY <3>1 DEF Types
    <2>4. Stacked(r)'
      <3>1. open'[r] = open[r] \ {}
        BY <2>1
      <3> QED
        BY <2>1, <2>3, <3>1, PopStacked
    <2> QED
      BY <2>1, <2>2, <2>4 DEF Uncommitted, Early
  <1>11. CASE Answer(r)
    <2>1. /\ UNCHANGED <<batch, stack, open, taken, lost, failed, at>>
          /\ pc'[r] = "done" /\ pc[r] = "leave"
      BY <1>11 DEF Answer, run, sessions, outcome, Types
    <2>2. Stacked(r)' /\ \A p, e : At(r, p)' = At(r, p) /\ Owned(r, e)' = Owned(r, e)
      BY <1>keep, <2>1
    <2> QED
      BY <2>1, <2>2 DEF Uncommitted, Early
  <1>12. CASE DeliverSome(r) \/ \E n \in DOMAIN fired[r] : DeliverFails(r, n)
    <2>1. UNCHANGED <<batch, stack, open, taken, lost, failed, at, pc>>
      BY <1>12 DEF DeliverSome, Deliver, DeliverFails, run, sessions, outcome
    <2>2. Stacked(r)' /\ \A p, e : At(r, p)' = At(r, p) /\ Owned(r, e)' = Owned(r, e)
      BY <1>keep, <2>1
    <2> QED
      BY <2>1, <2>2 DEF Uncommitted
  <1> QED
    BY <1>2, <1>3, <1>4, <1>5, <1>6, <1>7, <1>8, <1>9, <1>10, <1>11, <1>12
       DEF Step, Handle, Exit, Fault

LEMMA SessionInvInit ==
  ASSUME Init
  PROVE  SessionInv
  <1>1. \A r \in Request : DOMAIN stack[r] = {} /\ stack[r] = <<>>
    BY DEF Init
  <1> QED
    BY <1>1, TypeInvInit DEF Init, SessionInv, Stacked, Uncommitted

LEMMA SessionInvStep ==
  ASSUME SessionInv, [Next]_vars
  PROVE  SessionInv'
  <1>1. TypeInv'
    BY TypeInvStep DEF SessionInv
  <1>2. CASE UNCHANGED vars
    BY <1>1, <1>2 DEF vars, SessionInv, Stacked, Uncommitted, Positions, At, Owned, Owns
  <1>3. CASE Next
    <2> PICK r \in Request : Step(r)
      BY <1>3 DEF Next, Step
    <2> QED
      BY <1>1, SessionStep DEF SessionInv
  <1> QED
    BY <1>2, <1>3

(* SessionOutlivesServices: whoever opens the storage of a request is the last of its *)
(* services to leave it.                                                              *)
THEOREM SessionsOutliveServices == Spec => []SessionOutlivesServices
  <1>1. SessionInv => SessionOutlivesServices
    BY DEF SessionInv, Stacked, Owns, SessionOutlivesServices
  <1> QED
    BY <1>1, SessionInvInit, SessionInvStep, PTL DEF Spec

(* NoPartialBatch: no engine has a batch before all of it has run, and one that has it *)
(* is alone only if a commit failed.                                                   *)
THEOREM BatchIsWhole == Spec => []NoPartialBatch
  <1>1. SessionInv => NoPartialBatch
    <2> SUFFICES ASSUME SessionInv, NEW r \in Request, taken[r] # {}, lost[r] = {}
                 PROVE  /\ at[r] = Len(batch[r])
                        /\ \A p \in Positions(r) : At(r, p) \in Transactional => At(r, p) \in taken[r] \cup open[r]
      BY DEF NoPartialBatch, At
    <2>1. ~failed[r] /\ pc[r] \in {"leave", "done"}
      BY DEF SessionInv, TypeInv, Types, Uncommitted, Early, Labels
    <2> QED
      BY <2>1 DEF SessionInv, TypeInv, Control, Uncommitted, Positions
  <1> QED
    BY <1>1, SessionInvInit, SessionInvStep, PTL DEF Spec

-----------------------------------------------------------------------------
(* Writes: what a session holds back *)

(* The last of the edits of r that have hit row x, if any. *)
LastHit(r, x) == Atomic!Latest(hits[r] \cap Atomic!On(batch[r], x))

(* A session's writes are those of the last edits that hit; a row it has written is as *)
(* the edits found it.                                                                  *)
Pending(r) ==
  /\ \A x \in Resource : writes[r][x] =
       IF ~Owned(r, EngineOf[x]) \/ LastHit(r, x) = {} THEN Unwritten
       ELSE Atomic!Written(r, Atomic!The(LastHit(r, x)))
  /\ pc[r] \in Early => \A p \in hits[r] : At(r, p) \in Transactional => Owned(r, At(r, p))
  /\ \A p \in hits[r] : Owned(r, At(r, p)) =>
       writes[r][batch[r][p].res] # Unwritten /\ Atomic!Hits(r, hits[r], p)

(* A row is written by one transaction at a time. *)
Locked ==
  \A r, o \in Request : \A x \in Resource :
    writes[r][x] # Unwritten /\ writes[o][x] # Unwritten => r = o

WriteInv == SessionInv /\ Locked /\ \A r \in Request : Pending(r)

LEMMA HitsSame ==
  ASSUME NEW r \in Request, NEW p, batch'[r] = batch[r], hits'[r] = hits[r],
         table'[batch[r][p].res] = table[batch[r][p].res]
  PROVE  Atomic!Hits(r, hits[r], p)' = Atomic!Hits(r, hits[r], p)
  BY DEF Atomic!Hits, Atomic!Sees, Atomic!After, Atomic!Written, Atomic!On, Atomic!Latest, Atomic!The

(* Only the transaction that has written a row, or a write without one, changes it. *)
LEMMA TableChange ==
  ASSUME TypeInv, NEW r \in Request, Step(r), NEW x \in Resource,
         table'[x] # table[x]
  PROVE  writes[r][x] # Unwritten \/ EngineOf[x] \notin Transactional
  <1>1. CASE EditHits(r)
    <2>1. \/ table' = table
          \/ /\ table' = [table EXCEPT ![Current(r).res] = Written(r)]
             /\ EngineOf[Current(r).res] \notin Transactional
      BY <1>1 DEF EditHits
    <2> QED
      BY <2>1 DEF TypeInv, Types
  <1>2. CASE \E e \in Engine : Commit(r, e) \/ CommitRaises(r, e)
    <2>1. PICK e \in Engine : table' = table \/ table' = Committed(r, e)
      BY <1>2 DEF Commit, CommitRaises
    <2> QED
      BY <2>1 DEF Committed, Seen
  <1>3. CASE table' = table
    BY <1>3
  <1> QED
    BY <1>1, <1>2, <1>3
       DEF Step, Accept, Handle, Enter, EditMisses, EditRaises, DeadlockAbort, Fire, Await,
           Exit, LeaveUnowned, Rollback, Answer, DeliverSome, Deliver, Fault, Raise, DeliverFails

LEMMA OthersPending ==
  ASSUME WriteInv, NEW r \in Request, Step(r), NEW q \in Request, q # r
  PROVE  Pending(q)'
  <1>1. Same(q)
    BY OthersSame DEF WriteInv, SessionInv, TypeInv
  <1>2. \A x : LastHit(q, x)' = LastHit(q, x)
    BY <1>1 DEF Same, LastHit, Atomic!Latest, Atomic!On
  <1>3. \A p, e : At(q, p)' = At(q, p) /\ Owned(q, e)' = Owned(q, e)
    BY <1>1 DEF Same, At, Owned, Owns
  <1>4. \A p : Atomic!Written(q, p)' = Atomic!Written(q, p)
    BY <1>1 DEF Same, Atomic!Written
  <1>5. ASSUME NEW p \in hits[q], Owned(q, At(q, p))
        PROVE  Atomic!Hits(q, hits[q], p)'
    <2> DEFINE x == batch[q][p].res
    <2>1. p \in Positions(q) /\ x \in Resource
      <3>1. hits[q] \subseteq 1 .. at[q] /\ at[q] \in Nat /\ at[q] <= Len(batch[q])
        BY DEF WriteInv, SessionInv, TypeInv, Types, Control
      <3>2. Types /\ Len(batch[q]) \in Nat
        BY BatchType DEF WriteInv, SessionInv, TypeInv
      <3>3. p \in Positions(q)
        BY <3>1, <3>2 DEF Positions
      <3> QED
        BY <3>2, <3>3, BatchType
    <2>2. EngineOf[x] \in Transactional
      BY <1>5 DEF At, WriteInv, SessionInv, Stacked, Owned, Owns
    <2>3. writes[q][x] # Unwritten /\ Atomic!Hits(q, hits[q], p)
      BY <1>5 DEF WriteInv, Pending
    <2>4. writes[r][x] = Unwritten
      BY <2>1, <2>3 DEF WriteInv, Locked
    <2>5. table'[x] = table[x]
      BY <2>1, <2>2, <2>4, TableChange DEF WriteInv, SessionInv
    <2>6. batch'[q] = batch[q] /\ hits'[q] = hits[q]
      BY <1>1 DEF Same
    <2>7. Atomic!Hits(q, hits[q], p)' = Atomic!Hits(q, hits[q], p)
      BY <2>5, <2>6, HitsSame
    <2> QED
      BY <2>3, <2>7
  <1>6. /\ writes'[q] = writes[q] /\ hits'[q] = hits[q] /\ pc'[q] = pc[q] /\ batch'[q] = batch[q]
    BY <1>1 DEF Same
  <1> QED
    BY <1>2, <1>3, <1>4, <1>5, <1>6 DEF WriteInv, Pending

(* A service that is left takes its own session with it, and no other. *)
LEMMA OwnedAfterPop ==
  ASSUME TypeInv, NEW r \in Request, Stacked(r), stack[r] # <<>>, Pop(r), NEW e
  PROVE  Owned(r, e)' <=> Owned(r, e) /\ ~Owns(r, NextToLeave(r), e)
  <1>1. /\ DOMAIN stack[r] = 1 .. Len(stack[r]) /\ Len(stack[r]) \in Nat \ {0}
        /\ DOMAIN stack'[r] = 1 .. Len(stack[r]) - 1
        /\ \A i \in DOMAIN stack'[r] : stack'[r][i] = stack[r][i]
        /\ NextToLeave(r) = Len(stack[r])
    BY Popped DEF TypeInv
  <1>2. ASSUME Owned(r, e)'
        PROVE  Owned(r, e) /\ ~Owns(r, NextToLeave(r), e)
    <2> PICK k \in DOMAIN stack'[r] : stack[r][k] = [engine |-> e, owns |-> TRUE]
      BY <1>1, <1>2 DEF Owned, Owns
    <2>1. k \in DOMAIN stack[r] /\ k # NextToLeave(r) /\ NextToLeave(r) \in DOMAIN stack[r]
      BY <1>1
    <2> QED
      BY <2>1 DEF Owned, Owns, Stacked
  <1>3. ASSUME Owned(r, e), ~Owns(r, NextToLeave(r), e)
        PROVE  Owned(r, e)'
    <2> PICK k \in DOMAIN stack[r] : Owns(r, k, e)
      BY <1>3 DEF Owned
    <2>1. k \in DOMAIN stack'[r]
      BY <1>1, <1>3
    <2> QED
      BY <1>1, <2>1 DEF Owned, Owns
  <1> QED
    BY <1>2, <1>3

(* An owner's session is one of an engine with transactions. *)
LEMMA OwnedTransactional ==
  ASSUME NEW r, Stacked(r), NEW e, Owned(r, e)
  PROVE  e \in Transactional /\ e \notin taken[r] /\ e \in open[r]
  <1> PICK k \in DOMAIN stack[r] : Owns(r, k, e)
    BY DEF Owned
  <1> QED
    BY DEF Owns, Stacked

(* Unless an edit hits, a session's writes only change by its end. *)
LEMMA KeepPending ==
  ASSUME WriteInv, NEW r \in Request,
         UNCHANGED <<batch, hits, stack, writes, table>>,
         pc[r] \in Early \/ pc'[r] \notin Early
  PROVE  Pending(r)'
  <1>1. \A x : LastHit(r, x)' = LastHit(r, x)
    BY DEF LastHit, Atomic!Latest, Atomic!On
  <1>2. \A p, e : At(r, p)' = At(r, p) /\ Owned(r, e)' = Owned(r, e)
    BY DEF At, Owned, Owns
  <1>3. \A p : Atomic!Written(r, p)' = Atomic!Written(r, p)
    BY DEF Atomic!Written
  <1>4. \A p : Atomic!Hits(r, hits[r], p)' = Atomic!Hits(r, hits[r], p)
    BY HitsSame
  <1>5. \A x \in Resource : writes'[r][x] =
          IF ~Owned(r, EngineOf[x])' \/ LastHit(r, x)' = {} THEN Unwritten
          ELSE Atomic!Written(r, Atomic!The(LastHit(r, x)))'
    BY <1>1, <1>2, <1>3 DEF WriteInv, Pending
  <1>6. \A p \in hits[r] : Owned(r, At(r, p))' =>
          writes'[r][batch[r][p].res] # Unwritten /\ Atomic!Hits(r, hits[r], p)'
    BY <1>2, <1>4 DEF WriteInv, Pending
  <1>7. pc'[r] \in Early =>
          \A p \in hits[r] : At(r, p) \in Transactional => Owned(r, At(r, p))'
    BY <1>2 DEF WriteInv, Pending
  <1> QED
    BY <1>2, <1>5, <1>6, <1>7 DEF Pending

(* The end of a session: its writes are gone, the others stay. *)
LEMMA EndPending ==
  ASSUME WriteInv, NEW r \in Request, NEW e \in Engine, stack[r] # <<>>, Pop(r),
         Owns(r, NextToLeave(r), e), EndTransaction(r, e),
         UNCHANGED <<batch, hits>>, pc'[r] \notin Early,
         table' = table \/ table' = Committed(r, e)
  PROVE  Pending(r)'
  <1>1. \A d : Owned(r, d)' <=> Owned(r, d) /\ d # e
    <2> TAKE d
    <2>1. Owns(r, NextToLeave(r), d) <=> d = e
      <3>1. [engine |-> d, owns |-> TRUE].engine = d /\ [engine |-> e, owns |-> TRUE].engine = e
        OBVIOUS
      <3> QED
        BY <3>1, Zenon DEF Owns
    <2>2. TypeInv /\ Stacked(r)
      BY DEF WriteInv, SessionInv
    <2>3. Owned(r, d)' <=> Owned(r, d) /\ ~Owns(r, NextToLeave(r), d)
      BY <2>2, OwnedAfterPop
    <2> QED
      BY <2>1, <2>3
  <1>2. writes'[r] = Ended(r, e)
    BY DEF EndTransaction, WriteInv, SessionInv, TypeInv, Types
  <1>3. \A x : LastHit(r, x)' = LastHit(r, x)
    BY DEF LastHit, Atomic!Latest, Atomic!On
  <1>4. \A p : At(r, p)' = At(r, p) /\ Atomic!Written(r, p)' = Atomic!Written(r, p)
    BY DEF At, Atomic!Written
  <1>5. \A x \in Resource : writes'[r][x] =
          IF ~Owned(r, EngineOf[x])' \/ LastHit(r, x)' = {} THEN Unwritten
          ELSE Atomic!Written(r, Atomic!The(LastHit(r, x)))'
    <2> TAKE x \in Resource
    <2>1. CASE EngineOf[x] = e
      BY <1>1, <1>2, <2>1 DEF Ended
    <2>2. CASE EngineOf[x] # e
      <3>1. writes'[r][x] = writes[r][x]
        BY <1>2, <2>2 DEF Ended
      <3> QED
        BY <1>1, <1>3, <1>4, <2>2, <3>1 DEF WriteInv, Pending
    <2> QED
      BY <2>1, <2>2
  <1>6. ASSUME NEW p \in hits[r], Owned(r, At(r, p))'
        PROVE  writes'[r][batch[r][p].res] # Unwritten /\ Atomic!Hits(r, hits[r], p)'
    <2> DEFINE x == batch[r][p].res
    <2>1. p \in Positions(r) /\ x \in Resource
      <3>1. hits[r] \subseteq 1 .. at[r] /\ at[r] \in Nat /\ at[r] <= Len(batch[r])
        BY DEF WriteInv, SessionInv, TypeInv, Types, Control
      <3>2. Types /\ Len(batch[r]) \in Nat
        BY BatchType DEF WriteInv, SessionInv, TypeInv
      <3>3. p \in Positions(r)
        BY <3>1, <3>2 DEF Positions
      <3> QED
        BY <3>2, <3>3, BatchType
    <2>2. Owned(r, At(r, p)) /\ EngineOf[x] # e
      BY <1>1, <1>4, <1>6 DEF At
    <2>3. writes[r][x] # Unwritten /\ Atomic!Hits(r, hits[r], p)
      BY <2>2 DEF WriteInv, Pending
    <2>4. writes'[r][x] = writes[r][x] /\ table'[x] = table[x]
      BY <1>2, <2>1, <2>2 DEF Ended, Committed
    <2>5. Atomic!Hits(r, hits[r], p)' = Atomic!Hits(r, hits[r], p)
      BY <2>4, HitsSame
    <2> QED
      BY <2>3, <2>4, <2>5
  <1> QED
    BY <1>3, <1>5, <1>6 DEF Pending

(* What an edit sees depends on the edits before it only. *)
LEMMA HitsBefore ==
  ASSUME NEW r \in Request, NEW p, batch'[r] = batch[r],
         {q \in hits'[r] : q < p} = {q \in hits[r] : q < p},
         table'[batch[r][p].res] = table[batch[r][p].res]
  PROVE  Atomic!Hits(r, hits[r], p)' = Atomic!Hits(r, hits[r], p)
  BY DEF Atomic!Hits, Atomic!Sees, Atomic!After, Atomic!Written, Atomic!On, Atomic!Latest, Atomic!The

(* A session sees the row its last hit has left. *)
LEMMA SeenIsAfter ==
  ASSUME WriteInv, NEW r \in Request, NEW x \in Resource, Owned(r, EngineOf[x])
  PROVE  Seen(r, x) = Atomic!After(r, hits[r], x)
  <1>1. writes[r][x] = IF LastHit(r, x) = {} THEN Unwritten
                       ELSE Atomic!Written(r, Atomic!The(LastHit(r, x)))
    BY DEF WriteInv, Pending
  <1>2. CASE LastHit(r, x) = {}
    BY <1>1, <1>2 DEF Seen, Atomic!After, LastHit
  <1>3. CASE LastHit(r, x) # {}
    <2> DEFINE p == Atomic!The(LastHit(r, x))
    <2>1. p \in LastHit(r, x)
      BY <1>3 DEF Atomic!The
    <2>2. p \in Nat
      BY <2>1 DEF LastHit, Atomic!Latest, WriteInv, SessionInv, TypeInv, Types
    <2> HIDE DEF p
    <2>3. Atomic!Written(r, p) \in Rows
      BY <2>2 DEF Atomic!Written, Rows
    <2>4. Unwritten \notin Rows
      BY UnitAssumption DEF Rows
    <2>5. Seen(r, x) = Atomic!Written(r, p)
      BY <1>1, <1>3, <2>3, <2>4 DEF Seen, p
    <2> QED
      BY <1>3, <2>5 DEF Atomic!After, LastHit, p
  <1> QED
    BY <1>2, <1>3

(* Where an edit is about to run. *)
LEMMA AboutToRun ==
  ASSUME WriteInv, NEW r \in Request, pc[r] = "apply"
  PROVE  /\ at[r] \in Nat /\ at[r] + 1 \in Positions(r) /\ at[r] < Len(batch[r])
         /\ Current(r) = batch[r][at[r] + 1] /\ Current(r).res \in Resource
         /\ EngineOf[Current(r).res] \in Transactional => Owned(r, EngineOf[Current(r).res])
         /\ EngineOf[Current(r).res] \notin Transactional => ~Owned(r, EngineOf[Current(r).res])
         /\ \A q \in hits[r] : q \in 1 .. at[r]
         /\ Atomic!Hits(r, hits[r], at[r] + 1) <=> (Found(r) = (Current(r).kind # "create"))
  <1> DEFINE n == at[r] + 1
             x == Current(r).res
  <1>1. /\ TypeInv /\ Types /\ Control(r) /\ Stacked(r) /\ Uncommitted(r) /\ Pending(r)
    BY DEF WriteInv, SessionInv, TypeInv
  <1>2. at[r] \in Nat /\ Len(batch[r]) \in Nat /\ at[r] < Len(batch[r])
    BY <1>1, BatchType DEF Types, Control
  <1>3. n \in Positions(r) /\ Current(r) = batch[r][n]
    BY <1>2 DEF Positions, Current
  <1>4. x \in Resource
    BY <1>1, <1>3, BatchType
  <1>5. EngineOf[x] \in Transactional => Owned(r, EngineOf[x])
    BY <1>1, <1>3 DEF Uncommitted, Early, At
  <1>6. EngineOf[x] \notin Transactional => ~Owned(r, EngineOf[x])
    BY <1>1, OwnedTransactional
  <1>7. \A q \in hits[r] : q \in 1 .. at[r] /\ q < n
    BY <1>1, <1>2 DEF Control
  <1>8. {q \in hits[r] : q < n} = hits[r]
    BY <1>7
  <1>9. Atomic!Sees(r, hits[r], n) = Seen(r, x)
    <2> HIDE DEF n
    <2>1. CASE EngineOf[x] \in Transactional
      BY <1>3, <1>4, <1>5, <1>8, <2>1, SeenIsAfter DEF Atomic!Sees
    <2>2. CASE EngineOf[x] \notin Transactional
      <3>1. writes[r][x] = Unwritten
        BY <1>1, <1>4, <1>6, <2>2 DEF Pending
      <3> QED
        BY <1>3, <2>2, <3>1 DEF Atomic!Sees, Seen
    <2> QED
      BY <2>1, <2>2
  <1>10. Atomic!Hits(r, hits[r], n) <=> (Found(r) = (Current(r).kind # "create"))
    BY <1>3, <1>9 DEF Atomic!Hits, Found
  <1> QED
    BY <1>2, <1>3, <1>4, <1>5, <1>6, <1>7, <1>10

LEMMA HitPending ==
  ASSUME WriteInv, NEW r \in Request, EditHits(r)
  PROVE  Pending(r)'
  <1>n. PICK n, x : n = at[r] + 1 /\ x = Current(r).res
    OBVIOUS
  <1>1. /\ at[r] \in Nat /\ n \in Positions(r)
        /\ x = batch[r][n].res /\ x \in Resource
        /\ EngineOf[x] \in Transactional => Owned(r, EngineOf[x])
        /\ EngineOf[x] \notin Transactional => ~Owned(r, EngineOf[x])
        /\ \A q \in hits[r] : q \in 1 .. at[r]
        /\ Atomic!Hits(r, hits[r], n)
    BY <1>n, AboutToRun DEF EditHits
  <1>2. /\ UNCHANGED <<batch, stack>> /\ hits'[r] = hits[r] \cup {n}
        /\ Types /\ Stacked(r) /\ Pending(r)
    BY <1>n DEF EditHits, WriteInv, SessionInv, TypeInv, Types
  <1>3. DOMAIN batch[r] = Positions(r)
    BY <1>2, BatchType, LenProperties DEF Positions
  <1>4. \A p, e : At(r, p)' = At(r, p) /\ (Owned(r, e)' <=> Owned(r, e))
    BY <1>2 DEF At, Owned, Owns
  <1>5. \A p : Atomic!Written(r, p)' = Atomic!Written(r, p)
    BY <1>2 DEF Atomic!Written
  <1>6. n \in Nat /\ \A q \in hits[r] : q < n /\ q # n /\ q \in Nat
    BY <1>1, <1>n
  <1>7. LastHit(r, x)' = {n}
    <2> DEFINE S == hits'[r] \cap Atomic!On(batch[r], x)
    <2>1. n \in S /\ \A q \in S : q \in Nat /\ q <= n
      BY <1>1, <1>2, <1>3, <1>6 DEF Atomic!On
    <2>2. \A p \in S : (\A q \in S : q <= p) <=> p = n
      BY <1>6, <2>1
    <2> HIDE DEF S
    <2>3. Atomic!Latest(S) = {n}
      BY <2>1, <2>2 DEF Atomic!Latest
    <2> QED
      BY <1>2, <2>3 DEF LastHit, S, Atomic!On, Atomic!Latest
  <1>8. ASSUME NEW y \in Resource, y # x
        PROVE  LastHit(r, y)' = LastHit(r, y)
    <2>1. n \notin Atomic!On(batch[r], y)
      BY <1>1, <1>8 DEF Atomic!On
    <2>2. hits'[r] \cap Atomic!On(batch[r], y) = hits[r] \cap Atomic!On(batch[r], y)
      BY <1>2, <2>1
    <2> QED
      BY <1>2, <2>2 DEF LastHit, Atomic!On, Atomic!Latest
  <1>9. Written(r) = Atomic!Written(r, n) /\ Written(r) # Unwritten
    BY <1>1, <1>2, <1>n, RowTypes DEF Current, Written, Atomic!Written
  <1>10. \/ EngineOf[x] \in Transactional /\ table' = table
            /\ \A y \in Resource : writes'[r][y] = IF y = x THEN Written(r) ELSE writes[r][y]
         \/ EngineOf[x] \notin Transactional /\ writes' = writes
            /\ \A y \in Resource : y # x => table'[y] = table[y]
    <2>1. CASE EngineOf[x] \in Transactional
      <3>1. writes' = [writes EXCEPT ![r][x] = Written(r)] /\ table' = table
        BY <1>n, <2>1 DEF EditHits
      <3> QED
        BY <1>1, <1>2, <2>1, <3>1 DEF WriteInv, SessionInv, TypeInv, Types
    <2>2. CASE EngineOf[x] \notin Transactional
      BY <1>n, <1>2, <2>2 DEF EditHits, Types
    <2> QED
      BY <2>1, <2>2
  <1>11. \A y \in Resource : writes'[r][y] =
           IF ~Owned(r, EngineOf[y])' \/ LastHit(r, y)' = {} THEN Unwritten
           ELSE Atomic!Written(r, Atomic!The(LastHit(r, y)))'
    <2> TAKE y \in Resource
    <2>1. CASE y # x
      <3>1. writes'[r][y] = writes[r][y]
        BY <1>10, <2>1
      <3> QED
        BY <1>2, <1>4, <1>5, <1>8, <2>1, <3>1 DEF Pending
    <2>2. CASE y = x /\ EngineOf[x] \in Transactional
      <3>1. writes'[r][x] = Atomic!Written(r, n) /\ Owned(r, EngineOf[x])'
        BY <1>1, <1>4, <1>9, <1>10, <2>2
      <3>2. Atomic!The(LastHit(r, x))' = n
        BY <1>7 DEF Atomic!The
      <3> QED
        BY <1>5, <1>7, <2>2, <3>1, <3>2
    <2>3. CASE y = x /\ EngineOf[x] \notin Transactional
      <3>1. writes'[r][x] = writes[r][x] /\ ~Owned(r, EngineOf[x])'
        BY <1>1, <1>4, <1>10, <2>3
      <3> QED
        BY <1>1, <1>2, <2>3, <3>1 DEF Pending
    <2> QED
      BY <2>1, <2>2, <2>3
  <1>12. ASSUME NEW p \in hits'[r], Owned(r, At(r, p))
         PROVE  writes'[r][batch[r][p].res] # Unwritten /\ Atomic!Hits(r, hits[r], p)'
    <2> DEFINE y == batch[r][p].res
    <2>1. p \in Positions(r) /\ y \in Resource /\ EngineOf[y] \in Transactional
      <3>1. hits[r] \subseteq 1 .. at[r] /\ at[r] <= Len(batch[r]) /\ Len(batch[r]) \in Nat
        BY <1>2, BatchType DEF WriteInv, SessionInv, TypeInv, Control
      <3>2. p \in Positions(r)
        BY <1>1, <1>2, <3>1 DEF Positions
      <3> QED
        BY <1>2, <1>12, <3>2, BatchType, OwnedTransactional DEF At
    <2>2. table'[y] = table[y]
      BY <1>10, <2>1
    <2>3. {q \in hits'[r] : q < p} = {q \in hits[r] : q < p}
      <3>1. ~(n < p)
        BY <1>2, <1>6
      <3> QED
        BY <1>2, <3>1
    <2>4. Atomic!Hits(r, hits[r], p)' = Atomic!Hits(r, hits[r], p)
      BY <1>2, <2>2, <2>3, HitsBefore
    <2>5. CASE p = n
      BY <1>1, <1>9, <1>10, <2>1, <2>4, <2>5
    <2>6. CASE p \in hits[r]
      <3>1. writes[r][y] # Unwritten /\ Atomic!Hits(r, hits[r], p)
        BY <1>2, <1>12, <2>6 DEF Pending
      <3> QED
        BY <1>9, <1>10, <2>1, <2>4, <3>1
    <2> QED
      BY <1>2, <2>5, <2>6
  <1>13. \A p \in hits'[r] : At(r, p) \in Transactional => Owned(r, At(r, p))
    BY <1>1, <1>2, <1>n DEF EditHits, Pending, Early, At
  <1> QED
    BY <1>2, <1>4, <1>11, <1>12, <1>13 DEF Pending, At

LEMMA EnterPending ==
  ASSUME WriteInv, NEW r \in Request, Enter(r)
  PROVE  Pending(r)'
  <1> DEFINE n == Len(stack[r]) + 1
  <1>1. PICK e, s : /\ s = [engine |-> e, owns |-> e \in ({e} \cap Transactional) \ open[r]]
                    /\ stack'[r] = Append(stack[r], s) /\ e \in Engine
    <2>1. EngineOf[Current(r).res] \in Engine
      <3>1. at[r] + 1 \in Positions(r) /\ Types
        <4>1. Types /\ Control(r) /\ pc[r] = "enter"
          BY DEF Enter, WriteInv, SessionInv, TypeInv
        <4>2. at[r] \in Nat /\ Len(batch[r]) \in Nat /\ at[r] < Len(batch[r])
          BY <4>1, BatchType DEF Types, Control
        <4> QED
          BY <4>1, <4>2 DEF Positions
      <3> QED
        BY <3>1, BatchType DEF Current
    <2> QED
      BY <2>1 DEF Enter, WriteInv, SessionInv, TypeInv, Types
  <1>2. /\ UNCHANGED <<batch, hits, writes, table>> /\ pc[r] \in Early
        /\ Types /\ Stacked(r) /\ Pending(r) /\ Uncommitted(r)
    BY DEF Enter, WriteInv, SessionInv, TypeInv, Early
  <1>3. /\ DOMAIN stack[r] = 1 .. n - 1 /\ DOMAIN stack'[r] = 1 .. n /\ n \in Nat \ {0}
        /\ \A i \in 1 .. n - 1 : stack'[r][i] = stack[r][i]
        /\ stack'[r][n] = s
    <2>1. stack[r] \in Seq(Service) /\ s \in Service
      <3>1. s \in Service
        <4>1. (e \in ({e} \cap Transactional) \ open[r]) \in BOOLEAN
          OBVIOUS
        <4> QED
          BY <1>1, <4>1 DEF Service
      <3> QED
        BY <1>2, <3>1 DEF Types, Service
    <2>2. stack'[r] \in Seq(Service) /\ Len(stack'[r]) = n
      BY <1>1, <2>1, AppendProperties
    <2> QED
      BY <1>1, <2>1, <2>2, AppendProperties, LenProperties
  <1>4. ASSUME NEW d, Owned(r, d)
        PROVE  Owned(r, d)'
    BY <1>3, <1>4 DEF Owned, Owns
  <1>5. ASSUME NEW d, Owned(r, d)', ~Owned(r, d)
        PROVE  \A p \in hits[r] : At(r, p) # d
    <2> HIDE DEF n
    <2>1. s = [engine |-> d, owns |-> TRUE]
      <3> PICK k \in 1 .. n : stack'[r][k] = [engine |-> d, owns |-> TRUE]
        BY <1>3, <1>5 DEF Owned, Owns
      <3>1. k \notin 1 .. n - 1
        BY <1>3, <1>5 DEF Owned, Owns
      <3>2. k = n
        BY <1>3, <3>1
      <3> QED
        BY <1>3, <3>2
    <2>2. s.engine = d /\ s.owns
      BY <2>1
    <2>3. d \in Transactional
      BY <1>1, <2>2
    <2> QED
      BY <1>2, <1>5, <2>3 DEF Pending
  <1>6. \A x : LastHit(r, x)' = LastHit(r, x)
    BY <1>2 DEF LastHit, Atomic!Latest, Atomic!On
  <1>7. \A p : At(r, p)' = At(r, p) /\ Atomic!Written(r, p)' = Atomic!Written(r, p)
    BY <1>2 DEF At, Atomic!Written
  <1>8. \A x \in Resource : writes'[r][x] =
          IF ~Owned(r, EngineOf[x])' \/ LastHit(r, x)' = {} THEN Unwritten
          ELSE Atomic!Written(r, Atomic!The(LastHit(r, x)))'
    <2> TAKE x \in Resource
    <2>1. CASE Owned(r, EngineOf[x]) \/ ~Owned(r, EngineOf[x])'
      BY <1>2, <1>4, <1>6, <1>7, <2>1 DEF Pending
    <2>2. CASE ~Owned(r, EngineOf[x]) /\ Owned(r, EngineOf[x])'
      <3>1. \A p \in hits[r] : p \notin Atomic!On(batch[r], x)
        BY <1>5, <2>2 DEF Atomic!On, At
      <3>2. LastHit(r, x) = {}
        BY <3>1 DEF LastHit, Atomic!Latest
      <3> QED
        BY <1>2, <1>6, <2>2, <3>2 DEF Pending
    <2> QED
      BY <2>1, <2>2
  <1>9. ASSUME NEW p \in hits[r], Owned(r, At(r, p))'
        PROVE  writes'[r][batch[r][p].res] # Unwritten /\ Atomic!Hits(r, hits[r], p)'
    <2>1. Owned(r, At(r, p))
      BY <1>5, <1>7, <1>9
    <2>2. Atomic!Hits(r, hits[r], p)' = Atomic!Hits(r, hits[r], p)
      BY <1>2, HitsSame
    <2> QED
      BY <1>2, <2>1, <2>2 DEF Pending
  <1> QED
    BY <1>2, <1>4, <1>7, <1>8, <1>9 DEF Pending

LEMMA LockedStep ==
  ASSUME WriteInv, NEW r \in Request, Step(r)
  PROVE  Locked'
  <1> USE DEF WriteInv, SessionInv, TypeInv
  <1>1. \A q \in Request : q # r => writes'[q] = writes[q]
    BY OthersSame DEF Same
  <1>2. ASSUME NEW x \in Resource, writes'[r][x] # Unwritten
        PROVE  \A o \in Request \ {r} : writes[o][x] = Unwritten
    <2>1. CASE writes[r][x] # Unwritten
      BY <2>1 DEF Locked
    <2>2. CASE writes[r][x] = Unwritten
      <3>1. EditHits(r)
        <4>1. \A e \in Engine : Ended(r, e)[x] = Unwritten
          BY <2>2 DEF Ended
        <4>2. writes' # writes /\ ~\E e \in Engine : EndTransaction(r, e)
          BY <1>2, <2>2, <4>1 DEF EndTransaction, Types
        <4> QED
          BY <4>2 DEF Step, Accept, Handle, Enter, EditMisses, EditRaises, DeadlockAbort, Fire, Await,
                      Exit, LeaveUnowned, Commit, Rollback, CommitRaises, Answer, DeliverSome,
                      Deliver, Fault, Raise, DeliverFails, sessions
      <3>2. x = Current(r).res
        BY <1>2, <2>2, <3>1 DEF EditHits, Types
      <3> QED
        BY <3>1, <3>2 DEF EditHits, Blocked, WaitsFor
    <2> QED
      BY <2>1, <2>2
  <1> QED
    BY <1>1, <1>2 DEF Locked

LEMMA PendingStep ==
  ASSUME WriteInv, NEW r \in Request, Step(r)
  PROVE  \A q \in Request : Pending(q)'
  <1> SUFFICES Pending(r)'
    BY OthersPending
  <1> USE DEF Goto, Unwinds
  <1>types. Types
    BY DEF WriteInv, SessionInv, TypeInv
  <1>1. CASE Accept(r)
    <2>1. hits'[r] = {} /\ stack'[r] = <<>> /\ stack[r] = <<>> /\ writes' = writes
      BY <1>1 DEF Accept, run, sessions, WriteInv, SessionInv, TypeInv, Control, Uncommitted
    <2>2. DOMAIN stack[r] = {} /\ DOMAIN stack'[r] = {}
      BY <2>1
    <2>3. \A x \in Resource : writes[r][x] = Unwritten
      BY <2>2 DEF WriteInv, Pending, Owned
    <2> QED
      BY <2>1, <2>2, <2>3 DEF Pending, Owned
  <1>2. CASE Enter(r)
    BY <1>2, EnterPending
  <1>3. CASE EditHits(r)
    BY <1>3, HitPending
  <1>4. CASE EditMisses(r) \/ EditRaises(r) \/ DeadlockAbort(r) \/ Fire(r) \/ Await(r) \/ Answer(r)
             \/ DeliverSome(r) \/ Raise(r) \/ \E n \in DOMAIN fired[r] : DeliverFails(r, n)
    <2>1. UNCHANGED <<batch, hits, stack, writes, table>>
      BY <1>4 DEF EditMisses, EditRaises, DeadlockAbort, Fire, Await, Answer, DeliverSome, Deliver,
                  Raise, DeliverFails, run, sessions
    <2>2. pc[r] \in Early \/ pc'[r] \notin Early
      BY <1>4, <1>types DEF Types, EditMisses, EditRaises, DeadlockAbort, Deadlocked, WaitsFor, Fire,
                  Await, Answer, DeliverSome, Deliver, Raise, DeliverFails, Early
    <2> QED
      BY <2>1, <2>2, KeepPending
  <1>5. CASE LeaveUnowned(r)
    <2>1. /\ UNCHANGED <<batch, hits, writes, table, pc>> /\ Pop(r) /\ stack[r] # <<>>
          /\ ~stack[r][NextToLeave(r)].owns /\ pc[r] \notin Early
          /\ TypeInv /\ Stacked(r) /\ Pending(r)
      BY <1>5 DEF LeaveUnowned, Leaving, run, Early, WriteInv, SessionInv
    <2>2. \A e : Owned(r, e)' <=> Owned(r, e)
      <3> TAKE e
      <3>1. [engine |-> e, owns |-> TRUE].owns
        OBVIOUS
      <3>2. ~Owns(r, NextToLeave(r), e)
        BY <2>1, <3>1 DEF Owns
      <3> QED
        BY <2>1, <3>2, OwnedAfterPop
    <2>3. \A x : LastHit(r, x)' = LastHit(r, x)
      BY <2>1 DEF LastHit, Atomic!Latest, Atomic!On
    <2>4. \A p : /\ At(r, p)' = At(r, p) /\ Atomic!Written(r, p)' = Atomic!Written(r, p)
                 /\ Atomic!Hits(r, hits[r], p)' = Atomic!Hits(r, hits[r], p)
      BY <2>1, HitsSame DEF At, Atomic!Written
    <2>5. \A x \in Resource : writes'[r][x] =
            IF ~Owned(r, EngineOf[x])' \/ LastHit(r, x)' = {} THEN Unwritten
            ELSE Atomic!Written(r, Atomic!The(LastHit(r, x)))'
      BY <2>1, <2>2, <2>3, <2>4 DEF Pending
    <2> QED
      BY <2>1, <2>2, <2>4, <2>5 DEF Pending
  <1>6. ASSUME NEW e \in Engine, Commit(r, e) \/ Rollback(r, e) \/ CommitRaises(r, e)
        PROVE  Pending(r)'
    <2>1. /\ UNCHANGED <<batch, hits, pc>> /\ Pop(r) /\ stack[r] # <<>> /\ pc[r] \notin Early
          /\ Owns(r, NextToLeave(r), e) /\ EndTransaction(r, e)
          /\ table' = table \/ table' = Committed(r, e)
      BY <1>6 DEF Commit, Rollback, CommitRaises, Owner, Owns, Leaving, run, Early
    <2> QED
      BY <2>1, EndPending
  <1> QED
    BY <1>1, <1>2, <1>3, <1>4, <1>5, <1>6 DEF Step, Handle, Exit, Fault

LEMMA WriteInvInit ==
  ASSUME Init
  PROVE  WriteInv
  <1>1. SessionInv
    BY SessionInvInit
  <1>2. Locked
    BY DEF Init, NoWrites, Locked
  <1>3. \A r \in Request : DOMAIN stack[r] = {} /\ hits[r] = {}
    BY DEF Init
  <1>4. \A r \in Request : Pending(r)
    BY <1>3 DEF Init, NoWrites, Pending, Owned
  <1> QED
    BY <1>1, <1>2, <1>4 DEF WriteInv

LEMMA WriteInvStep ==
  ASSUME WriteInv, [Next]_vars
  PROVE  WriteInv'
  <1>1. SessionInv'
    BY SessionInvStep DEF WriteInv
  <1>2. CASE UNCHANGED vars
    <2>1. UNCHANGED <<batch, hits, stack, writes, table>> /\ pc' = pc
      BY <1>2 DEF vars
    <2>2. \A r \in Request : Pending(r)'
      BY <2>1, KeepPending
    <2> QED
      BY <1>1, <2>1, <2>2 DEF WriteInv, Locked
  <1>3. CASE Next
    <2> PICK r \in Request : Step(r)
      BY <1>3 DEF Next, Step
    <2> QED
      BY <1>1, LockedStep, PendingStep DEF WriteInv
  <1> QED
    BY <1>2, <1>3

-----------------------------------------------------------------------------
(* UnitOfWork implements AtomicBatches *)

LEMMA EditRuns ==
  ASSUME WriteInv, NEW r \in Request, EditHits(r) \/ EditMisses(r)
  PROVE  Atomic!RunEdit(r)
  <1>n. PICK n, x : n = at[r] + 1 /\ x = Current(r).res
    OBVIOUS
  <1>1. /\ at[r] < Len(batch[r])
        /\ Current(r) = batch[r][n]
        /\ Atomic!Hits(r, hits[r], n) <=> (Found(r) = (Current(r).kind # "create"))
    BY <1>n, AboutToRun DEF EditHits, EditMisses
  <1>2. at' = [at EXCEPT ![r] = @ + 1] /\ UNCHANGED <<batch, taken>>
    BY DEF EditHits, EditMisses, EndOfEdit, outcome
  <1>3. CASE EditHits(r)
    <2>1. Atomic!Hits(r, hits[r], n) /\ hits' = [hits EXCEPT ![r] = @ \cup {n}]
      BY <1>1, <1>3, <1>n DEF EditHits
    <2>2. Written(r) = Atomic!Written(r, n)
      BY <1>1, <1>n DEF Written, Atomic!Written
    <2>3. table' = IF EngineOf[x] \in Transactional THEN table
                   ELSE [table EXCEPT ![x] = Atomic!Written(r, n)]
      BY <1>3, <1>n, <2>2 DEF EditHits
    <2> QED
      BY <1>1, <1>2, <1>n, <2>1, <2>3 DEF Atomic!RunEdit
  <1>4. CASE EditMisses(r)
    <2>1. ~Atomic!Hits(r, hits[r], n) /\ Current(r).kind # "create"
      BY <1>1, <1>4 DEF EditMisses, Found
    <2>2. UNCHANGED <<hits, table>>
      BY <1>4 DEF EditMisses
    <2> QED
      BY <1>1, <1>2, <1>n, <2>1, <2>2 DEF Atomic!RunEdit
  <1> QED
    BY <1>3, <1>4

(* What a batch leaves of a row depends on the edits that have hit that row. *)
LEMMA AfterOn ==
  ASSUME NEW r, NEW G, NEW H, NEW x,
         G \cap Atomic!On(batch[r], x) = H \cap Atomic!On(batch[r], x)
  PROVE  Atomic!After(r, G, x) = Atomic!After(r, H, x)
  <1> DEFINE g == G \cap Atomic!On(batch[r], x)
             h == H \cap Atomic!On(batch[r], x)
  <1>1. Atomic!Latest(g) = Atomic!Latest(h)
    <2>1. g = h
      OBVIOUS
    <2> HIDE DEF g, h
    <2> QED
      BY <2>1
  <1> QED
    BY <1>1 DEF Atomic!After

(* A commit that the database does, whether or not it is answered. *)
LEMMA CommitTakesEffect ==
  ASSUME WriteInv, NEW r \in Request, NEW e \in Engine, Owner(r, e), ~failed[r],
         table' = Committed(r, e), taken' = [taken EXCEPT ![r] = @ \cup {e}],
         UNCHANGED <<batch, at, hits>>
  PROVE  Atomic!TakeEffect(r, e)
  <1> DEFINE H == hits[r] \cap Atomic!OnEngine(batch[r], e)
  <1>1. /\ Types /\ Control(r) /\ Stacked(r) /\ Pending(r)
        /\ pc[r] = "leave" /\ stack[r] # <<>> /\ Owns(r, NextToLeave(r), e)
    BY DEF WriteInv, SessionInv, TypeInv, Owner, Owns, Leaving
  <1>2. Owned(r, e)
    <2>1. stack[r] \in Seq(Service)
      BY <1>1 DEF Types, Service
    <2>2. NextToLeave(r) \in DOMAIN stack[r]
      BY <1>1, <2>1, EmptySeq, LenProperties DEF NextToLeave
    <2> QED
      BY <1>1, <2>2 DEF Owned
  <1>3. e \in Transactional \ taken[r] /\ at[r] = Len(batch[r])
    BY <1>1, <1>2, OwnedTransactional DEF Control
  <1>4. DOMAIN batch[r] = Positions(r)
    BY <1>1, BatchType, LenProperties DEF Positions
  <1>5. Atomic!OnEngine(batch[r], e) # {}
    <2> PICK k \in DOMAIN stack[r] : stack[r][k] = [engine |-> e, owns |-> TRUE]
      BY <1>2 DEF Owned, Owns
    <2>1. \E p \in Positions(r) : At(r, p) = e
      BY <1>1 DEF Stacked
    <2> QED
      BY <1>4, <2>1 DEF Atomic!OnEngine, At
  <1>6. ASSUME NEW x, EngineOf[x] = e
        PROVE  H \cap Atomic!On(batch[r], x) = hits[r] \cap Atomic!On(batch[r], x)
    BY <1>6 DEF Atomic!OnEngine, Atomic!On
  <1>7. ASSUME NEW p \in H
        PROVE  Atomic!Hits(r, H, p)
    <2>1. At(r, p) = e /\ p \in hits[r]
      BY <1>7 DEF Atomic!OnEngine, At
    <2>2. Atomic!Hits(r, hits[r], p)
      BY <1>1, <1>2, <2>1 DEF Pending
    <2>3. {q \in H : q < p} \cap Atomic!On(batch[r], batch[r][p].res)
            = {q \in hits[r] : q < p} \cap Atomic!On(batch[r], batch[r][p].res)
      BY <2>1 DEF Atomic!OnEngine, Atomic!On, At
    <2>4. Atomic!Sees(r, H, p) = Atomic!Sees(r, hits[r], p)
      <3>1. Atomic!After(r, {q \in H : q < p}, batch[r][p].res)
              = Atomic!After(r, {q \in hits[r] : q < p}, batch[r][p].res)
        BY <2>3, AfterOn
      <3> QED
        BY <3>1, Zenon DEF Atomic!Sees
    <2> QED
      BY <2>2, <2>4 DEF Atomic!Hits
  <1>8. ASSUME NEW x \in Resource
        PROVE  Committed(r, e)[x] = Atomic!After(r, H, x)
    <2>1. CASE EngineOf[x] = e
      <3>1. Atomic!After(r, H, x) = Atomic!After(r, hits[r], x)
        BY <1>6, <2>1, AfterOn
      <3> QED
        BY <1>2, <2>1, <3>1, SeenIsAfter DEF Committed
    <2>2. CASE EngineOf[x] # e
      <3>1. H \cap Atomic!On(batch[r], x) = {}
        BY <2>2 DEF Atomic!OnEngine, Atomic!On
      <3>2. Atomic!After(r, H, x) = table[x]
        BY <3>1 DEF Atomic!After, Atomic!Latest
      <3> QED
        BY <2>2, <3>2 DEF Committed
    <2> QED
      BY <2>1, <2>2
  <1>9. table' = [x \in Resource |-> Atomic!After(r, H, x)]
    BY <1>8 DEF Committed
  <1> QED
    BY <1>3, <1>5, <1>7, <1>9 DEF Atomic!TakeEffect

LEMMA StepRefines ==
  ASSUME WriteInv, NEW r \in Request, Step(r)
  PROVE  Atomic!Next \/ UNCHANGED Atomic!vars
  <1> USE DEF Atomic!vars
  <1>1. CASE Accept(r)
    <2>1. batch[r] = <<>>
      BY <1>1 DEF Accept, WriteInv, SessionInv, TypeInv, Control
    <2>2. Atomic!Accept(r)
      BY <1>1, <2>1 DEF Accept, Atomic!Accept, run, outcome
    <2> QED
      BY <2>2 DEF Atomic!Next
  <1>2. CASE EditHits(r) \/ EditMisses(r)
    BY <1>2, EditRuns DEF Atomic!Next
  <1>3. ASSUME NEW e \in Engine, Commit(r, e) \/ CommitRaises(r, e), ~UNCHANGED Atomic!vars
        PROVE  Atomic!Next
    <2>1. /\ Owner(r, e) /\ ~failed[r] /\ UNCHANGED <<batch, at, hits>>
          /\ table' = Committed(r, e) /\ taken' = [taken EXCEPT ![r] = @ \cup {e}]
      BY <1>3 DEF Commit, CommitRaises, run
    <2> QED
      BY <2>1, CommitTakesEffect DEF Atomic!Next
  <1>4. CASE Enter(r) \/ EditRaises(r) \/ DeadlockAbort(r) \/ Fire(r) \/ Await(r)
    BY <1>4 DEF Enter, EditRaises, DeadlockAbort, Fire, Await, run, outcome
  <1>5. CASE LeaveUnowned(r) \/ Answer(r) \/ \E e \in Engine : Rollback(r, e)
    BY <1>5 DEF LeaveUnowned, Answer, Rollback, run, outcome
  <1>6. CASE DeliverSome(r) \/ Raise(r) \/ \E n \in DOMAIN fired[r] : DeliverFails(r, n)
    BY <1>6 DEF DeliverSome, Deliver, Raise, DeliverFails, run, outcome
  <1> QED
    BY <1>1, <1>2, <1>3, <1>4, <1>5, <1>6 DEF Step, Handle, Exit, Fault

(* ImplementsAtomicBatches: what requests commit are atomic batches, on every engine   *)
(* with transactions; the edits of a batch see the earlier ones, and nobody's update    *)
(* is lost.                                                                             *)
THEOREM UnitOfWorkIsAtomic == Spec => ImplementsAtomicBatches
  <1>1. Init => Atomic!Init
    BY DEF Init, Atomic!Init
  <1>2. WriteInv /\ [Next]_vars => [Atomic!Next]_Atomic!vars
    <2> SUFFICES ASSUME WriteInv, [Next]_vars
                 PROVE  Atomic!Next \/ UNCHANGED Atomic!vars
      OBVIOUS
    <2>1. CASE UNCHANGED vars
      BY <2>1 DEF vars, Atomic!vars
    <2>2. CASE Next
      <3> PICK r \in Request : Step(r)
        BY <2>2 DEF Next, Step
      <3> QED
        BY StepRefines
    <2> QED
      BY <2>1, <2>2
  <1> QED
    BY <1>1, <1>2, WriteInvInit, WriteInvStep, PTL DEF Spec, ImplementsAtomicBatches, Atomic!Spec

-----------------------------------------------------------------------------
(* What the triggers get *)

(* The fired runs follow one another, each within one triggered resource. *)
Ordered(r) ==
  /\ \A n \in DOMAIN fired[r] :
       /\ fired[r][n].from <= fired[r][n].to
       /\ \A p \in fired[r][n].from .. fired[r][n].to :
            batch[r][p].res = ResourceOf(r, n) /\ batch[r][p].res \in Triggered
  /\ \A n, k \in DOMAIN fired[r] : n < k => fired[r][n].to < fired[r][k].from

(* The run that is being applied lies above them, within one resource. *)
CurrentRun(r) ==
  /\ pc[r] \in {"apply", "fire"} =>
       /\ \A n \in DOMAIN fired[r] : fired[r][n].to < first[r]
       /\ \A p \in first[r] .. at[r] : batch[r][p].res = batch[r][first[r]].res
  /\ pc[r] = "apply" => batch[r][at[r] + 1].res = batch[r][first[r]].res

(* Every edit applied before it has been fired. *)
Covered(r) ==
  ~failed[r] => \A p \in 1 .. at[r] :
    batch[r][p].res \in Triggered /\ (pc[r] \in {"apply", "fire"} => p < first[r]) =>
      RunsOf(r, p) # {}

FireInv == TypeInv /\ \A r \in Request : Ordered(r) /\ CurrentRun(r) /\ Covered(r)

LEMMA FireStep ==
  ASSUME FireInv, NEW r \in Request, Step(r)
  PROVE  \A q \in Request : Ordered(q)' /\ CurrentRun(q)' /\ Covered(q)'
  <1> SUFFICES ASSUME NEW q \in Request
               PROVE  Ordered(q)' /\ CurrentRun(q)' /\ Covered(q)'
    OBVIOUS
  <1> USE DEF Goto, Unwinds
  <1>types. /\ TypeInv /\ Types /\ Control(r) /\ Ordered(r) /\ CurrentRun(r) /\ Covered(r)
    BY DEF FireInv, TypeInv
  <1>nats. /\ at[r] \in Nat /\ first[r] \in Nat /\ pc[r] \in Labels
           /\ fired[r] \in Seq([from : Nat, to : Nat])
    BY <1>types DEF Types
  <1>dom. /\ Len(fired[r]) \in Nat /\ DOMAIN fired[r] = 1 .. Len(fired[r])
          /\ \A n \in DOMAIN fired[r] : fired[r][n].from \in Nat /\ fired[r][n].to \in Nat
    <2>1. Len(fired[r]) \in Nat /\ DOMAIN fired[r] = 1 .. Len(fired[r])
      BY <1>nats, LenProperties
    <2>2. \A n \in DOMAIN fired[r] : fired[r][n] \in [from : Nat, to : Nat]
      BY <1>nats, <2>1, ElementOfSeq
    <2> QED
      BY <2>1, <2>2
  <1>1. CASE q # r
    <2>1. Same(q)
      BY <1>1, <1>types, OthersSame
    <2> QED
      BY <2>1 DEF Same, FireInv, Ordered, CurrentRun, Covered, RunsOf, ResourceOf
  <1> SUFFICES ASSUME q = r
               PROVE  Ordered(r)' /\ CurrentRun(r)' /\ Covered(r)'
    BY <1>1
  <1>2. CASE Accept(r)
    <2>1. /\ fired'[r] = <<>> /\ at'[r] = 0 /\ pc'[r] = "enter"
      BY <1>2, <1>types DEF Accept, run, triggers, Control, Types
    <2>2. DOMAIN fired'[r] = {} /\ 1 .. at'[r] = {}
      BY <2>1
    <2> QED
      BY <2>1, <2>2 DEF Ordered, CurrentRun, Covered
  <1>keep. ASSUME UNCHANGED <<batch, fired>>
           PROVE  Ordered(r)' /\ \A p : RunsOf(r, p)' = RunsOf(r, p)
    BY <1>keep, <1>types DEF Ordered, ResourceOf, RunsOf
  <1>3. CASE Enter(r)
    <2>1. /\ UNCHANGED <<batch, fired, at, failed>> /\ first'[r] = at[r] + 1
          /\ pc'[r] = "apply" /\ pc[r] = "enter"
      BY <1>3, <1>types DEF Enter, triggers, outcome, Types
    <2>2. \A n \in DOMAIN fired[r] : fired[r][n].to < at[r] + 1
      BY <1>types, <1>nats, <1>dom DEF Control
    <2>3. CurrentRun(r)'
      <3>1. at[r] + 1 .. at[r] = {}
        BY <1>nats
      <3> QED
        BY <2>1, <2>2, <3>1 DEF CurrentRun
    <2>4. Covered(r)'
      BY <1>keep, <1>types, <2>1 DEF Covered
    <2> QED
      BY <1>keep, <2>1, <2>3, <2>4
  <1>4. CASE EditHits(r) \/ EditMisses(r)
    <2>1. /\ UNCHANGED <<batch, fired, first, failed>> /\ at'[r] = at[r] + 1
          /\ pc[r] = "apply" /\ pc'[r] \in {"apply", "fire"}
      BY <1>4, <1>types DEF EditHits, EditMisses, EndOfEdit, triggers, outcome, Types
    <2>2. pc'[r] = "apply" => batch[r][at[r] + 1 + 1].res = batch[r][at[r] + 1].res
      <3>1. at[r] + 2 = at[r] + 1 + 1
        BY <1>nats
      <3> QED
        BY <1>4, <1>types, <3>1 DEF EditHits, EditMisses, EndOfEdit, Types, Current
    <2>3. \A p \in first[r] .. at[r] + 1 : p \in first[r] .. at[r] \/ p = at[r] + 1
      BY <1>nats
    <2>4. first[r] \in 1 .. at[r] + 1
      BY <1>types, <2>1 DEF Control
    <2>5. CurrentRun(r)'
      BY <1>types, <2>1, <2>2, <2>3 DEF CurrentRun
    <2>6. Covered(r)'
      <3>1. \A p \in 1 .. at[r] + 1 : p < first[r] => p \in 1 .. at[r]
        BY <1>nats, <2>4
      <3> QED
        BY <1>keep, <1>types, <2>1, <3>1 DEF Covered
    <2> QED
      BY <1>keep, <2>1, <2>5, <2>6
  <1>5. CASE Fire(r)
    <2>1. /\ UNCHANGED <<batch, at, first, failed>> /\ pc[r] = "fire"
          /\ pc'[r] \in {"await", "enter", "leave"}
          /\ IF batch[r][at[r]].res \in Triggered THEN fired'[r] = Append(fired[r], FiredRun(r))
             ELSE fired' = fired
      BY <1>5, <1>types DEF Fire, AfterRun, run, outcome, Types
    <2>2. /\ first[r] \in 1 .. at[r]
          /\ \A p \in first[r] .. at[r] : batch[r][p].res = batch[r][at[r]].res
          /\ \A n \in DOMAIN fired[r] : fired[r][n].to < first[r]
      <3>1. first[r] \in 1 .. at[r] /\ at[r] \in first[r] .. at[r]
        BY <1>types, <1>nats, <2>1 DEF Control
      <3> QED
        BY <1>types, <2>1, <3>1 DEF CurrentRun
    <2>3. CASE batch[r][at[r]].res \notin Triggered
      <3>1. \A p \in 1 .. at[r] : batch[r][p].res \in Triggered => p < first[r]
        BY <1>nats, <2>2, <2>3
      <3>2. Covered(r)'
        BY <1>keep, <1>types, <2>1, <2>3, <3>1 DEF Covered
      <3> QED
        BY <1>keep, <2>1, <2>3, <3>2 DEF CurrentRun
    <2>4. CASE batch[r][at[r]].res \in Triggered
      <3> DEFINE m == Len(fired[r]) + 1
      <3>1. /\ DOMAIN fired'[r] = 1 .. m /\ fired'[r][m] = FiredRun(r) /\ m \in Nat
            /\ \A n \in 1 .. m - 1 : fired'[r][n] = fired[r][n]
            /\ DOMAIN fired[r] = 1 .. m - 1
        <4>1. FiredRun(r) \in [from : Nat, to : Nat]
          BY <1>nats DEF FiredRun
        <4>2. fired'[r] = Append(fired[r], FiredRun(r))
          BY <2>1, <2>4
        <4>3. fired'[r] \in Seq([from : Nat, to : Nat]) /\ Len(fired'[r]) = m
          BY <1>nats, <4>1, <4>2, AppendProperties
        <4> QED
          BY <1>nats, <1>dom, <4>1, <4>2, <4>3, AppendProperties, LenProperties
      <3>2. FiredRun(r).from = first[r] /\ FiredRun(r).to = at[r]
        BY DEF FiredRun
      <3> HIDE DEF m
      <3>3. Ordered(r)'
        <4>1. \A n \in 1 .. m :
                /\ fired'[r][n].from <= fired'[r][n].to
                /\ \A p \in fired'[r][n].from .. fired'[r][n].to :
                     /\ batch[r][p].res = batch[r][fired'[r][n].from].res
                     /\ batch[r][p].res \in Triggered
          <5> TAKE n \in 1 .. m
          <5>1. CASE n = m
            <6>1. first[r] \in first[r] .. at[r] /\ first[r] <= at[r]
              BY <1>nats, <2>2
            <6> QED
              BY <2>2, <2>4, <3>1, <3>2, <5>1, <6>1
          <5>2. CASE n # m
            <6>1. n \in 1 .. m - 1
              BY <3>1, <5>2
            <6> QED
              BY <1>types, <3>1, <6>1 DEF Ordered, ResourceOf
          <5> QED
            BY <5>1, <5>2
        <4>2. \A n, k \in 1 .. m : n < k => fired'[r][n].to < fired'[r][k].from
          <5> TAKE n, k \in 1 .. m
          <5>1. CASE k = m /\ n < k
            <6>1. n \in 1 .. m - 1
              BY <3>1, <5>1
            <6> QED
              BY <2>2, <3>1, <3>2, <5>1, <6>1
          <5>2. CASE k # m /\ n < k
            <6>1. n \in 1 .. m - 1 /\ k \in 1 .. m - 1
              BY <3>1, <5>2
            <6> QED
              BY <1>types, <3>1, <5>2, <6>1 DEF Ordered
          <5> QED
            BY <5>1, <5>2
        <4> QED
          BY <2>1, <3>1, <4>1, <4>2 DEF Ordered, ResourceOf
      <3>4. Covered(r)'
        <4>1. ASSUME NEW p \in 1 .. at[r], batch[r][p].res \in Triggered, ~failed[r]
              PROVE  \E n \in 1 .. m : p \in fired'[r][n].from .. fired'[r][n].to
          <5>1. CASE p < first[r]
            <6> PICK n \in DOMAIN fired[r] : p \in fired[r][n].from .. fired[r][n].to
              BY <1>types, <4>1, <5>1 DEF Covered, RunsOf
            <6>1. n \in 1 .. m /\ fired'[r][n] = fired[r][n]
              BY <3>1
            <6> QED
              BY <6>1
          <5>2. CASE ~(p < first[r])
            <6>1. p \in first[r] .. at[r] /\ m \in 1 .. m
              BY <1>nats, <1>dom, <5>2, <3>1 DEF m
            <6> QED
              BY <3>1, <3>2, <6>1
          <5> QED
            BY <5>1, <5>2
        <4> QED
          BY <2>1, <3>1, <4>1 DEF Covered, RunsOf
      <3> QED
        BY <2>1, <3>3, <3>4 DEF CurrentRun
    <2> QED
      BY <2>3, <2>4
  <1>6. CASE EditRaises(r) \/ DeadlockAbort(r) \/ Raise(r) \/ \E e \in Engine : CommitRaises(r, e)
    <2>1. /\ UNCHANGED <<batch, fired>> /\ pc'[r] = "leave" /\ failed'[r]
      BY <1>6, <1>types DEF EditRaises, DeadlockAbort, Raise, CommitRaises, Owner, Leaving, run, triggers, Types
    <2> QED
      BY <1>keep, <2>1 DEF CurrentRun, Covered
  <1>7. CASE Await(r) \/ LeaveUnowned(r) \/ Answer(r) \/ \E e \in Engine : Commit(r, e) \/ Rollback(r, e)
    <2>1. /\ UNCHANGED <<batch, fired, at, failed>>
          /\ pc[r] \notin {"apply", "fire"} /\ pc'[r] \notin {"apply", "fire"}
      BY <1>7, <1>types DEF Await, AfterRun, LeaveUnowned, Answer, Commit, Rollback, Owner, Leaving,
                            run, outcome, triggers, Types
    <2> QED
      BY <1>keep, <1>types, <2>1 DEF CurrentRun, Covered
  <1>8. CASE DeliverSome(r) \/ \E n \in DOMAIN fired[r] : DeliverFails(r, n)
    <2>1. UNCHANGED <<batch, fired, at, first, failed, pc>>
      BY <1>8 DEF DeliverSome, Deliver, DeliverFails, run, outcome
    <2> QED
      BY <1>keep, <1>types, <2>1 DEF CurrentRun, Covered
  <1> QED
    BY <1>2, <1>3, <1>4, <1>5, <1>6, <1>7, <1>8 DEF Step, Handle, Exit, Fault

LEMMA FireInvInit ==
  ASSUME Init
  PROVE  FireInv
  <1>1. \A r \in Request : DOMAIN fired[r] = {} /\ at[r] = 0 /\ pc[r] = "idle"
    BY DEF Init
  <1>2. 1 .. 0 = {}
    OBVIOUS
  <1> QED
    BY <1>1, <1>2, TypeInvInit DEF FireInv, Ordered, CurrentRun, Covered

LEMMA FireInvStep ==
  ASSUME FireInv, [Next]_vars
  PROVE  FireInv'
  <1>1. TypeInv'
    BY TypeInvStep DEF FireInv
  <1>2. CASE UNCHANGED vars
    BY <1>1, <1>2 DEF vars, FireInv, Ordered, CurrentRun, Covered, RunsOf, ResourceOf
  <1>3. CASE Next
    <2> PICK r \in Request : Step(r)
      BY <1>3 DEF Next, Step
    <2> QED
      BY <1>1, FireStep DEF FireInv
  <1> QED
    BY <1>2, <1>3

(* FiredOnce: each applied edit of a triggered resource is handed to its triggers once, *)
(* in a run of that resource, by the time its batch succeeds.                            *)
THEOREM EditsFiredOnce == Spec => []FiredOnce
  <1>1. FireInv => FiredOnce
    <2> SUFFICES ASSUME FireInv, NEW r \in Request, NEW p \in Positions(r)
                 PROVE  /\ \A n, k \in RunsOf(r, p) : n = k /\ ResourceOf(r, n) = batch[r][p].res
                        /\ RunsOf(r, p) # {} => p <= at[r] /\ batch[r][p].res \in Triggered
                        /\ pc[r] = "done" /\ ~failed[r] /\ batch[r][p].res \in Triggered
                             => RunsOf(r, p) # {}
      BY DEF FiredOnce
    <2>1. /\ Types /\ Control(r) /\ Ordered(r) /\ Covered(r) /\ at[r] \in Nat
          /\ fired[r] \in Seq([from : Nat, to : Nat])
      BY DEF FireInv, TypeInv, Types
    <2>2. \A n \in DOMAIN fired[r] : n \in Nat /\ fired[r][n] \in [from : Nat, to : Nat]
      <3> DEFINE Run == [from : Nat, to : Nat]
      <3>1. fired[r] \in Seq(Run)
        BY <2>1
      <3> HIDE DEF Run
      <3>2. Len(fired[r]) \in Nat /\ DOMAIN fired[r] = 1 .. Len(fired[r])
        BY <3>1
      <3>3. \A n \in 1 .. Len(fired[r]) : fired[r][n] \in Run
        BY <3>1
      <3> QED
        BY <3>2, <3>3 DEF Run
    <2>3. \A n \in RunsOf(r, p) : /\ n \in DOMAIN fired[r] /\ p \in Nat
                                  /\ fired[r][n].from <= p /\ p <= fired[r][n].to
                                  /\ ResourceOf(r, n) = batch[r][p].res
                                  /\ batch[r][p].res \in Triggered
      BY <2>1, <2>2 DEF RunsOf, Ordered, Positions
    <2>4. \A n, k \in RunsOf(r, p) : ~(n < k)
      <3> SUFFICES ASSUME NEW n \in RunsOf(r, p), NEW k \in RunsOf(r, p), n < k
                   PROVE  FALSE
        OBVIOUS
      <3>1. fired[r][n].to < fired[r][k].from
        BY <2>1, <2>3 DEF Ordered
      <3>2. fired[r][n].to \in Nat /\ fired[r][k].from \in Nat /\ p \in Nat
        BY <2>2, <2>3
      <3> QED
        BY <2>3, <3>1, <3>2
    <2>5. \A n, k \in RunsOf(r, p) : n = k
      BY <2>2, <2>3, <2>4
    <2>6. RunsOf(r, p) # {} => p <= at[r] /\ batch[r][p].res \in Triggered
      BY <2>1, <2>2, <2>3 DEF Control
    <2>7. pc[r] = "done" /\ ~failed[r] /\ batch[r][p].res \in Triggered => RunsOf(r, p) # {}
      BY <2>1 DEF Control, Covered, Positions
    <2> QED
      BY <2>3, <2>5, <2>6, <2>7
  <1> QED
    BY <1>1, FireInvInit, FireInvStep, PTL DEF Spec

=============================================================================
