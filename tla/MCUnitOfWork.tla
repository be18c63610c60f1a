---------------------------- MODULE MCUnitOfWork -----------------------------
(***************************************************************************)
(* The instances of UnitOfWork that TLC explores.                          *)
(***************************************************************************)
EXTENDS UnitOfWork

CONSTANTS a1, a2, b1, m1, A, B, M

MCResource == {a1, a2, b1, m1}

MCEngine == {A, B, M}

MCEngineOf == (a1 :> A) @@ (a2 :> A) @@ (b1 :> B) @@ (m1 :> M)

C(x) == [kind |-> "create", res |-> x]
U(x) == [kind |-> "update", res |-> x]
D(x) == [kind |-> "delete", res |-> x]

(* Runs of one and two edits, an adopted session, two rows of one engine in both    *)
(* orders, two engines in one order, a row replaced, and an engine without          *)
(* transactions before and after one with.                                           *)
MCBatches ==
  { <<U(a1), C(a2), U(a1)>>,
    <<U(a2), D(a1), C(a1)>>,
    <<C(a1), U(b1), U(a2)>>,
    <<D(m1), U(a1), C(m1)>> }

(* The rows of A are there or not, the others are. *)
MCInit == Init /\ table[b1] = Seeded /\ table[m1] = Seeded

MCSpec == MCInit /\ [][Next]_vars

MCFairSpec == MCSpec /\ Fairness

=============================================================================
