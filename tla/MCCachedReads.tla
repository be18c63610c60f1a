---------------------------- MODULE MCCachedReads -----------------------------
(***************************************************************************)
(* The instances of CachedReads that TLC explores.                         *)
(***************************************************************************)
EXTENDS CachedReads, TLC

(* A writable resource that declares a window: the store serves what writes evict. *)
MCOverrides == {[kind |-> "optimistic", window |-> 1, private |-> FALSE]}

MCAsked == {<<"read", 1>>, <<"search", 0>>, <<"count", 0>>}


(* A row changes, leaves or comes, and a batch does two of that. *)
MCEdits == {(1 :> "save"), (1 :> "delete"), (2 :> "save"), (1 :> "delete") @@ (2 :> "save")}

MCElsewhere == {(1 :> "save")}

Callers == Permutations(Caller)

(* The first row is there; the second may be created, or be the next page. *)
MCInit == Init /\ table[1] # Absent

MCSpec == MCInit /\ [][Next]_vars

=============================================================================
