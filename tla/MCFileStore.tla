----------------------------- MODULE MCFileStore ------------------------------
(***************************************************************************)
(* The instance of FileStore that TLC explores.                            *)
(***************************************************************************)
EXTENDS FileStore, TLC

(* A file, and what a client makes of the name of a temporary file in a listing. *)
MCAsked ==
  {<<"read", 1>>, <<"content", 1>>, <<"content", 3>>, <<"download", 1>>, <<"signed", 1>>,
   <<"signed", 2>>, <<"delete", 1>>, <<"delete", 3>>}

Workers == Permutations(Worker)

=============================================================================
