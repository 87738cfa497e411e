--------------------------- MODULE MCDatabaseMove ---------------------------
(***************************************************************************)
(* Small instances of DatabaseMove.  Requests, rows and databases other    *)
(* than the bundled one are alike; so are moves, which begin in any order. *)
(***************************************************************************)
EXTENDS DatabaseMove, TLC

Alike == Permutations(Requests) \cup Permutations(Rows) \cup Permutations(Moves)
=============================================================================
