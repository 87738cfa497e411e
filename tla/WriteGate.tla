----------------------------- MODULE WriteGate -----------------------------
(***************************************************************************)
(* What src/src/webapp/lifecycle.py promises about a database move: those  *)
(* who may write (requests, rollouts) are counted while they may, the move *)
(* has the database to itself once none is left, and nobody is let in      *)
(* before it is over.  DatabaseMove implements this.                       *)
(***************************************************************************)
CONSTANT Users   \* whoever may write

VARIABLES
  inside,   \* those who may write now
  alone     \* the database is the move's

gateVars == <<inside, alone>>

Init == inside = {} /\ alone = FALSE

Enter(u) ==
  /\ ~alone
  /\ inside' = inside \cup {u}
  /\ UNCHANGED alone

Leave(u) ==
  /\ inside' = inside \ {u}
  /\ UNCHANGED alone

Lock ==
  /\ inside = {}
  /\ alone' = TRUE
  /\ UNCHANGED inside

Unlock ==
  /\ alone' = FALSE
  /\ UNCHANGED inside

\* The process ends, and with it everyone inside.
End ==
  /\ inside' = {}
  /\ alone' = FALSE

Next ==
  \/ \E u \in Users : Enter(u) \/ Leave(u)
  \/ Lock \/ Unlock \/ End

Spec == Init /\ [][Next]_gateVars
=============================================================================
