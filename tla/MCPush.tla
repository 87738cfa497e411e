------------------------------- MODULE MCPush -------------------------------
(* TLC's instance of Push: each way of keeping a change, beside another one *)
EXTENDS Push, TLC

CONSTANTS d1, d2

MCPlans == {[verify |-> TRUE, finish |-> (d1 :> "save") @@ (d2 :> "commit")],
            [verify |-> FALSE, finish |-> (d1 :> "command") @@ (d2 :> "manual")],
            [verify |-> FALSE, finish |-> (d1 :> "auto") @@ (d2 :> "commit")]}
=============================================================================
