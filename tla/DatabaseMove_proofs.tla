------------------------ MODULE DatabaseMove_proofs ------------------------
(***************************************************************************)
(* What holds of DatabaseMove for any number of requests, rollouts, moves, *)
(* rows, databases and uncounted threads.                                  *)
(*                                                                         *)
(* The lock of Maintenance is the root: underWay is the number of requests *)
(* inside (CountRight), so locked means that nobody counted is left        *)
(* (LockedAlone), and by that the implementation of WriteGate.  The other  *)
(* invariants follow the thread of the one move under way (OneMove): what  *)
(* its backup and its target hold, and where connection and runtime.env    *)
(* point, step by step.                                                    *)
(***************************************************************************)
EXTENDS DatabaseMove, FiniteSetTheorems, TLAPS

\* Maintenance counts exactly the requests inside (enter, leave).
CountRight == underWay = Cardinality(Counted)

\* Locked, nobody counted is inside and no rollout is under way (lock).
LockedAlone == state = "locked" => Counted = {} /\ Idle

GateInv == TypeOK /\ CountRight /\ LockedAlone

-----------------------------------------------------------------------------
\* A request that goes on within its view stays inside.
LEMMA StaysInside ==
  ASSUME NEW r \in Requests, NEW here, NEW there, TypeOK, Goes(r, here, there),
         here.at # "out", there.at # "out"
  PROVE  Counted' = Counted /\ r \in Counted
BY DEF TypeOK, Goes, Counted

\* A request that comes in is one more (enter).
LEMMA ComesIn ==
  ASSUME NEW r \in Requests, TypeOK, Goes(r, Out, In)
  PROVE  Counted' = Counted \cup {r} /\ r \notin Counted
BY DEF TypeOK, Goes, Counted, Out, In

\* A request that goes is one less (leave).
LEMMA GoesOut ==
  ASSUME NEW r \in Requests, TypeOK, Goes(r, In, Out)
  PROVE  Counted' = Counted \ {r} /\ r \in Counted
BY DEF TypeOK, Goes, Counted, Out, In

\* The requests inside are finitely many.
LEMMA CountedFinite ==
  IsFiniteSet(Counted)
<1>1. Counted \subseteq Requests  BY DEF Counted
<1> QED  BY <1>1, FS_Subset, RequestsAssumption

\* The views: every step of one keeps its request inside (maintenance_gate
\* counts a request until it is answered).
LEMMA ViewInside ==
  ASSUME NEW r \in Requests, TypeOK, View(r)
  PROVE  Counted' = Counted /\ r \in Counted
<1>1. CASE CheckTarget(r)
  BY <1>1, StaysInside DEF CheckTarget, In
<1>2. CASE BeginRefused(r)
  BY <1>2, StaysInside DEF BeginRefused, In
<1>3. CASE \E m \in Moves : Begin(r, m)
  BY <1>3, StaysInside DEF Begin
<1>4. CASE \E m \in Moves : Announce(r, m)
  BY <1>4 DEF Announce, Counted
<1>5. CASE \E m \in Moves : Launch(r, m)
  BY <1>5, StaysInside DEF Launch, In
<1>6. CASE \E j \in Rollouts : Submit(r, j)
  BY <1>6 DEF Submit, Counted, In
<1>7. CASE CancelLooks(r)
  BY <1>7, StaysInside DEF CancelLooks, In
<1>8. CASE CancelSets(r)
  BY <1>8, StaysInside DEF CancelSets, In
<1>9. CASE RedisReads(r)
  BY <1>9, StaysInside DEF RedisReads, In, At
<1>10. CASE RedisPauses(r)
  BY <1>10, StaysInside DEF RedisPauses, At
<1>11. CASE RedisRefused(r)
  BY <1>11, StaysInside DEF RedisRefused, At
<1>12. CASE RedisGoes(r)
  BY <1>12, StaysInside DEF RedisGoes, At
<1>13. CASE RedisReplaced(r)
  BY <1>13, StaysInside DEF RedisReplaced, At
<1>14. CASE RedisResumes(r)
  BY <1>14, StaysInside DEF RedisResumes, In, At
<1> QED  BY <1>1, <1>2, <1>3, <1>4, <1>5, <1>6, <1>7, <1>8, <1>9, <1>10, <1>11, <1>12, <1>13, <1>14 DEF View

-----------------------------------------------------------------------------
(* Types, and the count of requests *)

\* No step takes a variable out of its type (every handler and thread step);
\* leave() finds somebody counted.
LEMMA TypeStep ==
  ASSUME TypeOK, CountRight, [Next]_vars
  PROVE  TypeOK'
<1> USE DEF gate, mover, plan, moves, store
<1>1. CASE \E r \in Requests : Enter(r)
  BY <1>1 DEF TypeOK, Enter, Out, In, Goes, RequestStates
<1>2. CASE \E r \in Requests : Leave(r)
  <2>1. PICK r \in Requests : Leave(r)  BY <1>2
  <2>2. underWay \in Nat \ {0}
    BY <2>1, GoesOut, CountedFinite, FS_CardinalityType, FS_EmptySet DEF Leave, CountRight, TypeOK
  <2> QED  BY <2>1, <2>2 DEF TypeOK, Leave, Out, Goes, RequestStates
<1>3. CASE \E r \in Requests : RequestWrites(r)
  BY <1>3 DEF TypeOK, RequestWrites, In, NewRow, RequestStates
<1>4. CASE \E r \in Requests : CheckTarget(r)
  BY <1>4 DEF TypeOK, CheckTarget, In, Goes, RequestStates
<1>5. CASE \E r \in Requests : BeginRefused(r)
  BY <1>5 DEF TypeOK, BeginRefused, In, Goes, RequestStates
<1>6. CASE \E r \in Requests, m \in Moves : Begin(r, m)
  BY <1>6 DEF TypeOK, Begin, Goes, RequestStates, MoveSteps
<1>7. CASE \E r \in Requests, m \in Moves : Announce(r, m)
  BY <1>7 DEF TypeOK, Announce, Goes, RequestStates, MoveStates, Ended, MoveSteps
<1>8. CASE \E r \in Requests, m \in Moves : Launch(r, m)
  BY <1>8 DEF TypeOK, Launch, In, Goes, RequestStates, MoveSteps
<1>9. CASE \E r \in Requests, j \in Rollouts : Submit(r, j)
  BY <1>9 DEF TypeOK, Submit, Goes, RequestStates, MoveSteps
<1>10. CASE \E r \in Requests : CancelLooks(r)
  BY <1>10 DEF TypeOK, CancelLooks, In, Goes, RequestStates
<1>11. CASE \E r \in Requests : CancelSets(r)
  BY <1>11 DEF TypeOK, CancelSets, In, Goes, RequestStates
<1>12. CASE \E r \in Requests : RedisReads(r)
  BY <1>12 DEF TypeOK, RedisReads, In, At, Goes, RequestStates
<1>13. CASE \E r \in Requests : RedisPauses(r)
  BY <1>13 DEF TypeOK, RedisPauses, At, Goes, RequestStates
<1>14. CASE \E r \in Requests : RedisRefused(r)
  BY <1>14 DEF TypeOK, RedisRefused, At, Goes, RequestStates
<1>15. CASE \E r \in Requests : RedisGoes(r)
  BY <1>15 DEF TypeOK, RedisGoes, At, Goes, RequestStates
<1>16. CASE \E r \in Requests : RedisReplaced(r)
  BY <1>16 DEF TypeOK, RedisReplaced, At, Goes, RequestStates
<1>17. CASE \E r \in Requests : RedisResumes(r)
  <2>1. PICK r \in Requests : RedisResumes(r)  BY <1>17
  <2>2. paused' \in BOOLEAN  BY <2>1, Zenon DEF RedisResumes, PauseAfter, TypeOK
  <2> QED  BY <2>1, <2>2 DEF TypeOK, RedisResumes, In, Goes, RequestStates
<1>18. CASE \E m \in Moves : Locks(m)
  BY <1>18 DEF TypeOK, Locks, Step, MoveSteps
<1>19. CASE \E m \in Moves : LocksNot(m)
  BY <1>19 DEF TypeOK, LocksNot, Step, MoveSteps
<1>20. CASE \E m \in Moves : GivesUp(m)
  BY <1>20 DEF TypeOK, GivesUp, Step, Ended, MoveSteps
<1>21. CASE \E m \in Moves : Sleeps(m)
  BY <1>21 DEF TypeOK, Sleeps, Step, MoveSteps
<1>22. CASE \E m \in Moves : Copying(m)
  BY <1>22 DEF TypeOK, Copying, Step, MoveStates, Ended, MoveSteps
<1>23. CASE \E m \in Moves : Archives(m)
  BY <1>23 DEF TypeOK, Archives, Step, MoveSteps
<1>24. CASE \E m \in Moves : CopyFails(m)
  BY <1>24 DEF TypeOK, CopyFails, Fails, Step, MoveSteps
<1>25. CASE \E m \in Moves : Switching(m)
  BY <1>25 DEF TypeOK, Switching, Restored, Step, MoveStates, Ended, MoveSteps
<1>26. CASE \E m \in Moves : RestoreFails(m)
  BY <1>26 DEF TypeOK, RestoreFails, Fails, Restored, Step, MoveSteps
<1>27. CASE \E m \in Moves : Swaps(m)
  BY <1>27 DEF TypeOK, Swaps, Step, MoveSteps
<1>28. CASE \E m \in Moves : SwapFails(m)
  BY <1>28 DEF TypeOK, SwapFails, Fails, Step, MoveSteps
<1>29. CASE \E m \in Moves : Keeps(m)
  BY <1>29 DEF TypeOK, Keeps, Step, Ended, MoveSteps
<1>30. CASE \E m \in Moves : KeepFails(m)
  BY <1>30 DEF TypeOK, KeepFails, Fails, Undone, Step, MoveSteps
<1>31. CASE \E m \in Moves : Ends(m)
  BY <1>31 DEF TypeOK, Ends, Step, MoveSteps
<1>32. CASE \E m \in Moves : Audits(m)
  BY <1>32 DEF TypeOK, Audits, NewRow, Step, MoveSteps
<1>33. CASE \E m \in Moves : Reports(m)
  BY <1>33 DEF TypeOK, Reports, Step, MoveStates, Ended, MoveSteps
<1>34. CASE \E j \in Rollouts : RolloutEnds(j)
  BY <1>34 DEF TypeOK, RolloutEnds
<1>35. CASE \E j \in Rollouts : RolloutSaved(j)
  BY <1>35 DEF TypeOK, RolloutSaved, NewRow
<1>36. CASE \E u \in Uncounted : UncountedAsks(u)
  BY <1>36 DEF TypeOK, UncountedAsks
<1>37. CASE \E u \in Uncounted : UncountedWrites(u)
  BY <1>37 DEF TypeOK, UncountedWrites, NewRow
<1>38. CASE DeadlinePasses
  BY <1>38 DEF TypeOK, DeadlinePasses
<1>39. CASE Crash
  BY <1>39 DEF TypeOK, Crash, Out, RequestStates, MoveStates, MoveSteps
<1>40. CASE UNCHANGED vars
  BY <1>40 DEF TypeOK, vars
<1> QED
  BY <1>1, <1>2, <1>3, <1>4, <1>5, <1>6, <1>7, <1>8, <1>9, <1>10, <1>11, <1>12, <1>13,
     <1>14, <1>15, <1>16, <1>17, <1>18, <1>19, <1>20, <1>21, <1>22, <1>23, <1>24, <1>25,
     <1>26, <1>27, <1>28, <1>29, <1>30, <1>31, <1>32, <1>33, <1>34, <1>35, <1>36, <1>37,
     <1>38, <1>39, <1>40
     DEF Next, Request, View, Rollout, MoveThread

\* Which steps concern the gate; all others leave state, requests and rollouts
\* as they are (lifecycle.py's lock and gate).
LEMMA GateFrame ==
  ASSUME [Next]_vars
  PROVE  \/ \E r \in Requests : Enter(r) \/ Leave(r) \/ View(r)
         \/ \E j \in Rollouts : Rollout(j)
         \/ \E m \in Moves : Locks(m) \/ Ends(m)
         \/ Crash
         \/ UNCHANGED <<state, underWay, request, rollout>>
<1> USE DEF gate
<1>1. CASE \E r \in Requests : RequestWrites(r)
  BY <1>1 DEF RequestWrites
<1>2. CASE \E m \in Moves : LocksNot(m)
  BY <1>2 DEF LocksNot
<1>3. CASE \E m \in Moves : GivesUp(m)
  BY <1>3 DEF GivesUp
<1>4. CASE \E m \in Moves : Sleeps(m)
  BY <1>4 DEF Sleeps
<1>5. CASE \E m \in Moves : Copying(m)
  BY <1>5 DEF Copying
<1>6. CASE \E m \in Moves : Archives(m)
  BY <1>6 DEF Archives
<1>7. CASE \E m \in Moves : CopyFails(m)
  BY <1>7 DEF CopyFails, Fails
<1>8. CASE \E m \in Moves : Switching(m)
  BY <1>8 DEF Switching
<1>9. CASE \E m \in Moves : RestoreFails(m)
  BY <1>9 DEF RestoreFails, Fails
<1>10. CASE \E m \in Moves : Swaps(m)
  BY <1>10 DEF Swaps
<1>11. CASE \E m \in Moves : SwapFails(m)
  BY <1>11 DEF SwapFails, Fails
<1>12. CASE \E m \in Moves : Keeps(m)
  BY <1>12 DEF Keeps
<1>13. CASE \E m \in Moves : KeepFails(m)
  BY <1>13 DEF KeepFails, Fails
<1>14. CASE \E m \in Moves : Audits(m)
  BY <1>14 DEF Audits
<1>15. CASE \E m \in Moves : Reports(m)
  BY <1>15 DEF Reports
<1>16. CASE \E u \in Uncounted : UncountedAsks(u)
  BY <1>16 DEF UncountedAsks
<1>17. CASE \E u \in Uncounted : UncountedWrites(u)
  BY <1>17 DEF UncountedWrites
<1>18. CASE DeadlinePasses
  BY <1>18 DEF DeadlinePasses
<1>19. CASE UNCHANGED vars
  BY <1>19 DEF vars
<1> QED
  BY <1>1, <1>2, <1>3, <1>4, <1>5, <1>6, <1>7, <1>8, <1>9, <1>10, <1>11, <1>12, <1>13,
     <1>14, <1>15, <1>16, <1>17, <1>18, <1>19
     DEF Next, Request, MoveThread

\* What a view does to the gate: at most it begins a move (Maintenance.begin).
LEMMA ViewGate ==
  ASSUME NEW r \in Requests, View(r)
  PROVE  /\ UNCHANGED underWay
         /\ state' \in {state, "waiting"}
         /\ rollout' = rollout \/ \E j \in Rollouts : Submit(r, j)
BY DEF View, CheckTarget, BeginRefused, Begin, Announce, Launch, CancelLooks, CancelSets, Submit,
       RedisReads, RedisPauses, RedisRefused, RedisGoes, RedisReplaced, RedisResumes, gate

\* The count stays right (enter and leave, each once per request).
LEMMA CountStep ==
  ASSUME TypeOK, CountRight, [Next]_vars
  PROVE  CountRight'
<1>1. CASE \E r \in Requests : Enter(r)
  BY <1>1, ComesIn, CountedFinite, FS_AddElement DEF Enter, CountRight
<1>2. CASE \E r \in Requests : Leave(r)
  BY <1>2, GoesOut, CountedFinite, FS_RemoveElement DEF Leave, CountRight
<1>3. CASE \E r \in Requests : View(r)
  BY <1>3, ViewInside, ViewGate DEF CountRight
<1>4. CASE \E j \in Rollouts : Rollout(j)
  BY <1>4 DEF Rollout, RolloutEnds, RolloutSaved, gate, CountRight, Counted
<1>5. CASE \E m \in Moves : Locks(m) \/ Ends(m)
  BY <1>5 DEF Locks, Ends, CountRight, Counted
<1>6. CASE Crash
  <2>1. Counted' = {}  BY <1>6 DEF Crash, Counted, Out
  <2> QED  BY <1>6, <2>1, FS_EmptySet DEF Crash, CountRight
<1>7. CASE UNCHANGED <<state, underWay, request, rollout>>
  BY <1>7 DEF CountRight, Counted
<1> QED  BY <1>1, <1>2, <1>3, <1>4, <1>5, <1>6, <1>7, GateFrame

\* Nobody comes in while locked, and the lock waits for those inside.
LEMMA LockStep ==
  ASSUME TypeOK, CountRight, LockedAlone, [Next]_vars
  PROVE  LockedAlone'
<1>1. CASE \E r \in Requests : Enter(r)
  BY <1>1 DEF Enter, WritesBlocked, LockedAlone
<1>2. CASE \E r \in Requests : Leave(r)
  BY <1>2, GoesOut DEF Leave, LockedAlone, Idle, ActiveRollouts, UnsavedRollouts
<1>3. CASE \E r \in Requests : View(r)
  BY <1>3, ViewInside, ViewGate DEF LockedAlone
<1>4. CASE \E j \in Rollouts : Rollout(j)
  <2>1. PICK j \in Rollouts : Rollout(j)  BY <1>4
  <2>2. j \in ActiveRollouts \cup UnsavedRollouts
    BY <2>1 DEF Rollout, RolloutEnds, RolloutSaved, ActiveRollouts, UnsavedRollouts
  <2> QED  BY <2>1, <2>2 DEF Rollout, RolloutEnds, RolloutSaved, gate, LockedAlone, Idle
<1>5. CASE \E m \in Moves : Locks(m)
  <2>1. Counted = {} /\ Idle
    BY <1>5, CountedFinite, FS_EmptySet DEF Locks, Lockable, CountRight
  <2> QED  BY <1>5, <2>1 DEF Locks, LockedAlone, Counted, Idle, ActiveRollouts, UnsavedRollouts
<1>6. CASE \E m \in Moves : Ends(m)
  BY <1>6 DEF Ends, LockedAlone
<1>7. CASE Crash
  BY <1>7 DEF Crash, LockedAlone
<1>8. CASE UNCHANGED <<state, underWay, request, rollout>>
  BY <1>8 DEF LockedAlone, Counted, Idle, ActiveRollouts, UnsavedRollouts
<1> QED  BY <1>1, <1>2, <1>3, <1>4, <1>5, <1>6, <1>7, <1>8, GateFrame

\* At the start nobody is inside and nothing is locked (__init__).
LEMMA GateInit ==
  ASSUME Init
  PROVE  GateInv
<1>1. TypeOK
  BY DatabasesAssumption DEF Init, TypeOK, RequestStates, MoveStates, MoveSteps, Ended, Out
<1>2. Counted = {}  BY DEF Init, Counted, Out
<1>3. CountRight  BY <1>2, FS_EmptySet DEF Init, CountRight
<1>4. LockedAlone  BY DEF Init, LockedAlone
<1> QED  BY <1>1, <1>3, <1>4 DEF GateInv

\* The gate's invariant holds of every reachable state, whatever fails.
THEOREM GateHolds == Spec => []GateInv
<1>1. Init => GateInv  BY GateInit
<1>2. GateInv /\ [Next]_vars => GateInv'  BY TypeStep, CountStep, LockStep DEF GateInv
<1> QED  BY <1>1, <1>2, PTL DEF Spec

\* Every variable keeps its type; the count never goes below zero.
THEOREM TypeCorrect == Spec => []TypeOK
<1>1. GateInv => TypeOK  BY DEF GateInv
<1> QED  BY <1>1, GateHolds, PTL

-----------------------------------------------------------------------------
(* The gate *)

\* Each step of the gate is one of WriteGate, or leaves it alone: requests and
\* rollouts come in and go, the move locks and ends, the process dies.
LEMMA GateSteps ==
  ASSUME GateInv, [Next]_vars
  PROVE  [Gate!Next]_(Gate!gateVars)
<1> DEFINE Inside == Counted \cup ActiveRollouts \cup UnsavedRollouts
<1> USE DEF GateInv
<1>a. /\ ActiveRollouts \cup UnsavedRollouts \subseteq Rollouts
      /\ Counted \subseteq Requests
  BY DEF ActiveRollouts, UnsavedRollouts, Counted
<1>1. ASSUME NEW r \in Requests, Enter(r)  PROVE Gate!Enter(r)
  BY <1>1, ComesIn DEF Enter, WritesBlocked, Gate!Enter, ActiveRollouts, UnsavedRollouts
<1>2. ASSUME NEW r \in Requests, Leave(r)  PROVE Gate!Leave(r)
  <2>1. Counted' = Counted \ {r}  BY <1>2, GoesOut DEF Leave
  <2>2. Inside' = Inside \ {r}
    BY <1>2, <1>a, <2>1, UsersAssumption DEF Leave, ActiveRollouts, UnsavedRollouts
  <2> QED  BY <1>2, <2>2 DEF Leave, Gate!Leave
<1>3. ASSUME NEW r \in Requests, View(r)
      PROVE  (\E j \in Rollouts : Gate!Enter(j)) \/ UNCHANGED Gate!gateVars
  <2>1. state # "locked" /\ state' # "locked" /\ Counted' = Counted
    BY <1>3, ViewInside, ViewGate DEF LockedAlone
  <2>2. CASE rollout' = rollout
    BY <2>1, <2>2 DEF Gate!gateVars, ActiveRollouts, UnsavedRollouts
  <2>3. ASSUME NEW j \in Rollouts, Submit(r, j)  PROVE Gate!Enter(j)
    <3>1. ActiveRollouts' = ActiveRollouts \cup {j} /\ UnsavedRollouts' = UnsavedRollouts
      BY <2>3 DEF Submit, ActiveRollouts, UnsavedRollouts, TypeOK
    <3> QED  BY <2>1, <3>1 DEF Gate!Enter
  <2> QED  BY <1>3, <2>2, <2>3, ViewGate
<1>4. ASSUME NEW j \in Rollouts, Rollout(j)
      PROVE  Gate!Leave(j) \/ UNCHANGED Gate!gateVars
  <2>1. UNCHANGED <<state, Counted>>
    BY <1>4 DEF Rollout, RolloutEnds, RolloutSaved, gate, Counted
  <2>2. CASE RolloutEnds(j)
    <3>1. (ActiveRollouts \cup UnsavedRollouts)' = ActiveRollouts \cup UnsavedRollouts
      BY <2>2 DEF RolloutEnds, ActiveRollouts, UnsavedRollouts, TypeOK
    <3> QED  BY <2>1, <3>1 DEF Gate!gateVars
  <2>3. CASE RolloutSaved(j)
    <3>1. ActiveRollouts' = ActiveRollouts \ {j} /\ UnsavedRollouts' = UnsavedRollouts \ {j}
      BY <2>3 DEF RolloutSaved, ActiveRollouts, UnsavedRollouts, TypeOK
    <3>2. Inside' = Inside \ {j}  BY <2>1, <3>1, <1>a, UsersAssumption
    <3> QED  BY <2>1, <3>2 DEF Gate!Leave
  <2> QED  BY <1>4, <2>2, <2>3 DEF Rollout
<1>5. ASSUME NEW m \in Moves, Locks(m)  PROVE Gate!Lock
  <2>1. Inside = {}
    BY <1>5, CountedFinite, FS_EmptySet DEF Locks, Lockable, CountRight, Idle
  <2>2. Inside' = Inside  BY <1>5 DEF Locks, Counted, ActiveRollouts, UnsavedRollouts
  <2> QED  BY <1>5, <2>1, <2>2 DEF Locks, Gate!Lock
<1>6. ASSUME NEW m \in Moves, Ends(m)  PROVE Gate!Unlock
  BY <1>6 DEF Ends, Gate!Unlock, Counted, ActiveRollouts, UnsavedRollouts
<1>7. CASE Crash
  <2>1. Inside' = {}  BY <1>7 DEF Crash, Counted, ActiveRollouts, UnsavedRollouts, Out
  <2> QED  BY <1>7, <2>1 DEF Crash, Gate!End, Gate!Next
<1>8. CASE UNCHANGED <<state, underWay, request, rollout>>
  BY <1>8 DEF Gate!gateVars, Counted, ActiveRollouts, UnsavedRollouts
<1> QED
  BY <1>1, <1>2, <1>3, <1>4, <1>5, <1>6, <1>7, <1>8, GateFrame DEF Gate!Next

\* The lock of Maintenance keeps WriteGate's promise: a move has the database
\* to itself, whatever fails and whenever the process dies.
THEOREM Implementation == Spec => ImplementsWriteGate
<1>1. Init => Gate!Init
  BY DEF Init, Gate!Init, Counted, ActiveRollouts, UnsavedRollouts, Out
<1>2. GateInv /\ [Next]_vars => [Gate!Next]_(Gate!gateVars)  BY GateSteps
<1> QED  BY <1>1, <1>2, GateHolds, PTL DEF Spec, ImplementsWriteGate, Gate!Spec

-----------------------------------------------------------------------------
(* One move at a time *)

Waiting == {"begun", "announced", "waiting", "looking"}
UnderWay == Waiting \cup Locked \cup {"ending"}

\* One move at a time (Maintenance.begin), and the state is where its thread is.
OneMove ==
  /\ \A m, n \in Moves : step[m] \in UnderWay /\ step[n] \in UnderWay => m = n
  /\ \A m \in Moves : /\ step[m] \in Waiting => state = "waiting"
                      /\ step[m] \in Locked => state = "locked"
                      /\ step[m] = "ending" => state # "idle"

\* Only the begin of a move, its thread and the end of the process touch the
\* state and where threads are.
LEMMA ThreadFrame ==
  ASSUME [Next]_vars
  PROVE  \/ \E r \in Requests, m \in Moves : Begin(r, m)
         \/ \E r \in Requests, m \in Moves : Announce(r, m)
         \/ \E r \in Requests, m \in Moves : Launch(r, m)
         \/ \E m \in Moves : Locks(m)
         \/ \E m \in Moves : LocksNot(m)
         \/ \E m \in Moves : GivesUp(m)
         \/ \E m \in Moves : Sleeps(m)
         \/ \E m \in Moves : Copying(m)
         \/ \E m \in Moves : Archives(m)
         \/ \E m \in Moves : CopyFails(m)
         \/ \E m \in Moves : Switching(m)
         \/ \E m \in Moves : RestoreFails(m)
         \/ \E m \in Moves : Swaps(m)
         \/ \E m \in Moves : SwapFails(m)
         \/ \E m \in Moves : Keeps(m)
         \/ \E m \in Moves : KeepFails(m)
         \/ \E m \in Moves : Ends(m)
         \/ \E m \in Moves : Audits(m)
         \/ \E m \in Moves : Reports(m)
         \/ Crash
         \/ UNCHANGED <<state, step>>
<1> USE DEF gate, mover, plan, moves, store
<1>1. CASE \E r \in Requests : Enter(r)
  BY <1>1 DEF Enter
<1>2. CASE \E r \in Requests : Leave(r)
  BY <1>2 DEF Leave
<1>3. CASE \E r \in Requests : RequestWrites(r)
  BY <1>3 DEF RequestWrites, NewRow
<1>4. CASE \E r \in Requests : CheckTarget(r)
  BY <1>4 DEF CheckTarget
<1>5. CASE \E r \in Requests : BeginRefused(r)
  BY <1>5 DEF BeginRefused
<1>6. CASE \E r \in Requests, j \in Rollouts : Submit(r, j)
  BY <1>6 DEF Submit
<1>7. CASE \E r \in Requests : CancelLooks(r)
  BY <1>7 DEF CancelLooks
<1>8. CASE \E r \in Requests : CancelSets(r)
  BY <1>8 DEF CancelSets
<1>9. CASE \E r \in Requests : RedisReads(r)
  BY <1>9 DEF RedisReads
<1>10. CASE \E r \in Requests : RedisPauses(r)
  BY <1>10 DEF RedisPauses
<1>11. CASE \E r \in Requests : RedisRefused(r)
  BY <1>11 DEF RedisRefused
<1>12. CASE \E r \in Requests : RedisGoes(r)
  BY <1>12 DEF RedisGoes
<1>13. CASE \E r \in Requests : RedisReplaced(r)
  BY <1>13 DEF RedisReplaced
<1>14. CASE \E r \in Requests : RedisResumes(r)
  BY <1>14 DEF RedisResumes
<1>15. CASE \E j \in Rollouts : RolloutEnds(j)
  BY <1>15 DEF RolloutEnds
<1>16. CASE \E j \in Rollouts : RolloutSaved(j)
  BY <1>16 DEF RolloutSaved, NewRow
<1>17. CASE \E u \in Uncounted : UncountedAsks(u)
  BY <1>17 DEF UncountedAsks
<1>18. CASE \E u \in Uncounted : UncountedWrites(u)
  BY <1>18 DEF UncountedWrites, NewRow
<1>19. CASE DeadlinePasses
  BY <1>19 DEF DeadlinePasses
<1>20. CASE UNCHANGED vars
  BY <1>20 DEF vars
<1> QED
  BY <1>1, <1>2, <1>3, <1>4, <1>5, <1>6, <1>7, <1>8, <1>9, <1>10, <1>11, <1>12, <1>13,
     <1>14, <1>15, <1>16, <1>17, <1>18, <1>19, <1>20
     DEF Next, Request, View, Rollout, MoveThread

\* Threads move one step at a time and change the state as they do.
LEMMA OneMoveStep ==
  ASSUME TypeOK, OneMove, [Next]_vars
  PROVE  OneMove'
<1> USE DEF OneMove, Waiting, UnderWay, Locked
<1>1. CASE \E r \in Requests, m \in Moves : Begin(r, m)
  BY <1>1 DEF TypeOK, Begin, Active, gate
<1>2. CASE \E r \in Requests, m \in Moves : Announce(r, m)
  BY <1>2 DEF TypeOK, Announce, gate
<1>3. CASE \E r \in Requests, m \in Moves : Launch(r, m)
  BY <1>3 DEF TypeOK, Launch, gate
<1>4. CASE \E m \in Moves : Locks(m)
  BY <1>4 DEF TypeOK, Locks, Step
<1>5. CASE \E m \in Moves : LocksNot(m)
  BY <1>5 DEF TypeOK, LocksNot, Step, gate
<1>6. CASE \E m \in Moves : GivesUp(m)
  BY <1>6 DEF TypeOK, GivesUp, Step, gate
<1>7. CASE \E m \in Moves : Sleeps(m)
  BY <1>7 DEF TypeOK, Sleeps, Step, gate
<1>8. CASE \E m \in Moves : Copying(m)
  BY <1>8 DEF TypeOK, Copying, Step, gate
<1>9. CASE \E m \in Moves : Archives(m)
  BY <1>9 DEF TypeOK, Archives, Step, gate
<1>10. CASE \E m \in Moves : CopyFails(m)
  BY <1>10 DEF TypeOK, CopyFails, Step, Fails, gate
<1>11. CASE \E m \in Moves : Switching(m)
  BY <1>11 DEF TypeOK, Switching, Step, gate
<1>12. CASE \E m \in Moves : RestoreFails(m)
  BY <1>12 DEF TypeOK, RestoreFails, Step, Fails, gate
<1>13. CASE \E m \in Moves : Swaps(m)
  BY <1>13 DEF TypeOK, Swaps, Step, gate
<1>14. CASE \E m \in Moves : SwapFails(m)
  BY <1>14 DEF TypeOK, SwapFails, Step, Fails, gate
<1>15. CASE \E m \in Moves : Keeps(m)
  BY <1>15 DEF TypeOK, Keeps, Step, gate
<1>16. CASE \E m \in Moves : KeepFails(m)
  BY <1>16 DEF TypeOK, KeepFails, Step, Fails, gate
<1>17. CASE \E m \in Moves : Ends(m)
  BY <1>17 DEF TypeOK, Ends, Step
<1>18. CASE \E m \in Moves : Audits(m)
  BY <1>18 DEF TypeOK, Audits, Step, gate
<1>19. CASE \E m \in Moves : Reports(m)
  BY <1>19 DEF TypeOK, Reports, Step, gate
<1>20. CASE Crash
  BY <1>20 DEF TypeOK, Crash
<1>21. CASE UNCHANGED <<state, step>>
  BY <1>21
<1> QED
  BY <1>1, <1>2, <1>3, <1>4, <1>5, <1>6, <1>7, <1>8, <1>9, <1>10, <1>11, <1>12, <1>13,
     <1>14, <1>15, <1>16, <1>17, <1>18, <1>19, <1>20, <1>21, ThreadFrame

-----------------------------------------------------------------------------
(* Where the rows are *)

Sound == "undo" \notin Faults

\* The connection is the one runtime.env names; between the two halves of a
\* switch it is the target, and the thread remembers the old one (switch_to).
ConnectionFollows ==
  /\ \A m \in Moves : step[m] = "swapped" => connection = target[m] /\ source[m] = runtimeEnv
  /\ (\A m \in Moves : step[m] # "swapped") => connection = runtimeEnv

\* The rows of requests and rollouts.
CountedRows == {x \in Rows : written[x] = "counted"}

\* They are in both databases that matter, and from the backup on in what the
\* move will switch to (copy).
RowsFollow ==
  /\ CountedRows \subseteq data[connection]
  /\ CountedRows \subseteq data[runtimeEnv]
  /\ \A m \in Moves : /\ step[m] = "archived" => CountedRows \subseteq archive[m]
                      /\ step[m] \in {"switching", "swapped"} => CountedRows \subseteq data[target[m]]

MoveInv == GateInv /\ OneMove /\ ConnectionFollows /\ RowsFollow

\* Only these touch where sessions go and where the threads of moves are.
LEMMA ConnectionFrame ==
  ASSUME [Next]_vars
  PROVE  \/ \E r \in Requests, m \in Moves : Begin(r, m)
         \/ \E r \in Requests, m \in Moves : Announce(r, m)
         \/ \E r \in Requests, m \in Moves : Launch(r, m)
         \/ \E m \in Moves : Locks(m)
         \/ \E m \in Moves : LocksNot(m)
         \/ \E m \in Moves : GivesUp(m)
         \/ \E m \in Moves : Sleeps(m)
         \/ \E m \in Moves : Copying(m)
         \/ \E m \in Moves : Archives(m)
         \/ \E m \in Moves : CopyFails(m)
         \/ \E m \in Moves : Switching(m)
         \/ \E m \in Moves : RestoreFails(m)
         \/ \E m \in Moves : Swaps(m)
         \/ \E m \in Moves : SwapFails(m)
         \/ \E m \in Moves : Keeps(m)
         \/ \E m \in Moves : KeepFails(m)
         \/ \E m \in Moves : Ends(m)
         \/ \E m \in Moves : Audits(m)
         \/ \E m \in Moves : Reports(m)
         \/ Crash
         \/ UNCHANGED <<connection, runtimeEnv, step, target, source>>
<1> USE DEF gate, mover, plan, moves, store
<1>1. CASE \E r \in Requests : Enter(r)
  BY <1>1 DEF Enter
<1>2. CASE \E r \in Requests : Leave(r)
  BY <1>2 DEF Leave
<1>3. CASE \E r \in Requests : RequestWrites(r)
  BY <1>3 DEF RequestWrites, NewRow
<1>4. CASE \E r \in Requests : CheckTarget(r)
  BY <1>4 DEF CheckTarget
<1>5. CASE \E r \in Requests : BeginRefused(r)
  BY <1>5 DEF BeginRefused
<1>6. CASE \E r \in Requests, j \in Rollouts : Submit(r, j)
  BY <1>6 DEF Submit
<1>7. CASE \E r \in Requests : CancelLooks(r)
  BY <1>7 DEF CancelLooks
<1>8. CASE \E r \in Requests : CancelSets(r)
  BY <1>8 DEF CancelSets
<1>9. CASE \E r \in Requests : RedisReads(r)
  BY <1>9 DEF RedisReads
<1>10. CASE \E r \in Requests : RedisPauses(r)
  BY <1>10 DEF RedisPauses
<1>11. CASE \E r \in Requests : RedisRefused(r)
  BY <1>11 DEF RedisRefused
<1>12. CASE \E r \in Requests : RedisGoes(r)
  BY <1>12 DEF RedisGoes
<1>13. CASE \E r \in Requests : RedisReplaced(r)
  BY <1>13 DEF RedisReplaced
<1>14. CASE \E r \in Requests : RedisResumes(r)
  BY <1>14 DEF RedisResumes
<1>15. CASE \E j \in Rollouts : RolloutEnds(j)
  BY <1>15 DEF RolloutEnds
<1>16. CASE \E j \in Rollouts : RolloutSaved(j)
  BY <1>16 DEF RolloutSaved, NewRow
<1>17. CASE \E u \in Uncounted : UncountedAsks(u)
  BY <1>17 DEF UncountedAsks
<1>18. CASE \E u \in Uncounted : UncountedWrites(u)
  BY <1>18 DEF UncountedWrites, NewRow
<1>19. CASE DeadlinePasses
  BY <1>19 DEF DeadlinePasses
<1>20. CASE UNCHANGED vars
  BY <1>20 DEF vars
<1> QED
  BY <1>1, <1>2, <1>3, <1>4, <1>5, <1>6, <1>7, <1>8, <1>9, <1>10, <1>11, <1>12, <1>13,
     <1>14, <1>15, <1>16, <1>17, <1>18, <1>19, <1>20
     DEF Next, Request, View, Rollout, MoveThread

\* The connection changes in the two halves of a switch, or back in its undo.
LEMMA ConnectionStep ==
  ASSUME Sound, TypeOK, OneMove, ConnectionFollows, [Next]_vars
  PROVE  ConnectionFollows'
<1> USE DEF ConnectionFollows, plan, moves, store
<1>1. CASE \E r \in Requests, m \in Moves : Begin(r, m)
  BY <1>1 DEF TypeOK, Begin
<1>2. CASE \E r \in Requests, m \in Moves : Announce(r, m)
  BY <1>2 DEF TypeOK, Announce
<1>3. CASE \E r \in Requests, m \in Moves : Launch(r, m)
  BY <1>3 DEF TypeOK, Launch
<1>4. CASE \E m \in Moves : Locks(m)
  BY <1>4 DEF TypeOK, Locks, Step
<1>5. CASE \E m \in Moves : LocksNot(m)
  BY <1>5 DEF TypeOK, LocksNot, Step
<1>6. CASE \E m \in Moves : GivesUp(m)
  BY <1>6 DEF TypeOK, GivesUp, Step
<1>7. CASE \E m \in Moves : Sleeps(m)
  BY <1>7 DEF TypeOK, Sleeps, Step
<1>8. CASE \E m \in Moves : Copying(m)
  BY <1>8 DEF TypeOK, Copying, Step
<1>9. CASE \E m \in Moves : Archives(m)
  BY <1>9 DEF TypeOK, Archives, Step
<1>10. CASE \E m \in Moves : CopyFails(m)
  BY <1>10 DEF TypeOK, CopyFails, Step, Fails
<1>11. CASE \E m \in Moves : Switching(m)
  BY <1>11 DEF TypeOK, Switching, Step, Restored
<1>12. CASE \E m \in Moves : RestoreFails(m)
  BY <1>12 DEF TypeOK, RestoreFails, Step, Fails, Restored
<1>13. CASE \E m \in Moves : Swaps(m)
  BY <1>13 DEF TypeOK, Swaps, Step, OneMove, UnderWay, Locked
<1>14. CASE \E m \in Moves : SwapFails(m)
  BY <1>14 DEF TypeOK, SwapFails, Step, Fails
<1>15. CASE \E m \in Moves : Keeps(m)
  BY <1>15 DEF TypeOK, Keeps, Step, OneMove, UnderWay, Locked
<1>16. CASE \E m \in Moves : KeepFails(m)
  BY <1>16 DEF TypeOK, KeepFails, Step, Fails, Undone, OneMove, UnderWay, Locked, Sound
<1>17. CASE \E m \in Moves : Ends(m)
  BY <1>17 DEF TypeOK, Ends, Step
<1>18. CASE \E m \in Moves : Audits(m)
  BY <1>18 DEF TypeOK, Audits, Step, NewRow
<1>19. CASE \E m \in Moves : Reports(m)
  BY <1>19 DEF TypeOK, Reports, Step
<1>20. CASE Crash
  BY <1>20 DEF TypeOK, Crash
<1>21. CASE UNCHANGED <<connection, runtimeEnv, step, target, source>>
  BY <1>21
<1> QED
  BY <1>1, <1>2, <1>3, <1>4, <1>5, <1>6, <1>7, <1>8, <1>9, <1>10, <1>11, <1>12, <1>13,
     <1>14, <1>15, <1>16, <1>17, <1>18, <1>19, <1>20, <1>21, ConnectionFrame

\* Only these touch rows, backups and where the move is.
LEMMA RowsFrame ==
  ASSUME [Next]_vars
  PROVE  \/ \E r \in Requests : RequestWrites(r)
         \/ \E j \in Rollouts : RolloutSaved(j)
         \/ \E u \in Uncounted : UncountedWrites(u)
         \/ \E r \in Requests, m \in Moves : Begin(r, m)
         \/ \E r \in Requests, m \in Moves : Announce(r, m)
         \/ \E r \in Requests, m \in Moves : Launch(r, m)
         \/ \E m \in Moves : Locks(m)
         \/ \E m \in Moves : LocksNot(m)
         \/ \E m \in Moves : GivesUp(m)
         \/ \E m \in Moves : Sleeps(m)
         \/ \E m \in Moves : Copying(m)
         \/ \E m \in Moves : Archives(m)
         \/ \E m \in Moves : CopyFails(m)
         \/ \E m \in Moves : Switching(m)
         \/ \E m \in Moves : RestoreFails(m)
         \/ \E m \in Moves : Swaps(m)
         \/ \E m \in Moves : SwapFails(m)
         \/ \E m \in Moves : Keeps(m)
         \/ \E m \in Moves : KeepFails(m)
         \/ \E m \in Moves : Ends(m)
         \/ \E m \in Moves : Audits(m)
         \/ \E m \in Moves : Reports(m)
         \/ Crash
         \/ UNCHANGED <<connection, runtimeEnv, data, written, step, target, archive>>
<1> USE DEF gate, mover, plan, moves, store
<1>1. CASE \E r \in Requests : Enter(r)
  BY <1>1 DEF Enter
<1>2. CASE \E r \in Requests : Leave(r)
  BY <1>2 DEF Leave
<1>3. CASE \E r \in Requests : CheckTarget(r)
  BY <1>3 DEF CheckTarget
<1>4. CASE \E r \in Requests : BeginRefused(r)
  BY <1>4 DEF BeginRefused
<1>5. CASE \E r \in Requests, j \in Rollouts : Submit(r, j)
  BY <1>5 DEF Submit
<1>6. CASE \E r \in Requests : CancelLooks(r)
  BY <1>6 DEF CancelLooks
<1>7. CASE \E r \in Requests : CancelSets(r)
  BY <1>7 DEF CancelSets
<1>8. CASE \E r \in Requests : RedisReads(r)
  BY <1>8 DEF RedisReads
<1>9. CASE \E r \in Requests : RedisPauses(r)
  BY <1>9 DEF RedisPauses
<1>10. CASE \E r \in Requests : RedisRefused(r)
  BY <1>10 DEF RedisRefused
<1>11. CASE \E r \in Requests : RedisGoes(r)
  BY <1>11 DEF RedisGoes
<1>12. CASE \E r \in Requests : RedisReplaced(r)
  BY <1>12 DEF RedisReplaced
<1>13. CASE \E r \in Requests : RedisResumes(r)
  BY <1>13 DEF RedisResumes
<1>14. CASE \E j \in Rollouts : RolloutEnds(j)
  BY <1>14 DEF RolloutEnds
<1>15. CASE \E u \in Uncounted : UncountedAsks(u)
  BY <1>15 DEF UncountedAsks
<1>16. CASE DeadlinePasses
  BY <1>16 DEF DeadlinePasses
<1>17. CASE UNCHANGED vars
  BY <1>17 DEF vars
<1> QED
  BY <1>1, <1>2, <1>3, <1>4, <1>5, <1>6, <1>7, <1>8, <1>9, <1>10, <1>11, <1>12, <1>13,
     <1>14, <1>15, <1>16, <1>17
     DEF Next, Request, View, Rollout, MoveThread

\* A row written by somebody counted finds no move between its backup and its
\* switch: the lock has waited for them.
LEMMA CountedWrite ==
  ASSUME TypeOK, OneMove, RowsFollow, state # "locked", UNCHANGED <<step, target, archive>>,
         (\E x \in Rows : NewRow(x, "counted")) \/ UNCHANGED store, connection = runtimeEnv
  PROVE  RowsFollow'
<1>1. CASE UNCHANGED store
  BY <1>1 DEF store, RowsFollow, CountedRows
<1>2. CASE \E x \in Rows : NewRow(x, "counted")
  <2>1. PICK x \in Rows : NewRow(x, "counted")  BY <1>2
  <2>2. CountedRows' = CountedRows \cup {x}  BY <2>1 DEF NewRow, CountedRows, TypeOK
  <2>3. data'[connection] = data[connection] \cup {x}  BY <2>1 DEF NewRow, TypeOK
  <2>4. \A m \in Moves : step[m] \notin {"archived", "switching", "swapped"}
    BY DEF OneMove, Locked
  <2> QED  BY <2>1, <2>2, <2>3, <2>4 DEF NewRow, RowsFollow
<1> QED  BY <1>1, <1>2

\* A row of anybody else only adds to the database in use.
LEMMA UncountedWrite ==
  ASSUME TypeOK, RowsFollow, UNCHANGED <<target, archive>>,
         \A m \in Moves : step'[m] \in {"archived", "switching", "swapped"} => step'[m] = step[m],
         (\E x \in Rows : NewRow(x, "uncounted")) \/ UNCHANGED store
  PROVE  RowsFollow'
<1>1. CASE UNCHANGED store
  BY <1>1 DEF store, RowsFollow, CountedRows, TypeOK
<1>2. CASE \E x \in Rows : NewRow(x, "uncounted")
  <2>1. PICK x \in Rows : NewRow(x, "uncounted")  BY <1>2
  <2>2. CountedRows' = CountedRows  BY <2>1 DEF NewRow, CountedRows, TypeOK
  <2>3. \A d \in Databases : data[d] \subseteq data'[d]  BY <2>1 DEF NewRow, TypeOK
  <2> QED  BY <2>1, <2>2, <2>3 DEF NewRow, RowsFollow, TypeOK
<1> QED  BY <1>1, <1>2

\* No step loses a row of a request or a rollout.
LEMMA RowsStep ==
  ASSUME Sound, MoveInv, [Next]_vars
  PROVE  RowsFollow'
<1> USE DEF MoveInv, GateInv, plan, moves, store
<1>a. state # "locked" => connection = runtimeEnv
  BY DEF OneMove, ConnectionFollows, Locked
<1>1. CASE \E r \in Requests : RequestWrites(r)
  <2>1. PICK r \in Requests : RequestWrites(r)  BY <1>1
  <2>2. request[r].at # "out"
    <3>1. CASE request[r] = In  BY <3>1 DEF In
    <3>2. ASSUME NEW m \in Moves, request[r] = [at |-> "starting", move |-> m]
          PROVE  request[r].at # "out"
      BY <3>2
    <3> QED  BY <2>1, <3>1, <3>2 DEF RequestWrites
  <2>3. state # "locked"  BY <2>2 DEF LockedAlone, Counted
  <2> QED  BY <1>a, <2>1, <2>3, CountedWrite DEF RequestWrites
<1>2. CASE \E j \in Rollouts : RolloutSaved(j)
  <2>1. state # "locked"
    BY <1>2 DEF RolloutSaved, LockedAlone, Idle, UnsavedRollouts
  <2> QED  BY <1>2, <1>a, <2>1, CountedWrite DEF RolloutSaved
<1>3. CASE \E u \in Uncounted : UncountedWrites(u)
  BY <1>3, UncountedWrite DEF UncountedWrites
<1>4. CASE \E r \in Requests, m \in Moves : Begin(r, m)
  BY <1>4 DEF TypeOK, RowsFollow, CountedRows, Begin
<1>5. CASE \E r \in Requests, m \in Moves : Announce(r, m)
  BY <1>5 DEF TypeOK, RowsFollow, CountedRows, Announce
<1>6. CASE \E r \in Requests, m \in Moves : Launch(r, m)
  BY <1>6 DEF TypeOK, RowsFollow, CountedRows, Launch
<1>7. CASE \E m \in Moves : Locks(m)
  BY <1>7 DEF TypeOK, RowsFollow, CountedRows, Locks, Step
<1>8. CASE \E m \in Moves : LocksNot(m)
  BY <1>8 DEF TypeOK, RowsFollow, CountedRows, LocksNot, Step
<1>9. CASE \E m \in Moves : GivesUp(m)
  BY <1>9 DEF TypeOK, RowsFollow, CountedRows, GivesUp, Step
<1>10. CASE \E m \in Moves : Sleeps(m)
  BY <1>10 DEF TypeOK, RowsFollow, CountedRows, Sleeps, Step
<1>11. CASE \E m \in Moves : Copying(m)
  BY <1>11 DEF TypeOK, RowsFollow, CountedRows, Copying, Step
<1>12. CASE \E m \in Moves : Archives(m)
  BY <1>12 DEF TypeOK, RowsFollow, CountedRows, Archives, Step, OneMove, UnderWay, Locked
<1>13. CASE \E m \in Moves : CopyFails(m)
  BY <1>13 DEF TypeOK, RowsFollow, CountedRows, CopyFails, Step, Fails
<1>14. CASE \E m \in Moves : Switching(m)
  BY <1>14 DEF TypeOK, RowsFollow, CountedRows, Switching, Step, Restored, OneMove, UnderWay, Locked
<1>15. CASE \E m \in Moves : RestoreFails(m)
  BY <1>15 DEF TypeOK, RowsFollow, CountedRows, RestoreFails, Step, Fails, Restored, OneMove, UnderWay, Locked
<1>16. CASE \E m \in Moves : Swaps(m)
  BY <1>16 DEF TypeOK, RowsFollow, CountedRows, Swaps, Step, OneMove, UnderWay, Locked
<1>17. CASE \E m \in Moves : SwapFails(m)
  BY <1>17 DEF TypeOK, RowsFollow, CountedRows, SwapFails, Step, Fails
<1>18. CASE \E m \in Moves : Keeps(m)
  BY <1>18 DEF TypeOK, RowsFollow, CountedRows, Keeps, Step, OneMove, UnderWay, Locked, ConnectionFollows
<1>19. CASE \E m \in Moves : KeepFails(m)
  BY <1>19 DEF TypeOK, RowsFollow, CountedRows, KeepFails, Step, Fails, Undone, OneMove, UnderWay, Locked, ConnectionFollows, Sound
<1>20. CASE \E m \in Moves : Ends(m)
  BY <1>20 DEF TypeOK, RowsFollow, CountedRows, Ends, Step
<1>21. CASE \E m \in Moves : Audits(m)
  BY <1>21, UncountedWrite DEF Audits, Step, TypeOK
<1>22. CASE \E m \in Moves : Reports(m)
  BY <1>22 DEF TypeOK, RowsFollow, CountedRows, Reports, Step
<1>23. CASE Crash
  BY <1>23 DEF TypeOK, RowsFollow, CountedRows, Crash
<1>24. CASE UNCHANGED <<connection, runtimeEnv, data, written, step, target, archive>>
  BY <1>24 DEF RowsFollow, CountedRows
<1> QED
  BY <1>1, <1>2, <1>3, <1>4, <1>5, <1>6, <1>7, <1>8, <1>9, <1>10, <1>11, <1>12, <1>13,
     <1>14, <1>15, <1>16, <1>17, <1>18, <1>19, <1>20, <1>21, <1>22, <1>23, <1>24,
     RowsFrame

LEMMA MoveInit ==
  ASSUME Init
  PROVE  MoveInv
<1>1. OneMove  BY DEF Init, OneMove, Waiting, UnderWay, Locked
<1>2. ConnectionFollows  BY DEF Init, ConnectionFollows
<1>3. RowsFollow  BY DEF Init, RowsFollow, CountedRows
<1> QED  BY <1>1, <1>2, <1>3, GateInit DEF MoveInv

\* As long as the way back from a failed switch works, the move's invariant
\* holds of every reachable state (_run, switch_to, undo).
THEOREM MoveInvariant ==
  ASSUME Sound
  PROVE  Spec => []MoveInv
<1>1. Init => MoveInv  BY MoveInit
<1>2. MoveInv /\ [Next]_vars => MoveInv'
  BY TypeStep, CountStep, LockStep, OneMoveStep, ConnectionStep, RowsStep DEF MoveInv, GateInv
<1> QED  BY <1>1, <1>2, PTL DEF Spec

\* No row of a request or a rollout is ever missing, from the database in use
\* or from the one a new process would use.
THEOREM RowsKept ==
  ASSUME Sound
  PROVE  Spec => []CountedRowsKept
<1>1. MoveInv => CountedRowsKept
  BY DEF MoveInv, RowsFollow, CountedRows, CountedRowsKept
<1> QED  BY <1>1, MoveInvariant, PTL

\* A move that fails lets people back in where runtime.env points.
THEOREM FailureStays ==
  ASSUME Sound
  PROVE  Spec => []FailedMoveStays
<1>1. MoveInv => FailedMoveStays
  BY DEF MoveInv, OneMove, UnderWay, Locked, ConnectionFollows, FailedMoveStays
<1> QED  BY <1>1, MoveInvariant, PTL

-----------------------------------------------------------------------------
(* What a move copies to *)

\* A target that was compared with the database in use is still another one:
\* no move gets its lock while the request that compared it is inside.
Aimed ==
  /\ \A r \in Requests : request[r].at = "checked" => request[r].to # connection
  /\ \A m \in Moves : step[m] \in UnderWay \ {"swapped", "ending"} => target[m] # connection

\* A step of a view names a target only after comparing it (start).
LEMMA ViewAims ==
  ASSUME NEW r \in Requests, TypeOK, View(r), Aimed
  PROVE  \A q \in Requests : request'[q].at = "checked" => request'[q].to # connection
<1> USE DEF Aimed, TypeOK, Goes
<1>1. CASE CheckTarget(r)
  BY <1>1 DEF CheckTarget, In
<1>2. CASE BeginRefused(r)
  BY <1>2 DEF BeginRefused, In
<1>3. CASE \E m \in Moves : Begin(r, m)
  BY <1>3 DEF Begin
<1>4. CASE \E m \in Moves : Announce(r, m)
  BY <1>4 DEF Announce
<1>5. CASE \E m \in Moves : Launch(r, m)
  BY <1>5 DEF Launch, In
<1>6. CASE \E j \in Rollouts : Submit(r, j)
  BY <1>6 DEF Submit
<1>7. CASE CancelLooks(r)
  BY <1>7 DEF CancelLooks, In
<1>8. CASE CancelSets(r)
  BY <1>8 DEF CancelSets, In
<1>9. CASE RedisReads(r)
  BY <1>9 DEF RedisReads, In, At
<1>10. CASE RedisPauses(r)
  BY <1>10 DEF RedisPauses, At
<1>11. CASE RedisRefused(r)
  BY <1>11 DEF RedisRefused, At
<1>12. CASE RedisGoes(r)
  BY <1>12 DEF RedisGoes, At
<1>13. CASE RedisReplaced(r)
  BY <1>13 DEF RedisReplaced, At
<1>14. CASE RedisResumes(r)
  BY <1>14 DEF RedisResumes, In, At, PauseAfter
<1> QED
  BY <1>1, <1>2, <1>3, <1>4, <1>5, <1>6, <1>7, <1>8, <1>9, <1>10, <1>11, <1>12, <1>13, <1>14
     DEF View

\* Only these touch requests, targets, threads and the connection.
LEMMA AimFrame ==
  ASSUME [Next]_vars
  PROVE  \/ \E r \in Requests : Enter(r) \/ Leave(r) \/ View(r)
         \/ \E m \in Moves : MoveThread(m)
         \/ Crash
         \/ UNCHANGED <<request, connection, step, target>>
<1> USE DEF gate, mover, plan, moves, store
<1>1. CASE \E r \in Requests : RequestWrites(r)
  BY <1>1 DEF RequestWrites, NewRow
<1>2. CASE \E j \in Rollouts : Rollout(j)
  BY <1>2 DEF Rollout, RolloutEnds, RolloutSaved, NewRow
<1>3. CASE \E u \in Uncounted : UncountedAsks(u) \/ UncountedWrites(u)
  BY <1>3 DEF UncountedAsks, UncountedWrites, NewRow
<1>4. CASE DeadlinePasses
  BY <1>4 DEF DeadlinePasses
<1>5. CASE UNCHANGED vars
  BY <1>5 DEF vars
<1> QED  BY <1>1, <1>2, <1>3, <1>4, <1>5 DEF Next, Request

\* A move's own steps: the connection changes only in the one that is swapping,
\* and no request is inside then.
LEMMA ThreadAims ==
  ASSUME GateInv, OneMove, Aimed, NEW m \in Moves, MoveThread(m)
  PROVE  Aimed'
<1> USE DEF GateInv, Aimed, plan, moves, store
<1>1. CASE Locks(m)
  BY <1>1 DEF Locks, Step, TypeOK, UnderWay, Waiting, Locked
<1>2. CASE LocksNot(m)
  BY <1>2 DEF LocksNot, Step, TypeOK, UnderWay, Waiting, Locked
<1>3. CASE GivesUp(m)
  BY <1>3 DEF GivesUp, Step, TypeOK, UnderWay, Waiting, Locked
<1>4. CASE Sleeps(m)
  BY <1>4 DEF Sleeps, Step, TypeOK, UnderWay, Waiting, Locked
<1>5. CASE Copying(m)
  BY <1>5 DEF Copying, Step, TypeOK, UnderWay, Waiting, Locked
<1>6. CASE Archives(m)
  BY <1>6 DEF Archives, Step, TypeOK, UnderWay, Waiting, Locked
<1>7. CASE CopyFails(m)
  BY <1>7 DEF CopyFails, Step, Fails, TypeOK, UnderWay, Waiting, Locked
<1>8. CASE Switching(m)
  BY <1>8 DEF Switching, Step, Restored, TypeOK, UnderWay, Waiting, Locked
<1>9. CASE RestoreFails(m)
  BY <1>9 DEF RestoreFails, Step, Fails, Restored, TypeOK, UnderWay, Waiting, Locked
<1>10. CASE Swaps(m)
  <2>1. Counted = {}
    BY <1>10 DEF Swaps, Step, OneMove, Locked, LockedAlone
  <2>2. \A r \in Requests : request[r].at = "out"  BY <2>1 DEF Counted
  <2>3. \A n \in Moves : step'[n] \notin UnderWay \ {"swapped", "ending"}
    BY <1>10 DEF Swaps, Step, TypeOK, OneMove, UnderWay, Waiting, Locked
  <2>4. request' = request  BY <1>10 DEF Swaps
  <2> QED  BY <2>2, <2>3, <2>4
<1>11. CASE SwapFails(m)
  BY <1>11 DEF SwapFails, Step, Fails, TypeOK, UnderWay, Waiting, Locked
<1>12. CASE Keeps(m)
  BY <1>12 DEF Keeps, Step, TypeOK, UnderWay, Waiting, Locked
<1>13. CASE KeepFails(m)
  <2>1. Counted = {}
    BY <1>13 DEF KeepFails, Step, Fails, OneMove, Locked, LockedAlone
  <2>2. \A r \in Requests : request[r].at = "out"  BY <2>1 DEF Counted
  <2>3. \A n \in Moves : step'[n] \notin UnderWay \ {"swapped", "ending"}
    BY <1>13 DEF KeepFails, Step, Fails, TypeOK, OneMove, UnderWay, Waiting, Locked
  <2>4. request' = request  BY <1>13 DEF KeepFails, Fails
  <2> QED  BY <2>2, <2>3, <2>4
<1>14. CASE Ends(m)
  BY <1>14 DEF Ends, Step, TypeOK, UnderWay, Waiting, Locked
<1>15. CASE Audits(m)
  BY <1>15 DEF Audits, Step, NewRow, TypeOK, UnderWay, Waiting, Locked
<1>16. CASE Reports(m)
  BY <1>16 DEF Reports, Step, TypeOK, UnderWay, Waiting, Locked
<1> QED
  BY <1>1, <1>2, <1>3, <1>4, <1>5, <1>6, <1>7,
     <1>8, <1>9, <1>10, <1>11, <1>12, <1>13, <1>14, <1>15, <1>16
     DEF MoveThread

\* What is aimed at stays another database than the one in use.
LEMMA AimStep ==
  ASSUME GateInv, OneMove, Aimed, [Next]_vars
  PROVE  Aimed'
<1> USE DEF GateInv, plan, moves, store
<1>1. CASE \E r \in Requests : Enter(r) \/ Leave(r)
  BY <1>1 DEF Enter, Leave, Goes, In, Out, Aimed, TypeOK
<1>2. CASE \E r \in Requests : View(r)
  <2>1. PICK r \in Requests : View(r)  BY <1>2
  <2>2. connection' = connection
    BY <2>1 DEF View, CheckTarget, BeginRefused, Begin, Announce, Launch, Submit, CancelLooks,
         CancelSets, RedisReads, RedisPauses, RedisRefused, RedisGoes, RedisReplaced, RedisResumes
  <2>3. \A q \in Requests : request'[q].at = "checked" => request'[q].to # connection
    BY <2>1, ViewAims
  <2>4. \A n \in Moves : step'[n] \in UnderWay \ {"swapped", "ending"} => target'[n] # connection
    <3>1. ASSUME NEW n \in Moves, Begin(r, n)  PROVE target'[n] # connection
      <4>1. PICK d \in Databases : /\ request[r] = [at |-> "checked", to |-> d]
                                   /\ target' = [target EXCEPT ![n] = d]
        BY <3>1 DEF Begin, Goes
      <4>2. request[r].at = "checked" /\ request[r].to = d  BY <4>1
      <4> QED  BY <4>1, <4>2 DEF Aimed, TypeOK
    <3>2. CASE \E n \in Moves : Begin(r, n)
      BY <3>1, <3>2 DEF Begin, Aimed, TypeOK
    <3>3. CASE \E n \in Moves : Announce(r, n) \/ Launch(r, n)
      BY <3>3 DEF Announce, Launch, Aimed, TypeOK, UnderWay, Waiting, Locked
    <3>4. CASE UNCHANGED <<step, target>>
      BY <3>4 DEF Aimed
    <3> QED
      BY <2>1, <3>2, <3>3, <3>4
      DEF View, CheckTarget, BeginRefused, Submit, CancelLooks, CancelSets,
          RedisReads, RedisPauses, RedisRefused, RedisGoes, RedisReplaced, RedisResumes
  <2> QED  BY <2>2, <2>3, <2>4 DEF Aimed
<1>3. CASE \E m \in Moves : MoveThread(m)
  BY <1>3, ThreadAims
<1>4. CASE Crash
  BY <1>4 DEF Crash, Out, Aimed, TypeOK, UnderWay, Waiting, Locked
<1>5. CASE UNCHANGED <<request, connection, step, target>>
  BY <1>5 DEF Aimed
<1> QED  BY <1>1, <1>2, <1>3, <1>4, <1>5, AimFrame

\* A move never copies a database onto itself, whatever fails.
THEOREM TargetIsAnother == Spec => []NeverOntoItself
<1> DEFINE IInv == GateInv /\ OneMove /\ Aimed
<1>1. Init => IInv
  <2> SUFFICES ASSUME Init  PROVE IInv  OBVIOUS
  <2>1. OneMove  BY DEF Init, OneMove, Waiting, UnderWay, Locked
  <2>2. \A r \in Requests : request[r].at = "out"  BY DEF Init, Out
  <2>3. \A m \in Moves : step[m] \notin UnderWay  BY DEF Init, UnderWay, Waiting, Locked
  <2> QED  BY <2>1, <2>2, <2>3, GateInit DEF Aimed
<1>2. IInv /\ [Next]_vars => IInv'
  BY TypeStep, CountStep, LockStep, OneMoveStep, AimStep DEF GateInv
<1>3. IInv => NeverOntoItself
  BY DEF Aimed, NeverOntoItself, UnderWay, Locked
<1> QED  BY <1>1, <1>2, <1>3, PTL DEF Spec
=============================================================================
