------------------------- MODULE DeviceHolds_proofs -------------------------
(***************************************************************************)
(* Why devices taken and let go of as a whole exclude each other's pushes. *)
(***************************************************************************)
EXTENDS DeviceHolds, TLAPS

\* Who pushes holds all its devices.
PushersHold ==
  /\ pushing \subseteq Jobs
  /\ \A j \in pushing : \A t \in TargetsOf[j] : holder[t] = j

\* Two rollouts never push to one device at once (DeviceBusy), for any
\* rollouts and devices.
THEOREM PushesExclude ==
  ASSUME NoJob \notin Jobs, TargetsOf \in [Jobs -> SUBSET Targets]
  PROVE  Spec => []Exclusive
<1>1. Init => PushersHold
  BY DEF Init, PushersHold
<1>2. PushersHold /\ [Next]_holdVars => PushersHold'
  <2> SUFFICES ASSUME PushersHold, [Next]_holdVars PROVE PushersHold'
    OBVIOUS
  <2>1. ASSUME NEW j \in Jobs, Hold(j) PROVE PushersHold'
    BY <2>1 DEF PushersHold, Hold, Free
  <2>2. ASSUME NEW j \in Jobs, Push(j) PROVE PushersHold'
    BY <2>2 DEF PushersHold, Push
  <2>3. ASSUME NEW j \in Jobs, Stop(j) PROVE PushersHold'
    BY <2>3 DEF PushersHold, Stop
  <2>4. ASSUME NEW j \in Jobs, LetGo(j) PROVE PushersHold'
    BY <2>4 DEF PushersHold, LetGo
  <2>5. ASSUME End PROVE PushersHold'
    BY <2>5 DEF PushersHold, End
  <2>6. CASE UNCHANGED holdVars
    BY <2>6 DEF PushersHold, holdVars
  <2>7. QED
    BY <2>1, <2>2, <2>3, <2>4, <2>5, <2>6 DEF Next
<1>3. PushersHold => Exclusive
  BY DEF PushersHold, Exclusive
<1>4. QED
  BY <1>1, <1>2, <1>3, PTL DEF Spec
=============================================================================
