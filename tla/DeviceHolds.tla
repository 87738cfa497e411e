---------------------------- MODULE DeviceHolds ----------------------------
(***************************************************************************)
(* What src/src/jobs.py promises about devices (DeviceBusy, submit()): a   *)
(* rollout takes all its devices in one step, only when all are free;      *)
(* pushes to them only while it holds them; and lets go of them all in one *)
(* step, when it no longer pushes.  RolloutJobs implements this.           *)
(***************************************************************************)
CONSTANTS Jobs, Targets, TargetsOf, NoJob

VARIABLES
  holder,   \* device -> the rollout that holds it, or NoJob
  pushing   \* the rollouts whose engine is at work

holdVars == <<holder, pushing>>

Free(t) == holder[t] = NoJob

Init ==
  /\ holder = [t \in Targets |-> NoJob]
  /\ pushing = {}

\* All the devices of j, or none (a rollout pushing is not submitted again).
Hold(j) ==
  /\ j \notin pushing
  /\ \A t \in TargetsOf[j] : Free(t)
  /\ holder' = [t \in Targets |-> IF t \in TargetsOf[j] THEN j ELSE holder[t]]
  /\ UNCHANGED pushing

Push(j) ==
  /\ \A t \in TargetsOf[j] : holder[t] = j
  /\ pushing' = pushing \cup {j}
  /\ UNCHANGED holder

Stop(j) ==
  /\ j \in pushing
  /\ pushing' = pushing \ {j}
  /\ UNCHANGED holder

LetGo(j) ==
  /\ j \notin pushing
  /\ holder' = [t \in Targets |-> IF holder[t] = j THEN NoJob ELSE holder[t]]
  /\ UNCHANGED pushing

\* The process ends, and every push with it.
End ==
  /\ holder' = [t \in Targets |-> NoJob]
  /\ pushing' = {}

Next ==
  \/ \E j \in Jobs : Hold(j) \/ Push(j) \/ Stop(j) \/ LetGo(j)
  \/ End

Spec == Init /\ [][Next]_holdVars

\* Two rollouts never push to one device at once.
Exclusive ==
  \A j, k \in pushing : j # k => TargetsOf[j] \cap TargetsOf[k] = {}
=============================================================================
