-------------------------------- MODULE Push --------------------------------
(* One rollout's run and its live log.  They share no state, so a behaviour is of one of the two and  *)
(* leaves the other's variables as they began.                                                        *)
EXTENDS Naturals, FiniteSets, Sequences

CONSTANTS Devices, Plans, Commands, MaxWorkers, CommitChecks, Writers, Readers, MaxLines

\* A rollout has a command at least (the page and the command line refuse one without), a configuration
\* is read once at least after a slow commit, and each device keeps its change in one of five ways.
ASSUME RunAssumption ==
  /\ Commands \in Nat \ {0} /\ CommitChecks \in Nat \ {0}
  /\ \A plan \in Plans : plan.verify \in BOOLEAN /\ plan.finish \in [Devices -> {"save", "command", "auto", "manual", "commit"}]

\* A worker has some lines to write.
ASSUME LinesAssumption == MaxLines \in Nat

VARIABLES part, cancelFlag, push, box, told, collected, results, job, lines, writer, channel, reader

Engine == INSTANCE RolloutEngine
Log == INSTANCE LiveLog

engineVars == <<cancelFlag, push, box, told, collected, results>>
logVars == <<job, lines, writer, channel, reader>>

Init ==
  \/ part = "engine" /\ Engine!Init /\ Log!Init /\ job.ran
  \/ part = "log" /\ Log!Init /\ Engine!Init /\ \A d \in Devices : push[d].verify

Next ==
  /\ UNCHANGED part
  /\ \/ part = "engine" /\ Engine!Next /\ UNCHANGED logVars
     \/ part = "log" /\ Log!Next /\ UNCHANGED engineVars

vars == <<part, engineVars, logVars>>
Spec == Init /\ [][Next]_vars
FairSpec == /\ Spec
            /\ part = "engine" => Engine!Fairness
            /\ part = "log" => Log!Fairness

\* RolloutEngine: a device reported as a success has every command live, whatever the finish went through.
SuccessIsReal == Engine!SuccessIsReal
\* RolloutEngine: a device reported as done has no commit running and no unsaved change that the code saw
\* and kept to itself, and a device reported as cancelled was never connected to.
PushSafe == Engine!TypeOK /\ Engine!NothingSilent /\ Engine!CancelledUntouched
\* LiveLog: no line is shown twice or out of order, and only a line that was overtaken or never published
\* is missing.
LogSafe == Log!TypeOK /\ Log!NoneRepeated /\ Log!OnlyOvertakenLost
\* A run ends; a page's stream ends.
PartEnds == (part = "engine" => Engine!RunEnds) /\ (part = "log" => Log!FollowerEnds)

-----------------------------------------------------------------------------
(* What the models do not show: no configuration lists this *)

\* RolloutEngine: a person is told of every unsaved change of a device reported as done.
UnsavedTold == Engine!UnsavedTold
=============================================================================
