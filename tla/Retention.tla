------------------------------ MODULE Retention ------------------------------
(***************************************************************************)
(* How long rollouts are kept: the retention settings and their rules      *)
(* (src/src/db/settings.py), the nightly clean-up of the database (db/     *)
(* retention.py) and the pruning of log files (rollout/log.py), which read *)
(* them on their own.  Time goes in ticks; a day starts at midnight and    *)
(* 03:00 is its tick RunAt.  A save plans with the settings that it read   *)
(* and writes later, so two admins' saves may overtake each other.  The    *)
(* clean-up waits for a database move (hold): here it then takes no turn.  *)
(***************************************************************************)
EXTENDS Naturals, FiniteSets

CONSTANTS
  Jobs,        \* rollouts
  Savers,      \* admins who save settings, at the same time; each once
  Day,         \* ticks of a day
  RunAt,       \* RUN_AT, a tick of the day
  Retry,       \* RETRY, in ticks
  Days,        \* the values that the settings may have, from their minimum on
  Default,     \* setting -> its default
  None,        \* no time, no row, no file, no save yet
  Over,        \* a save that is over
  MaxTime      \* when the behaviour ends

VARIABLES
  now,       \* the time
  saved,     \* setting -> days, the rows of system_settings
  save,      \* save -> the settings it read and the changes it will write
  job,       \* rollout -> its rows and its log file
  lastRun,   \* NightlyCleanUp.last_run
  retryAt,   \* NightlyCleanUp.retry_at
  status,    \* the status file: when the last clean-up was, and whether it went well
  raced      \* a save was overtaken by another (for the properties)

vars == <<now, saved, save, job, lastRun, retryAt, status, raced>>
settingVars == <<saved, save, raced>>
cleanUpVars == <<lastRun, retryAt, status>>

Keys == {"log", "job", "config"}
Times == 0..MaxTime
MinDays == CHOOSE d \in Days : \A e \in Days : d <= e

\* Before it is submitted, and after all has gone, nothing of a rollout is there.
Nothing == [created |-> None, metadata |-> FALSE, completed |-> None, config |-> FALSE, log |-> None]

Init ==
  /\ now = 0 /\ saved = Default /\ save = [s \in Savers |-> None]
  /\ job = [j \in Jobs |-> Nothing]
  /\ lastRun = None /\ retryAt = None /\ status = None /\ raced = FALSE

OlderThan(time, days) == time # None /\ time + days * Day < now

-----------------------------------------------------------------------------
(* Rollouts, and time *)

Running(j) == job[j].log = now /\ job[j].completed = None

\* submit writes job_metadata; _save_results adds the results, with what Verify read.
Submits(j) ==
  /\ job[j] = Nothing
  /\ job' = [job EXCEPT ![j] = [@ EXCEPT !.created = now, !.metadata = TRUE, !.log = now]]
  /\ UNCHANGED <<now, settingVars, cleanUpVars>>
Completes(j) ==
  /\ Running(j)
  /\ job' = [job EXCEPT ![j] = [@ EXCEPT !.completed = now, !.config = TRUE]]
  /\ UNCHANGED <<now, settingVars, cleanUpVars>>

\* A running rollout appends to its log all the time.
Tick ==
  /\ now < MaxTime /\ now' = now + 1
  /\ job' = [j \in Jobs |-> IF Running(j) THEN [job[j] EXCEPT !.log = now + 1] ELSE job[j]]
  /\ UNCHANGED <<settingVars, cleanUpVars>>

-----------------------------------------------------------------------------
(* SettingsStore *)

\* RULES
RuleSet == {<<"job", "log">>, <<"config", "job">>}
Holds(rule, values) == values[rule[1]] <= values[rule[2]]

\* (a plausible bug: a rule is checked only when its left setting is changed)
BrokenOne(values, touched) == {rule \in RuleSet : rule[1] \in touched /\ ~Holds(rule, values)}
\* _check_rules: the rules of a setting that is changed
Broken(values, touched) == {rule \in RuleSet : (rule[1] \in touched \/ rule[2] \in touched) /\ ~Holds(rule, values)}

Merged(values, raw) == [k \in Keys |-> IF k \in DOMAIN raw THEN raw[k] ELSE values[k]]

\* plan: nothing is written; what equals the saved value is no change
Plans(s, raw) ==
  /\ save[s] = None
  /\ Broken(Merged(saved, raw), DOMAIN raw) = {}
  /\ LET changes == {k \in DOMAIN raw : raw[k] # saved[k]}
     IN  changes # {} /\ save' = [save EXCEPT ![s] = [read |-> saved, new |-> [k \in changes |-> raw[k]]]]
  /\ UNCHANGED <<now, saved, raced, job, cleanUpVars>>

\* reset: one setting, to its default
Resets(s, k) == Plans(s, [l \in {k} |-> Default[k]])

\* _write
Writes(s) ==
  /\ save[s] \notin {None, Over}
  /\ saved' = Merged(saved, save[s].new)
  /\ raced' = (raced \/ save[s].read # saved)
  /\ save' = [save EXCEPT ![s] = Over]
  /\ UNCHANGED <<now, job, cleanUpVars>>

-----------------------------------------------------------------------------
(* NightlyCleanUp *)

\* due: 03:00 has passed today, and it hasn't run since
Today == (now \div Day) * Day + RunAt
Due == now >= Today /\ (lastRun # None => lastRun < Today)

\* (a plausible bug: the metadata goes by its own age)
MetadataGoesAlone(r) == OlderThan(r.created, saved["job"])
\* job_metadata_retention: once the results are gone
MetadataGoes(r) == OlderThan(r.created, saved["job"]) /\ r.completed = None

\* RETENTION_STATEMENTS, in one transaction and in their order
Retained(r) ==
  LET results == IF OlderThan(r.completed, saved["job"]) THEN [r EXCEPT !.completed = None, !.config = FALSE] ELSE r
      metadata == IF MetadataGoes(results) THEN [results EXCEPT !.metadata = FALSE] ELSE results
  IN  IF OlderThan(r.completed, saved["config"]) THEN [metadata EXCEPT !.config = FALSE] ELSE metadata

MayRun == (retryAt # None => now >= retryAt) /\ Due

\* run_once: all went well
Cleans ==
  /\ MayRun
  /\ job' = [j \in Jobs |-> Retained(job[j])]
  /\ status' = [time |-> now, ok |-> TRUE]
  /\ lastRun' = now /\ retryAt' = None
  /\ UNCHANGED <<now, settingVars>>

\* The database failed, or the status file can't be written once the rows are gone.
CleanUpFails ==
  /\ MayRun
  /\ \/ UNCHANGED job /\ status' = [time |-> now, ok |-> FALSE]
     \/ job' = [j \in Jobs |-> Retained(job[j])] /\ UNCHANGED status
  /\ retryAt' = now + Retry
  /\ UNCHANGED <<now, settingVars, lastRun>>

\* (a plausible bug: a restart forgets the last run)
LastSuccessNone(st) == None
\* _last_success
LastSuccess(st) == IF st # None /\ st.ok THEN st.time ELSE None

\* The process starts again: whatever runs then stops, and the saves on their way are lost.
Restart ==
  /\ lastRun' = LastSuccess(status) /\ retryAt' = None
  /\ save' = [s \in Savers |-> IF save[s] = None THEN None ELSE Over]
  /\ UNCHANGED <<now, saved, raced, job, status>>

-----------------------------------------------------------------------------
(* LogPruner: at every start and once a day, so at any time *)

\* (a plausible bug: the default, whatever the setting)
PruneDaysDefault(reachable) == Default["log"]
\* prune_once: the setting, or the default when the database can't be read
PruneDays(reachable) == IF reachable THEN saved["log"] ELSE Default["log"]

Prunes(reachable) ==
  /\ job' = [j \in Jobs |-> IF OlderThan(job[j].log, PruneDays(reachable)) THEN [job[j] EXCEPT !.log = None] ELSE job[j]]
  /\ job' # job
  /\ UNCHANGED <<now, settingVars, cleanUpVars>>

Next ==
  \/ Tick \/ Cleans \/ CleanUpFails \/ Restart
  \/ \E reachable \in BOOLEAN : Prunes(reachable)
  \/ \E j \in Jobs : Submits(j) \/ Completes(j)
  \/ \E s \in Savers :
       \/ Writes(s)
       \/ \E k \in Keys : Resets(s, k)
       \/ \E ks \in (SUBSET Keys) \ {{}} : \E raw \in [ks -> Days] : Plans(s, raw)

Spec == Init /\ [][Next]_vars

-----------------------------------------------------------------------------
(* Properties: of states, and of steps (those with primes) *)

\* The settings are numbers of days; a time is one that has come.
TypeOK ==
  /\ saved \in [Keys -> Days] /\ now \in Times
  /\ \A j \in Jobs : {job[j].created, job[j].completed, job[j].log} \subseteq 0..now \cup {None} /\ job[j].config \in BOOLEAN
  /\ lastRun \in 0..now \cup {None} /\ retryAt \in 0..(now + Retry) \cup {None}

\* As long as no two saves overlapped, the saved settings keep the rules: no sequence of saves and resets, of any of
\* the settings together, leaves log files kept shorter than records or snapshots longer (_check_rules).
RulesKept == ~raced => \A rule \in RuleSet : Holds(rule, saved)

\* Both expire together: a rollout that took no longer than the shortest retention has its commands and comment as
\* long as it has results, whatever the settings become in between (job_metadata_retention's NOT EXISTS).
ExpireTogether ==
  \A j \in Jobs : job[j].completed # None /\ job[j].completed <= job[j].created + MinDays * Day => job[j].metadata

\* A clean-up whose success is on record isn't done again the same night - a restart in between included.
OncePerNight == Cleans => ~(status # None /\ status.ok /\ status.time >= Today)

\* Download Log has its file: a pruning pass that can read the settings, kept by the rules, removes the log of no
\* rollout whose records are younger than their retention.
LogKept ==
  Prunes(TRUE) /\ ~raced =>
     \A j \in Jobs : job[j].log # None /\ job'[j].log = None /\ job[j].completed # None
                       => OlderThan(job[j].completed, saved["job"])

(***************************************************************************)
(* Why they hold.  A save keeps whatever rule held of the settings that it *)
(* read; a rollout's metadata goes only when it is older than any          *)
(* retention, so before results that came in time; and the last run is     *)
(* what the status file says.                                              *)
(***************************************************************************)
Moments == Nat \cup {None}
JobRows == [created : Moments, metadata : BOOLEAN, completed : Moments, config : BOOLEAN, log : Moments]
Typed ==
  /\ now \in Times /\ saved \in [Keys -> Days] /\ raced \in BOOLEAN /\ job \in [Jobs -> JobRows]
  /\ \A j \in Jobs : {job[j].created, job[j].completed, job[j].log} \subseteq 0..now \cup {None}
  /\ lastRun \in 0..now \cup {None} /\ retryAt \in 0..(now + Retry) \cup {None}

\* What a save will write keeps the rules that held of what it read.
SavesKeep ==
  /\ DOMAIN save = Savers
  /\ \A s \in Savers : save[s] \notin {None, Over} =>
       LET old == save[s].read
       IN  /\ old \in [Keys -> Days] /\ Merged(old, save[s].new) \in [Keys -> Days]
           /\ \A rule \in RuleSet : Holds(rule, old) => Holds(rule, Merged(old, save[s].new))

\* A rollout's times, and when its metadata may have gone.
RowsFollow ==
  \A j \in Jobs :
    /\ job[j].created = None => job[j].completed = None /\ job[j].log = None
    /\ job[j].completed # None /\ job[j].log # None => job[j].completed <= job[j].log
    /\ job[j].created # None /\ ~job[j].metadata =>
         job[j].created + MinDays * Day < (IF job[j].completed = None THEN now ELSE job[j].completed)

OnRecord == status # None /\ status.ok => status.time \in Nat /\ lastRun = status.time

RetentionInv == Typed /\ RulesKept /\ SavesKeep /\ RowsFollow /\ OnRecord
=============================================================================
