-------------------------- MODULE UserAccess_proofs --------------------------
(***************************************************************************)
(* Proofs about sign-ins, sessions, retention, the inventory and accounts  *)
(* (UserAccess), for any browsers, limits, people, rollouts, settings,     *)
(* users, devices, profiles, usernames and directories.                    *)
(***************************************************************************)
EXTENDS UserAccess, FiniteSetTheorems, TLAPS

(***************************************************************************)
(* Retention: how long rollouts are kept.                                  *)
(***************************************************************************)

\* More days are more time.
LEMMA TimesMore ==
  ASSUME NEW a \in Nat, NEW b \in Nat, NEW c \in Nat, a <= b
  PROVE  a * c \in Nat /\ b * c \in Nat /\ a * c <= b * c
<1>1. PICK d \in Nat : b = a + d
  <2>1. b - a \in Nat /\ b = a + (b - a)
    OBVIOUS
  <2>2. QED
    BY <2>1
<1>2. b * c = a * c + d * c
  BY <1>1
<1>3. a * c \in Nat /\ d * c \in Nat
  BY <1>1
<1>4. QED
  BY <1>2, <1>3

\* The least value of a setting is one, and a time that is older than a setting's days is older than the least's.
LEMMA LeastDays ==
  /\ Keep!MinDays \in Days /\ Keep!MinDays \in Nat
  /\ \A d \in Days : Keep!MinDays * Day <= d * Day /\ Keep!MinDays * Day \in Nat /\ d * Day \in Nat
<1>1. Keep!MinDays \in Days /\ \A d \in Days : Keep!MinDays <= d
  BY RetentionAssumption DEF Keep!MinDays
<1>2. Day \in Nat /\ Days \subseteq Nat
  BY RetentionAssumption
<1>3. QED
  BY <1>1, <1>2, TimesMore

\* Nothing is yet saved, submitted or cleaned.
LEMMA RetentionInit == ASSUME Keep!Init PROVE Keep!RetentionInv
<1>1. Keep!Typed
  <2>1. Keep!Nothing \in Keep!JobRows
    BY DEF Keep!Nothing, Keep!JobRows, Keep!Moments
  <2>2. now \in Keep!Times /\ saved \in [Keep!Keys -> Days] /\ raced \in BOOLEAN /\ job \in [Jobs -> Keep!JobRows]
    <3>1. now \in Keep!Times /\ saved \in [Keep!Keys -> Days]
      BY RetentionAssumption DEF Keep!Init, Keep!Times, Keep!Keys
    <3>2. raced \in BOOLEAN /\ job \in [Jobs -> Keep!JobRows]
      BY <2>1, Zenon DEF Keep!Init
    <3>3. QED
      BY <3>1, <3>2
  <2>3. \A j \in Jobs : {job[j].created, job[j].completed, job[j].log} \subseteq 0..now \cup {None}
    BY DEF Keep!Init, Keep!Nothing
  <2>4. lastRun = None /\ retryAt = None
    BY DEF Keep!Init
  <2>5. QED
    BY <2>2, <2>3, <2>4 DEF Keep!Typed
<1>2. Keep!RulesKept /\ Keep!OnRecord
  BY RetentionAssumption DEF Keep!Init, Keep!RulesKept, Keep!RuleSet, Keep!Holds, Keep!OnRecord
<1>3. Keep!SavesKeep
  BY RetentionAssumption DEF Keep!Init, Keep!SavesKeep
<1>4. Keep!RowsFollow
  BY RetentionAssumption DEF Keep!Init, Keep!RowsFollow, Keep!Nothing
<1>5. QED
  BY <1>1, <1>2, <1>3, <1>4 DEF Keep!RetentionInv

\* A step that changes no setting and no save.
LEMMA SettingsFrame ==
  ASSUME Keep!RulesKept, Keep!SavesKeep, UNCHANGED <<saved, save, raced>> PROVE Keep!RulesKept' /\ Keep!SavesKeep'
BY DEF Keep!RulesKept, Keep!SavesKeep, Keep!Holds, Keep!Merged

\* A rollout begins.
LEMMA SubmitsKeeps == ASSUME Keep!RetentionInv, NEW j \in Jobs, Keep!Submits(j) PROVE Keep!RetentionInv'
<1> USE RetentionAssumption DEF Keep!RetentionInv
<1>1. UNCHANGED <<now, saved, save, raced, lastRun, retryAt, status>>
  BY DEF Keep!Submits, Keep!settingVars, Keep!cleanUpVars
<1>2. now \in Nat /\ job[j] = Keep!Nothing
  BY DEF Keep!Submits, Keep!Typed, Keep!Times
<1> DEFINE row == [Keep!Nothing EXCEPT !.created = now, !.metadata = TRUE, !.log = now]
<1>3. /\ row \in Keep!JobRows /\ row.created = now /\ row.metadata = TRUE /\ row.completed = None /\ row.log = now
  BY <1>2 DEF Keep!Nothing, Keep!JobRows, Keep!Moments
<1>4. job' = [job EXCEPT ![j] = row]
  BY <1>2, Zenon DEF Keep!Submits
<1> HIDE DEF row
<1>5. Keep!Typed'
  BY <1>1, <1>2, <1>3, <1>4 DEF Keep!Typed, Keep!Times
<1>6. Keep!RowsFollow'
  BY <1>1, <1>2, <1>3, <1>4 DEF Keep!Typed, Keep!RowsFollow
<1>7. QED
  BY <1>1, <1>5, <1>6, SettingsFrame DEF Keep!OnRecord

\* A rollout's results come: its metadata has gone only when they come too late.
LEMMA CompletesKeeps == ASSUME Keep!RetentionInv, NEW j \in Jobs, Keep!Completes(j) PROVE Keep!RetentionInv'
<1> USE RetentionAssumption DEF Keep!RetentionInv
<1>1. UNCHANGED <<now, saved, save, raced, lastRun, retryAt, status>>
  BY DEF Keep!Completes, Keep!settingVars, Keep!cleanUpVars
<1>2. now \in Nat /\ job[j].log = now /\ job[j].completed = None /\ job[j].created # None /\ job[j] \in Keep!JobRows
  BY DEF Keep!Completes, Keep!Running, Keep!Typed, Keep!Times, Keep!RowsFollow
<1> DEFINE row == [job[j] EXCEPT !.completed = now, !.config = TRUE]
<1>3. /\ row \in Keep!JobRows /\ row.created = job[j].created /\ row.metadata = job[j].metadata
      /\ row.completed = now /\ row.log = now
  BY <1>2, Zenon DEF Keep!JobRows, Keep!Moments
<1>4. job' = [job EXCEPT ![j] = row]
  BY Zenon DEF Keep!Completes
<1> HIDE DEF row
<1>5. Keep!Typed'
  BY <1>1, <1>2, <1>3, <1>4 DEF Keep!Typed, Keep!Times
<1>6. Keep!RowsFollow'
  BY <1>1, <1>2, <1>3, <1>4 DEF Keep!Typed, Keep!RowsFollow
<1>7. QED
  BY <1>1, <1>5, <1>6, SettingsFrame DEF Keep!OnRecord

\* Time goes on, and a running rollout's log with it.
LEMMA RetentionTicks == ASSUME Keep!RetentionInv, Keep!Tick PROVE Keep!RetentionInv'
<1> USE RetentionAssumption DEF Keep!RetentionInv
<1>1. /\ now' = now + 1 /\ now \in Nat /\ now' \in Keep!Times
      /\ UNCHANGED <<saved, save, raced, lastRun, retryAt, status>>
  BY DEF Keep!Tick, Keep!settingVars, Keep!cleanUpVars, Keep!Typed, Keep!Times
<1>2. /\ job' \in [Jobs -> Keep!JobRows]
      /\ \A j \in Jobs : /\ job'[j].created = job[j].created /\ job'[j].metadata = job[j].metadata
                         /\ job'[j].completed = job[j].completed
                         /\ job'[j].log = IF Keep!Running(j) THEN now + 1 ELSE job[j].log
  BY <1>1 DEF Keep!Tick, Keep!Typed, Keep!JobRows, Keep!Moments
<1>3. Keep!Typed'
  BY <1>1, <1>2 DEF Keep!Typed
<1>4. Keep!RowsFollow'
  <2> SUFFICES ASSUME NEW j \in Jobs
               PROVE  /\ job'[j].created = None => job'[j].completed = None /\ job'[j].log = None
                      /\ job'[j].completed # None /\ job'[j].log # None => job'[j].completed <= job'[j].log
                      /\ job'[j].created # None /\ ~job'[j].metadata =>
                           job'[j].created + Keep!MinDays * Day <
                             (IF job'[j].completed = None THEN now' ELSE job'[j].completed)
    BY DEF Keep!RowsFollow, Keep!MinDays
  <2>1. Keep!Running(j) => job[j].completed = None /\ job[j].created # None
    BY <1>1 DEF Keep!Running, Keep!RowsFollow
  <2>2. job[j].created \in Nat \cup {None} /\ Keep!MinDays * Day \in Nat
    BY LeastDays DEF Keep!Typed
  <2>3. QED
    BY <1>1, <1>2, <2>1, <2>2 DEF Keep!RowsFollow
<1>5. QED
  BY <1>1, <1>3, <1>4, SettingsFrame DEF Keep!OnRecord

\* What a plan will write keeps every rule that held: those of a changed setting were checked.
LEMMA PlansKeeps ==
  ASSUME Keep!RetentionInv, NEW s \in Savers, NEW ks \in SUBSET Keep!Keys, NEW raw \in [ks -> Days],
         Keep!Plans(s, raw)
  PROVE  Keep!RetentionInv'
<1> USE RetentionAssumption DEF Keep!RetentionInv
<1>1. UNCHANGED <<now, saved, raced, job, lastRun, retryAt, status>>
  BY DEF Keep!Plans, Keep!cleanUpVars
<1> DEFINE changes == {k \in DOMAIN raw : raw[k] # saved[k]}
           new == [k \in changes |-> raw[k]]
           plan == [read |-> saved, new |-> new]
<1>2. save' = [save EXCEPT ![s] = plan] /\ Keep!Broken(Keep!Merged(saved, raw), DOMAIN raw) = {}
  BY DEF Keep!Plans
<1>3. saved \in [Keep!Keys -> Days]
  BY DEF Keep!Typed
<1>4. Keep!Merged(saved, new) = Keep!Merged(saved, raw)
  <2>1. DOMAIN new = changes /\ changes \subseteq ks /\ DOMAIN raw = ks
    OBVIOUS
  <2>2. ASSUME NEW k \in Keep!Keys
        PROVE  (IF k \in DOMAIN new THEN new[k] ELSE saved[k]) = (IF k \in DOMAIN raw THEN raw[k] ELSE saved[k])
    BY <2>1
  <2>3. QED
    BY <2>2 DEF Keep!Merged
<1>5. Keep!Merged(saved, raw) \in [Keep!Keys -> Days]
  BY <1>3 DEF Keep!Merged
<1> HIDE DEF changes, new
<1>6. ASSUME NEW rule \in Keep!RuleSet, Keep!Holds(rule, saved) PROVE Keep!Holds(rule, Keep!Merged(saved, new))
  <2>1. Keep!Holds(rule, Keep!Merged(saved, raw))
    <3>1. CASE rule[1] \in DOMAIN raw \/ rule[2] \in DOMAIN raw
      BY <1>2, <3>1 DEF Keep!Broken
    <3>2. CASE rule[1] \notin DOMAIN raw /\ rule[2] \notin DOMAIN raw
      BY <1>6, <3>2 DEF Keep!Holds, Keep!Merged, Keep!RuleSet, Keep!Keys
    <3>3. QED
      BY <3>1, <3>2
  <2>2. QED
    BY <1>4, <2>1
<1>7. Keep!SavesKeep'
  <2>1. DOMAIN save' = Savers /\ \A t \in Savers \ {s} : save'[t] = save[t]
    BY <1>2 DEF Keep!SavesKeep
  <2>2. save'[s].read = saved /\ save'[s].new = new
    BY <1>2 DEF Keep!SavesKeep
  <2>3. Keep!Merged(saved, new) \in [Keep!Keys -> Days]
    BY <1>4, <1>5
  <2>4. QED
    BY <1>3, <1>6, <2>1, <2>2, <2>3 DEF Keep!SavesKeep, Keep!Merged, Keep!Holds
<1>8. Keep!Typed'
  BY <1>1 DEF Keep!Typed
<1>9. Keep!RulesKept' /\ Keep!RowsFollow' /\ Keep!OnRecord'
  BY <1>1 DEF Keep!RulesKept, Keep!Holds, Keep!RowsFollow, Keep!OnRecord
<1>10. QED
  BY <1>7, <1>8, <1>9

\* A save that nothing overtook writes what keeps the rules; after one that was overtaken nothing is said of them.
LEMMA WritesKeeps == ASSUME Keep!RetentionInv, NEW s \in Savers, Keep!Writes(s) PROVE Keep!RetentionInv'
<1> USE RetentionAssumption DEF Keep!RetentionInv
<1>1. UNCHANGED <<now, job, lastRun, retryAt, status>> /\ save[s] \notin {None, Over}
  BY DEF Keep!Writes, Keep!cleanUpVars
<1>2. /\ saved' = Keep!Merged(saved, save[s].new) /\ raced' = (raced \/ save[s].read # saved)
      /\ save' = [save EXCEPT ![s] = Over]
  BY DEF Keep!Writes
<1>3. Keep!Merged(save[s].read, save[s].new) \in [Keep!Keys -> Days]
  BY <1>1 DEF Keep!SavesKeep
<1>4. saved' \in [Keep!Keys -> Days]
  <2>1. saved \in [Keep!Keys -> Days]
    BY DEF Keep!Typed
  <2>2. ASSUME NEW k \in Keep!Keys, k \in DOMAIN save[s].new PROVE save[s].new[k] \in Days
    <3>1. Keep!Merged(save[s].read, save[s].new)[k] = save[s].new[k]
      BY <2>2 DEF Keep!Merged
    <3>2. QED
      BY <1>3, <3>1
  <2>3. QED
    BY <1>2, <2>1, <2>2 DEF Keep!Merged
<1>5. Keep!Typed'
  BY <1>1, <1>2, <1>4 DEF Keep!Typed
<1>6. Keep!RulesKept'
  <2> SUFFICES ASSUME ~raced', NEW rule \in Keep!RuleSet PROVE Keep!Holds(rule, saved)'
    BY DEF Keep!RulesKept, Keep!RuleSet
  <2>1. ~raced /\ save[s].read = saved
    BY <1>2 DEF Keep!Typed
  <2>2. Keep!Holds(rule, Keep!Merged(saved, save[s].new))
    BY <1>1, <2>1 DEF Keep!RulesKept, Keep!SavesKeep
  <2>3. QED
    BY <1>2, <2>2 DEF Keep!Holds
<1>7. Keep!SavesKeep'
  BY <1>2 DEF Keep!SavesKeep, Keep!Merged, Keep!Holds
<1>8. Keep!RowsFollow' /\ Keep!OnRecord'
  BY <1>1 DEF Keep!RowsFollow, Keep!OnRecord
<1>9. QED
  BY <1>5, <1>6, <1>7, <1>8

\* A clean-up keeps a rollout's times in order, and what it takes has outlived any retention.
LEMMA RetainedRow ==
  ASSUME Keep!RetentionInv, NEW j \in Jobs
  PROVE  LET r == job[j]  q == Keep!Retained(r)
         IN  /\ q \in Keep!JobRows /\ q.created = r.created /\ q.log = r.log
             /\ q.completed \in {r.completed, None}
             /\ q.created # None /\ ~q.metadata =>
                  q.created + Keep!MinDays * Day < (IF q.completed = None THEN now ELSE q.completed)
<1> USE RetentionAssumption DEF Keep!RetentionInv
<1> DEFINE r == job[j]
           results == IF Keep!OlderThan(r.completed, saved["job"])
                      THEN [r EXCEPT !.completed = None, !.config = FALSE] ELSE r
           metadata == IF Keep!MetadataGoes(results) THEN [results EXCEPT !.metadata = FALSE] ELSE results
           q == IF Keep!OlderThan(r.completed, saved["config"]) THEN [metadata EXCEPT !.config = FALSE] ELSE metadata
<1>1. /\ r \in Keep!JobRows /\ now \in Nat /\ saved["job"] \in Days
      /\ {r.created, r.completed} \subseteq 0..now \cup {None}
  BY DEF Keep!Typed, Keep!Times, Keep!Keys
<1>2. /\ results \in Keep!JobRows /\ results.created = r.created /\ results.log = r.log
      /\ results.metadata = r.metadata
      /\ results.completed = r.completed \/ (results.completed = None /\ Keep!OlderThan(r.completed, saved["job"]))
  <2>1. CASE Keep!OlderThan(r.completed, saved["job"])
    BY <1>1, <2>1, Zenon DEF Keep!JobRows, Keep!Moments
  <2>2. CASE ~Keep!OlderThan(r.completed, saved["job"])
    BY <1>1, <2>2
  <2>3. QED
    BY <2>1, <2>2
<1> HIDE DEF r, results
<1>3. /\ metadata \in Keep!JobRows /\ metadata.created = results.created /\ metadata.log = results.log
      /\ metadata.completed = results.completed
      /\ metadata.metadata = results.metadata \/ Keep!MetadataGoes(results)
  <2>1. CASE Keep!MetadataGoes(results)
    BY <1>2, <2>1, Zenon DEF Keep!JobRows
  <2>2. CASE ~Keep!MetadataGoes(results)
    BY <1>2, <2>2
  <2>3. QED
    BY <2>1, <2>2
<1> HIDE DEF metadata
<1>4. /\ q \in Keep!JobRows /\ q.created = metadata.created /\ q.log = metadata.log
      /\ q.completed = metadata.completed /\ q.metadata = metadata.metadata
  <2>1. CASE Keep!OlderThan(r.completed, saved["config"])
    BY <1>3, <2>1, Zenon DEF Keep!JobRows
  <2>2. CASE ~Keep!OlderThan(r.completed, saved["config"])
    BY <1>3, <2>2
  <2>3. QED
    BY <2>1, <2>2
<1>5. q = Keep!Retained(r)
  BY Zenon DEF Keep!Retained, results, metadata
<1> HIDE DEF q
<1>6. ASSUME q.created # None, ~q.metadata
      PROVE  q.created + Keep!MinDays * Day < (IF q.completed = None THEN now ELSE q.completed)
  <2>1. r.created \in 0..now /\ Keep!MinDays * Day \in Nat /\ Keep!MinDays * Day <= saved["job"] * Day
        /\ saved["job"] * Day \in Nat
    BY <1>1, <1>2, <1>3, <1>4, <1>6, LeastDays
  <2>2. CASE ~r.metadata
    <3>1. r.created + Keep!MinDays * Day < (IF r.completed = None THEN now ELSE r.completed)
      BY <1>2, <1>3, <1>4, <1>6, <2>2 DEF Keep!RowsFollow, r
    <3>2. r.completed = None \/ r.completed \in 0..now
      BY <1>1
    <3>3. q.completed \in {r.completed, None} /\ q.created = r.created
      BY <1>2, <1>3, <1>4
    <3>4. QED
      BY <1>1, <2>1, <3>1, <3>2, <3>3
  <2>3. CASE r.metadata
    <3>1. Keep!MetadataGoes(results)
      BY <1>2, <1>3, <1>4, <1>6, <2>3
    <3>2. results.completed = None /\ r.created + saved["job"] * Day < now
      BY <1>2, <3>1 DEF Keep!MetadataGoes, Keep!OlderThan
    <3>3. QED
      BY <1>1, <1>2, <1>3, <1>4, <2>1, <3>2
  <2>4. QED
    BY <2>2, <2>3
<1>7. QED
  BY <1>2, <1>3, <1>4, <1>5, <1>6 DEF r

\* The rows of a clean-up, whether or not it could then say so.
LEMMA RetainedRows ==
  ASSUME Keep!RetentionInv, job' = [j \in Jobs |-> Keep!Retained(job[j])], UNCHANGED <<now, saved, save, raced>>
  PROVE  /\ job' \in [Jobs -> Keep!JobRows] /\ Keep!RowsFollow'
         /\ \A j \in Jobs : {job'[j].created, job'[j].completed, job'[j].log} \subseteq 0..now \cup {None}
<1>1. ASSUME NEW j \in Jobs
      PROVE  /\ job'[j] \in Keep!JobRows /\ job'[j].created = job[j].created /\ job'[j].log = job[j].log
             /\ job'[j].completed \in {job[j].completed, None}
             /\ job'[j].created # None /\ ~job'[j].metadata =>
                  job'[j].created + Keep!MinDays * Day < (IF job'[j].completed = None THEN now ELSE job'[j].completed)
  BY RetainedRow
<1>2. job' \in [Jobs -> Keep!JobRows]
  BY <1>1
<1>3. \A j \in Jobs : {job'[j].created, job'[j].completed, job'[j].log} \subseteq 0..now \cup {None}
  BY <1>1 DEF Keep!RetentionInv, Keep!Typed
<1>4. Keep!RowsFollow'
  BY <1>1 DEF Keep!RetentionInv, Keep!RowsFollow, Keep!MinDays
<1>5. QED
  BY <1>2, <1>3, <1>4

\* The nightly clean-up.
LEMMA CleansKeeps == ASSUME Keep!RetentionInv, Keep!Cleans PROVE Keep!RetentionInv'
<1> USE DEF Keep!RetentionInv
<1>1. /\ job' = [j \in Jobs |-> Keep!Retained(job[j])] /\ UNCHANGED <<now, saved, save, raced>>
      /\ status' = [time |-> now, ok |-> TRUE] /\ lastRun' = now /\ retryAt' = None
  BY DEF Keep!Cleans, Keep!settingVars
<1>2. now \in Nat
  BY DEF Keep!Typed, Keep!Times
<1>3. /\ job' \in [Jobs -> Keep!JobRows] /\ Keep!RowsFollow'
      /\ \A j \in Jobs : {job'[j].created, job'[j].completed, job'[j].log} \subseteq 0..now \cup {None}
  BY <1>1, RetainedRows
<1>4. Keep!Typed'
  BY <1>1, <1>2, <1>3 DEF Keep!Typed
<1>5. Keep!OnRecord'
  BY <1>1, <1>2 DEF Keep!OnRecord
<1>6. QED
  BY <1>1, <1>3, <1>4, <1>5, SettingsFrame

\* A clean-up that failed, before the rows went or after.
LEMMA CleanUpFailsKeeps == ASSUME Keep!RetentionInv, Keep!CleanUpFails PROVE Keep!RetentionInv'
<1> USE DEF Keep!RetentionInv
<1>1. /\ UNCHANGED <<now, saved, save, raced, lastRun>> /\ retryAt' = now + Retry
      /\ \/ job' = job /\ status' = [time |-> now, ok |-> FALSE]
         \/ job' = [j \in Jobs |-> Keep!Retained(job[j])] /\ status' = status
  BY DEF Keep!CleanUpFails, Keep!settingVars
<1>2. now \in Nat /\ Retry \in Nat
  BY RetentionAssumption DEF Keep!Typed, Keep!Times
<1>3. /\ job' \in [Jobs -> Keep!JobRows] /\ Keep!RowsFollow'
      /\ \A j \in Jobs : {job'[j].created, job'[j].completed, job'[j].log} \subseteq 0..now \cup {None}
  <2>1. CASE job' = job
    BY <1>1, <2>1 DEF Keep!Typed, Keep!RowsFollow
  <2>2. CASE job' = [j \in Jobs |-> Keep!Retained(job[j])]
    BY <1>1, <2>2, RetainedRows
  <2>3. QED
    BY <1>1, <2>1, <2>2
<1>4. Keep!Typed'
  BY <1>1, <1>2, <1>3 DEF Keep!Typed
<1>5. Keep!OnRecord'
  BY <1>1 DEF Keep!OnRecord
<1>6. QED
  BY <1>1, <1>3, <1>4, <1>5, SettingsFrame

\* A restart reads the last success from the status file.
LEMMA RetentionRestarts == ASSUME Keep!RetentionInv, Keep!Restart PROVE Keep!RetentionInv'
<1> USE DEF Keep!RetentionInv
<1>1. /\ UNCHANGED <<now, saved, raced, job, status>> /\ retryAt' = None /\ lastRun' = Keep!LastSuccess(status)
      /\ save' = [s \in Savers |-> IF save[s] = None THEN None ELSE Over]
  BY DEF Keep!Restart
<1>2. Keep!OnRecord' /\ lastRun' \in 0..now \cup {None}
  BY <1>1 DEF Keep!OnRecord, Keep!LastSuccess, Keep!Typed
<1>3. Keep!Typed'
  BY <1>1, <1>2 DEF Keep!Typed
<1>4. Keep!SavesKeep'
  BY <1>1 DEF Keep!SavesKeep
<1>5. Keep!RulesKept' /\ Keep!RowsFollow'
  BY <1>1 DEF Keep!RulesKept, Keep!Holds, Keep!RowsFollow
<1>6. QED
  BY <1>2, <1>3, <1>4, <1>5

\* Log files go; nothing else does.
LEMMA PrunesKeeps ==
  ASSUME Keep!RetentionInv, NEW reachable \in BOOLEAN, Keep!Prunes(reachable) PROVE Keep!RetentionInv'
<1> USE DEF Keep!RetentionInv
<1>1. UNCHANGED <<now, saved, save, raced, lastRun, retryAt, status>>
  BY DEF Keep!Prunes, Keep!settingVars, Keep!cleanUpVars
<1>2. ASSUME NEW j \in Jobs
      PROVE  /\ job'[j] \in Keep!JobRows /\ job'[j].created = job[j].created /\ job'[j].metadata = job[j].metadata
             /\ job'[j].completed = job[j].completed /\ job'[j].log \in {job[j].log, None}
  <2>1. job[j] \in Keep!JobRows
    BY DEF Keep!Typed
  <2>2. job'[j] \in {job[j], [job[j] EXCEPT !.log = None]}
    BY Zenon DEF Keep!Prunes
  <2>3. QED
    BY <2>1, <2>2, Zenon DEF Keep!JobRows, Keep!Moments
<1>3. job' \in [Jobs -> Keep!JobRows]
  <2>1. DOMAIN job' = Jobs /\ job' = [j \in DOMAIN job' |-> job'[j]]
    BY Zenon DEF Keep!Prunes
  <2>2. QED
    BY <1>2, <2>1
<1>4. Keep!Typed'
  BY <1>1, <1>2, <1>3 DEF Keep!Typed
<1>5. Keep!RowsFollow'
  BY <1>1, <1>2 DEF Keep!RowsFollow, Keep!MinDays
<1>6. QED
  BY <1>1, <1>4, <1>5, SettingsFrame DEF Keep!OnRecord

\* Every step of the retention keeps the invariant.
LEMMA RetentionNext == ASSUME Keep!RetentionInv, Keep!Next PROVE Keep!RetentionInv'
<1>1. ASSUME NEW s \in Savers, NEW ks \in SUBSET Keep!Keys, NEW raw \in [ks -> Days], Keep!Plans(s, raw)
      PROVE  Keep!RetentionInv'
  BY <1>1, PlansKeeps
<1>2. ASSUME NEW s \in Savers, NEW k \in Keep!Keys, Keep!Resets(s, k) PROVE Keep!RetentionInv'
  <2>1. {k} \in SUBSET Keep!Keys /\ [l \in {k} |-> Default[k]] \in [{k} -> Days]
    BY RetentionAssumption DEF Keep!Keys
  <2>2. QED
    BY <1>1, <1>2, <2>1 DEF Keep!Resets
<1>3. QED
  BY <1>1, <1>2, RetentionTicks, CleansKeeps, CleanUpFailsKeeps, RetentionRestarts, PrunesKeeps, SubmitsKeeps,
     CompletesKeeps, WritesKeeps DEF Keep!Next

\* A step that changes nothing of it keeps it too.
LEMMA RetentionFrame ==
  ASSUME Keep!RetentionInv, UNCHANGED <<now, keepVars>> PROVE Keep!RetentionInv'
BY DEF keepVars, Keep!RetentionInv, Keep!Typed, Keep!RulesKept, Keep!Holds, Keep!SavesKeep, Keep!Merged,
       Keep!RowsFollow, Keep!MinDays, Keep!OnRecord

\* What the invariant says of the rollouts and the settings.
LEMMA RetentionStates ==
  ASSUME Keep!RetentionInv PROVE Keep!TypeOK /\ Keep!RulesKept /\ Keep!ExpireTogether
<1> USE RetentionAssumption DEF Keep!RetentionInv
<1>1. Keep!TypeOK
  BY DEF Keep!TypeOK, Keep!Typed, Keep!JobRows
<1>2. Keep!ExpireTogether
  <2> SUFFICES ASSUME NEW j \in Jobs, job[j].completed # None, ~job[j].metadata,
                      job[j].completed <= job[j].created + Keep!MinDays * Day
               PROVE  FALSE
    BY DEF Keep!ExpireTogether
  <2>1. job[j].created \in 0..now /\ job[j].completed \in 0..now /\ Keep!MinDays * Day \in Nat
    BY LeastDays DEF Keep!Typed, Keep!RowsFollow
  <2>2. job[j].created + Keep!MinDays * Day < job[j].completed
    BY <2>1 DEF Keep!RowsFollow
  <2>3. QED
    BY <2>1, <2>2 DEF Keep!Typed, Keep!Times
<1>3. QED
  BY <1>1, <1>2

\* A night's clean-up is after the one on record, and a log that goes is older than its record may be.
LEMMA RetentionSteps == ASSUME Keep!RetentionInv, Keep!Next PROVE Keep!OncePerNight /\ Keep!LogKept
<1> USE RetentionAssumption DEF Keep!RetentionInv
<1>1. Keep!OncePerNight
  <2> SUFFICES ASSUME Keep!Cleans, status # None, status.ok, status.time >= Keep!Today PROVE FALSE
    BY DEF Keep!OncePerNight
  <2>1. lastRun = status.time /\ status.time \in Nat
    BY DEF Keep!OnRecord
  <2>2. lastRun < Keep!Today
    BY <2>1 DEF Keep!Cleans, Keep!MayRun, Keep!Due
  <2>3. Keep!Today \in Int
    BY DEF Keep!Today, Keep!Typed, Keep!Times
  <2>4. QED
    BY <2>1, <2>2, <2>3
<1>2. Keep!LogKept
  <2> SUFFICES ASSUME Keep!Prunes(TRUE), ~raced, NEW j \in Jobs,
                      job[j].log # None, job'[j].log = None, job[j].completed # None
               PROVE  Keep!OlderThan(job[j].completed, saved["job"])
    BY DEF Keep!LogKept
  <2>1. Keep!OlderThan(job[j].log, saved["log"])
    BY DEF Keep!Prunes, Keep!PruneDays
  <2>2. /\ job[j].log \in 0..now /\ job[j].completed \in 0..now /\ now \in Nat
        /\ saved["job"] \in Nat /\ saved["log"] \in Nat
    <3>1. now \in Nat /\ saved \in [Keep!Keys -> Days]
      BY DEF Keep!Typed, Keep!Times
    <3>2. saved["job"] \in Nat /\ saved["log"] \in Nat
      BY <3>1 DEF Keep!Keys
    <3>3. {job[j].completed, job[j].log} \subseteq 0..now \cup {None}
      BY DEF Keep!Typed
    <3>4. QED
      BY <3>1, <3>2, <3>3
  <2>3. job[j].completed <= job[j].log
    BY DEF Keep!RowsFollow
  <2>4. saved["job"] <= saved["log"]
    BY DEF Keep!RulesKept, Keep!RuleSet, Keep!Holds
  <2>5. saved["job"] * Day \in Nat /\ saved["log"] * Day \in Nat /\ saved["job"] * Day <= saved["log"] * Day
    BY <2>2, <2>4, TimesMore
  <2>6. job[j].log + saved["log"] * Day < now
    BY <2>1 DEF Keep!OlderThan
  <2>7. QED
    BY <2>2, <2>3, <2>5, <2>6 DEF Keep!OlderThan
<1>3. QED
  BY <1>1, <1>2

\* Saves that do not overlap keep the rules between the settings, a rollout's commands expire with its results, a
\* clean-up on record is not done again the same night, and a log is there as long as its record: for any rollouts,
\* saves, settings, restarts and failed clean-ups.
THEOREM RetentionKept == Spec => RetentionSafe
<1> DEFINE Inv == part = "retention" => Keep!RetentionInv
<1>1. Init => Inv
  BY RetentionInit DEF Init
<1>2. Inv /\ [Next]_vars => Inv'
  <2> SUFFICES ASSUME Inv, [Next]_vars, part' = "retention" PROVE Keep!RetentionInv'
    OBVIOUS
  <2>1. CASE Next
    <3>1. part = "retention" /\ Keep!Next
      BY <2>1 DEF Next
    <3>2. QED
      BY <3>1, RetentionNext
  <2>2. CASE UNCHANGED vars
    <3>1. part = "retention" /\ UNCHANGED <<now, keepVars>>
      BY <2>2 DEF vars
    <3>2. QED
      BY <3>1, RetentionFrame
  <2>3. QED
    BY <2>1, <2>2
<1>3. Inv => (part = "retention" => Keep!TypeOK /\ Keep!RulesKept /\ Keep!ExpireTogether)
  BY RetentionStates
<1>4. Inv /\ [Next]_vars => [part = "retention" => Keep!OncePerNight /\ Keep!LogKept]_vars
  BY RetentionSteps DEF Next
<1>5. QED
  BY <1>1, <1>2, <1>3, <1>4, PTL DEF Spec, RetentionSafe

(***************************************************************************)
(* Sessions: how long one may stay signed in.                              *)
(***************************************************************************)

\* Sessions are numbered from one.
LEMMA SidNumbers == Stay!Cardinality(Sids) \in Nat /\ Sids = 1..Stay!Cardinality(Sids)
<1>1. Stay!Cardinality(Sids) = Cardinality(Sids)
  BY DEF Stay!Cardinality, Cardinality
<1>2. QED
  BY <1>1, SessionsAssumption, FS_CardinalityType

\* Nobody is signed in.
LEMMA StayInit == ASSUME Stay!Init PROVE Stay!StayInv
<1>1. Stay!Stored
  <2>1. MaxTime \in Nat /\ Stay!Cardinality(Sids) \in Nat
    BY SidNumbers, SessionsAssumption
  <2>2. now = 0 /\ made = 0 /\ store = [s \in Sids |-> Gone] /\ active = [s \in Sids |-> 0]
    BY DEF Stay!Init
  <2>3. QED
    BY <2>1, <2>2 DEF Stay!Stored
<1>2. Stay!InHand /\ Stay!EndedMade /\ Stay!EndedStays
  BY DEF Stay!Init, Stay!InHand, Stay!EndedMade, Stay!EndedStays
<1>3. QED
  BY <1>1, <1>2 DEF Stay!StayInv

\* One request has something else in hand; the others' are as fresh as they were.
LEMMA InHandOne ==
  ASSUME Stay!InHand, NEW r \in Requests, NEW q \in Stay!Handled, req' = [req EXCEPT ![r] = q],
         made \in Nat, made' \in Nat, made <= made', active \in [Sids -> Nat], active' \in [Sids -> Nat],
         \A s \in Sids : active[s] <= active'[s],
         q.sid <= made', \A s \in q.todo : s <= made', q.kind # "scan" => q.todo = {},
         q.kind = "poll" => q.data = q.read,
         q.kind # "expired" => q.data \in Stay!Data /\ q.data.since <= q.data.last /\ q.data.last <= active'[q.sid]
  PROVE  Stay!InHand'
<1>1. req' \in [Requests -> Stay!Handled \cup {Gone}]
  BY DEF Stay!InHand
<1>2. ASSUME NEW p \in Requests, req'[p] # Gone
      PROVE  /\ req'[p].sid <= made' /\ \A s \in req'[p].todo : s <= made'
             /\ req'[p].kind # "scan" => req'[p].todo = {}
             /\ req'[p].kind = "poll" => req'[p].data = req'[p].read
             /\ req'[p].kind # "expired" =>
                  /\ req'[p].data \in Stay!Data /\ req'[p].data.since <= req'[p].data.last
                  /\ req'[p].data.last <= active'[req'[p].sid]
  <2>1. CASE p = r
    <3>1. req'[p] = q
      BY <2>1 DEF Stay!InHand
    <3>2. QED
      BY <3>1
  <2>2. CASE p # r
    <3>1. req'[p] = req[p] /\ req[p] # Gone /\ req[p] \in Stay!Handled
      BY <1>2, <2>2 DEF Stay!InHand
    <3>2. req[p].sid \in Sids /\ req[p].todo \subseteq Sids
      BY <3>1 DEF Stay!Handled
    <3>3. /\ req[p].sid <= made' /\ \A s \in req[p].todo : s <= made'
          /\ req[p].kind # "scan" => req[p].todo = {}
          /\ req[p].kind = "poll" => req[p].data = req[p].read
      <4>1. /\ req[p].sid <= made /\ \A s \in req[p].todo : s <= made
            /\ req[p].kind # "scan" => req[p].todo = {}
            /\ req[p].kind = "poll" => req[p].data = req[p].read
        BY <3>1 DEF Stay!InHand
      <4>2. \A s \in Sids : s \in Nat
        BY SidNumbers
      <4>3. QED
        BY <3>2, <4>1, <4>2
    <3>4. req[p].kind # "expired" =>
             /\ req[p].data \in Stay!Data /\ req[p].data.since <= req[p].data.last
             /\ req[p].data.last <= active'[req[p].sid]
      <4>1. SUFFICES ASSUME req[p].kind # "expired"
                     PROVE  /\ req[p].data \in Stay!Data /\ req[p].data.since <= req[p].data.last
                            /\ req[p].data.last <= active'[req[p].sid]
        OBVIOUS
      <4>2. /\ req[p].data \in Stay!Data /\ req[p].data.since <= req[p].data.last
            /\ req[p].data.last <= active[req[p].sid]
        BY <3>1, <4>1 DEF Stay!InHand
      <4>3. req[p].data.last \in Nat
        BY <4>2 DEF Stay!Data
      <4>4. active[req[p].sid] \in Nat /\ active'[req[p].sid] \in Nat /\ active[req[p].sid] <= active'[req[p].sid]
        BY <3>2
      <4>5. QED
        BY <4>2, <4>3, <4>4
    <3>5. QED
      BY <3>1, <3>3, <3>4
  <2>3. QED
    BY <2>1, <2>2
<1>3. QED
  BY <1>1, <1>2 DEF Stay!InHand

\* A request is answered.
LEMMA InHandGone ==
  ASSUME Stay!InHand, NEW r \in Requests, req' = [req EXCEPT ![r] = Gone], UNCHANGED <<made, active>>
  PROVE  Stay!InHand'
BY DEF Stay!InHand

\* A person's activity, now: the sessions' times are as late as they were, or later.
LEMMA ActiveNow ==
  ASSUME Stay!Stored, NEW s \in Sids, active' = [active EXCEPT ![s] = now] \/ active' = active
  PROVE  /\ active' \in [Sids -> Nat] /\ \A t \in Sids : active[t] <= active'[t] /\ active'[t] <= now
<1>1. now \in Nat /\ active \in [Sids -> Nat] /\ \A t \in Sids : active[t] <= now
  BY SessionsAssumption DEF Stay!Stored
<1>2. QED
  BY <1>1

\* A stored session is a record of its times.
LEMMA StoredData ==
  ASSUME Stay!Stored, NEW s \in Sids, store[s] # Gone
  PROVE  /\ store[s] \in Stay!Data /\ s <= made /\ store[s].since \in Nat /\ store[s].last \in Nat
         /\ store[s].since <= store[s].last /\ store[s].last <= active[s] /\ active[s] <= now
BY DEF Stay!Stored, Stay!Data

\* A request reads its session.
LEMMA BeginsStays ==
  ASSUME Stay!StayInv, NEW r \in Requests, NEW s \in Sids, NEW kind \in {"page", "poll", "logout", "change", "kick"},
         Stay!Begins(r, s, kind)
  PROVE  Stay!StayInv'
<1> USE DEF Stay!StayInv
<1> DEFINE data == store[s]
           q == IF Stay!Lives(data)
                THEN [kind |-> kind, sid |-> s, read |-> data, data |-> Stay!Touched(data, kind # "poll"),
                      todo |-> {}]
                ELSE [kind |-> "expired", sid |-> s, read |-> data, data |-> Gone, todo |-> {}]
<1>1. /\ req[r] = Gone /\ data # Gone /\ req' = [req EXCEPT ![r] = q]
      /\ active' = IF kind # "poll" /\ Stay!Lives(data) THEN [active EXCEPT ![s] = now] ELSE active
      /\ UNCHANGED <<now, store, made, ended, late>>
  BY Zenon DEF Stay!Begins
<1>2. /\ data \in Stay!Data /\ s <= made /\ data.since <= data.last /\ data.last <= active[s] /\ active[s] <= now
      /\ data.since \in Nat /\ data.last \in Nat /\ now \in Nat /\ active[s] \in Nat
  <2>1. now \in Nat /\ active[s] \in Nat
    BY SessionsAssumption DEF Stay!Stored
  <2>2. QED
    BY <1>1, <2>1, StoredData
<1>3. active' \in [Sids -> Nat] /\ \A t \in Sids : active[t] <= active'[t] /\ active'[t] <= now
  BY <1>1, ActiveNow
<1> DEFINE touched == Stay!Touched(data, kind # "poll")
<1>4. /\ touched \in Stay!Data /\ touched.since = data.since /\ touched.last \in {data.last, now}
      /\ kind = "poll" => touched = data
      /\ kind # "poll" => touched.last = now
  BY <1>2 DEF Stay!Touched, Stay!Data
<1> HIDE DEF data, touched
<1>5. /\ q \in Stay!Handled /\ q.sid = s /\ q.todo = {} /\ q.kind \in {kind, "expired"}
      /\ q.kind # "expired" => Stay!Lives(data) /\ q.data = touched /\ q.read = data
  <2>1. CASE Stay!Lives(data)
    BY <1>2, <1>4, <2>1 DEF Stay!Handled, Stay!Kinds, touched
  <2>2. CASE ~Stay!Lives(data)
    BY <1>2, <2>2 DEF Stay!Handled, Stay!Kinds
  <2>3. QED
    BY <2>1, <2>2
<1> HIDE DEF q
<1>6. q.kind # "expired" => q.data \in Stay!Data /\ q.data.since <= q.data.last /\ q.data.last <= active'[q.sid]
  <2> SUFFICES ASSUME q.kind # "expired"
               PROVE  touched.since <= touched.last /\ touched.last <= active'[s]
    BY <1>4, <1>5
  <2>1. CASE kind = "poll"
    BY <1>1, <1>2, <1>3, <1>4, <2>1
  <2>2. CASE kind # "poll"
    <3>1. active' = [active EXCEPT ![s] = now] /\ active \in [Sids -> Nat]
      BY <1>1, <1>5, <2>2 DEF Stay!Stored
    <3>2. active'[s] = now
      BY <3>1
    <3>3. QED
      BY <1>2, <1>4, <2>2, <3>2
  <2>3. QED
    BY <2>1, <2>2
<1>7. made \in Nat
  BY SidNumbers DEF Stay!Stored
<1>8. Stay!InHand'
  <2>1. active \in [Sids -> Nat] /\ made' \in Nat /\ made <= made' /\ \A t \in Sids : active[t] <= active'[t]
    BY <1>1, <1>3, <1>7 DEF Stay!Stored
  <2>2. q \in Stay!Handled /\ q.sid <= made' /\ (\A t \in q.todo : t <= made') /\ (q.kind # "scan" => q.todo = {})
    BY <1>1, <1>2, <1>5
  <2>3. q.kind = "poll" => q.data = q.read
    BY <1>4, <1>5
  <2>4. active' \in [Sids -> Nat] /\ req' = [req EXCEPT ![r] = q] /\ Stay!InHand
    BY <1>1, <1>3
  <2>5. QED
    BY <1>6, <1>7, <2>1, <2>2, <2>3, <2>4, InHandOne
<1>9. Stay!Stored'
  <2>1. ASSUME NEW t \in Sids, store[t] # Gone PROVE store[t].last <= active'[t]
    <3>1. store[t].last \in Nat /\ store[t].last <= active[t]
      BY <2>1, StoredData
    <3>2. active[t] \in Nat /\ active'[t] \in Nat
      BY <1>3 DEF Stay!Stored
    <3>3. QED
      BY <1>3, <3>1, <3>2
  <2>2. QED
    BY <1>1, <1>3, <2>1 DEF Stay!Stored
<1>10. Stay!EndedMade'
  BY <1>1 DEF Stay!EndedMade
<1>11. Stay!EndedStays'
  <2>1. \A p \in Requests : req[p] # Gone => req'[p] = req[p]
    BY <1>1 DEF Stay!InHand
  <2>2. ASSUME NEW t \in ended, store[t] # Gone
        PROVE  t \in late \/ \E p \in Requests : req'[p] # Gone /\ t \in req'[p].todo
    BY <2>1, <2>2 DEF Stay!EndedStays
  <2>3. QED
    BY <1>1, <2>2 DEF Stay!EndedStays
<1>12. QED
  BY <1>8, <1>9, <1>10, <1>11

\* One session is stored or deleted, at a time that is not later than what a person did in it.
LEMMA StoredOne ==
  ASSUME Stay!Stored, NEW s \in Sids, NEW d \in Stay!Data \cup {Gone}, store' = [store EXCEPT ![s] = d],
         made' \in 0..Stay!Cardinality(Sids), made <= made', UNCHANGED now,
         active' \in [Sids -> Nat], \A t \in Sids : active[t] <= active'[t] /\ active'[t] <= now,
         d # Gone => s <= made' /\ d.since <= d.last /\ d.last <= active'[s]
  PROVE  Stay!Stored'
<1>1. /\ now' \in 0..MaxTime /\ store' \in [Sids -> Stay!Data \cup {Gone}] /\ \A t \in Sids : active'[t] <= now'
  BY DEF Stay!Stored
<1>2. ASSUME NEW t \in Sids, store'[t] # Gone
      PROVE  t <= made' /\ store'[t].since <= store'[t].last /\ store'[t].last <= active'[t]
  <2>1. CASE t = s
    <3>1. store'[t] = d
      BY <2>1 DEF Stay!Stored
    <3>2. QED
      BY <1>2, <2>1, <3>1
  <2>2. CASE t # s
    <3>1. store'[t] = store[t] /\ store[t] # Gone
      BY <1>2, <2>2 DEF Stay!Stored
    <3>2. t <= made /\ store[t].since <= store[t].last /\ store[t].last <= active[t] /\ store[t].last \in Nat
      BY <3>1, StoredData
    <3>3. active[t] \in Nat /\ active'[t] \in Nat /\ active[t] <= active'[t]
      BY DEF Stay!Stored
    <3>4. t \in Nat /\ made \in Nat /\ made' \in Nat
      BY SidNumbers DEF Stay!Stored
    <3>5. QED
      BY <3>1, <3>2, <3>3, <3>4
  <2>3. QED
    BY <2>1, <2>2
<1>3. QED
  BY <1>1, <1>2 DEF Stay!Stored

\* A request that ends stores its session, or deletes it; one that has been ended it stores only when it is noted.
LEMMA SavesStays ==
  ASSUME Stay!StayInv, NEW r \in Requests, req[r] # Gone, NEW d \in Stay!Data \cup {Gone},
         store' = store \/ store' = [store EXCEPT ![req[r].sid] = d],
         d # Gone => d = req[r].data /\ req[r].kind # "expired",
         req[r].todo = {}, req' = [req EXCEPT ![r] = Gone],
         late \subseteq late', store' # store /\ d # Gone /\ req[r].sid \in ended => req[r].sid \in late',
         UNCHANGED <<now, made, active, ended>>
  PROVE  Stay!StayInv'
<1> USE DEF Stay!StayInv
<1>1. req[r].sid \in Sids /\ req[r].sid <= made
  BY DEF Stay!InHand, Stay!Handled
<1>2. Stay!Stored'
  <2>1. CASE store' = store
    BY <2>1 DEF Stay!Stored
  <2>2. CASE store' = [store EXCEPT ![req[r].sid] = d]
    <3>1. d # Gone => req[r].sid <= made' /\ d.since <= d.last /\ d.last <= active'[req[r].sid]
      BY <1>1 DEF Stay!InHand
    <3>2. /\ made' \in 0..Stay!Cardinality(Sids) /\ made <= made' /\ active' \in [Sids -> Nat]
          /\ \A t \in Sids : active[t] <= active'[t] /\ active'[t] <= now
      BY SidNumbers DEF Stay!Stored
    <3>3. QED
      BY <1>1, <2>2, <3>1, <3>2, StoredOne
  <2>3. QED
    BY <2>1, <2>2
<1>3. Stay!InHand'
  BY InHandGone
<1>4. Stay!EndedMade'
  BY DEF Stay!EndedMade
<1>5. Stay!EndedStays'
  <2> SUFFICES ASSUME NEW s \in ended, store'[s] # Gone
               PROVE  s \in late' \/ \E p \in Requests : req'[p] # Gone /\ s \in req'[p].todo
    BY DEF Stay!EndedStays
  <2>1. s \in Sids
    BY DEF Stay!EndedMade
  <2>2. CASE store'[s] # store[s]
    <3>1. s = req[r].sid /\ d # Gone /\ store' # store
      BY <2>1, <2>2 DEF Stay!Stored
    <3>2. QED
      BY <3>1
  <2>3. CASE store'[s] = store[s]
    <3>1. s \in late \/ \E p \in Requests : req[p] # Gone /\ s \in req[p].todo
      BY <2>3 DEF Stay!EndedStays
    <3>2. \A p \in Requests : req[p] # Gone /\ s \in req[p].todo => req'[p] = req[p]
      BY DEF Stay!InHand
    <3>3. QED
      BY <3>1, <3>2
  <2>4. QED
    BY <2>2, <2>3
<1>6. QED
  BY <1>2, <1>3, <1>4, <1>5

\* The answer: a poll changed nothing, a page's session is stored, what was signed out or has run out is deleted.
LEMMA AnswersStays == ASSUME Stay!StayInv, NEW r \in Requests, Stay!Answers(r) PROVE Stay!StayInv'
<1> USE DEF Stay!StayInv
<1> DEFINE d == IF req[r].kind \in {"logout", "expired"} THEN Gone ELSE req[r].data
<1>1. /\ req[r] # Gone /\ req[r].kind \in {"page", "poll", "logout", "expired"}
      /\ store' = IF req[r].kind = "poll" /\ d = req[r].read THEN store ELSE [store EXCEPT ![req[r].sid] = d]
      /\ late' = IF req[r].sid \in ended /\ req[r].kind = "page" THEN late \cup {req[r].sid} ELSE late
      /\ req' = [req EXCEPT ![r] = Gone] /\ UNCHANGED <<now, made, active, ended>>
  BY DEF Stay!Answers, Stay!Saves
<1>2. d \in Stay!Data \cup {Gone} /\ req[r].todo = {}
  BY <1>1 DEF Stay!InHand
<1>3. req[r].kind = "poll" => store' = store
  BY <1>1 DEF Stay!InHand
<1>4. d # Gone => d = req[r].data /\ req[r].kind \in {"page", "poll"}
  BY <1>1
<1> HIDE DEF d
<1>5. /\ store' = store \/ store' = [store EXCEPT ![req[r].sid] = d]
      /\ d # Gone => d = req[r].data /\ req[r].kind # "expired"
      /\ late \subseteq late' /\ (store' # store /\ d # Gone /\ req[r].sid \in ended => req[r].sid \in late')
  BY <1>1, <1>3, <1>4
<1>6. QED
  BY <1>1, <1>2, <1>5, SavesStays

\* The scan is done: its request's own session is stored, and noted when another scan was to end it.
LEMMA ScannedStays == ASSUME Stay!StayInv, NEW r \in Requests, Stay!Scanned(r) PROVE Stay!StayInv'
<1> USE DEF Stay!StayInv
<1> DEFINE d == req[r].data
<1>1. /\ req[r] # Gone /\ req[r].kind = "scan" /\ req[r].todo = {}
      /\ store' = [store EXCEPT ![req[r].sid] = d]
      /\ late' = IF req[r].sid \in ended THEN late \cup {req[r].sid} ELSE late
      /\ req' = [req EXCEPT ![r] = Gone] /\ UNCHANGED <<now, made, active, ended>>
  BY DEF Stay!Scanned, Stay!Saves
<1>2. d \in Stay!Data
  BY <1>1 DEF Stay!InHand
<1>3. /\ d # Gone => d = req[r].data /\ req[r].kind # "expired"
      /\ late \subseteq late' /\ (store' # store /\ d # Gone /\ req[r].sid \in ended => req[r].sid \in late')
  BY <1>1
<1> HIDE DEF d
<1>4. QED
  BY <1>1, <1>2, <1>3, SavesStays

\* A new id is none of those that were made.
LEMMA NewSidIsNew ==
  ASSUME Stay!StayInv, Stay!NewSid \in Sids
  PROVE  /\ Stay!NewSid \in 0..Stay!Cardinality(Sids) /\ made \in Nat /\ made <= Stay!NewSid /\ ~(Stay!NewSid <= made)
         /\ store[Stay!NewSid] = Gone /\ Stay!NewSid \notin ended /\ now \in Nat
<1>1. made \in Nat /\ Stay!NewSid = made + 1 /\ ~(Stay!NewSid <= made) /\ made <= Stay!NewSid
  BY SidNumbers DEF Stay!StayInv, Stay!Stored, Stay!NewSid
<1>2. Stay!NewSid \in 0..Stay!Cardinality(Sids)
  BY SidNumbers
<1>3. store[Stay!NewSid] = Gone
  BY <1>1 DEF Stay!StayInv, Stay!Stored
<1>4. Stay!NewSid \notin ended
  BY <1>1 DEF Stay!StayInv, Stay!EndedMade
<1>5. now \in Nat
  BY SessionsAssumption DEF Stay!StayInv, Stay!Stored
<1>6. QED
  BY <1>1, <1>2, <1>3, <1>4, <1>5

\* What the requests have in hand stays as good when only times and the number of ids grow.
LEMMA InHandSame ==
  ASSUME Stay!InHand, UNCHANGED req, made \in Nat, made' \in Nat, made <= made',
         active \in [Sids -> Nat], active' \in [Sids -> Nat], \A s \in Sids : active[s] <= active'[s]
  PROVE  Stay!InHand'
<1>1. ASSUME NEW p \in Requests, req[p] # Gone
      PROVE  /\ req[p].sid <= made' /\ \A s \in req[p].todo : s <= made'
             /\ req[p].kind # "expired" => req[p].data.last <= active'[req[p].sid]
  <2>1. req[p].sid \in Sids /\ req[p].todo \subseteq Sids /\ \A s \in Sids : s \in Nat
    BY <1>1, SidNumbers DEF Stay!InHand, Stay!Handled
  <2>2. req[p].sid <= made /\ \A s \in req[p].todo : s <= made
    BY <1>1 DEF Stay!InHand
  <2>3. ASSUME req[p].kind # "expired" PROVE req[p].data.last <= active'[req[p].sid]
    <3>1. req[p].data \in Stay!Data /\ req[p].data.last <= active[req[p].sid]
      BY <1>1, <2>3 DEF Stay!InHand
    <3>2. req[p].data.last \in Nat
      BY <3>1 DEF Stay!Data
    <3>3. active[req[p].sid] \in Nat /\ active'[req[p].sid] \in Nat /\ active[req[p].sid] <= active'[req[p].sid]
      BY <2>1
    <3>4. QED
      BY <3>1, <3>2, <3>3
  <2>4. QED
    BY <2>1, <2>2, <2>3
<1>2. QED
  BY <1>1 DEF Stay!InHand

\* A sign-in starts a session of its own.
LEMMA SignsInStays == ASSUME Stay!StayInv, NEW u \in People, Stay!SignsIn(u) PROVE Stay!StayInv'
<1> DEFINE new == Stay!NewSid
           d == [user |-> u, since |-> now, last |-> now]
<1>1. /\ new \in Sids /\ made' = new /\ store' = [store EXCEPT ![new] = d] /\ active' = [active EXCEPT ![new] = now]
      /\ UNCHANGED <<now, req, ended, late>>
  BY DEF Stay!SignsIn
<1>2. /\ new \in 0..Stay!Cardinality(Sids) /\ made \in Nat /\ made <= new /\ store[new] = Gone /\ new \notin ended
      /\ now \in Nat
  BY <1>1, NewSidIsNew
<1>3. d \in Stay!Data /\ d.since = now /\ d.last = now
  BY <1>2 DEF Stay!Data
<1> HIDE DEF new, d
<1> USE DEF Stay!StayInv
<1>4. active' \in [Sids -> Nat] /\ \A t \in Sids : active[t] <= active'[t] /\ active'[t] <= now
  BY <1>1, ActiveNow
<1>5. active'[new] = now
  BY <1>1 DEF Stay!Stored
<1>6. Stay!Stored'
  <2>1. /\ d \in Stay!Data \cup {Gone} /\ made' \in 0..Stay!Cardinality(Sids) /\ made <= made' /\ UNCHANGED now
        /\ d # Gone => new <= made' /\ d.since <= d.last /\ d.last <= active'[new]
    BY <1>1, <1>2, <1>3, <1>5, SidNumbers
  <2>2. QED
    BY <1>1, <1>4, <2>1, StoredOne
<1>7. Stay!InHand'
  <2>1. made' \in Nat /\ made <= made' /\ active \in [Sids -> Nat] /\ \A t \in Sids : active[t] <= active'[t]
    BY <1>1, <1>2, <1>4 DEF Stay!Stored
  <2>2. QED
    BY <1>1, <1>2, <1>4, <2>1, InHandSame
<1>8. Stay!EndedMade'
  <2>1. \A s \in ended : s \in Nat
    BY SidNumbers DEF Stay!EndedMade
  <2>2. QED
    BY <1>1, <1>2, <2>1 DEF Stay!EndedMade
<1>9. Stay!EndedStays'
  <2>1. \A s \in ended : store'[s] = store[s]
    BY <1>1, <1>2 DEF Stay!Stored, Stay!EndedMade
  <2>2. QED
    BY <1>1, <2>1 DEF Stay!EndedStays
<1>10. QED
  BY <1>6, <1>7, <1>8, <1>9

\* What a scan has to end is added to what was; the session under the new id is none of it.
LEMMA EndedMore ==
  ASSUME Stay!StayInv, NEW u \in People, NEW r \in Requests, NEW q \in Stay!Handled, req[r] # Gone, req[r].todo = {},
         req' = [req EXCEPT ![r] = q], NEW keep \in SUBSET Sids, q.todo = Stay!OfUser(u) \ keep,
         NEW gone \in SUBSET Sids, keep \subseteq gone, \A s \in gone : store'[s] = Gone,
         \A s \in Sids \ gone : store'[s] = store[s],
         NEW new \in Sids, ended' = ended \cup Stay!OfUser(u) \/ ended' = ended \cup (Stay!OfUser(u) \ {new}),
         made' \in Nat, made <= made', UNCHANGED late
  PROVE  Stay!EndedMade' /\ Stay!EndedStays'
<1> USE DEF Stay!StayInv
<1>1. /\ Stay!OfUser(u) \subseteq Sids /\ \A s \in Stay!OfUser(u) : s <= made
  BY DEF Stay!OfUser, Stay!Stored
<1>2. ended' \subseteq ended \cup Stay!OfUser(u)
  OBVIOUS
<1>3. Stay!EndedMade'
  <2>1. made \in Nat /\ \A s \in Sids : s \in Nat
    BY SidNumbers DEF Stay!Stored
  <2>2. QED
    BY <1>1, <1>2, <2>1 DEF Stay!EndedMade
<1>4. Stay!EndedStays'
  <2> SUFFICES ASSUME NEW s \in ended', store'[s] # Gone
               PROVE  s \in late \/ \E p \in Requests : req'[p] # Gone /\ s \in req'[p].todo
    BY DEF Stay!EndedStays
  <2>1. s \in Sids /\ s \notin gone /\ store[s] # Gone
    BY <1>3 DEF Stay!EndedMade
  <2>2. req'[r] = q /\ q # Gone
    BY GoneAssumption DEF Stay!InHand
  <2>3. CASE s \in Stay!OfUser(u)
    BY <2>1, <2>2, <2>3
  <2>4. CASE s \in ended
    <3>1. s \in late \/ \E p \in Requests : req[p] # Gone /\ s \in req[p].todo
      BY <2>1, <2>4 DEF Stay!EndedStays
    <3>2. \A p \in Requests : req[p] # Gone /\ s \in req[p].todo => req'[p] = req[p]
      BY DEF Stay!InHand
    <3>3. QED
      BY <3>1, <3>2
  <2>5. QED
    BY <1>2, <2>3, <2>4
<1>5. QED
  BY <1>3, <1>4

\* After a password change, or an admin's Terminate: the scan begins.  What the changed request then stores is
\* under a new id.
LEMMA ScansStays == ASSUME Stay!StayInv, NEW r \in Requests, NEW u \in People, Stay!Scans(r, u) PROVE Stay!StayInv'
<1> DEFINE old == req[r].sid
           new == Stay!NewSid
<1>1. req[r] # Gone /\ req[r] \in Stay!Handled /\ old \in Sids /\ old <= made
  BY DEF Stay!Scans, Stay!StayInv, Stay!InHand, Stay!Handled
<1>2. /\ Stay!Stored /\ Stay!InHand /\ active \in [Sids -> Nat] /\ made \in Nat /\ now \in Nat
      /\ Stay!OfUser(u) \subseteq Sids /\ \A s \in Stay!OfUser(u) : s <= made
  BY SidNumbers, SessionsAssumption DEF Stay!StayInv, Stay!Stored, Stay!OfUser
<1>3. CASE req[r].kind = "change"
  <2> DEFINE q == [req[r] EXCEPT !.kind = "scan", !.sid = new, !.read = Gone, !.todo = Stay!ToEnd(u, {old})]
  <2>1. /\ new \in Sids /\ made' = new /\ store' = [store EXCEPT ![old] = Gone]
        /\ active' = [active EXCEPT ![new] = now] /\ req' = [req EXCEPT ![r] = q]
        /\ ended' = ended \cup (Stay!OfUser(u) \ {new}) /\ UNCHANGED <<now, late>>
    BY <1>3 DEF Stay!Scans
  <2>2. /\ new \in 0..Stay!Cardinality(Sids) /\ made <= new /\ made' \in Nat
    BY <2>1, NewSidIsNew
  <2>3. /\ active' \in [Sids -> Nat] /\ (\A t \in Sids : active[t] <= active'[t] /\ active'[t] <= now)
        /\ active'[new] = now
    BY <1>2, <2>1, ActiveNow
  <2>4. /\ req[r].data \in Stay!Data /\ req[r].data.since <= req[r].data.last /\ req[r].data.last <= active[old]
        /\ req[r].todo = {} /\ active[old] <= now
    BY <1>1, <1>2, <1>3 DEF Stay!InHand, Stay!Stored
  <2>5. /\ q \in Stay!Handled /\ q.kind = "scan" /\ q.sid = new /\ q.data = req[r].data
        /\ q.todo = Stay!OfUser(u) \ {old}
    BY <1>1, <1>2, <2>1, Zenon DEF Stay!Handled, Stay!Kinds, Stay!ToEnd
  <2> HIDE DEF q, old, new
  <2>6. Stay!InHand'
    <3>1. /\ q.sid <= made' /\ (\A s \in q.todo : s <= made') /\ (q.kind # "scan" => q.todo = {})
          /\ q.kind = "poll" => q.data = q.read
      <4>1. \A s \in Sids : s \in Nat
        BY SidNumbers
      <4>2. q.sid <= made' /\ (q.kind # "scan" => q.todo = {}) /\ (q.kind = "poll" => q.data = q.read)
        BY <2>1, <2>2, <2>5, SidNumbers
      <4>3. ASSUME NEW s \in q.todo PROVE s <= made'
        <5>1. s \in Sids /\ s <= made /\ made \in Nat
          BY <1>2, <2>5, <4>3
        <5>2. QED
          BY <2>1, <2>2, <4>1, <5>1
      <4>4. QED
        BY <4>2, <4>3
    <3>2. q.kind # "expired" => q.data \in Stay!Data /\ q.data.since <= q.data.last /\ q.data.last <= active'[q.sid]
      <4>1. req[r].data.last \in Nat /\ active[old] \in Nat
        BY <1>1, <1>2, <2>4 DEF Stay!Data
      <4>2. QED
        BY <1>2, <2>3, <2>4, <2>5, <4>1
    <3>3. made' \in Nat /\ made <= made' /\ \A s \in Sids : active[s] <= active'[s]
      BY <2>1, <2>2, <2>3
    <3>4. QED
      BY <1>2, <2>1, <2>3, <2>5, <3>1, <3>2, <3>3, InHandOne
  <2>7. Stay!Stored'
    <3>1. made' \in 0..Stay!Cardinality(Sids) /\ made <= made'
      BY <2>1, <2>2
    <3>2. Gone \in Stay!Data \cup {Gone}
      OBVIOUS
    <3>3. QED
      BY <1>1, <1>2, <2>1, <2>3, <3>1, <3>2, StoredOne
  <2>8. Stay!EndedMade' /\ Stay!EndedStays'
    <3> DEFINE gone == {old}
    <3>1. /\ gone \in SUBSET Sids /\ (\A s \in gone : store'[s] = Gone) /\ gone \subseteq gone
          /\ \A s \in Sids \ gone : store'[s] = store[s]
      BY <1>1, <1>2, <2>1 DEF Stay!Stored
    <3>2. made' \in Nat /\ made <= made' /\ UNCHANGED late
      BY <2>1, <2>2
    <3>3. q.todo = Stay!OfUser(u) \ gone
      BY <2>5
    <3> HIDE DEF gone
    <3>4. q \in Stay!Handled /\ req' = [req EXCEPT ![r] = q] /\ req[r] # Gone /\ req[r].todo = {}
      BY <1>1, <2>1, <2>4, <2>5
    <3>5. new \in Sids /\ ended' = ended \cup (Stay!OfUser(u) \ {new})
      BY <2>1
    <3>6. QED
      BY <3>1, <3>2, <3>3, <3>4, <3>5, EndedMore
  <2>9. QED
    BY <2>6, <2>7, <2>8 DEF Stay!StayInv
<1>4. CASE req[r].kind = "kick"
  <2> DEFINE q == [req[r] EXCEPT !.kind = "scan", !.todo = Stay!ToEnd(u, {})]
  <2>1. /\ req' = [req EXCEPT ![r] = q] /\ UNCHANGED <<now, store, made, active, late>>
        /\ ended' = ended \cup Stay!OfUser(u)
    BY <1>4 DEF Stay!Scans
  <2>2. /\ req[r].data \in Stay!Data /\ req[r].data.since <= req[r].data.last /\ req[r].data.last <= active[old]
        /\ req[r].todo = {}
    BY <1>1, <1>2, <1>4 DEF Stay!InHand
  <2>3. /\ q \in Stay!Handled /\ q.kind = "scan" /\ q.sid = old /\ q.data = req[r].data
        /\ q.todo = Stay!OfUser(u) \ {}
    BY <1>1, <1>2, Zenon DEF Stay!Handled, Stay!Kinds, Stay!ToEnd
  <2> HIDE DEF q, old
  <2>4. Stay!InHand'
    <3>1. /\ q.sid <= made' /\ (\A s \in q.todo : s <= made') /\ (q.kind # "scan" => q.todo = {})
          /\ q.kind = "poll" => q.data = q.read
      BY <1>1, <1>2, <2>1, <2>3
    <3>2. q.kind # "expired" => q.data \in Stay!Data /\ q.data.since <= q.data.last /\ q.data.last <= active'[q.sid]
      BY <2>1, <2>2, <2>3
    <3>3. made' \in Nat /\ made <= made' /\ active' \in [Sids -> Nat] /\ \A s \in Sids : active[s] <= active'[s]
      BY <1>2, <2>1
    <3>4. QED
      BY <1>2, <2>1, <2>3, <3>1, <3>2, <3>3, InHandOne
  <2>5. Stay!Stored'
    BY <1>2, <2>1 DEF Stay!Stored
  <2>6. Stay!EndedMade' /\ Stay!EndedStays'
    <3>1. {} \in SUBSET Sids /\ (\A s \in {} : store'[s] = Gone) /\ \A s \in Sids \ {} : store'[s] = store[s]
      BY <2>1
    <3>2. made' \in Nat /\ made <= made' /\ UNCHANGED late
      BY <1>2, <2>1
    <3>3. QED
      BY <1>1, <2>1, <2>2, <2>3, <3>1, <3>2, EndedMore
  <2>7. QED
    BY <2>4, <2>5, <2>6 DEF Stay!StayInv
<1>5. QED
  BY <1>3, <1>4 DEF Stay!Scans

\* One session that a scan had to end is deleted.
LEMMA DeletesStays == ASSUME Stay!StayInv, NEW r \in Requests, NEW s \in Sids, Stay!Deletes(r, s) PROVE Stay!StayInv'
<1> USE DEF Stay!StayInv
<1> DEFINE q == [req[r] EXCEPT !.todo = @ \ {s}]
<1>1. /\ req[r] # Gone /\ req[r].kind = "scan" /\ s \in req[r].todo /\ store' = [store EXCEPT ![s] = Gone]
      /\ late' = late \ {s} /\ req' = [req EXCEPT ![r] = q] /\ UNCHANGED <<now, made, active, ended>>
  BY DEF Stay!Deletes
<1>2. /\ req[r] \in Stay!Handled /\ req[r].sid <= made /\ (\A t \in req[r].todo : t <= made)
      /\ req[r].data \in Stay!Data /\ req[r].data.since <= req[r].data.last /\ req[r].data.last <= active[req[r].sid]
  BY <1>1 DEF Stay!InHand
<1>3. /\ q \in Stay!Handled /\ q.kind = "scan" /\ q.sid = req[r].sid /\ q.data = req[r].data
      /\ q.todo = req[r].todo \ {s}
  BY <1>1, <1>2, Zenon DEF Stay!Handled, Stay!Kinds
<1> HIDE DEF q
<1>4. made \in Nat /\ active \in [Sids -> Nat] /\ \A t \in Sids : active[t] <= now /\ active[t] <= active[t]
  BY SidNumbers DEF Stay!Stored
<1>5. Stay!InHand'
  <2>1. /\ q.sid <= made' /\ (\A t \in q.todo : t <= made') /\ (q.kind # "scan" => q.todo = {})
        /\ q.kind = "poll" => q.data = q.read
    BY <1>1, <1>2, <1>3
  <2>2. q.kind # "expired" => q.data \in Stay!Data /\ q.data.since <= q.data.last /\ q.data.last <= active'[q.sid]
    BY <1>1, <1>2, <1>3
  <2>3. made' \in Nat /\ made <= made' /\ active' \in [Sids -> Nat] /\ \A t \in Sids : active[t] <= active'[t]
    BY <1>1, <1>4
  <2>4. QED
    BY <1>1, <1>3, <1>4, <2>1, <2>2, <2>3, InHandOne
<1>6. Stay!Stored'
  BY <1>1 DEF Stay!Stored
<1>7. Stay!EndedMade'
  BY <1>1 DEF Stay!EndedMade
<1>8. Stay!EndedStays'
  <2> SUFFICES ASSUME NEW t \in ended, store'[t] # Gone
               PROVE  t \in late' \/ \E p \in Requests : req'[p] # Gone /\ t \in req'[p].todo
    BY <1>1 DEF Stay!EndedStays
  <2>1. t # s /\ store[t] # Gone
    BY <1>1 DEF Stay!Stored, Stay!EndedMade
  <2>2. CASE t \in late
    BY <1>1, <2>1, <2>2
  <2>3. ASSUME NEW p \in Requests, req[p] # Gone, t \in req[p].todo PROVE req'[p] # Gone /\ t \in req'[p].todo
    <3>1. CASE p = r
      <4>1. req'[p] = q /\ q # Gone
        BY <1>1, <1>3, <3>1, GoneAssumption DEF Stay!InHand
      <4>2. QED
        BY <1>3, <2>1, <2>3, <3>1, <4>1
    <3>2. CASE p # r
      BY <1>1, <2>3, <3>2 DEF Stay!InHand
    <3>3. QED
      BY <3>1, <3>2
  <2>4. QED
    BY <2>1, <2>2, <2>3 DEF Stay!EndedStays
<1>9. QED
  BY <1>5, <1>6, <1>7, <1>8

\* Every start signs everyone out.
LEMMA RestartStays == ASSUME Stay!StayInv, Stay!Restart PROVE Stay!StayInv'
BY DEF Stay!Restart, Stay!StayInv, Stay!Stored, Stay!InHand, Stay!EndedMade, Stay!EndedStays

\* Time goes on.
LEMMA TickStays == ASSUME Stay!StayInv, Stay!Tick PROVE Stay!StayInv'
<1> USE DEF Stay!StayInv
<1>1. now < MaxTime /\ now' = now + 1 /\ UNCHANGED <<store, made, req, active, ended, late>>
  BY DEF Stay!Tick
<1>2. Stay!Stored'
  <2>1. now \in 0..MaxTime /\ MaxTime \in Nat
    BY SessionsAssumption DEF Stay!Stored
  <2>2. \A s \in Sids : active[s] \in Nat /\ active[s] <= now
    BY DEF Stay!Stored
  <2>3. now' \in 0..MaxTime /\ \A s \in Sids : active[s] <= now'
    BY <1>1, <2>1, <2>2
  <2>4. QED
    BY <1>1, <2>3 DEF Stay!Stored
<1>3. Stay!InHand' /\ Stay!EndedMade' /\ Stay!EndedStays'
  BY <1>1 DEF Stay!InHand, Stay!EndedMade, Stay!EndedStays
<1>4. QED
  BY <1>2, <1>3

\* Every step of the sessions keeps the invariant.
LEMMA StayNext == ASSUME Stay!StayInv, Stay!Next PROVE Stay!StayInv'
BY BeginsStays, AnswersStays, ScannedStays, ScansStays, DeletesStays, SignsInStays, RestartStays, TickStays
   DEF Stay!Next

\* A step that changes nothing of it keeps it too.
LEMMA StayFrame == ASSUME Stay!StayInv, UNCHANGED <<now, req, stayVars>> PROVE Stay!StayInv'
BY DEF stayVars, Stay!StayInv, Stay!Stored, Stay!InHand, Stay!EndedMade, Stay!EndedStays

\* A stored session's clocks have not run ahead.
LEMMA StayStates == ASSUME Stay!StayInv PROVE Stay!TypeOK /\ Stay!EndedStays
<1> USE DEF Stay!StayInv
<1>1. ASSUME NEW s \in Sids, store[s] # Gone
      PROVE  s <= made /\ store[s].user \in People /\ store[s].since <= store[s].last /\ store[s].last <= now
  <2>1. now \in Nat /\ active[s] \in Nat
    BY SessionsAssumption DEF Stay!Stored
  <2>2. QED
    BY <1>1, <2>1, StoredData DEF Stay!Data
<1>2. QED
  BY <1>1 DEF Stay!TypeOK, Stay!Stored

\* A request that begins is within both limits: what is stored of its session's activity is not later than it was.
LEMMA StaySteps == ASSUME Stay!StayInv, Stay!Next PROVE Stay!ServedInTime
<1> USE DEF Stay!StayInv
<1> SUFFICES ASSUME NEW r \in Requests, req[r] = Gone, req'[r] # Gone, req'[r].kind # "expired"
             PROVE  active[req'[r].sid] + IdleLimit > now /\ req'[r].read.since + Absolute > now
  BY DEF Stay!ServedInTime
<1>1. PICK p \in Requests, s \in Sids, kind \in {"page", "poll", "logout", "change", "kick"} : Stay!Begins(p, s, kind)
  <2>1. ASSUME NEW p \in Requests,
               \/ Stay!Answers(p) \/ Stay!Scanned(p) \/ \E u \in People : Stay!Scans(p, u)
               \/ \E s \in Sids : Stay!Deletes(p, s)
        PROVE  FALSE
    <3>1. req[p] # Gone /\ \A t \in Requests \ {p} : req'[t] = req[t]
      BY <2>1 DEF Stay!Answers, Stay!Scanned, Stay!Scans, Stay!Deletes, Stay!InHand
    <3>2. QED
      BY <3>1
  <2>2. ~Stay!Restart /\ ~Stay!Tick /\ ~\E u \in People : Stay!SignsIn(u)
    BY DEF Stay!Restart, Stay!Tick, Stay!SignsIn
  <2>3. QED
    BY <2>1, <2>2 DEF Stay!Next
<1>2. p = r
  BY <1>1 DEF Stay!Begins, Stay!InHand
<1>3. store[s] # Gone
  BY <1>1 DEF Stay!Begins
<1>4. Stay!Lives(store[s]) /\ req'[r].sid = s /\ req'[r].read = store[s]
  <2>1. CASE Stay!Lives(store[s])
    BY <1>1, <1>2, <2>1 DEF Stay!Begins, Stay!InHand
  <2>2. CASE ~Stay!Lives(store[s])
    BY <1>1, <1>2, <2>2 DEF Stay!Begins, Stay!InHand
  <2>3. QED
    BY <2>1, <2>2
<1>5. /\ store[s].last \in Nat /\ active[s] \in Nat /\ now \in Nat /\ IdleLimit \in Nat
      /\ store[s].last <= active[s] /\ store[s].last + IdleLimit > now /\ store[s].since + Absolute > now
  BY <1>3, <1>4, StoredData, SessionsAssumption DEF Stay!Lives, Stay!IdleLeft, Stay!AbsoluteLeft, Stay!Stored
<1>6. QED
  BY <1>4, <1>5

\* A session that Sign out everywhere ended stays ended, but for requests that were being handled, and nobody is
\* served beyond either limit: for any people, sessions, limits and overlapping requests.
THEOREM SessionsKept == Spec => SessionsSafe
<1> DEFINE Inv == part = "sessions" => Stay!StayInv
<1>1. Init => Inv
  BY StayInit DEF Init
<1>2. Inv /\ [Next]_vars => Inv'
  <2> SUFFICES ASSUME Inv, [Next]_vars, part' = "sessions" PROVE Stay!StayInv'
    OBVIOUS
  <2>1. CASE Next
    <3>1. part = "sessions" /\ Stay!Next
      BY <2>1 DEF Next
    <3>2. QED
      BY <3>1, StayNext
  <2>2. CASE UNCHANGED vars
    <3>1. part = "sessions" /\ UNCHANGED <<now, req, stayVars>>
      BY <2>2 DEF vars
    <3>2. QED
      BY <3>1, StayFrame
  <2>3. QED
    BY <2>1, <2>2
<1>3. Inv => (part = "sessions" => Stay!TypeOK /\ Stay!EndedStays)
  BY StayStates
<1>4. Inv /\ [Next]_vars => [part = "sessions" => Stay!ServedInTime]_vars
  BY StaySteps DEF Next
<1>5. QED
  BY <1>1, <1>2, <1>3, <1>4, PTL DEF Spec, SessionsSafe

(***************************************************************************)
(* Signing in: what counts, and what it takes.                             *)
(***************************************************************************)

\* Sets of browsers are finite: one fewer is one less, and a part of them is not more than all.
LEMMA BrowserSets ==
  ASSUME NEW S \in SUBSET Browsers
  PROVE  /\ Door!Cardinality(S) \in Nat /\ Door!Cardinality(S) <= Door!Cardinality(Browsers)
         /\ \A b \in S : Door!Cardinality(S) = Door!Cardinality(S \ {b}) + 1
         /\ \A T \in SUBSET S : Door!Cardinality(T) \in Nat /\ Door!Cardinality(T) <= Door!Cardinality(S)
<1>1. ASSUME NEW T PROVE Door!Cardinality(T) = Cardinality(T)
  BY DEF Door!Cardinality, Cardinality
<1>2. IsFiniteSet(Browsers) /\ IsFiniteSet(S)
  BY LimitsAssumption, FS_Subset
<1>3. ASSUME NEW T \in SUBSET S PROVE IsFiniteSet(T) /\ Cardinality(T) \in Nat /\ Cardinality(T) <= Cardinality(S)
  BY <1>2, FS_Subset, FS_CardinalityType
<1>4. Cardinality(S) \in Nat /\ Cardinality(S) <= Cardinality(Browsers)
  BY <1>2, FS_Subset, FS_CardinalityType
<1>5. ASSUME NEW b \in S PROVE Cardinality(S) = Cardinality(S \ {b}) + 1
  <2>1. Cardinality(S \ {b}) = Cardinality(S) - 1
    BY <1>2, FS_RemoveElement
  <2>2. QED
    BY <1>4, <2>1
<1>6. QED
  BY <1>1, <1>3, <1>4, <1>5

\* The limits, and how many browsers there are.
LEMMA Limits ==
  /\ MaxFailed \in Nat /\ DisableAfter \in Nat /\ MaxWrongCodes \in Nat /\ Door!Cardinality(Browsers) \in Nat
  /\ 0 < MaxFailed /\ 0 < DisableAfter /\ 0 < MaxWrongCodes /\ MaxFailed <= DisableAfter
BY LimitsAssumption, BrowserSets

\* What is handled is what its place says.
LEMMA AtPlaces ==
  ASSUME Door!Typed, NEW b \in Browsers
  PROVE  /\ req[b] \in Door!Handled /\ session[b] \in Door!Sessions
         /\ req[b].at = "password" => req[b] \in Door!AtPassword
         /\ req[b].at \in {"failed", "stopping"} => req[b] \in Door!AfterPassword
         /\ req[b].at = "enrolling" => req[b] \in Door!Enrolling
<1>1. req[b] \in Door!Handled /\ session[b] \in Door!Sessions
  BY DEF Door!Typed, Door!Handled
<1>2. CASE req[b] = Door!Idle
  BY <1>1, <1>2 DEF Door!Idle
<1>3. CASE req[b] \in Door!AtPassword
  BY <1>1, <1>3 DEF Door!AtPassword
<1>4. CASE req[b] \in Door!AfterPassword
  BY <1>1, <1>4 DEF Door!AfterPassword
<1>5. CASE req[b] \in Door!Enrolling
  BY <1>1, <1>5 DEF Door!Enrolling
<1>6. QED
  BY <1>1, <1>2, <1>3, <1>4, <1>5 DEF Door!Handled

\* One browser has another session, or another request.
LEMMA HalfWayOne ==
  ASSUME Door!Typed, Door!HalfWay, NEW b \in Browsers, NEW s \in Door!Sessions, NEW q \in Door!Handled,
         session' = [session EXCEPT ![b] = s], req' = [req EXCEPT ![b] = q], UNCHANGED factory,
         acc' \in Door!RowsRead, stop' \in Door!NameStops, wrongs' \in Nat,
         s.codes < MaxWrongCodes, s.pre => ~s.in /\ "password" \in s.proved,
         s.in => "password" \in s.proved /\ (factory \/ "code" \in s.proved),
         q.at = "password" => ~s.in, q.at = "enrolling" => s.pre /\ q.row.otp = None
  PROVE  Door!Typed' /\ Door!HalfWay'
<1>1. session' \in [Browsers -> Door!Sessions] /\ req' \in [Browsers -> Door!Handled] /\ factory' \in BOOLEAN
  BY DEF Door!Typed, Door!Handled
<1>2. Door!Typed'
  BY <1>1 DEF Door!Typed, Door!Handled, Door!NameStops
<1>3. session'[b] = s /\ req'[b] = q
  BY DEF Door!Typed
<1>4. \A a \in Browsers \ {b} : session'[a] = session[a] /\ req'[a] = req[a]
  BY DEF Door!Typed
<1>5. QED
  BY <1>2, <1>3, <1>4, Zenon DEF Door!HalfWay

\* A browser's session, or its request, is what it was.
LEMMA SameOfBrowser ==
  ASSUME Door!Typed, NEW b \in Browsers
  PROVE  session = [session EXCEPT ![b] = session[b]] /\ req = [req EXCEPT ![b] = req[b]]
BY DEF Door!Typed

\* The counts stay within their limits when they are kept or start again.
LEMMA CountsKept ==
  ASSUME Door!Typed, Door!CountsBounded, acc' \in Door!RowsRead, stop' \in Door!NameStops, UNCHANGED factory,
         wrongs' = 0 \/ (wrongs' = wrongs /\ acc'.fails = acc.fails),
         acc'.fails = 0 \/ (acc'.fails = acc.fails /\ (acc'.active => acc.active)),
         stop'.fails = 0 \/ (stop'.fails = stop.fails /\ Door!WillStop \subseteq Door!WillStop'),
         acc.active \/ Door!MayCount' \subseteq Door!MayCount
  PROVE  Door!CountsBounded'
<1>1. /\ Door!MayCount \subseteq Browsers /\ Door!WillStop \subseteq Browsers
      /\ Door!MayCount' \subseteq Browsers /\ Door!WillStop' \subseteq Browsers
  BY DEF Door!MayCount, Door!WillStop
<1> DEFINE may == Door!Cardinality(Door!MayCount)
           may2 == Door!Cardinality(Door!MayCount')
           will == Door!Cardinality(Door!WillStop)
           will2 == Door!Cardinality(Door!WillStop')
           all == Door!Cardinality(Browsers)
<1>2. may \in Nat /\ may2 \in Nat /\ will \in Nat /\ will2 \in Nat /\ all \in Nat
  BY <1>1, BrowserSets
<1>3. /\ Door!MayCount' \subseteq Door!MayCount => may2 <= may
      /\ Door!WillStop \subseteq Door!WillStop' => will <= will2
  BY <1>1, BrowserSets
<1>4. /\ acc.fails \in Nat /\ acc'.fails \in Nat /\ stop.fails \in Nat /\ stop'.fails \in Nat /\ wrongs \in Nat
  BY DEF Door!Typed, Door!RowsRead, Door!NameStops
<1>5. /\ wrongs <= acc.fails /\ (factory => acc.fails < MaxFailed) /\ stop.fails < MaxFailed + will
      /\ acc.fails < DisableAfter \/ (~acc.active /\ acc.fails + may <= DisableAfter + all)
  BY DEF Door!CountsBounded
<1> HIDE DEF may, may2, will, will2, all
<1>6. wrongs' <= acc'.fails
  BY <1>4, <1>5
<1>7. factory' => acc'.fails < MaxFailed
  <2>1. CASE acc'.fails = 0
    BY <2>1, Limits
  <2>2. CASE acc'.fails = acc.fails
    BY <1>5, <2>2
  <2>3. QED
    BY <2>1, <2>2
<1>8. acc'.fails < DisableAfter \/ (~acc'.active /\ acc'.fails + may2 <= DisableAfter + all)
  <2>1. CASE acc'.fails = 0
    BY <2>1, Limits
  <2>2. CASE acc.fails < DisableAfter /\ acc'.fails = acc.fails
    BY <2>2
  <2>3. CASE /\ ~acc.active /\ acc.fails + may <= DisableAfter + all
             /\ acc'.fails = acc.fails /\ (acc'.active => acc.active)
    <3>1. ~acc'.active /\ may2 <= may
      BY <1>3, <2>3
    <3>2. acc'.fails + may2 <= DisableAfter + all
      BY <1>2, <1>4, <2>3, <3>1, Limits
    <3>3. QED
      BY <3>1, <3>2
  <2>4. QED
    BY <1>5, <2>1, <2>2, <2>3
<1>9. stop'.fails < MaxFailed + will2
  BY <1>2, <1>3, <1>4, <1>5, Limits
<1>10. QED
  BY <1>6, <1>7, <1>8, <1>9 DEF Door!CountsBounded, may2, will2, all

\* No failures are counted, no name is stopped, no browser is signed in.
LEMMA DoorInit == ASSUME Door!Init PROVE Door!SignInInv
<1>1. Door!Typed
  <2>1. acc \in Door!RowsRead /\ stop \in Door!NameStops /\ wrongs \in Nat /\ factory \in BOOLEAN
    BY DEF Door!Init, Door!RowsRead, Door!NameStops
  <2>2. Door!Fresh \in Door!Sessions /\ Door!Idle \in Door!Handled
    BY DEF Door!Fresh, Door!Sessions, Door!Proofs, Door!Handled
  <2>3. QED
    BY <2>1, <2>2 DEF Door!Init, Door!Typed
<1>2. Door!CountsBounded
  <2>1. Door!WillStop \subseteq Browsers
    BY DEF Door!WillStop
  <2>2. Door!Cardinality(Door!WillStop) \in Nat
    BY <2>1, BrowserSets
  <2>3. QED
    BY <2>2, Limits DEF Door!Init, Door!CountsBounded
<1>3. Door!HalfWay
  BY Limits DEF Door!Init, Door!HalfWay, Door!Fresh, Door!Idle
<1>4. QED
  BY <1>1, <1>2, <1>3 DEF Door!SignInInv

\* A request that is not about a password, nor about to stop the name, leaves those who are as they were.
LEMMA WhoCounts ==
  ASSUME Door!Typed, NEW b \in Browsers, NEW q, req' = [req EXCEPT ![b] = q]
  PROVE  /\ q.at # "password" => Door!MayCount' \subseteq Door!MayCount \ {b}
         /\ req[b].at # "stopping" => Door!WillStop \subseteq Door!WillStop'
         /\ q.at = "stopping" => Door!WillStop' = Door!WillStop \cup {b}
BY DEF Door!Typed, Door!MayCount, Door!WillStop

\* A name that is stopped is not looked at; else the account's row is read.
LEMMA LoginKeeps ==
  ASSUME Door!SignInInv, NEW b \in Browsers, NEW right \in BOOLEAN, Door!Login(b, right) PROVE Door!SignInInv'
<1> USE DEF Door!SignInInv
<1>1. /\ req[b] = Door!Idle /\ ~session[b].in /\ UNCHANGED <<factory, acc, stop, wrongs>>
      /\ acc \in Door!RowsRead /\ stop \in Door!NameStops /\ wrongs \in Nat
  BY DEF Door!Login, Door!Typed
<1>2. session[b] \in Door!Sessions /\ req[b] \in Door!Handled /\ req[b].at = "idle"
  BY <1>1, AtPlaces DEF Door!Idle
<1>3. CASE stop.held
  <2> DEFINE s == [session[b] EXCEPT !.pre = FALSE]
  <2>1. session' = [session EXCEPT ![b] = s] /\ UNCHANGED req
    BY <1>3 DEF Door!Login
  <2>2. s \in Door!Sessions /\ s.codes = session[b].codes /\ ~s.pre /\ s.in = session[b].in
    BY <1>2, Zenon DEF Door!Sessions
  <2> HIDE DEF s
  <2>3. s.codes < MaxWrongCodes
    BY <2>2 DEF Door!HalfWay
  <2>4. req' = [req EXCEPT ![b] = req[b]]
    BY <2>1, SameOfBrowser
  <2>5. Door!Typed' /\ Door!HalfWay'
    BY <1>1, <1>2, <2>1, <2>2, <2>3, <2>4, HalfWayOne
  <2>6. Door!CountsBounded'
    BY <1>1, <2>1 DEF Door!CountsBounded, Door!MayCount, Door!WillStop
  <2>7. QED
    BY <2>5, <2>6
<1>4. CASE ~stop.held
  <2> DEFINE q == [at |-> "password", right |-> right, row |-> acc]
  <2>1. req' = [req EXCEPT ![b] = q] /\ UNCHANGED session
    BY <1>4 DEF Door!Login
  <2>2. q \in Door!Handled /\ q.at = "password" /\ q.row = acc
    BY <1>1 DEF Door!Handled, Door!AtPassword
  <2> HIDE DEF q
  <2>3. session' = [session EXCEPT ![b] = session[b]]
    BY <2>1, SameOfBrowser
  <2>4. Door!Typed' /\ Door!HalfWay'
    <3>1. /\ session[b].codes < MaxWrongCodes
          /\ session[b].pre => ~session[b].in /\ "password" \in session[b].proved
          /\ session[b].in => "password" \in session[b].proved /\ (factory \/ "code" \in session[b].proved)
      BY DEF Door!HalfWay
    <3>2. QED
      BY <1>1, <1>2, <2>1, <2>2, <2>3, <3>1, HalfWayOne
  <2>5. acc.active \/ Door!MayCount' \subseteq Door!MayCount
    <3> SUFFICES ASSUME NEW c \in Browsers, req'[c].at = "password", req'[c].row.active, ~acc.active
                 PROVE  req[c].at = "password" /\ req[c].row.active
      BY DEF Door!MayCount
    <3>1. c # b
      BY <2>1, <2>2 DEF Door!Typed
    <3>2. QED
      BY <2>1, <3>1 DEF Door!Typed
  <2>6. Door!WillStop \subseteq Door!WillStop'
    BY <1>2, <2>1, WhoCounts
  <2>7. Door!CountsBounded'
    BY <1>1, <2>5, <2>6, CountsKept
  <2>8. QED
    BY <2>4, <2>7
<1>5. QED
  BY <1>3, <1>4

\* One browser's step that counts nothing and is past the password.
LEMMA DoorOne ==
  ASSUME Door!SignInInv, NEW b \in Browsers, NEW s \in Door!Sessions, NEW q \in Door!Handled,
         session' = [session EXCEPT ![b] = s], req' = [req EXCEPT ![b] = q], UNCHANGED factory,
         acc' \in Door!RowsRead, stop' \in Door!NameStops,
         wrongs' = 0 \/ (wrongs' = wrongs /\ acc'.fails = acc.fails),
         acc'.fails = 0 \/ (acc'.fails = acc.fails /\ (acc'.active => acc.active)),
         stop'.fails = 0 \/ (stop'.fails = stop.fails /\ req[b].at # "stopping"),
         s.codes < MaxWrongCodes, s.pre => ~s.in /\ "password" \in s.proved,
         s.in => "password" \in s.proved /\ (factory \/ "code" \in s.proved),
         q.at # "password", q.at = "enrolling" => s.pre /\ q.row.otp = None
  PROVE  Door!SignInInv'
<1>1. wrongs' \in Nat
  BY DEF Door!SignInInv, Door!Typed
<1>2. Door!Typed' /\ Door!HalfWay'
  BY <1>1, HalfWayOne DEF Door!SignInInv
<1>3. /\ Door!MayCount' \subseteq Door!MayCount
      /\ stop'.fails = 0 \/ (stop'.fails = stop.fails /\ Door!WillStop \subseteq Door!WillStop')
  BY WhoCounts DEF Door!SignInInv
<1>4. Door!CountsBounded'
  BY <1>3, CountsKept DEF Door!SignInInv
<1>5. QED
  BY <1>2, <1>4 DEF Door!SignInInv

\* No password is checked while the lock holds.
LEMMA LockedKeeps == ASSUME Door!SignInInv, NEW b \in Browsers, Door!Locked(b) PROVE Door!SignInInv'
<1> USE DEF Door!SignInInv
<1> DEFINE q == [req[b] EXCEPT !.at = "failed"]
<1>1. req[b].at = "password" /\ req' = [req EXCEPT ![b] = q] /\ UNCHANGED <<factory, acc, stop, session, wrongs>>
  BY DEF Door!Locked, Door!Goes
<1>2. req[b] \in Door!AtPassword /\ session[b] \in Door!Sessions
  BY <1>1, AtPlaces
<1>3. q \in Door!Handled /\ q.at = "failed"
  BY <1>2 DEF Door!Handled, Door!AtPassword, Door!AfterPassword
<1> HIDE DEF q
<1>4. session' = [session EXCEPT ![b] = session[b]]
  BY <1>1, SameOfBrowser
<1>5. /\ acc' \in Door!RowsRead /\ stop' \in Door!NameStops /\ session[b].codes < MaxWrongCodes
      /\ session[b].pre => ~session[b].in /\ "password" \in session[b].proved
      /\ session[b].in => "password" \in session[b].proved /\ (factory \/ "code" \in session[b].proved)
  BY <1>1 DEF Door!Typed, Door!HalfWay
<1>6. QED
  BY <1>1, <1>2, <1>3, <1>4, <1>5, DoorOne

\* One more failure of the name; the one that makes it too many goes on to stop it.
LEMMA FailedKeeps == ASSUME Door!SignInInv, NEW b \in Browsers, Door!Failed(b) PROVE Door!SignInInv'
<1> USE DEF Door!SignInInv
<1> DEFINE s == [session[b] EXCEPT !.pre = FALSE]
           q == IF stop.fails + 1 < MaxFailed THEN Door!Idle ELSE [req[b] EXCEPT !.at = "stopping"]
           more == [stop EXCEPT !.fails = @ + 1]
<1>1. /\ req[b].at = "failed" /\ session' = [session EXCEPT ![b] = s] /\ req' = [req EXCEPT ![b] = q]
      /\ stop' = more /\ UNCHANGED <<factory, acc, wrongs>>
  BY DEF Door!Failed, Door!Ends, Door!Goes
<1>2. req[b] \in Door!AfterPassword /\ session[b] \in Door!Sessions
  BY <1>1, AtPlaces
<1>3. /\ s \in Door!Sessions /\ s.codes = session[b].codes /\ ~s.pre
      /\ s.in = session[b].in /\ s.proved = session[b].proved
  BY <1>2, Zenon DEF Door!Sessions
<1>4. q \in Door!Handled /\ q.at = IF stop.fails + 1 < MaxFailed THEN "idle" ELSE "stopping"
  BY <1>2 DEF Door!Handled, Door!Idle, Door!AfterPassword
<1>5. more \in Door!NameStops /\ more.fails = stop.fails + 1 /\ stop.fails \in Nat
  BY DEF Door!Typed, Door!NameStops
<1> HIDE DEF s, q, more
<1>6. Door!Typed' /\ Door!HalfWay'
  <2>1. /\ acc' \in Door!RowsRead /\ stop' \in Door!NameStops /\ wrongs' \in Nat /\ s.codes < MaxWrongCodes
        /\ (s.pre => ~s.in /\ "password" \in s.proved) /\ q.at # "password" /\ q.at # "enrolling"
        /\ s.in => "password" \in s.proved /\ (factory \/ "code" \in s.proved)
    BY <1>1, <1>3, <1>4, <1>5 DEF Door!Typed, Door!HalfWay
  <2>2. QED
    BY <1>1, <1>3, <1>4, <2>1, HalfWayOne
<1>7. Door!CountsBounded'
  <2> DEFINE will == Door!Cardinality(Door!WillStop)
             will2 == Door!Cardinality(Door!WillStop')
             may == Door!Cardinality(Door!MayCount)
             may2 == Door!Cardinality(Door!MayCount')
             all == Door!Cardinality(Browsers)
  <2>1. /\ Door!MayCount \subseteq Browsers /\ Door!MayCount' \subseteq Door!MayCount
        /\ Door!WillStop \subseteq Browsers /\ Door!WillStop' \subseteq Browsers
        /\ Door!WillStop \subseteq Door!WillStop' /\ b \notin Door!WillStop
        /\ q.at = "stopping" => Door!WillStop' = Door!WillStop \cup {b}
    BY <1>1, <1>4, WhoCounts DEF Door!MayCount, Door!WillStop
  <2>2. may \in Nat /\ may2 \in Nat /\ may2 <= may /\ will \in Nat /\ will2 \in Nat /\ will <= will2 /\ all \in Nat
    BY <2>1, BrowserSets
  <2>3. q.at = "stopping" => will2 = will + 1
    <3>1. q.at = "stopping" => b \in Door!WillStop' /\ Door!WillStop' \ {b} = Door!WillStop
      BY <2>1
    <3>2. QED
      BY <2>1, <3>1, BrowserSets
  <2>4. stop.fails < MaxFailed + will
    BY DEF Door!CountsBounded
  <2> HIDE DEF will, will2
  <2>5. stop'.fails < MaxFailed + will2
    BY <1>1, <1>4, <1>5, <2>2, <2>3, <2>4, Limits
  <2>6. \/ acc'.fails < DisableAfter
        \/ ~acc'.active /\ acc'.fails + may2 <= DisableAfter + all
    <3>1. acc.fails < DisableAfter \/ (~acc.active /\ acc.fails + may <= DisableAfter + all)
      BY DEF Door!CountsBounded
    <3>2. acc.fails \in Nat /\ acc' = acc
      BY <1>1 DEF Door!Typed, Door!RowsRead
    <3> HIDE DEF may, may2, all
    <3>3. acc.fails + may <= DisableAfter + all => acc.fails + may2 <= DisableAfter + all
      BY <2>2, <3>2, Limits
    <3>4. QED
      BY <3>1, <3>2, <3>3
  <2>7. wrongs' <= acc'.fails /\ (factory' => acc'.fails < MaxFailed)
    BY <1>1 DEF Door!CountsBounded
  <2>8. QED
    BY <2>5, <2>6, <2>7 DEF Door!CountsBounded, will2
<1>8. QED
  BY <1>6, <1>7

\* The name is stopped, and its failures start again.
LEMMA StopsKeeps == ASSUME Door!SignInInv, NEW b \in Browsers, Door!Stops(b) PROVE Door!SignInInv'
<1> USE DEF Door!SignInInv
<1>1. /\ req' = [req EXCEPT ![b] = Door!Idle] /\ stop' = [fails |-> 0, held |-> TRUE]
      /\ UNCHANGED <<factory, acc, session, wrongs>>
  BY DEF Door!Stops, Door!Ends
<1>2. session[b] \in Door!Sessions /\ session' = [session EXCEPT ![b] = session[b]]
  BY <1>1, SameOfBrowser, AtPlaces
<1>3. Door!Idle \in Door!Handled /\ Door!Idle.at = "idle" /\ stop' \in Door!NameStops /\ stop'.fails = 0
  BY <1>1 DEF Door!Idle, Door!Handled, Door!NameStops
<1>4. /\ acc' \in Door!RowsRead /\ session[b].codes < MaxWrongCodes
      /\ session[b].pre => ~session[b].in /\ "password" \in session[b].proved
      /\ session[b].in => "password" \in session[b].proved /\ (factory \/ "code" \in session[b].proved)
  BY <1>1 DEF Door!Typed, Door!HalfWay
<1>5. QED
  BY <1>1, <1>2, <1>3, <1>4, DoorOne

\* The lock that a request writes is a lock.
LEMMA LocksRead == ASSUME Door!Typed, NEW b \in Browsers PROVE Door!LockRead(req[b].row) \in {"none", "held", "past"}
BY DEF Door!LockRead, Door!Typed, Door!RowsRead

\* A wrong password of an account that could be signed in to when it was read is one more; the one that reaches
\* the limit disables the account, and those still to come had all read it before.
LEMMA WrongPasswordKeeps == ASSUME Door!SignInInv, NEW b \in Browsers, Door!WrongPassword(b) PROVE Door!SignInInv'
<1> USE DEF Door!SignInInv
<1> DEFINE q == [req[b] EXCEPT !.at = "failed"]
           row == req[b].row
           lock == Door!LockRead(row)
           count == acc.fails + 1
<1>1. /\ req[b].at = "password" /\ req' = [req EXCEPT ![b] = q] /\ UNCHANGED <<factory, stop, session>>
  BY DEF Door!WrongPassword, Door!Goes
<1>2. req[b] \in Door!AtPassword /\ session[b] \in Door!Sessions
  BY <1>1, AtPlaces
<1>3. q \in Door!Handled /\ q.at = "failed"
  BY <1>2 DEF Door!Handled, Door!AtPassword, Door!AfterPassword
<1>4. lock \in {"none", "held", "past"}
  BY LocksRead
<1>5. /\ acc' = IF ~row.active THEN [acc EXCEPT !.lock = lock]
                 ELSE IF factory
                      THEN [acc EXCEPT !.fails = IF count < MaxFailed THEN count ELSE 0,
                                       !.lock = IF count < MaxFailed THEN lock ELSE "held"]
                 ELSE [acc EXCEPT !.fails = count, !.active = IF count >= DisableAfter THEN FALSE ELSE @,
                                  !.lock = IF count = MaxFailed THEN "held" ELSE lock]
      /\ wrongs' = IF ~row.active THEN wrongs ELSE IF factory /\ count >= MaxFailed THEN 0 ELSE wrongs + 1
  BY Zenon DEF Door!WrongPassword, Door!Counted, Door!CountAfter
<1>6. /\ acc \in Door!RowsRead /\ acc.fails \in Nat /\ count \in Nat /\ factory \in BOOLEAN /\ wrongs \in Nat
      /\ stop \in Door!NameStops
  BY DEF Door!Typed, Door!RowsRead
<1>7. session' = [session EXCEPT ![b] = session[b]]
  BY <1>1, SameOfBrowser
<1>8. /\ stop' \in Door!NameStops /\ session[b].codes < MaxWrongCodes
      /\ session[b].pre => ~session[b].in /\ "password" \in session[b].proved
      /\ session[b].in => "password" \in session[b].proved /\ (factory \/ "code" \in session[b].proved)
  BY <1>1, <1>6 DEF Door!HalfWay
<1> HIDE DEF q, lock, count
<1>9. CASE ~row.active
  <2>1. acc' = [acc EXCEPT !.lock = lock] /\ wrongs' = wrongs
    BY <1>5, <1>9
  <2>2. acc' \in Door!RowsRead /\ acc'.fails = acc.fails /\ acc'.active = acc.active
    BY <1>4, <1>6, <2>1, Zenon DEF Door!RowsRead
  <2>3. QED
    BY <1>1, <1>2, <1>3, <1>7, <1>8, <2>1, <2>2, DoorOne
<1>10. CASE row.active /\ factory /\ ~(count < MaxFailed)
  <2>1. acc' = [acc EXCEPT !.fails = 0, !.lock = "held"] /\ wrongs' = 0
    BY <1>5, <1>6, <1>10, Limits
  <2>2. acc' \in Door!RowsRead /\ acc'.fails = 0
    BY <1>6, <2>1 DEF Door!RowsRead
  <2>3. QED
    BY <1>1, <1>2, <1>3, <1>7, <1>8, <2>1, <2>2, DoorOne
<1>11. ASSUME row.active, acc' \in Door!RowsRead, acc'.fails = count, wrongs' = wrongs + 1,
              factory => count < MaxFailed, ~factory => count < DisableAfter \/ ~acc'.active
       PROVE  Door!SignInInv'
  <2>1. wrongs' \in Nat
    BY <1>6, <1>11
  <2>2. Door!Typed' /\ Door!HalfWay'
    BY <1>1, <1>2, <1>3, <1>7, <1>8, <1>11, <2>1, HalfWayOne
  <2> DEFINE may == Door!Cardinality(Door!MayCount)
             may2 == Door!Cardinality(Door!MayCount')
             all == Door!Cardinality(Browsers)
             will == Door!Cardinality(Door!WillStop)
             will2 == Door!Cardinality(Door!WillStop')
  <2>3. /\ Door!MayCount \subseteq Browsers /\ Door!MayCount' \subseteq Browsers /\ b \in Door!MayCount
        /\ Door!MayCount' \subseteq Door!MayCount \ {b}
        /\ Door!WillStop' \subseteq Browsers /\ Door!WillStop \subseteq Door!WillStop'
    BY <1>1, <1>3, <1>11, WhoCounts DEF Door!MayCount, Door!WillStop
  <2>4. may2 \in Nat /\ may \in Nat /\ all \in Nat /\ may2 + 1 <= may /\ may2 <= all
    <3>1. /\ Door!Cardinality(Door!MayCount \ {b}) \in Nat /\ may2 \in Nat
          /\ may2 <= Door!Cardinality(Door!MayCount \ {b})
      <4>1. Door!MayCount \ {b} \in SUBSET Browsers
        BY <2>3
      <4>2. QED
        BY <2>3, <4>1, BrowserSets
    <3>2. may = Door!Cardinality(Door!MayCount \ {b}) + 1
      BY <2>3, BrowserSets
    <3>3. all \in Nat /\ may2 <= all
      BY <2>3, BrowserSets
    <3>4. QED
      BY <3>1, <3>2, <3>3
  <2>5. will \in Nat /\ will2 \in Nat /\ will <= will2
    BY <2>3, BrowserSets
  <2>6. /\ wrongs <= acc.fails /\ stop.fails < MaxFailed + will /\ stop' = stop /\ stop.fails \in Nat
        /\ acc.fails < DisableAfter \/ acc.fails + may <= DisableAfter + all
    BY <1>1, <1>6 DEF Door!CountsBounded, Door!NameStops
  <2> HIDE DEF may, may2, all, will, will2
  <2>7. stop'.fails < MaxFailed + will2
    BY <2>5, <2>6, Limits
  <2>8. wrongs' <= acc'.fails
    BY <1>6, <1>11, <2>6 DEF count
  <2>9. count + may2 <= DisableAfter + all
    BY <1>6, <2>4, <2>6, Limits DEF count
  <2>10. acc'.fails < DisableAfter \/ (~acc'.active /\ acc'.fails + may2 <= DisableAfter + all)
    <3>1. CASE factory
      BY <1>6, <1>11, <3>1, Limits
    <3>2. CASE ~factory
      BY <1>11, <2>9, <3>2
    <3>3. QED
      BY <3>1, <3>2
  <2>11. factory' => acc'.fails < MaxFailed
    BY <1>1, <1>11
  <2>12. Door!CountsBounded'
    BY <2>7, <2>8, <2>10, <2>11 DEF Door!CountsBounded, may2, all, will2
  <2>13. QED
    BY <2>2, <2>12
<1>12. CASE row.active /\ factory /\ count < MaxFailed
  <2>1. /\ acc' = [acc EXCEPT !.fails = count, !.lock = lock]
        /\ wrongs' = wrongs + 1
    <3>1. ~(count >= MaxFailed)
      BY <1>6, <1>12, Limits
    <3>2. QED
      BY <1>5, <1>12, <3>1, Zenon
  <2>2. acc' \in Door!RowsRead /\ acc'.fails = count
    BY <1>4, <1>6, <2>1, Zenon DEF Door!RowsRead
  <2>3. QED
    BY <1>11, <1>12, <2>1, <2>2
<1>13. CASE row.active /\ ~factory
  <2> DEFINE active_ == IF count >= DisableAfter THEN FALSE ELSE acc.active
             lock_ == IF count = MaxFailed THEN "held" ELSE lock
  <2>1. acc' = [acc EXCEPT !.fails = count, !.active = active_, !.lock = lock_] /\ wrongs' = wrongs + 1
    BY <1>5, <1>13
  <2>2. lock_ \in {"none", "held", "past"} /\ active_ \in BOOLEAN
    BY <1>4, <1>6 DEF Door!RowsRead
  <2>3. active_ => count < DisableAfter
    BY <1>6, Limits
  <2> HIDE DEF active_, lock_
  <2>4. acc' \in Door!RowsRead /\ acc'.fails = count /\ acc'.active = active_
    BY <1>6, <2>1, <2>2, Zenon DEF Door!RowsRead
  <2>5. QED
    BY <1>11, <1>13, <2>1, <2>3, <2>4
<1>14. QED
  BY <1>9, <1>10, <1>12, <1>13

\* What a session is once signed in.
LEMMA SignedInSession ==
  ASSUME NEW s \in Door!Sessions, NEW row \in Door!RowsRead, NEW proof \in Door!Proofs
  PROVE  LET t == Door!SignedIn(s, row, proof)
         IN  t \in Door!Sessions /\ ~t.pre /\ t.codes = 0 /\ t.in = row.active /\ t.proved = s.proved \cup proof
<1>1. row.active \in BOOLEAN /\ s.proved \cup proof \in Door!Proofs /\ 0 \in Nat
  BY DEF Door!RowsRead, Door!Sessions, Door!Proofs
<1> DEFINE in_ == row.active
           all == s.proved \cup proof
           t == [s EXCEPT !.pre = FALSE, !.pending = FALSE, !.codes = 0, !.in = in_, !.proved = all]
<1>2. t = Door!SignedIn(s, row, proof)
  BY Zenon DEF Door!SignedIn
<1> HIDE DEF in_, all
<1>3. t \in Door!Sessions /\ ~t.pre /\ t.codes = 0 /\ t.in = in_ /\ t.proved = all
  BY <1>1, Zenon DEF Door!Sessions, in_, all
<1>4. QED
  BY <1>2, <1>3, Zenon DEF in_, all

\* The right password: signed in with it alone is only the factory admin without an authenticator.
LEMMA RightPasswordKeeps == ASSUME Door!SignInInv, NEW b \in Browsers, Door!RightPassword(b) PROVE Door!SignInInv'
<1> USE DEF Door!SignInInv
<1> DEFINE row == req[b].row
           now0 == session[b]
           half == [now0 EXCEPT !.pre = TRUE, !.codes = 0, !.proved = {"password"}]
           off == [now0 EXCEPT !.pre = FALSE]
           s == IF ~row.active THEN off
                ELSE IF ~Door!NeedsSecondFactor(row) THEN Door!SignedIn(Door!Fresh, row, {"password"})
                ELSE half
           fails_ == IF row.fails # 0 THEN 0 ELSE acc.fails
           lock_ == Door!LockRead(row)
<1>1. /\ req[b].at = "password" /\ session' = [session EXCEPT ![b] = s] /\ req' = [req EXCEPT ![b] = Door!Idle]
      /\ acc' = [acc EXCEPT !.fails = fails_, !.lock = lock_] /\ wrongs' = 0
      /\ stop' = [fails |-> 0, held |-> FALSE] /\ UNCHANGED factory
  BY Zenon DEF Door!RightPassword, Door!Ends
<1>2. /\ req[b] \in Door!AtPassword /\ now0 \in Door!Sessions /\ row \in Door!RowsRead
      /\ ~now0.in /\ now0.codes < MaxWrongCodes
  BY <1>1, AtPlaces DEF Door!AtPassword, Door!HalfWay
<1>3. lock_ \in {"none", "held", "past"} /\ fails_ \in {0, acc.fails} /\ acc \in Door!RowsRead /\ acc.fails \in Nat
  BY LocksRead DEF Door!Typed, Door!RowsRead
<1> HIDE DEF fails_, lock_
<1>4. acc' \in Door!RowsRead /\ acc'.fails = fails_ /\ acc'.active = acc.active
  <2>1. fails_ \in Nat
    BY <1>3
  <2>2. QED
    BY <1>1, <1>3, <2>1, Zenon DEF Door!RowsRead
<1>5. Door!Idle \in Door!Handled /\ Door!Idle.at = "idle" /\ stop' \in Door!NameStops /\ stop'.fails = 0
  BY <1>1 DEF Door!Idle, Door!Handled, Door!NameStops
<1>6. half \in Door!Sessions /\ half.pre /\ half.codes = 0 /\ half.in = now0.in /\ half.proved = {"password"}
  <2>1. {"password"} \in Door!Proofs /\ 0 \in Nat
    BY DEF Door!Proofs
  <2>2. QED
    BY <1>2, <2>1, Zenon DEF Door!Sessions
<1>7. off \in Door!Sessions /\ ~off.pre /\ off.codes = now0.codes /\ off.in = now0.in
  BY <1>2, Zenon DEF Door!Sessions
<1> HIDE DEF half, off
<1>8. /\ s \in Door!Sessions /\ s.codes < MaxWrongCodes /\ (s.pre => ~s.in /\ "password" \in s.proved)
      /\ s.in => "password" \in s.proved /\ (factory \/ "code" \in s.proved)
  <2>1. CASE ~row.active
    BY <1>2, <1>7, <2>1
  <2>2. CASE row.active /\ ~Door!NeedsSecondFactor(row)
    <3>1. s = Door!SignedIn(Door!Fresh, row, {"password"}) /\ factory
      BY <2>2 DEF Door!NeedsSecondFactor
    <3>2. Door!Fresh \in Door!Sessions /\ {"password"} \in Door!Proofs /\ Door!Fresh.proved = {}
      BY DEF Door!Fresh, Door!Sessions, Door!Proofs
    <3>3. s \in Door!Sessions /\ ~s.pre /\ s.codes = 0 /\ s.proved = {} \cup {"password"}
      BY <1>2, <3>1, <3>2, SignedInSession
    <3>4. QED
      BY <3>1, <3>3, Limits
  <2>3. CASE row.active /\ Door!NeedsSecondFactor(row)
    <3>1. s = half
      BY <2>3
    <3>2. QED
      BY <1>2, <1>6, <3>1, Limits
  <2>4. QED
    BY <2>1, <2>2, <2>3
<1> HIDE DEF s
<1>9. acc'.fails = 0 \/ (acc'.fails = acc.fails /\ (acc'.active => acc.active))
  BY <1>3, <1>4
<1>10. QED
  BY <1>1, <1>4, <1>5, <1>8, <1>9, DoorOne

\* Wrong codes are fewer than the limit: the last one drops the half-done sign-in.
LEMMA WrongCodeKeeps == ASSUME Door!SignInInv, NEW b \in Browsers, Door!WrongCode(b) PROVE Door!SignInInv'
<1> USE DEF Door!SignInInv
<1> DEFINE more == [session[b] EXCEPT !.codes = session[b].codes + 1]
           off == [session[b] EXCEPT !.pre = FALSE, !.pending = FALSE, !.codes = 0]
           s == IF session[b].codes + 1 >= MaxWrongCodes THEN off ELSE more
<1>1. /\ session[b].pre /\ session' = [session EXCEPT ![b] = s] /\ req[b] = Door!Idle
      /\ UNCHANGED <<factory, acc, stop, req, wrongs>>
  BY DEF Door!WrongCode, Door!LastCode
<1>2. /\ session[b] \in Door!Sessions /\ req[b] \in Door!Handled /\ req' = [req EXCEPT ![b] = req[b]]
      /\ req[b].at = "idle" /\ session[b].codes \in Nat
  BY <1>1, AtPlaces, SameOfBrowser DEF Door!Idle, Door!Sessions
<1>3. ~session[b].in /\ "password" \in session[b].proved
  BY <1>1 DEF Door!HalfWay
<1>4. /\ more \in Door!Sessions /\ more.codes = session[b].codes + 1 /\ more.pre = session[b].pre
      /\ more.in = session[b].in /\ more.proved = session[b].proved
  <2>1. session[b].codes + 1 \in Nat
    BY <1>2
  <2>2. QED
    BY <1>2, <2>1, Zenon DEF Door!Sessions
<1>5. off \in Door!Sessions /\ ~off.pre /\ off.codes = 0 /\ off.in = session[b].in
  <2>1. 0 \in Nat
    OBVIOUS
  <2>2. QED
    BY <1>2, <2>1, Zenon DEF Door!Sessions
<1> HIDE DEF more, off
<1>6. s \in Door!Sessions /\ s.codes < MaxWrongCodes /\ ~s.in /\ (s.pre => "password" \in s.proved)
  BY <1>2, <1>3, <1>4, <1>5, Limits
<1> HIDE DEF s
<1>7. acc' \in Door!RowsRead /\ stop' \in Door!NameStops
  BY <1>1 DEF Door!Typed
<1>8. QED
  BY <1>1, <1>2, <1>6, <1>7, DoorOne

\* A right code of the stored authenticator completes what the password began.
LEMMA OtpVerifyKeeps == ASSUME Door!SignInInv, NEW b \in Browsers, Door!OtpVerify(b) PROVE Door!SignInInv'
<1> USE DEF Door!SignInInv
<1> DEFINE s == Door!SignedIn(session[b], acc, {"code"})
<1>1. /\ session[b].pre /\ session' = [session EXCEPT ![b] = s] /\ req[b] = Door!Idle
      /\ UNCHANGED <<factory, acc, stop, req, wrongs>>
  BY DEF Door!OtpVerify
<1>2. /\ session[b] \in Door!Sessions /\ req[b] \in Door!Handled
      /\ req' = [req EXCEPT ![b] = req[b]] /\ req[b].at = "idle"
  BY <1>1, AtPlaces, SameOfBrowser DEF Door!Idle
<1>3. "password" \in session[b].proved
  BY <1>1 DEF Door!HalfWay
<1>4. acc \in Door!RowsRead /\ acc' \in Door!RowsRead /\ stop' \in Door!NameStops /\ {"code"} \in Door!Proofs
  BY <1>1 DEF Door!Typed, Door!Proofs
<1>5. s \in Door!Sessions /\ ~s.pre /\ s.codes = 0 /\ s.proved = session[b].proved \cup {"code"}
  BY <1>2, <1>4, SignedInSession
<1> HIDE DEF s
<1>6. s.codes < MaxWrongCodes /\ "password" \in s.proved /\ "code" \in s.proved
  BY <1>3, <1>5, Limits
<1>7. QED
  BY <1>1, <1>2, <1>4, <1>5, <1>6, DoorOne

\* A secret is shown.
LEMMA OtpShowKeeps == ASSUME Door!SignInInv, NEW b \in Browsers, Door!OtpShow(b) PROVE Door!SignInInv'
<1> USE DEF Door!SignInInv
<1> DEFINE may == Door!MayEnroll(acc)
           s == [session[b] EXCEPT !.pending = may]
<1>1. /\ session' = [session EXCEPT ![b] = s] /\ req[b] = Door!Idle /\ UNCHANGED <<factory, acc, stop, req, wrongs>>
  BY DEF Door!OtpShow
<1>2. /\ session[b] \in Door!Sessions /\ req[b] \in Door!Handled
      /\ req' = [req EXCEPT ![b] = req[b]] /\ req[b].at = "idle"
  BY <1>1, AtPlaces, SameOfBrowser DEF Door!Idle
<1>3. may \in BOOLEAN
  BY DEF Door!MayEnroll
<1> HIDE DEF may
<1>4. /\ s \in Door!Sessions /\ s.codes = session[b].codes /\ s.pre = session[b].pre /\ s.in = session[b].in
      /\ s.proved = session[b].proved
  BY <1>2, <1>3, Zenon DEF Door!Sessions
<1> HIDE DEF s
<1>5. /\ s.codes < MaxWrongCodes /\ (s.pre => ~s.in /\ "password" \in s.proved)
      /\ s.in => "password" \in s.proved /\ (factory \/ "code" \in s.proved)
  BY <1>4 DEF Door!HalfWay
<1>6. acc' \in Door!RowsRead /\ stop' \in Door!NameStops
  BY <1>1 DEF Door!Typed
<1>7. QED
  BY <1>1, <1>2, <1>4, <1>5, <1>6, DoorOne

\* The code of the shown secret is right: the account was read while it had no authenticator.
LEMMA OtpEnrollKeeps == ASSUME Door!SignInInv, NEW b \in Browsers, Door!OtpEnroll(b) PROVE Door!SignInInv'
<1> USE DEF Door!SignInInv
<1> DEFINE q == [at |-> "enrolling", row |-> acc]
<1>1. /\ session[b].pre /\ acc.otp = None /\ req[b] = Door!Idle /\ req' = [req EXCEPT ![b] = q]
      /\ UNCHANGED <<factory, acc, stop, session, wrongs>>
  BY DEF Door!OtpEnroll, Door!MayEnroll
<1>2. /\ session[b] \in Door!Sessions /\ session' = [session EXCEPT ![b] = session[b]] /\ req[b].at = "idle"
  BY <1>1, AtPlaces, SameOfBrowser DEF Door!Idle
<1>3. acc' \in Door!RowsRead /\ stop' \in Door!NameStops /\ acc \in Door!RowsRead
  BY <1>1 DEF Door!Typed
<1>4. q \in Door!Handled /\ q.at = "enrolling" /\ q.row = acc
  BY <1>3 DEF Door!Handled, Door!Enrolling
<1> HIDE DEF q
<1>5. /\ session[b].codes < MaxWrongCodes /\ (session[b].pre => ~session[b].in /\ "password" \in session[b].proved)
      /\ session[b].in => "password" \in session[b].proved /\ (factory \/ "code" \in session[b].proved)
      /\ q.at # "password" /\ (q.at = "enrolling" => session[b].pre /\ q.row.otp = None)
  BY <1>1, <1>4 DEF Door!HalfWay
<1>6. QED
  BY <1>1, <1>2, <1>3, <1>4, <1>5, DoorOne

\* The secret is stored, and what the password began is complete.
LEMMA OtpStoreKeeps == ASSUME Door!SignInInv, NEW b \in Browsers, Door!OtpStore(b) PROVE Door!SignInInv'
<1> USE DEF Door!SignInInv
<1> DEFINE s == Door!SignedIn(session[b], req[b].row, {"code"})
<1>1. /\ req[b].at = "enrolling" /\ acc' = [acc EXCEPT !.otp = b] /\ session' = [session EXCEPT ![b] = s]
      /\ req' = [req EXCEPT ![b] = Door!Idle] /\ UNCHANGED <<factory, stop, wrongs>>
  BY DEF Door!OtpStore, Door!Ends
<1>2. session[b] \in Door!Sessions /\ req[b].row \in Door!RowsRead /\ "password" \in session[b].proved
  BY <1>1, AtPlaces DEF Door!Enrolling, Door!HalfWay
<1>3. {"code"} \in Door!Proofs /\ acc \in Door!RowsRead
  BY DEF Door!Proofs, Door!Typed
<1>4. s \in Door!Sessions /\ ~s.pre /\ s.codes = 0 /\ s.proved = session[b].proved \cup {"code"}
  BY <1>2, <1>3, SignedInSession
<1> HIDE DEF s
<1>5. s.codes < MaxWrongCodes /\ "password" \in s.proved /\ "code" \in s.proved
  BY <1>2, <1>4, Limits
<1>6. acc' \in Door!RowsRead /\ acc'.fails = acc.fails /\ acc'.active = acc.active
  BY <1>1, <1>3, Zenon DEF Door!RowsRead
<1>7. Door!Idle \in Door!Handled /\ Door!Idle.at = "idle" /\ stop' \in Door!NameStops
  BY <1>1 DEF Door!Idle, Door!Handled, Door!Typed
<1>8. QED
  BY <1>1, <1>4, <1>5, <1>6, <1>7, DoorOne

\* A browser signs out.
LEMMA LogoutKeeps == ASSUME Door!SignInInv, NEW b \in Browsers, Door!Logout(b) PROVE Door!SignInInv'
<1> USE DEF Door!SignInInv
<1>1. /\ req[b] = Door!Idle /\ session' = [session EXCEPT ![b] = Door!Fresh]
      /\ UNCHANGED <<factory, acc, stop, req, wrongs>>
  BY DEF Door!Logout
<1>2. /\ Door!Fresh \in Door!Sessions /\ ~Door!Fresh.pre /\ ~Door!Fresh.in /\ Door!Fresh.codes < MaxWrongCodes
  BY Limits DEF Door!Fresh, Door!Sessions, Door!Proofs
<1>3. /\ req[b] \in Door!Handled /\ req' = [req EXCEPT ![b] = req[b]] /\ req[b].at = "idle"
      /\ acc' \in Door!RowsRead /\ stop' \in Door!NameStops
  BY <1>1, AtPlaces, SameOfBrowser DEF Door!Idle, Door!Typed
<1>4. QED
  BY <1>1, <1>2, <1>3, DoorOne

\* What is done to the account changes its row, and ends its sessions at most.
LEMMA DoorRow ==
  ASSUME Door!SignInInv, UNCHANGED <<factory, req>>, session' = session \/ Door!EndSessions,
         acc' \in Door!RowsRead, stop' \in Door!NameStops, stop'.fails \in {0, stop.fails},
         wrongs' = 0 \/ (wrongs' = wrongs /\ acc'.fails = acc.fails),
         acc'.fails = 0 \/ (acc'.fails = acc.fails /\ (acc'.active => acc.active))
  PROVE  Door!SignInInv'
<1> USE DEF Door!SignInInv
<1>1. /\ Door!Fresh \in Door!Sessions /\ ~Door!Fresh.pre /\ ~Door!Fresh.in /\ Door!Fresh.codes < MaxWrongCodes
  BY Limits DEF Door!Fresh, Door!Sessions, Door!Proofs
<1>2. /\ session' \in [Browsers -> Door!Sessions]
      /\ \A b \in Browsers : session'[b] = session[b] \/ (session[b].in /\ session'[b] = Door!Fresh)
  <2>1. CASE session' = session
    BY <2>1 DEF Door!Typed
  <2>2. CASE Door!EndSessions
    BY <1>1, <2>2 DEF Door!EndSessions, Door!Typed
  <2>3. QED
    BY <2>1, <2>2
<1>3. Door!Typed'
  BY <1>2 DEF Door!Typed
<1>4. Door!HalfWay'
  <2> SUFFICES ASSUME NEW b \in Browsers
               PROVE  /\ session'[b].codes < MaxWrongCodes
                      /\ session'[b].pre => ~session'[b].in /\ "password" \in session'[b].proved
                      /\ session'[b].in =>
                           "password" \in session'[b].proved /\ (factory' \/ "code" \in session'[b].proved)
                      /\ req'[b].at = "password" => ~session'[b].in
                      /\ req'[b].at = "enrolling" => session'[b].pre /\ req'[b].row.otp = None
    BY DEF Door!HalfWay
  <2>1. CASE session'[b] = session[b]
    BY <2>1 DEF Door!HalfWay
  <2>2. CASE session[b].in /\ session'[b] = Door!Fresh
    <3>1. req[b].at # "enrolling"
      BY <2>2 DEF Door!HalfWay
    <3>2. QED
      BY <1>1, <2>2, <3>1
  <2>3. QED
    BY <1>2, <2>1, <2>2
<1>5. Door!CountsBounded'
  <2>1. Door!MayCount' \subseteq Door!MayCount /\ Door!WillStop \subseteq Door!WillStop'
    BY DEF Door!MayCount, Door!WillStop
  <2>2. QED
    BY <2>1, CountsKept
<1>6. QED
  BY <1>3, <1>4, <1>5

\* The factory admin's own choice; what an administrator does; what runs out.
LEMMA RowKeeps ==
  ASSUME Door!SignInInv,
         \/ \E b \in Browsers : Door!AccountTwoFactor(b)
         \/ Door!Enable \/ Door!Disable \/ Door!ResetTwoFactor \/ Door!ResetPassword \/ Door!ResetAdmin
         \/ Door!LockRunsOut \/ Door!StopRunsOut
  PROVE  Door!SignInInv'
<1>1. acc \in Door!RowsRead /\ stop \in Door!NameStops
  BY DEF Door!SignInInv, Door!Typed
<1>2. Door!Unlocked(acc) \in Door!RowsRead /\ Door!Unlocked(acc).fails = 0
  BY <1>1 DEF Door!Unlocked, Door!RowsRead
<1> DEFINE none == [fails |-> 0, held |-> FALSE]
<1>3. none \in Door!NameStops /\ none.fails = 0
  BY DEF Door!NameStops
<1>4. ASSUME NEW b \in Browsers, Door!AccountTwoFactor(b) PROVE Door!SignInInv'
  <2> DEFINE new == IF acc.otp = None THEN b ELSE None
  <2>1. acc' = [acc EXCEPT !.otp = new] /\ UNCHANGED <<factory, stop, session, req, wrongs>>
    BY <1>4 DEF Door!AccountTwoFactor
  <2>2. new \in Browsers \cup {None}
    OBVIOUS
  <2> HIDE DEF new
  <2>3. acc' \in Door!RowsRead /\ acc'.fails = acc.fails /\ acc'.active = acc.active
    BY <1>1, <2>1, <2>2, Zenon DEF Door!RowsRead
  <2>4. QED
    BY <1>1, <2>1, <2>3, DoorRow
<1>5. CASE Door!Enable
  <2>1. /\ acc' = [Door!Unlocked(acc) EXCEPT !.active = TRUE] /\ wrongs' = 0 /\ stop' = none
        /\ UNCHANGED <<factory, session, req>>
    BY <1>5 DEF Door!Enable
  <2>2. acc' \in Door!RowsRead /\ acc'.fails = 0
    BY <1>2, <2>1, Zenon DEF Door!RowsRead
  <2>3. QED
    BY <1>3, <2>1, <2>2, DoorRow
<1>6. CASE Door!Disable
  <2>1. acc' = [acc EXCEPT !.active = FALSE] /\ UNCHANGED <<factory, stop, session, req, wrongs>>
    BY <1>6 DEF Door!Disable
  <2>2. acc' \in Door!RowsRead /\ acc'.fails = acc.fails /\ ~acc'.active
    BY <1>1, <2>1, Zenon DEF Door!RowsRead
  <2>3. QED
    BY <1>1, <2>1, <2>2, DoorRow
<1>7. CASE Door!ResetTwoFactor
  <2>1. acc' = [acc EXCEPT !.otp = None] /\ UNCHANGED <<factory, stop, session, req, wrongs>>
    BY <1>7 DEF Door!ResetTwoFactor
  <2>2. acc' \in Door!RowsRead /\ acc'.fails = acc.fails /\ acc'.active = acc.active
    BY <1>1, <2>1, Zenon DEF Door!RowsRead
  <2>3. QED
    BY <1>1, <2>1, <2>2, DoorRow
<1>8. CASE Door!ResetPassword
  <2>1. acc' = Door!Unlocked(acc) /\ wrongs' = 0 /\ stop' = none /\ Door!EndSessions /\ UNCHANGED <<factory, req>>
    BY <1>8 DEF Door!ResetPassword
  <2>2. QED
    BY <1>2, <1>3, <2>1, DoorRow
<1>9. CASE Door!ResetAdmin
  <2>1. /\ acc' = [Door!Unlocked(acc) EXCEPT !.active = TRUE, !.otp = None] /\ wrongs' = 0 /\ stop' = none
        /\ Door!EndSessions /\ UNCHANGED <<factory, req>>
    BY <1>9 DEF Door!ResetAdmin
  <2>2. acc' \in Door!RowsRead /\ acc'.fails = 0
    BY <1>2, <2>1, Zenon DEF Door!RowsRead
  <2>3. QED
    BY <1>3, <2>1, <2>2, DoorRow
<1>10. CASE Door!LockRunsOut
  <2>1. acc' = [acc EXCEPT !.lock = "past"] /\ UNCHANGED <<factory, stop, session, req, wrongs>>
    BY <1>10 DEF Door!LockRunsOut
  <2>2. acc' \in Door!RowsRead /\ acc'.fails = acc.fails /\ acc'.active = acc.active
    BY <1>1, <2>1, Zenon DEF Door!RowsRead
  <2>3. QED
    BY <1>1, <2>1, <2>2, DoorRow
<1>11. CASE Door!StopRunsOut
  <2>1. stop' = none /\ UNCHANGED <<factory, acc, session, req, wrongs>>
    BY <1>11 DEF Door!StopRunsOut
  <2>2. QED
    BY <1>1, <1>3, <2>1, DoorRow
<1>12. QED
  BY <1>4, <1>5, <1>6, <1>7, <1>8, <1>9, <1>10, <1>11

\* Every step of a sign-in keeps the invariant.
LEMMA DoorNext == ASSUME Door!SignInInv, Door!Next PROVE Door!SignInInv'
BY LoginKeeps, LockedKeeps, WrongPasswordKeeps, RightPasswordKeeps, FailedKeeps, StopsKeeps, WrongCodeKeeps,
   OtpVerifyKeeps, OtpShowKeeps, OtpEnrollKeeps, OtpStoreKeeps, LogoutKeeps, RowKeeps DEF Door!Next

\* A step that changes nothing of it keeps it too.
LEMMA DoorFrame == ASSUME Door!SignInInv, UNCHANGED <<req, doorVars>> PROVE Door!SignInInv'
BY DEF doorVars, Door!SignInInv, Door!Typed, Door!CountsBounded, Door!MayCount, Door!WillStop, Door!HalfWay

\* What the invariant says of the counts and of those who are signed in.
LEMMA DoorStates == ASSUME Door!SignInInv PROVE Door!TypeOK /\ Door!WrongOnesEndIt /\ Door!SecondFactor
<1> USE DEF Door!SignInInv
<1> DEFINE may == Door!Cardinality(Door!MayCount)
           will == Door!Cardinality(Door!WillStop)
           all == Door!Cardinality(Browsers)
<1>1. Door!MayCount \subseteq Browsers /\ Door!WillStop \subseteq Browsers
  BY DEF Door!MayCount, Door!WillStop
<1>2. may \in Nat /\ will \in Nat /\ all \in Nat /\ will <= all
  BY <1>1, BrowserSets
<1>3. /\ acc \in Door!RowsRead /\ acc.fails \in Nat /\ stop.fails \in Nat /\ stop.held \in BOOLEAN /\ wrongs \in Nat
  BY DEF Door!Typed, Door!RowsRead, Door!NameStops
<1>4. /\ wrongs <= acc.fails /\ (factory => acc.fails < MaxFailed) /\ stop.fails < MaxFailed + will
      /\ acc.fails < DisableAfter \/ (~acc.active /\ acc.fails + may <= DisableAfter + all)
  BY DEF Door!CountsBounded
<1> HIDE DEF may, will, all
<1>5. stop.fails \in 0..(MaxFailed + all)
  BY <1>2, <1>3, <1>4, Limits
<1>6. acc.fails \in 0..(DisableAfter + all)
  BY <1>2, <1>3, <1>4, Limits
<1>7. acc \in Door!Rows
  BY <1>3, <1>6, Zenon DEF Door!RowsRead, Door!Rows, all
<1>8. Door!TypeOK
  BY <1>3, <1>5, <1>7 DEF Door!TypeOK, Door!HalfWay, all
<1>9. Door!WrongOnesEndIt
  <2>1. CASE factory
    BY <1>3, <1>4, <2>1, Limits DEF Door!WrongOnesEndIt, Door!Limit
  <2>2. CASE ~factory
    BY <1>3, <1>4, <2>2, Limits DEF Door!WrongOnesEndIt, Door!Limit
  <2>3. QED
    BY <2>1, <2>2
<1>10. Door!SecondFactor
  BY DEF Door!HalfWay, Door!SecondFactor
<1>11. QED
  BY <1>8, <1>9, <1>10

\* An authenticator is stored over another only by whoever read the account without one; a lock that holds is
\* lifted only by an administrator, or by whoever read that an earlier one had run out.
LEMMA DoorSteps == ASSUME Door!SignInInv, Door!Next PROVE Door!AuthenticatorStays /\ Door!LockHolds
<1> USE DEF Door!SignInInv
<1>1. acc \in Door!RowsRead
  BY DEF Door!Typed
<1>2. Door!AuthenticatorStays
  <2> SUFFICES ASSUME acc.otp # None, acc'.otp \notin {None, acc.otp}
               PROVE  \E b \in Browsers : req[b].at = "enrolling" /\ req[b].row.otp = None
    BY DEF Door!AuthenticatorStays
  <2>1. PICK b \in Browsers : Door!OtpStore(b)
    <3>1. ASSUME NEW b \in Browsers,
                 Door!WrongPassword(b) \/ Door!RightPassword(b) \/ Door!AccountTwoFactor(b)
          PROVE  FALSE
      BY <1>1, <3>1 DEF Door!WrongPassword, Door!RightPassword, Door!AccountTwoFactor, Door!RowsRead
    <3>2. ASSUME NEW b \in Browsers,
                 \/ \E right \in BOOLEAN : Door!Login(b, right)
                 \/ Door!Locked(b) \/ Door!Failed(b) \/ Door!Stops(b) \/ Door!WrongCode(b) \/ Door!OtpVerify(b)
                 \/ Door!OtpShow(b) \/ Door!OtpEnroll(b) \/ Door!Logout(b)
          PROVE  FALSE
      <4>1. acc' = acc
        BY <3>2 DEF Door!Login, Door!Locked, Door!Failed, Door!Stops, Door!WrongCode, Door!OtpVerify, Door!OtpShow,
                    Door!OtpEnroll, Door!Logout
      <4>2. QED
        BY <4>1
    <3>3. ASSUME Door!Enable \/ Door!Disable \/ Door!ResetTwoFactor \/ Door!ResetPassword \/ Door!ResetAdmin
                 \/ Door!LockRunsOut \/ Door!StopRunsOut
          PROVE  FALSE
      BY <1>1, <3>3 DEF Door!Enable, Door!Disable, Door!ResetTwoFactor, Door!ResetPassword, Door!ResetAdmin,
                        Door!LockRunsOut, Door!StopRunsOut, Door!Unlocked, Door!RowsRead
    <3>4. QED
      BY <3>1, <3>2, <3>3, Zenon DEF Door!Next
  <2>2. QED
    BY <2>1 DEF Door!OtpStore, Door!HalfWay
<1>3. Door!LockHolds
  <2> SUFFICES ASSUME acc.lock = "held", acc'.lock = "none",
                      ~\E b \in Browsers : req[b].at = "password" /\ req[b].row.lock = "past"
               PROVE  acc'.fails = 0 /\ stop' = [fails |-> 0, held |-> FALSE] /\ req' = req
    BY DEF Door!LockHolds
  <2>1. ASSUME NEW b \in Browsers, Door!WrongPassword(b) \/ Door!RightPassword(b) PROVE FALSE
    <3>1. Door!LockRead(req[b].row) = "held"
      BY <2>1 DEF Door!LockRead, Door!WrongPassword, Door!RightPassword
    <3>2. acc'.lock = "held"
      BY <1>1, <2>1, <3>1 DEF Door!WrongPassword, Door!RightPassword, Door!RowsRead
    <3>3. QED
      BY <3>2
  <2>2. ASSUME NEW b \in Browsers,
               \/ \E right \in BOOLEAN : Door!Login(b, right)
               \/ Door!Locked(b) \/ Door!Failed(b) \/ Door!Stops(b) \/ Door!WrongCode(b) \/ Door!OtpVerify(b)
               \/ Door!OtpShow(b) \/ Door!OtpEnroll(b) \/ Door!Logout(b)
        PROVE  FALSE
    <3>1. acc' = acc
      BY <2>2 DEF Door!Login, Door!Locked, Door!Failed, Door!Stops, Door!WrongCode, Door!OtpVerify, Door!OtpShow,
                  Door!OtpEnroll, Door!Logout
    <3>2. QED
      BY <3>1
  <2>3. ASSUME NEW b \in Browsers, Door!OtpStore(b) \/ Door!AccountTwoFactor(b) PROVE FALSE
    BY <1>1, <2>3 DEF Door!OtpStore, Door!AccountTwoFactor, Door!RowsRead
  <2>4. ASSUME Door!Disable \/ Door!ResetTwoFactor \/ Door!LockRunsOut \/ Door!StopRunsOut PROVE FALSE
    BY <1>1, <2>4 DEF Door!Disable, Door!ResetTwoFactor, Door!LockRunsOut, Door!StopRunsOut, Door!RowsRead
  <2>5. ASSUME Door!Enable \/ Door!ResetPassword \/ Door!ResetAdmin
        PROVE  acc'.fails = 0 /\ stop' = [fails |-> 0, held |-> FALSE] /\ req' = req
    BY <1>1, <2>5 DEF Door!Enable, Door!ResetPassword, Door!ResetAdmin, Door!Unlocked, Door!RowsRead
  <2>6. QED
    BY <2>1, <2>2, <2>3, <2>4, <2>5, Zenon DEF Door!Next
<1>4. QED
  BY <1>2, <1>3

\* Wrong passwords from any number of browsers each count, nobody is signed in on the password alone, only a reset
\* allows a new authenticator, and no sign-in lifts a lock that holds: for any browsers, limits and interleavings.
THEOREM SignInKept == Spec => SignInSafe
<1> DEFINE Inv == part = "sign-in" => Door!SignInInv
<1>1. Init => Inv
  BY DoorInit DEF Init
<1>2. Inv /\ [Next]_vars => Inv'
  <2> SUFFICES ASSUME Inv, [Next]_vars, part' = "sign-in" PROVE Door!SignInInv'
    OBVIOUS
  <2>1. CASE Next
    <3>1. part = "sign-in" /\ Door!Next
      BY <2>1 DEF Next
    <3>2. QED
      BY <3>1, DoorNext
  <2>2. CASE UNCHANGED vars
    <3>1. part = "sign-in" /\ UNCHANGED <<req, doorVars>>
      BY <2>2 DEF vars
    <3>2. QED
      BY <3>1, DoorFrame
  <2>3. QED
    BY <2>1, <2>2
<1>3. Inv => (part = "sign-in" => Door!TypeOK /\ Door!WrongOnesEndIt /\ Door!SecondFactor)
  BY DoorStates
<1>4. Inv /\ [Next]_vars => [part = "sign-in" => Door!AuthenticatorStays /\ Door!LockHolds]_vars
  BY DoorSteps DEF Next
<1>5. QED
  BY <1>1, <1>2, <1>3, <1>4, PTL DEF Spec, SignInSafe

(***************************************************************************)
(* Inventory: what each user keeps on the devices.  Each request is put by *)
(* the tables that it writes (Writes); the commit then keeps the invariant *)
(* whatever was committed since the request read the database.             *)
(***************************************************************************)

\* A key is of one of the seven tables.
LEMMA KeyKinds ==
  ASSUME NEW k \in Own!Keys
  PROVE  \/ \E x \in Devices : k = Own!Device(x)
         \/ \E p \in Profiles : k = Own!Profile(p)
         \/ \E w \in Owners : k = Own!Mapping(w)
         \/ \E w \in Owners : k = Own!Property(w)
         \/ \E x \in Devices, w \in Owners : k = Own!Link(x, w)
         \/ \E x \in Devices, w \in Owners : k = Own!Value(x, w)
         \/ \E x \in Devices, w \in Owners : k = Own!Binding(x, w)
BY DEF Own!Keys

\* What a key is made of: so keys of two tables differ, and so do those of two rows.
LEMMA KeyParts ==
  /\ \A x : Own!Device(x)[1] = "device" /\ Own!Device(x)[2] = x
  /\ \A p : Own!Profile(p)[1] = "profile" /\ Own!Profile(p)[2] = p
  /\ \A w : Own!Mapping(w)[1] = "mapping" /\ Own!Mapping(w)[2] = w
  /\ \A w : Own!Property(w)[1] = "property" /\ Own!Property(w)[2] = w
  /\ \A x, w : Own!Link(x, w)[1] = "link" /\ Own!Link(x, w)[2] = x /\ Own!Link(x, w)[3] = w
  /\ \A x, w : Own!Value(x, w)[1] = "value" /\ Own!Value(x, w)[2] = x /\ Own!Value(x, w)[3] = w
  /\ \A x, w : Own!Binding(x, w)[1] = "binding" /\ Own!Binding(x, w)[2] = x /\ Own!Binding(x, w)[3] = w
BY DEF Own!Device, Own!Profile, Own!Mapping, Own!Property, Own!Link, Own!Value, Own!Binding

\* The keys of the seven tables.
LEMMA KeysIn ==
  /\ \A x \in Devices : Own!Device(x) \in Own!Keys
  /\ \A p \in Profiles : Own!Profile(p) \in Own!Keys
  /\ \A w \in Owners : Own!Mapping(w) \in Own!Keys /\ Own!Property(w) \in Own!Keys
  /\ \A x \in Devices, w \in Owners :
       Own!Link(x, w) \in Own!Keys /\ Own!Value(x, w) \in Own!Keys /\ Own!Binding(x, w) \in Own!Keys
BY DEF Own!Keys

\* The rows of each table.
LEMMA RowsOfTables ==
  /\ \A x : Own!RowsOf(Own!Device(x)) = Own!DeviceRows
  /\ \A p : Own!RowsOf(Own!Profile(p)) = Own!ProfileRows
  /\ \A w : Own!RowsOf(Own!Mapping(w)) = Own!MappingRows /\ Own!RowsOf(Own!Property(w)) = Own!PropertyRows
  /\ \A x, w : /\ Own!RowsOf(Own!Link(x, w)) = Own!LinkRows /\ Own!RowsOf(Own!Value(x, w)) = Own!ValueRows
               /\ Own!RowsOf(Own!Binding(x, w)) = {Own!Bound}
BY KeyParts DEF Own!RowsOf

\* A row is none of an absence.
LEMMA RowsThere == ASSUME NEW k PROVE Own!RowsOf(k) \subseteq Own!Rows /\ Gone \notin Own!RowsOf(k)
<1>1. Own!RowsOf(k) \subseteq Own!Rows
  <2> DEFINE a == k[1]
  <2>1. Own!RowsOf(k) \in {Own!DeviceRows, Own!ProfileRows, Own!MappingRows, Own!LinkRows, Own!ValueRows,
                           Own!PropertyRows, {Own!Bound}}
    BY DEF Own!RowsOf
  <2>2. QED
    BY <2>1 DEF Own!Rows
<1>2. QED
  BY <1>1, InventoryAssumption

\* What a key refers to.
LEMMA RefersTo ==
  /\ \A x, row : Own!Refers(Own!Device(x), row) = {} /\ Own!Refers(Own!Profile(x), row) = {}
                 /\ Own!Refers(Own!Mapping(x), row) = {} /\ Own!Refers(Own!Property(x), row) = {}
  /\ \A x, w, row :
       /\ Own!Refers(Own!Link(x, w), row) = {Own!Device(x), Own!Profile(row.profile)}
       /\ Own!Refers(Own!Value(x, w), row) = {Own!Device(x)}
       /\ Own!Refers(Own!Binding(x, w), row) = {Own!Device(x), Own!Mapping(w)}
BY KeyParts DEF Own!Refers

\* A function of the keys whose rows are their tables' is a database.
LEMMA IsDatabase ==
  ASSUME NEW e, e = [k \in Own!Keys |-> e[k]], \A k \in Own!Keys : e[k] = Gone \/ e[k] \in Own!RowsOf(k)
  PROVE  e \in Own!Database
<1>1. e \in [Own!Keys -> Own!Rows \cup {Gone}]
  BY RowsThere
<1>2. QED
  BY <1>1 DEF Own!Database

\* The rows of a database, table by table.
LEMMA DatabaseRows ==
  ASSUME NEW d \in Own!Database
  PROVE  /\ d \in [Own!Keys -> Own!Rows \cup {Gone}] /\ d = [k \in Own!Keys |-> d[k]]
         /\ \A k \in Own!Keys : d[k] = Gone \/ d[k] \in Own!RowsOf(k)
         /\ \A x \in Devices : d[Own!Device(x)] = Gone \/ d[Own!Device(x)] \in Own!DeviceRows
         /\ \A p \in Profiles : d[Own!Profile(p)] = Gone \/ d[Own!Profile(p)] \in Own!ProfileRows
         /\ \A w \in Owners : d[Own!Mapping(w)] = Gone \/ d[Own!Mapping(w)] \in Own!MappingRows
         /\ \A w \in Owners : d[Own!Property(w)] = Gone \/ d[Own!Property(w)] \in Own!PropertyRows
         /\ \A x \in Devices, w \in Owners :
              /\ d[Own!Link(x, w)] = Gone \/ d[Own!Link(x, w)] \in Own!LinkRows
              /\ d[Own!Value(x, w)] = Gone \/ d[Own!Value(x, w)] \in Own!ValueRows
              /\ d[Own!Binding(x, w)] = Gone \/ d[Own!Binding(x, w)] = Own!Bound
<1>1. d \in [Own!Keys -> Own!Rows \cup {Gone}] /\ \A k \in Own!Keys : d[k] = Gone \/ d[k] \in Own!RowsOf(k)
  BY DEF Own!Database
<1>2. QED
  BY <1>1, KeysIn, RowsOfTables

\* A transaction of u's that is open.
OwnTx(u, op, e) == [by |-> u, op |-> op, read |-> db, wrote |-> e]

\* A transaction that deletes no device, profile or mapping takes nothing else with it.
LEMMA NoCascade ==
  ASSUME NEW t, t.wrote \in Own!Database,
         \A x \in Devices : t.read[Own!Device(x)] # Gone => t.wrote[Own!Device(x)] # Gone,
         \A p \in Profiles : t.read[Own!Profile(p)] # Gone => t.wrote[Own!Profile(p)] # Gone,
         \A w \in Owners : t.read[Own!Mapping(w)] # Gone => t.wrote[Own!Mapping(w)] # Gone
  PROVE  Own!Cascaded(t, t.wrote) = t.wrote
<1>1. \A x \in Devices : Own!Device(x) \notin Own!Deletes(t)
  BY DEF Own!Deletes
<1>2. \A x \in Profiles : Own!Profile(x) \notin Own!Deletes(t)
  BY DEF Own!Deletes
<1>3. \A x \in Owners : Own!Mapping(x) \notin Own!Deletes(t)
  BY DEF Own!Deletes
<1>4. ASSUME NEW k \in Own!Keys, t.wrote[k] # Gone PROVE Own!Refers(k, t.wrote[k]) \cap Own!Deletes(t) = {}
  <2>1. CASE \E x \in Devices, w \in Owners : k = Own!Link(x, w)
    <3>1. PICK x \in Devices, w \in Owners : k = Own!Link(x, w)
      BY <2>1
    <3>2. t.wrote[k].profile \in Profiles
      BY <1>4, <3>1, DatabaseRows DEF Own!LinkRows
    <3>3. QED
      BY <1>1, <1>2, <3>1, <3>2, RefersTo
  <2>2. CASE ~\E x \in Devices, w \in Owners : k = Own!Link(x, w)
    BY <1>1, <1>3, <2>2, KeyKinds, RefersTo
  <2>3. QED
    BY <2>1, <2>2
<1>5. QED
  BY <1>4, DatabaseRows DEF Own!Cascaded

\* What a request may write: by tables, what it changes is its user's own.
Writes(r, u, op, e) ==
  /\ op \in Own!Ops /\ e \in Own!Database
  /\ \A x \in Devices : e[Own!Device(x)] = Gone => db[Own!Device(x)] = Gone \/ op = "delete"
  /\ \A p \in Profiles : e[Own!Profile(p)] # db[Own!Profile(p)] =>
       /\ db[Own!Profile(p)] = Gone => Own!Fresh(Own!Profile(p))
       /\ db[Own!Profile(p)] # Gone => db[Own!Profile(p)].owner = u
       /\ e[Own!Profile(p)] # Gone => e[Own!Profile(p)].owner = u
  /\ \A w \in Owners \ {u} :
       e[Own!Mapping(w)] = db[Own!Mapping(w)] /\ e[Own!Property(w)] = db[Own!Property(w)]
  /\ \A x \in Devices, w \in Owners \ {u} :
       /\ e[Own!Link(x, w)] = db[Own!Link(x, w)] \/ (op = "make local" /\ e[Own!Link(x, w)] = Gone)
       /\ e[Own!Value(x, w)] = db[Own!Value(x, w)] \/ (op = "make local" /\ e[Own!Value(x, w)] = Gone)
       /\ e[Own!Binding(x, w)] = db[Own!Binding(x, w)] \/ (op = "make local" /\ e[Own!Binding(x, w)] = Gone)
  /\ \A x \in Devices : e[Own!Link(x, u)] \notin {db[Own!Link(x, u)], Gone} =>
       /\ e[Own!Profile(e[Own!Link(x, u)].profile)] # Gone
       /\ e[Own!Profile(e[Own!Link(x, u)].profile)].owner = u

\* A request that opens so keeps the invariant, when it does no harm alone.
LEMMA OwnOpens ==
  ASSUME Own!OwnInv, NEW r \in Requests, served < MaxEdits, NEW u \in Owners, NEW op, NEW e,
         Own!Opens(r, u, op, e), Writes(r, u, op, e), Own!WhenAlone(OwnTx(u, op, e))
  PROVE  Own!OwnInv'
<1> DEFINE t == OwnTx(u, op, e)
<1>1. db' = db /\ served' = served + 1 /\ tx' = [tx EXCEPT ![r] = t]
  BY DEF Own!Opens, OwnTx
<1>2. t.by = u /\ t.op = op /\ t.read = db /\ t.wrote = e /\ t \in Own!Transactions
  BY DEF OwnTx, Own!Transactions, Writes, Own!OwnInv
<1> HIDE DEF t
<1>3. tx' \in [Requests -> Own!Transactions \cup {Gone}] /\ tx'[r] = t /\ \A q \in Requests \ {r} : tx'[q] = tx[q]
  BY <1>1, <1>2 DEF Own!OwnInv
<1>4. Own!Mine(t)
  <2> SUFFICES ASSUME NEW k \in Own!Keys, t.wrote[k] # t.read[k]
               PROVE  /\ k[1] \in {"link", "value", "binding"} =>
                           k[3] = t.by \/ (t.op = "make local" /\ t.wrote[k] = Gone)
                      /\ k[1] \in {"mapping", "property"} => k[2] = t.by
                      /\ k[1] = "profile" => \A row \in {t.read[k], t.wrote[k]} \ {Gone} : row.owner = t.by
                      /\ k[1] = "device" => t.wrote[k] # Gone \/ t.op = "delete"
    BY DEF Own!Mine
  <2>1. ASSUME NEW x \in Devices, NEW w \in Owners, k = Own!Link(x, w) \/ k = Own!Value(x, w) \/ k = Own!Binding(x, w)
        PROVE  k[1] \in {"link", "value", "binding"} /\ (k[3] = t.by \/ (t.op = "make local" /\ t.wrote[k] = Gone))
    <3>1. k[1] \in {"link", "value", "binding"} /\ k[3] = w
      BY <2>1, KeyParts
    <3>2. ASSUME w # u PROVE op = "make local" /\ e[k] = Gone
      <4>1. e[k] # db[k] /\ w \in Owners \ {u}
        BY <1>2, <3>2
      <4>2. e[k] = db[k] \/ (op = "make local" /\ e[k] = Gone)
        BY <2>1, <4>1 DEF Writes
      <4>3. QED
        BY <4>1, <4>2
    <3>3. QED
      BY <1>2, <3>1, <3>2
  <2>2. ASSUME NEW w \in Owners, k = Own!Mapping(w) \/ k = Own!Property(w)
        PROVE  k[1] \in {"mapping", "property"} /\ k[2] = t.by
    <3>1. k[1] \in {"mapping", "property"} /\ k[2] = w
      BY <2>2, KeyParts
    <3>2. w = u
      BY <1>2, <2>2 DEF Writes
    <3>3. QED
      BY <1>2, <3>1, <3>2
  <2>3. ASSUME NEW p \in Profiles, k = Own!Profile(p)
        PROVE  k[1] = "profile" /\ \A row \in {t.read[k], t.wrote[k]} \ {Gone} : row.owner = t.by
    <3>1. k[1] = "profile"
      BY <2>3, KeyParts
    <3>2. (db[k] # Gone => db[k].owner = u) /\ (e[k] # Gone => e[k].owner = u)
      BY <1>2, <2>3 DEF Writes
    <3>3. QED
      BY <1>2, <3>1, <3>2
  <2>4. ASSUME NEW x \in Devices, k = Own!Device(x)
        PROVE  k[1] = "device" /\ (t.wrote[k] # Gone \/ t.op = "delete")
    <3>1. k[1] = "device"
      BY <2>4, KeyParts
    <3>2. QED
      BY <1>2, <2>4, <3>1 DEF Writes
  <2>5. QED
    BY <2>1, <2>2, <2>3, <2>4, KeyKinds
<1>5. Own!LinksOwn(t)
  <2> SUFFICES ASSUME NEW x \in Devices, NEW w \in Owners,
                      t.wrote[Own!Link(x, w)] \notin {t.read[Own!Link(x, w)], Gone}
               PROVE  /\ t.wrote[Own!Profile(t.wrote[Own!Link(x, w)].profile)] # Gone
                      /\ t.wrote[Own!Profile(t.wrote[Own!Link(x, w)].profile)].owner = w
    BY DEF Own!LinksOwn
  <2>1. w = u
    BY <1>2 DEF Writes
  <2>2. QED
    BY <1>2, <2>1 DEF Writes
<1>6. Own!WhenAlone(t)
  BY DEF t
<1>7. Own!Remembered(r)'
  <2> SUFFICES ASSUME NEW p \in Profiles
               PROVE  /\ tx'[r].read[Own!Profile(p)] # Gone /\ db'[Own!Profile(p)] # Gone =>
                           tx'[r].read[Own!Profile(p)].owner = db'[Own!Profile(p)].owner
                      /\ tx'[r].read[Own!Profile(p)] = Gone /\ tx'[r].wrote[Own!Profile(p)] # Gone =>
                           /\ db'[Own!Profile(p)] = Gone
                           /\ \A q \in Requests \ {r} : tx'[q] # Gone =>
                                tx'[q].read[Own!Profile(p)] = Gone /\ tx'[q].wrote[Own!Profile(p)] = Gone
    BY DEF Own!Remembered, Own!Profile
  <2>1. t.read[Own!Profile(p)] = Gone /\ t.wrote[Own!Profile(p)] # Gone => Own!Fresh(Own!Profile(p))
    BY <1>2 DEF Writes
  <2>2. QED
    BY <1>1, <1>2, <1>3, <2>1 DEF Own!Fresh
<1>8. ASSUME NEW q \in Requests \ {r}, tx'[q] # Gone PROVE Own!Remembered(q)'
  <2> SUFFICES ASSUME NEW p \in Profiles
               PROVE  /\ tx'[q].read[Own!Profile(p)] # Gone /\ db'[Own!Profile(p)] # Gone =>
                           tx'[q].read[Own!Profile(p)].owner = db'[Own!Profile(p)].owner
                      /\ tx'[q].read[Own!Profile(p)] = Gone /\ tx'[q].wrote[Own!Profile(p)] # Gone =>
                           /\ db'[Own!Profile(p)] = Gone
                           /\ \A o \in Requests \ {q} : tx'[o] # Gone =>
                                tx'[o].read[Own!Profile(p)] = Gone /\ tx'[o].wrote[Own!Profile(p)] = Gone
    BY DEF Own!Remembered, Own!Profile
  <2>1. /\ tx[q].read[Own!Profile(p)] # Gone /\ db[Own!Profile(p)] # Gone =>
             tx[q].read[Own!Profile(p)].owner = db[Own!Profile(p)].owner
        /\ tx[q].read[Own!Profile(p)] = Gone /\ tx[q].wrote[Own!Profile(p)] # Gone =>
             /\ db[Own!Profile(p)] = Gone
             /\ \A o \in Requests \ {q} : tx[o] # Gone =>
                  tx[o].read[Own!Profile(p)] = Gone /\ tx[o].wrote[Own!Profile(p)] = Gone
    BY <1>3, <1>8 DEF Own!OwnInv, Own!Remembered
  <2>2. db[Own!Profile(p)] = Gone /\ e[Own!Profile(p)] # Gone => tx[q].wrote[Own!Profile(p)] = Gone
    BY <1>3, <1>8 DEF Writes, Own!Fresh
  <2>3. QED
    BY <1>1, <1>2, <1>3, <1>8, <2>1, <2>2
<1>9. ASSUME NEW q \in Requests, tx'[q] # Gone
      PROVE  Own!Mine(tx'[q]) /\ Own!LinksOwn(tx'[q]) /\ Own!WhenAlone(tx'[q]) /\ Own!Remembered(q)'
  <2>1. CASE q = r
    BY <1>3, <1>4, <1>5, <1>6, <1>7, <2>1
  <2>2. CASE q # r
    <3>1. Own!Mine(tx[q]) /\ Own!LinksOwn(tx[q]) /\ Own!WhenAlone(tx[q])
      BY <1>3, <1>9, <2>2 DEF Own!OwnInv
    <3>2. QED
      BY <1>3, <1>8, <1>9, <2>2, <3>1
  <2>3. QED
    BY <2>1, <2>2
<1>10. (\A q \in Requests : tx[q] # Gone =>
          Own!Mine(tx[q]) /\ Own!LinksOwn(tx[q]) /\ Own!WhenAlone(tx[q]) /\ Own!Remembered(q))'
  BY <1>9
<1>11. db' \in Own!Database /\ Own!OwnCredentials' /\ served' \in 0..MaxEdits
  BY <1>1, InventoryAssumption DEF Own!OwnInv, Own!OwnCredentials, Own!OwnCredentialsIn
<1>12. QED
  BY <1>3, <1>10, <1>11 DEF Own!OwnInv

\* The columns of a row that a transaction changed, over what is there now: a row of the table again, and the row
\* that was written when what is there is what was read.
Columns(a, b, c) == [f \in DOMAIN c |-> IF a[f] # b[f] THEN a[f] ELSE c[f]]

LEMMA ColumnsKept ==
  ASSUME NEW k \in Own!Keys, NEW a \in Own!RowsOf(k), NEW b \in Own!RowsOf(k), NEW c \in Own!RowsOf(k)
  PROVE  Columns(a, b, c) \in Own!RowsOf(k) /\ (b = c => Columns(a, b, c) = a)
<1>1. ASSUME NEW x \in Devices, k = Own!Device(x)
      PROVE  Columns(a, b, c) \in Own!RowsOf(k) /\ (b = c => Columns(a, b, c) = a)
  <2>1. a \in Own!DeviceRows /\ b \in Own!DeviceRows /\ c \in Own!DeviceRows
    BY <1>1, RowsOfTables
  <2>2. QED
    BY <1>1, <2>1, RowsOfTables DEF Columns, Own!DeviceRows
<1>2. ASSUME NEW p \in Profiles, k = Own!Profile(p)
      PROVE  Columns(a, b, c) \in Own!RowsOf(k) /\ (b = c => Columns(a, b, c) = a)
  <2>1. a \in Own!ProfileRows /\ b \in Own!ProfileRows /\ c \in Own!ProfileRows
    BY <1>2, RowsOfTables
  <2>2. QED
    BY <1>2, <2>1, RowsOfTables DEF Columns, Own!ProfileRows
<1>3. ASSUME NEW w \in Owners, k = Own!Mapping(w)
      PROVE  Columns(a, b, c) \in Own!RowsOf(k) /\ (b = c => Columns(a, b, c) = a)
  <2>1. a \in Own!MappingRows /\ b \in Own!MappingRows /\ c \in Own!MappingRows
    BY <1>3, RowsOfTables
  <2>2. QED
    BY <1>3, <2>1, RowsOfTables DEF Columns, Own!MappingRows
<1>4. ASSUME NEW w \in Owners, k = Own!Property(w)
      PROVE  Columns(a, b, c) \in Own!RowsOf(k) /\ (b = c => Columns(a, b, c) = a)
  <2>1. a \in Own!PropertyRows /\ b \in Own!PropertyRows /\ c \in Own!PropertyRows
    BY <1>4, RowsOfTables
  <2>2. QED
    BY <1>4, <2>1, RowsOfTables DEF Columns, Own!PropertyRows
<1>5. ASSUME NEW x \in Devices, NEW w \in Owners, k = Own!Link(x, w)
      PROVE  Columns(a, b, c) \in Own!RowsOf(k) /\ (b = c => Columns(a, b, c) = a)
  <2>1. a \in Own!LinkRows /\ b \in Own!LinkRows /\ c \in Own!LinkRows
    BY <1>5, RowsOfTables
  <2>2. QED
    BY <1>5, <2>1, RowsOfTables DEF Columns, Own!LinkRows
<1>6. ASSUME NEW x \in Devices, NEW w \in Owners, k = Own!Value(x, w)
      PROVE  Columns(a, b, c) \in Own!RowsOf(k) /\ (b = c => Columns(a, b, c) = a)
  <2>1. a \in Own!ValueRows /\ b \in Own!ValueRows /\ c \in Own!ValueRows
    BY <1>6, RowsOfTables
  <2>2. QED
    BY <1>6, <2>1, RowsOfTables DEF Columns, Own!ValueRows
<1>7. ASSUME NEW x \in Devices, NEW w \in Owners, k = Own!Binding(x, w)
      PROVE  Columns(a, b, c) \in Own!RowsOf(k) /\ (b = c => Columns(a, b, c) = a)
  <2>1. a = Own!Bound /\ b = Own!Bound /\ c = Own!Bound /\ Own!RowsOf(k) = {Own!Bound}
    BY <1>7, RowsOfTables
  <2>2. QED
    BY <2>1 DEF Columns, Own!Bound
<1>8. QED
  BY <1>1, <1>2, <1>3, <1>4, <1>5, <1>6, <1>7, KeyKinds

\* A link has one column.
LEMMA LinkColumns ==
  ASSUME NEW a \in Own!LinkRows, NEW b \in Own!LinkRows, NEW c \in Own!LinkRows, a # b
  PROVE  Columns(a, b, c) = a
<1>1. PICK p \in Profiles : a = [profile |-> p]
  BY DEF Own!LinkRows
<1>2. PICK q \in Profiles : b = [profile |-> q]
  BY DEF Own!LinkRows
<1>3. PICK o \in Profiles : c = [profile |-> o]
  BY DEF Own!LinkRows
<1>4. p # q
  BY <1>1, <1>2
<1>5. QED
  BY <1>1, <1>2, <1>3, <1>4 DEF Columns

\* What a commit makes of one row, when the database does not refuse.
LEMMA MergedRow ==
  ASSUME db \in Own!Database, NEW t \in Own!Transactions, ~Own!Refuses(t), NEW k \in Own!Keys
  PROVE  /\ Own!Merged(t)[k] = Gone \/ Own!Merged(t)[k] \in Own!RowsOf(k)
         /\ t.wrote[k] = t.read[k] => Own!Merged(t)[k] = db[k]
         /\ t.wrote[k] # t.read[k] /\ t.wrote[k] = Gone => Own!Merged(t)[k] = Gone
         /\ t.wrote[k] # t.read[k] /\ t.read[k] = Gone => Own!Merged(t)[k] = t.wrote[k] /\ db[k] = Gone
         /\ t.wrote[k] # t.read[k] /\ t.wrote[k] # Gone /\ t.read[k] # Gone =>
              db[k] # Gone /\ Own!Merged(t)[k] = Columns(t.wrote[k], t.read[k], db[k])
<1>1. /\ db[k] = Gone \/ db[k] \in Own!RowsOf(k)
      /\ t.read[k] = Gone \/ t.read[k] \in Own!RowsOf(k)
      /\ t.wrote[k] = Gone \/ t.wrote[k] \in Own!RowsOf(k)
  BY DEF Own!Transactions, Own!Database
<1>2. /\ t.wrote[k] # t.read[k] /\ t.read[k] # Gone /\ t.wrote[k] # Gone => db[k] # Gone
      /\ t.wrote[k] # t.read[k] /\ t.read[k] = Gone => db[k] = Gone
  BY DEF Own!Refuses
<1>3. Own!Merged(t)[k] =
        IF t.wrote[k] = t.read[k] THEN db[k]
        ELSE IF Gone \in {t.wrote[k], t.read[k], db[k]} THEN t.wrote[k] ELSE Columns(t.wrote[k], t.read[k], db[k])
  BY DEF Own!Merged, Columns
<1>4. t.wrote[k] # Gone /\ t.read[k] # Gone /\ db[k] # Gone =>
        Columns(t.wrote[k], t.read[k], db[k]) \in Own!RowsOf(k)
  BY <1>1, ColumnsKept
<1>5. QED
  BY <1>1, <1>2, <1>3, <1>4

\* A profile that is there after a commit has the owner it had, and one that the commit adds was nobody's.
LEMMA MergedOwner ==
  ASSUME Own!OwnInv, NEW r \in Requests, tx[r] # Gone, ~Own!Refuses(tx[r]), NEW p \in Profiles
  PROVE  /\ db[Own!Profile(p)] # Gone /\ Own!Merged(tx[r])[Own!Profile(p)] # Gone =>
              Own!Merged(tx[r])[Own!Profile(p)].owner = db[Own!Profile(p)].owner
         /\ db[Own!Profile(p)] = Gone /\ Own!Merged(tx[r])[Own!Profile(p)] # Gone =>
              /\ tx[r].read[Own!Profile(p)] = Gone /\ tx[r].wrote[Own!Profile(p)] # Gone
              /\ Own!Merged(tx[r])[Own!Profile(p)] = tx[r].wrote[Own!Profile(p)]
<1> DEFINE k == Own!Profile(p)  t == tx[r]
<1>1. k \in Own!Keys /\ k[1] = "profile" /\ t \in Own!Transactions /\ db \in Own!Database
  BY KeysIn, KeyParts DEF Own!OwnInv
<1>2. Own!Mine(t) /\ Own!Remembered(r)
  BY DEF Own!OwnInv
<1>3. /\ Own!Merged(t)[k] = Gone \/ Own!Merged(t)[k] \in Own!RowsOf(k)
      /\ t.wrote[k] = t.read[k] => Own!Merged(t)[k] = db[k]
      /\ t.wrote[k] # t.read[k] /\ t.wrote[k] = Gone => Own!Merged(t)[k] = Gone
      /\ t.wrote[k] # t.read[k] /\ t.read[k] = Gone => Own!Merged(t)[k] = t.wrote[k] /\ db[k] = Gone
      /\ t.wrote[k] # t.read[k] /\ t.wrote[k] # Gone /\ t.read[k] # Gone =>
           db[k] # Gone /\ Own!Merged(t)[k] = Columns(t.wrote[k], t.read[k], db[k])
  BY <1>1, MergedRow
<1>4. ASSUME t.wrote[k] # t.read[k], t.wrote[k] # Gone, t.read[k] # Gone
      PROVE  Own!Merged(t)[k].owner = db[k].owner
  <2>1. t.wrote[k].owner = t.read[k].owner
    BY <1>1, <1>2, <1>4 DEF Own!Mine
  <2>2. db[k] \in Own!ProfileRows
    BY <1>1, <1>3, <1>4, DatabaseRows
  <2>3. QED
    BY <1>3, <1>4, <2>1, <2>2 DEF Columns, Own!ProfileRows
<1>5. QED
  BY <1>3, <1>4

\* A commit that the database does not refuse.
LEMMA OwnMerges ==
  ASSUME Own!OwnInv, NEW r \in Requests, tx[r] # Gone, ~Own!Refuses(tx[r]),
         db' = Own!Cascaded(tx[r], Own!Merged(tx[r]))
  PROVE  /\ db' \in Own!Database /\ Own!OwnCredentials'
         /\ \A p \in Profiles : db'[Own!Profile(p)] # Gone =>
              /\ db[Own!Profile(p)] # Gone => db'[Own!Profile(p)].owner = db[Own!Profile(p)].owner
              /\ db[Own!Profile(p)] = Gone => tx[r].read[Own!Profile(p)] = Gone /\ tx[r].wrote[Own!Profile(p)] # Gone
<1> DEFINE t == tx[r]  d == Own!Merged(t)
<1>1. t \in Own!Transactions /\ db \in Own!Database
  BY DEF Own!OwnInv
<1>2. Own!Mine(t) /\ Own!Remembered(r) /\ Own!LinksOwn(t)
  BY DEF Own!OwnInv
<1>3. db' = [k \in Own!Keys |-> IF d[k] # Gone /\ Own!Refers(k, d[k]) \cap Own!Deletes(t) # {} THEN Gone ELSE d[k]]
  BY DEF Own!Cascaded
<1>4. \A k \in Own!Keys : d[k] = Gone \/ d[k] \in Own!RowsOf(k)
  BY <1>1, MergedRow
<1>5. \A k \in Own!Keys : db'[k] # Gone => db'[k] = d[k] /\ Own!Refers(k, d[k]) \cap Own!Deletes(t) = {}
  BY <1>3
<1> HIDE DEF d
<1>6. db' \in Own!Database
  <2>1. db' = [k \in Own!Keys |-> db'[k]] /\ \A k \in Own!Keys : db'[k] = Gone \/ db'[k] \in Own!RowsOf(k)
    BY <1>3, <1>4
  <2>2. QED
    BY <2>1, IsDatabase
<1>7. \A p \in Profiles :
        /\ db[Own!Profile(p)] # Gone /\ d[Own!Profile(p)] # Gone =>
             d[Own!Profile(p)].owner = db[Own!Profile(p)].owner
        /\ db[Own!Profile(p)] = Gone /\ d[Own!Profile(p)] # Gone =>
             /\ t.read[Own!Profile(p)] = Gone /\ t.wrote[Own!Profile(p)] # Gone
             /\ d[Own!Profile(p)] = t.wrote[Own!Profile(p)]
  BY MergedOwner DEF d
<1>8. \A p \in Profiles : db'[Own!Profile(p)] # Gone => db'[Own!Profile(p)] = d[Own!Profile(p)]
  BY <1>5, KeysIn
\* What a row that is kept refers to is there when it was, or when the transaction adds it.
<1>9. ASSUME NEW j \in Own!Keys, j \notin Own!Deletes(t),
             j[1] \in {"device", "profile"}, db[j] # Gone \/ (t.read[j] = Gone /\ t.wrote[j] # Gone)
      PROVE  db'[j] # Gone /\ db'[j] = d[j]
  <2>1. d[j] # Gone
    <3>1. ~(t.read[j] # Gone /\ t.wrote[j] = Gone)
      BY <1>9 DEF Own!Deletes
    <3>2. /\ t.wrote[j] = t.read[j] => d[j] = db[j]
          /\ t.wrote[j] # t.read[j] /\ t.read[j] = Gone => d[j] = t.wrote[j] /\ db[j] = Gone
          /\ t.wrote[j] # t.read[j] /\ t.wrote[j] # Gone /\ t.read[j] # Gone =>
               db[j] # Gone /\ d[j] = Columns(t.wrote[j], t.read[j], db[j])
      BY <1>1, <1>9, MergedRow DEF d
    <3>3. t.wrote[j] # t.read[j] /\ t.wrote[j] # Gone /\ t.read[j] # Gone => d[j] # Gone
      <4>1. SUFFICES ASSUME t.wrote[j] # t.read[j], t.wrote[j] # Gone, t.read[j] # Gone PROVE d[j] # Gone
        OBVIOUS
      <4>2. t.wrote[j] \in Own!RowsOf(j) /\ t.read[j] \in Own!RowsOf(j) /\ db[j] \in Own!RowsOf(j)
        BY <1>1, <1>9, <3>2, <4>1 DEF Own!Transactions, Own!Database
      <4>3. QED
        BY <1>9, <3>2, <4>1, <4>2, ColumnsKept, RowsThere
    <3>4. QED
      BY <1>9, <3>1, <3>2, <3>3
  <2>2. Own!Refers(j, d[j]) = {}
    BY <1>9 DEF Own!Refers
  <2>3. QED
    BY <1>3, <1>9, <2>1, <2>2
<1>10. Own!OwnCredentials'
  <2> SUFFICES ASSUME NEW x \in Devices, NEW w \in Owners, db'[Own!Link(x, w)] # Gone
               PROVE  /\ db'[Own!Device(x)] # Gone /\ db'[Own!Profile(db'[Own!Link(x, w)].profile)] # Gone
                      /\ db'[Own!Profile(db'[Own!Link(x, w)].profile)].owner = w
    BY DEF Own!OwnCredentials, Own!OwnCredentialsIn, Own!Device, Own!Profile, Own!Link
  <2> DEFINE k == Own!Link(x, w)
  <2>1. k \in Own!Keys
    BY KeysIn
  <2> HIDE DEF k
  <2>2. db'[k] = d[k] /\ d[k] # Gone /\ Own!Refers(k, d[k]) \cap Own!Deletes(t) = {}
    BY <1>5, <2>1 DEF k
  <2>3. d[k] \in Own!LinkRows /\ d[k].profile \in Profiles
    <3>1. d[k] \in Own!LinkRows
      BY <1>4, <2>1, <2>2, RowsOfTables DEF k
    <3>2. QED
      BY <3>1 DEF Own!LinkRows
  <2> DEFINE p == d[k].profile  j == Own!Profile(p)  i == Own!Device(x)
  <2>4. i \notin Own!Deletes(t) /\ j \notin Own!Deletes(t)
    BY <2>2, RefersTo DEF k
  <2>5. i \in Own!Keys /\ j \in Own!Keys /\ i[1] = "device" /\ j[1] = "profile" /\ p \in Profiles
    BY <2>3, KeysIn, KeyParts
  <2>6. /\ db[i] # Gone \/ (t.read[i] = Gone /\ t.wrote[i] # Gone)
        /\ db[j] # Gone \/ (t.read[j] = Gone /\ t.wrote[j] # Gone)
        /\ db[j] # Gone => db[j].owner = w
        /\ db[j] = Gone => t.wrote[j].owner = w
    <3>1. CASE t.wrote[k] = t.read[k]
      <4>1. d[k] = db[k]
        BY <1>1, <2>1, <3>1, MergedRow DEF d
      <4>2. QED
        BY <2>2, <4>1 DEF k, Own!OwnInv, Own!OwnCredentials, Own!OwnCredentialsIn
    <3>2. CASE t.wrote[k] # t.read[k]
      <4>1. t.wrote[k] # Gone /\ d[k] = t.wrote[k]
        <5>1. t.wrote[k] # Gone
          BY <1>1, <2>1, <2>2, <3>2, MergedRow DEF d
        <5>2. CASE t.read[k] = Gone
          BY <1>1, <2>1, <3>2, <5>1, <5>2, MergedRow DEF d
        <5>3. CASE t.read[k] # Gone
          <6>1. db[k] # Gone /\ d[k] = Columns(t.wrote[k], t.read[k], db[k])
            BY <1>1, <2>1, <3>2, <5>1, <5>3, MergedRow DEF d
          <6>2. t.wrote[k] \in Own!LinkRows /\ t.read[k] \in Own!LinkRows /\ db[k] \in Own!LinkRows
            <7>1. db \in Own!Database /\ t.read \in Own!Database /\ t.wrote \in Own!Database
              BY <1>1 DEF Own!Transactions
            <7>2. QED
              BY <5>1, <5>3, <6>1, <7>1, DatabaseRows DEF k
          <6>3. QED
            <7>1. Columns(t.wrote[k], t.read[k], db[k]) = t.wrote[k]
              BY <3>2, <6>2, LinkColumns
            <7>2. QED
              BY <5>1, <6>1, <7>1
        <5>4. QED
          BY <5>2, <5>3
      <4>2. \A n \in Own!Refers(k, t.wrote[k]) : db[n] # Gone \/ (t.read[n] = Gone /\ t.wrote[n] # Gone)
        BY <2>1, <3>2, <4>1 DEF Own!Refuses, Own!Dangles
      <4>3. Own!Refers(k, t.wrote[k]) = {i, j}
        BY <4>1, RefersTo DEF k
      <4>4. t.wrote[j] # Gone /\ t.wrote[j].owner = w
        BY <1>2, <3>2, <4>1 DEF Own!LinksOwn, k
      <4>5. db[j] # Gone => db[j].owner = w
        <5>1. SUFFICES ASSUME db[j] # Gone PROVE db[j].owner = w
          OBVIOUS
        <5>2. t.read[j] # Gone
          BY <1>2, <2>5, <4>4, <5>1 DEF Own!Remembered
        <5>3. t.read[j].owner = db[j].owner
          BY <1>2, <2>5, <5>1, <5>2 DEF Own!Remembered
        <5>4. t.wrote[j] # t.read[j] => t.read[j].owner = t.by /\ t.wrote[j].owner = t.by
          BY <1>2, <2>5, <4>4, <5>2 DEF Own!Mine
        <5>5. QED
          BY <4>4, <5>3, <5>4
      <4>6. QED
        BY <4>2, <4>3, <4>4, <4>5
    <3>3. QED
      BY <3>1, <3>2
  <2>7. db'[i] # Gone /\ db'[j] # Gone /\ db'[j] = d[j]
    BY <1>9, <2>4, <2>5, <2>6
  <2>8. d[j].owner = w
    BY <1>7, <2>5, <2>6, <2>7
  <2>9. QED
    BY <2>2, <2>7, <2>8 DEF k
<1>11. QED
  BY <1>6, <1>7, <1>8, <1>10

\* A commit closes its transaction and leaves the others'.
LEMMA OwnClosed ==
  ASSUME Own!OwnInv, NEW r \in Requests, Own!Commits(r)
  PROVE  /\ tx[r] # Gone /\ tx' \in [Requests -> Own!Transactions \cup {Gone}] /\ tx'[r] = Gone
         /\ \A q \in Requests \ {r} : tx'[q] = tx[q]
         /\ Own!Refuses(tx[r]) => db' = db
         /\ ~Own!Refuses(tx[r]) => db' = Own!Cascaded(tx[r], Own!Merged(tx[r]))
BY DEF Own!OwnInv, Own!Commits

\* A commit keeps the invariant.
LEMMA OwnCommits == ASSUME Own!OwnInv, NEW r \in Requests, Own!Commits(r) PROVE Own!OwnInv'
<1>1. /\ tx[r] # Gone /\ tx' \in [Requests -> Own!Transactions \cup {Gone}] /\ tx'[r] = Gone
      /\ \A q \in Requests \ {r} : tx'[q] = tx[q]
      /\ Own!Refuses(tx[r]) => db' = db
      /\ ~Own!Refuses(tx[r]) => db' = Own!Cascaded(tx[r], Own!Merged(tx[r]))
  BY OwnClosed
<1>2. /\ db' \in Own!Database /\ Own!OwnCredentials'
      /\ \A p \in Profiles : db'[Own!Profile(p)] # Gone =>
           /\ db[Own!Profile(p)] # Gone => db'[Own!Profile(p)].owner = db[Own!Profile(p)].owner
           /\ db[Own!Profile(p)] = Gone => tx[r].read[Own!Profile(p)] = Gone /\ tx[r].wrote[Own!Profile(p)] # Gone
  <2>1. CASE Own!Refuses(tx[r])
    BY <1>1, <2>1 DEF Own!OwnInv, Own!OwnCredentials, Own!OwnCredentialsIn
  <2>2. CASE ~Own!Refuses(tx[r])
    BY <1>1, <2>2, OwnMerges
  <2>3. QED
    BY <2>1, <2>2
<1>3. ASSUME NEW q \in Requests, tx'[q] # Gone PROVE Own!Remembered(q)'
  <2>1. q # r /\ tx'[q] = tx[q] /\ tx[q] # Gone
    BY <1>1, <1>3
  <2> SUFFICES ASSUME NEW p \in Profiles
               PROVE  /\ tx'[q].read[Own!Profile(p)] # Gone /\ db'[Own!Profile(p)] # Gone =>
                           tx'[q].read[Own!Profile(p)].owner = db'[Own!Profile(p)].owner
                      /\ tx'[q].read[Own!Profile(p)] = Gone /\ tx'[q].wrote[Own!Profile(p)] # Gone =>
                           /\ db'[Own!Profile(p)] = Gone
                           /\ \A o \in Requests \ {q} : tx'[o] # Gone =>
                                tx'[o].read[Own!Profile(p)] = Gone /\ tx'[o].wrote[Own!Profile(p)] = Gone
    BY DEF Own!Remembered, Own!Profile
  <2> DEFINE k == Own!Profile(p)
  <2>2. /\ tx[q].read[k] # Gone /\ db[k] # Gone => tx[q].read[k].owner = db[k].owner
        /\ tx[q].read[k] = Gone /\ tx[q].wrote[k] # Gone =>
             /\ db[k] = Gone
             /\ \A o \in Requests \ {q} : tx[o] # Gone => tx[o].read[k] = Gone /\ tx[o].wrote[k] = Gone
    BY <2>1 DEF Own!OwnInv, Own!Remembered
  <2>3. tx[r].read[k] = Gone /\ tx[r].wrote[k] # Gone =>
          /\ db[k] = Gone
          /\ \A o \in Requests \ {r} : tx[o] # Gone => tx[o].read[k] = Gone /\ tx[o].wrote[k] = Gone
    BY <1>1 DEF Own!OwnInv, Own!Remembered
  <2>4. db'[k] # Gone =>
          /\ db[k] # Gone => db'[k].owner = db[k].owner
          /\ db[k] = Gone => tx[r].read[k] = Gone /\ tx[r].wrote[k] # Gone
    BY <1>2
  <2> HIDE DEF k
  <2>5. tx'[q].read[k] # Gone /\ db'[k] # Gone => tx'[q].read[k].owner = db'[k].owner
    BY <2>1, <2>2, <2>3, <2>4
  <2>6. tx'[q].read[k] = Gone /\ tx'[q].wrote[k] # Gone =>
          /\ db'[k] = Gone
          /\ \A o \in Requests \ {q} : tx'[o] # Gone => tx'[o].read[k] = Gone /\ tx'[o].wrote[k] = Gone
    BY <1>1, <2>1, <2>2, <2>3, <2>4
  <2>7. QED
    BY <2>5, <2>6 DEF k
<1>4. ASSUME NEW q \in Requests, tx'[q] # Gone
      PROVE  Own!Mine(tx'[q]) /\ Own!LinksOwn(tx'[q]) /\ Own!WhenAlone(tx'[q]) /\ Own!Remembered(q)'
  <2>1. tx'[q] = tx[q] /\ tx[q] # Gone
    BY <1>1, <1>4
  <2>2. Own!Mine(tx[q]) /\ Own!LinksOwn(tx[q]) /\ Own!WhenAlone(tx[q])
    BY <2>1 DEF Own!OwnInv
  <2>3. QED
    BY <1>3, <1>4, <2>1, <2>2
<1>5. (\A q \in Requests : tx[q] # Gone =>
         Own!Mine(tx[q]) /\ Own!LinksOwn(tx[q]) /\ Own!WhenAlone(tx[q]) /\ Own!Remembered(q))'
  BY <1>4
<1>6. served' \in 0..MaxEdits
  BY DEF Own!OwnInv, Own!Commits
<1>7. QED
  BY <1>1, <1>2, <1>5, <1>6 DEF Own!OwnInv

\* A transaction that deletes a device, or makes one local
TakesDevice(t) == t.op \in {"delete", "make local"}

\* What any other transaction changes is its user's.
LEMMA MineOnly ==
  ASSUME NEW t, Own!Mine(t), ~TakesDevice(t), NEW k \in Own!Keys, t.wrote[k] # t.read[k]
  PROVE  /\ k[1] \in {"link", "value", "binding"} => k[3] = t.by
         /\ k[1] \in {"mapping", "property"} => k[2] = t.by
         /\ k[1] = "profile" /\ t.read[k] # Gone => t.read[k].owner = t.by
         /\ k[1] = "device" => t.wrote[k] # Gone
<1>1. t.op # "make local" /\ t.op # "delete"
  BY DEF TakesDevice
<1>2. QED
  BY <1>1, Zenon DEF Own!Mine

\* A commit of a transaction that deletes no device and makes none local leaves the others' rows.
LEMMA OwnOthers ==
  ASSUME Own!OwnInv, NEW r \in Requests, Own!Commits(r), ~TakesDevice(tx[r]),
         NEW k \in Own!Keys, k \in Own!OfOthers(tx[r].by)
  PROVE  db'[k] = db[k]
<1> DEFINE t == tx[r]
<1>1. /\ tx[r] # Gone
      /\ Own!Refuses(tx[r]) => db' = db
      /\ ~Own!Refuses(tx[r]) => db' = Own!Cascaded(tx[r], Own!Merged(tx[r]))
  BY OwnClosed
<1>2. t \in Own!Transactions /\ db \in Own!Database /\ Own!Mine(t) /\ Own!Remembered(r)
  BY <1>1 DEF Own!OwnInv
<1>3. SUFFICES ASSUME ~Own!Refuses(t) PROVE db'[k] = db[k]
  BY <1>1
<1>4. \A x \in Devices : Own!Device(x) \notin Own!Deletes(t)
  <2>1. \A j \in Own!Keys : j[1] = "device" /\ t.read[j] # Gone => t.wrote[j] # Gone
    BY <1>2, MineOnly
  <2>2. QED
    BY <2>1, KeyParts DEF Own!Deletes
<1>5. \A p \in Profiles : db[Own!Profile(p)] # Gone /\ db[Own!Profile(p)].owner # t.by =>
        t.wrote[Own!Profile(p)] = t.read[Own!Profile(p)]
  <2> SUFFICES ASSUME NEW p \in Profiles, db[Own!Profile(p)] # Gone, db[Own!Profile(p)].owner # t.by,
                      t.wrote[Own!Profile(p)] # t.read[Own!Profile(p)]
               PROVE  FALSE
    OBVIOUS
  <2> DEFINE j == Own!Profile(p)
  <2>1. j \in Own!Keys /\ j[1] = "profile"
    BY KeysIn, KeyParts
  <2>2. t.read[j] # Gone
    BY <1>2, <1>3, <2>1 DEF Own!Refuses
  <2>3. t.read[j].owner = t.by /\ t.read[j].owner = db[j].owner
    BY <1>2, <2>1, <2>2, MineOnly DEF Own!Remembered
  <2>4. QED
    BY <2>3
<1>6. t.wrote[k] = t.read[k]
  <2>1. CASE k[1] \in {"link", "value", "binding"} /\ k[3] # t.by
    BY <1>2, <2>1, MineOnly
  <2>2. CASE k[1] \in {"mapping", "property"} /\ k[2] # t.by
    BY <1>2, <2>2, MineOnly
  <2>3. CASE k[1] = "profile" /\ db[k] # Gone /\ db[k].owner # t.by
    BY <1>2, <1>5, <2>3, KeyKinds, KeyParts
  <2>4. QED
    BY <2>1, <2>2, <2>3 DEF Own!OfOthers
<1>7. Own!Merged(t)[k] = db[k]
  BY <1>2, <1>3, <1>6, MergedRow
<1>8. db[k] # Gone => Own!Refers(k, db[k]) \cap Own!Deletes(t) = {}
  <2> SUFFICES ASSUME db[k] # Gone PROVE Own!Refers(k, db[k]) \cap Own!Deletes(t) = {}
    OBVIOUS
  <2>1. ASSUME NEW x \in Devices, NEW w \in Owners, k = Own!Link(x, w)
        PROVE  Own!Refers(k, db[k]) \cap Own!Deletes(t) = {}
    <3> DEFINE j == Own!Profile(db[k].profile)
    <3>1. w # t.by
      <4>1. k[1] = "link" /\ k[3] = w
        BY <2>1, KeyParts
      <4>2. QED
        BY <4>1 DEF Own!OfOthers
    <3>2. db[k].profile \in Profiles
      <4>1. db[k] \in Own!LinkRows
        BY <1>2, <2>1, DatabaseRows
      <4>2. QED
        BY <4>1 DEF Own!LinkRows
    <3>3. db[j] # Gone /\ db[j].owner = w
      BY <2>1 DEF Own!OwnInv, Own!OwnCredentials, Own!OwnCredentialsIn
    <3>4. j \notin Own!Deletes(t)
      BY <1>5, <3>1, <3>2, <3>3 DEF Own!Deletes
    <3>5. QED
      BY <1>4, <2>1, <3>4, RefersTo
  <2>2. ASSUME NEW x \in Devices, NEW w \in Owners, k = Own!Binding(x, w)
        PROVE  Own!Refers(k, db[k]) \cap Own!Deletes(t) = {}
    <3>1. w # t.by
      <4>1. k[1] = "binding" /\ k[3] = w
        BY <2>2, KeyParts
      <4>2. QED
        BY <4>1 DEF Own!OfOthers
    <3>2. Own!Mapping(w) \notin Own!Deletes(t)
      BY <1>2, <3>1, KeysIn, KeyParts, MineOnly DEF Own!Deletes
    <3>3. QED
      BY <1>4, <2>2, <3>2, RefersTo
  <2>3. CASE ~\E x \in Devices, w \in Owners : k = Own!Link(x, w) \/ k = Own!Binding(x, w)
    BY <1>2, <1>4, <2>3, KeyKinds, RefersTo
  <2>4. QED
    BY <2>1, <2>2, <2>3
<1>9. QED
  BY <1>1, <1>2, <1>3, <1>7, <1>8 DEF Own!Cascaded

\* What a transaction that runs alone leaves: nothing, or all that it wrote with what goes with it.
LEMMA OwnAlone ==
  ASSUME Own!OwnInv, NEW r \in Requests, Own!Commits(r), tx[r].read = db
  PROVE  db' = db \/ db' = Own!Cascaded(tx[r], tx[r].wrote)
<1> DEFINE t == tx[r]
<1>1. /\ tx[r] # Gone
      /\ Own!Refuses(tx[r]) => db' = db
      /\ ~Own!Refuses(tx[r]) => db' = Own!Cascaded(tx[r], Own!Merged(tx[r]))
  BY OwnClosed
<1>2. t \in Own!Transactions /\ db \in Own!Database /\ t.wrote \in Own!Database
  BY <1>1 DEF Own!OwnInv, Own!Transactions
<1>3. SUFFICES ASSUME ~Own!Refuses(t) PROVE Own!Merged(t) = t.wrote
  BY <1>1
<1>4. ASSUME NEW k \in Own!Keys PROVE Own!Merged(t)[k] = t.wrote[k]
  <2>1. CASE t.wrote[k] = t.read[k] \/ t.wrote[k] = Gone \/ t.read[k] = Gone
    BY <1>2, <1>3, <2>1, MergedRow
  <2>2. CASE t.wrote[k] # t.read[k] /\ t.wrote[k] # Gone /\ t.read[k] # Gone
    <3>1. Own!Merged(t)[k] = Columns(t.wrote[k], t.read[k], db[k])
      BY <1>2, <1>3, <2>2, MergedRow
    <3>2. t.wrote[k] \in Own!RowsOf(k) /\ t.read[k] \in Own!RowsOf(k) /\ db[k] \in Own!RowsOf(k)
      BY <1>2, <2>2 DEF Own!Database
    <3>3. QED
      BY <3>1, <3>2, ColumnsKept
  <2>3. QED
    BY <2>1, <2>2
<1>5. Own!Merged(t) = [k \in Own!Keys |-> Own!Merged(t)[k]]
  BY DEF Own!Merged
<1>6. t.wrote = [k \in Own!Keys |-> t.wrote[k]]
  BY <1>2 DEF Own!Database
<1>7. QED
  BY <1>4, <1>5, <1>6

\* A step that commits nothing: a request that opens takes the place of none.
LEMMA OwnOpening ==
  ASSUME NEW r \in Requests, tx[r] = Gone, NEW u, NEW op, NEW e, Own!Opens(r, u, op, e), Own!OwnInv
  PROVE  \A q \in Requests : ~Own!CommitsNow(q)
BY DEF Own!Opens, Own!CommitsNow, Own!OwnInv

\* The steps of a commit.
LEMMA OwnCommitSteps ==
  ASSUME Own!OwnInv, NEW r \in Requests, Own!Commits(r)
  PROVE  Own!OthersUntouched /\ Own!NoOrphans /\ Own!BoundResolves /\ Own!NoTwins
<1>1. \A q \in Requests : Own!CommitsNow(q) => q = r
  BY OwnClosed DEF Own!CommitsNow
<1>2. Own!OthersUntouched
  BY <1>1, OwnOthers DEF Own!OthersUntouched, Own!OfOthers, TakesDevice
<1>3. Own!CommitsAlone(r) => db' = db \/ db' = Own!Cascaded(tx[r], tx[r].wrote)
  BY OwnAlone DEF Own!CommitsAlone
<1>4. Own!CommitsAlone(r) => Own!WhenAlone(tx[r]) /\ tx[r].read = db
  BY DEF Own!OwnInv, Own!CommitsAlone, Own!CommitsNow
<1>5. \A q \in Requests : Own!CommitsAlone(q) => q = r
  BY <1>1 DEF Own!CommitsAlone
<1>6. Own!NoOrphans
  BY <1>3, <1>4, <1>5 DEF Own!NoOrphans, Own!WhenAlone
<1>7. Own!BoundResolves
  BY <1>3, <1>4, <1>5 DEF Own!BoundResolves, Own!WhenAlone
<1>8. Own!NoTwins
  BY <1>3, <1>4, <1>5 DEF Own!NoTwins, Own!WhenAlone
<1>9. QED
  BY <1>2, <1>6, <1>7, <1>8

\* What a user keeps on a device after a request is within sight, or was out of it before; and so is a value's
\* property there, or was gone.
KeepsInSight(d, e) ==
  /\ \A x \in Devices, w \in Owners :
       /\ d[Own!Link(x, w)] # Gone => Own!Sees(d, w, x) \/ (e[Own!Link(x, w)] # Gone /\ ~Own!Sees(e, w, x))
       /\ d[Own!Value(x, w)] # Gone => Own!Sees(d, w, x) \/ (e[Own!Value(x, w)] # Gone /\ ~Own!Sees(e, w, x))
       /\ d[Own!Binding(x, w)] # Gone => Own!Sees(d, w, x) \/ (e[Own!Binding(x, w)] # Gone /\ ~Own!Sees(e, w, x))
  /\ \A x \in Devices, w \in Owners : d[Own!Value(x, w)] # Gone /\ d[Own!Property(w)] = Gone =>
       e[Own!Value(x, w)] # Gone /\ e[Own!Property(w)] = Gone

\* A binding that is new resolves.
BindsResolved(d, e) ==
  \A x \in Devices, w \in Owners :
    e[Own!Binding(x, w)] = Gone /\ d[Own!Binding(x, w)] # Gone => Own!Resolvable(d, w, x)

\* A new profile is no second one.
MakesNoTwin(d, e) ==
  \A p, q \in Profiles :
    p # q /\ e[Own!Profile(p)] = Gone /\ d[Own!Profile(p)] # Gone => d[Own!Profile(q)] # d[Own!Profile(p)]

\* Rows within sight are no orphans.
LEMMA InSight == ASSUME NEW d, NEW e, KeepsInSight(d, e) PROVE Own!Orphans(d) \subseteq Own!Orphans(e)
<1> SUFFICES ASSUME NEW k \in Own!Keys, k[1] \in {"link", "value", "binding"}, d[k] # Gone,
                    ~Own!Sees(d, k[3], k[2]) \/ (k[1] = "value" /\ d[Own!Property(k[3])] = Gone)
             PROVE  /\ e[k] # Gone
                    /\ ~Own!Sees(e, k[3], k[2]) \/ (k[1] = "value" /\ e[Own!Property(k[3])] = Gone)
  BY DEF Own!Orphans
<1>1. PICK x \in Devices, w \in Owners : k = Own!Link(x, w) \/ k = Own!Value(x, w) \/ k = Own!Binding(x, w)
  BY KeyKinds, KeyParts
<1>2. k[2] = x /\ k[3] = w
  BY <1>1, KeyParts
<1>3. CASE k = Own!Value(x, w)
  <2>1. k[1] = "value"
    BY <1>3, KeyParts
  <2>2. CASE d[Own!Property(w)] = Gone
    BY <1>2, <1>3, <2>1, <2>2 DEF KeepsInSight
  <2>3. CASE ~Own!Sees(d, w, x)
    BY <1>2, <1>3, <2>3 DEF KeepsInSight
  <2>4. QED
    BY <1>2, <2>2, <2>3
<1>4. CASE k = Own!Link(x, w) \/ k = Own!Binding(x, w)
  <2>1. k[1] # "value"
    BY <1>4, KeyParts
  <2>2. ~Own!Sees(d, w, x)
    BY <1>2, <2>1
  <2>3. e[k] # Gone /\ ~Own!Sees(e, w, x)
    BY <1>4, <2>2 DEF KeepsInSight
  <2>4. QED
    BY <1>2, <2>3
<1>5. QED
  BY <1>1, <1>3, <1>4

\* A transaction that runs alone does no harm, by tables.
LEMMA AloneByTables ==
  ASSUME NEW t, NEW d, d = Own!Cascaded(t, t.wrote), KeepsInSight(d, t.read), BindsResolved(d, t.read),
         t.op = "import" => MakesNoTwin(d, t.read)
  PROVE  Own!WhenAlone(t)
<1>1. Own!Orphans(d) \subseteq Own!Orphans(t.read)
  BY InSight
<1>2. QED
  BY <1>1 DEF Own!WhenAlone, BindsResolved, MakesNoTwin

\* A request that opens and will delete no device, profile or mapping.
LEMMA OpensQuietly ==
  ASSUME Own!OwnInv, NEW r \in Requests, served < MaxEdits, NEW u \in Owners, NEW op, NEW e,
         Own!Opens(r, u, op, e), Writes(r, u, op, e),
         \A x \in Devices : e[Own!Device(x)] = Gone => db[Own!Device(x)] = Gone,
         \A p \in Profiles : e[Own!Profile(p)] = Gone => db[Own!Profile(p)] = Gone,
         \A w \in Owners : e[Own!Mapping(w)] = Gone => db[Own!Mapping(w)] = Gone,
         KeepsInSight(e, db), BindsResolved(e, db), op = "import" => MakesNoTwin(e, db)
  PROVE  Own!OwnInv'
<1> DEFINE t == OwnTx(u, op, e)
<1>1. t.by = u /\ t.op = op /\ t.read = db /\ t.wrote = e
  BY DEF OwnTx
<1>2. e \in Own!Database
  BY DEF Writes
<1> HIDE DEF t
<1>3. Own!Cascaded(t, t.wrote) = e
  BY <1>1, <1>2, NoCascade
<1>4. Own!WhenAlone(t)
  BY <1>1, <1>3, AloneByTables
<1>5. QED
  BY <1>4, OwnOpens DEF t

\* One row that is written, of any database.
LEMMA OneRow ==
  ASSUME NEW d \in Own!Database, NEW k \in Own!Keys, NEW row, row = Gone \/ row \in Own!RowsOf(k)
  PROVE  /\ [d EXCEPT ![k] = row] \in Own!Database
         /\ [d EXCEPT ![k] = row][k] = row
         /\ \A j \in Own!Keys : j # k => [d EXCEPT ![k] = row][j] = d[j]
<1>1. [d EXCEPT ![k] = row] = [j \in Own!Keys |-> IF j = k THEN row ELSE d[j]]
  BY DEF Own!Database
<1> DEFINE e == [d EXCEPT ![k] = row]
<1>2. e = [j \in Own!Keys |-> e[j]] /\ \A j \in Own!Keys : e[j] = IF j = k THEN row ELSE d[j]
  BY <1>1
<1> HIDE DEF e
<1>3. e \in Own!Database
  <2>1. \A j \in Own!Keys : e[j] = Gone \/ e[j] \in Own!RowsOf(j)
    BY <1>2 DEF Own!Database
  <2>2. QED
    BY <1>2, <2>1, IsDatabase
<1>4. QED
  BY <1>2, <1>3 DEF e

\* What is in a database, of the invariant.
LEMMA OwnDatabase == ASSUME Own!OwnInv PROVE db \in Own!Database /\ Own!OwnCredentials
BY DEF Own!OwnInv

\* A property that is made or edited.
LEMMA PropertyRow ==
  ASSUME Own!OwnInv, NEW r \in Requests, served < MaxEdits, NEW u \in Owners, NEW list \in BOOLEAN,
         Own!PropertyCreate(r, u, list) \/ Own!PropertyEdit(r, u, list)
  PROVE  Own!OwnInv'
<1> DEFINE k == Own!Property(u)  row == [list |-> list]  e == [db EXCEPT ![k] = row]
<1>1. Own!Opens(r, u, "property", e)
  BY DEF Own!PropertyCreate, Own!PropertyEdit
<1>2. row \in Own!RowsOf(k) /\ k \in Own!Keys
  BY RowsOfTables, KeysIn DEF Own!PropertyRows
<1>3. e \in Own!Database /\ e[k] = row /\ \A j \in Own!Keys : j # k => e[j] = db[j]
  BY <1>2, OwnDatabase, OneRow
<1>4. e[k] # Gone
  BY <1>2, <1>3, RowsThere
<1> HIDE DEF e
<1>5. /\ \A x \in Devices : e[Own!Device(x)] = db[Own!Device(x)]
      /\ \A p \in Profiles : e[Own!Profile(p)] = db[Own!Profile(p)]
      /\ \A w \in Owners : e[Own!Mapping(w)] = db[Own!Mapping(w)]
      /\ \A w \in Owners \ {u} : e[Own!Property(w)] = db[Own!Property(w)]
      /\ \A x \in Devices, w \in Owners :
           e[Own!Link(x, w)] = db[Own!Link(x, w)] /\ e[Own!Value(x, w)] = db[Own!Value(x, w)]
           /\ e[Own!Binding(x, w)] = db[Own!Binding(x, w)]
  BY <1>3, KeysIn, KeyParts
<1>6. Writes(r, u, "property", e)
  BY <1>3, <1>5 DEF Writes, Own!Ops
<1>7. KeepsInSight(e, db)
  BY <1>4, <1>5 DEF KeepsInSight, Own!Sees
<1>8. BindsResolved(e, db)
  BY <1>5 DEF BindsResolved
<1>9. QED
  BY <1>1, <1>5, <1>6, <1>7, <1>8, OpensQuietly

\* A mapping that is made or edited.
LEMMA MappingRow ==
  ASSUME Own!OwnInv, NEW r \in Requests, served < MaxEdits, NEW u \in Owners, NEW row \in Own!MappingRows,
         Own!MappingSave(r, u, row)
  PROVE  Own!OwnInv'
<1> DEFINE k == Own!Mapping(u)  e == [db EXCEPT ![k] = row]
<1>1. Own!Opens(r, u, "mapping", e)
  BY DEF Own!MappingSave
<1>2. row \in Own!RowsOf(k) /\ k \in Own!Keys
  BY RowsOfTables, KeysIn
<1>3. e \in Own!Database /\ e[k] = row /\ \A j \in Own!Keys : j # k => e[j] = db[j]
  BY <1>2, OwnDatabase, OneRow
<1>4. e[k] # Gone
  BY <1>2, <1>3, RowsThere
<1> HIDE DEF e
<1>5. /\ \A x \in Devices : e[Own!Device(x)] = db[Own!Device(x)]
      /\ \A p \in Profiles : e[Own!Profile(p)] = db[Own!Profile(p)]
      /\ \A w \in Owners \ {u} : e[Own!Mapping(w)] = db[Own!Mapping(w)]
      /\ \A w \in Owners : e[Own!Property(w)] = db[Own!Property(w)]
      /\ \A x \in Devices, w \in Owners :
           e[Own!Link(x, w)] = db[Own!Link(x, w)] /\ e[Own!Value(x, w)] = db[Own!Value(x, w)]
           /\ e[Own!Binding(x, w)] = db[Own!Binding(x, w)]
  BY <1>3, KeysIn, KeyParts
<1>6. Writes(r, u, "mapping", e)
  BY <1>3, <1>5 DEF Writes, Own!Ops
<1>7. KeepsInSight(e, db)
  BY <1>5 DEF KeepsInSight, Own!Sees
<1>8. BindsResolved(e, db)
  BY <1>5 DEF BindsResolved
<1>9. QED
  BY <1>1, <1>4, <1>5, <1>6, <1>7, <1>8, OpensQuietly

\* A profile that is made or edited.
LEMMA ProfileRow ==
  ASSUME Own!OwnInv, NEW r \in Requests, served < MaxEdits, NEW u \in Owners, NEW p \in Profiles,
         NEW c \in Credentials, Own!ProfileCreate(r, u, p, c) \/ Own!ProfileEdit(r, u, p, c)
  PROVE  Own!OwnInv'
<1> DEFINE k == Own!Profile(p)  row == [owner |-> u, cred |-> c]  e == [db EXCEPT ![k] = row]
<1>1. k \in Own!Keys /\ row \in Own!RowsOf(k)
  BY RowsOfTables, KeysIn DEF Own!ProfileRows
<1>2. Own!Opens(r, u, "profile", e) /\ (db[k] = Gone => Own!Fresh(k)) /\ (db[k] # Gone => db[k].owner = u)
  <2>1. CASE Own!ProfileCreate(r, u, p, c)
    BY <2>1 DEF Own!ProfileCreate, Own!Fresh
  <2>2. CASE Own!ProfileEdit(r, u, p, c)
    <3>1. db[k] # Gone /\ db[k].owner = u /\ Own!Opens(r, u, "profile", [db EXCEPT ![k] = [db[k] EXCEPT !.cred = c]])
      BY <2>2 DEF Own!ProfileEdit, Own!Owned
    <3>2. db[k] \in Own!ProfileRows
      BY <3>1, OwnDatabase, DatabaseRows
    <3>3. [db[k] EXCEPT !.cred = c] = row
      BY <3>1, <3>2 DEF Own!ProfileRows
    <3>4. QED
      BY <3>1, <3>3
  <2>3. QED
    BY <2>1, <2>2
<1>3. e \in Own!Database /\ e[k] = row /\ \A j \in Own!Keys : j # k => e[j] = db[j]
  BY <1>1, OwnDatabase, OneRow
<1>4. e[k] # Gone /\ e[k].owner = u
  BY <1>1, <1>3, RowsThere
<1> HIDE DEF e
<1>5. /\ \A x \in Devices : e[Own!Device(x)] = db[Own!Device(x)]
      /\ \A q \in Profiles \ {p} : e[Own!Profile(q)] = db[Own!Profile(q)]
      /\ \A w \in Owners : e[Own!Mapping(w)] = db[Own!Mapping(w)] /\ e[Own!Property(w)] = db[Own!Property(w)]
      /\ \A x \in Devices, w \in Owners :
           e[Own!Link(x, w)] = db[Own!Link(x, w)] /\ e[Own!Value(x, w)] = db[Own!Value(x, w)]
           /\ e[Own!Binding(x, w)] = db[Own!Binding(x, w)]
  BY <1>3, KeysIn, KeyParts
<1>6. Writes(r, u, "profile", e)
  BY <1>2, <1>3, <1>4, <1>5 DEF Writes, Own!Ops
<1>7. KeepsInSight(e, db)
  BY <1>5 DEF KeepsInSight, Own!Sees
<1>8. BindsResolved(e, db)
  BY <1>5 DEF BindsResolved
<1>9. QED
  BY <1>2, <1>4, <1>5, <1>6, <1>7, <1>8, OpensQuietly

\* What goes with what a transaction deletes, by tables.
LEMMA CascadeTables ==
  ASSUME NEW t, t.wrote \in Own!Database, NEW d, d = Own!Cascaded(t, t.wrote)
  PROVE  /\ \A x \in Devices : d[Own!Device(x)] = t.wrote[Own!Device(x)]
         /\ \A p \in Profiles : d[Own!Profile(p)] = t.wrote[Own!Profile(p)]
         /\ \A w \in Owners :
              d[Own!Mapping(w)] = t.wrote[Own!Mapping(w)] /\ d[Own!Property(w)] = t.wrote[Own!Property(w)]
         /\ \A x \in Devices, w \in Owners :
              /\ d[Own!Link(x, w)] \in {Gone, t.wrote[Own!Link(x, w)]}
              /\ d[Own!Value(x, w)] \in {Gone, t.wrote[Own!Value(x, w)]}
              /\ d[Own!Binding(x, w)] \in {Gone, t.wrote[Own!Binding(x, w)]}
              /\ Own!Device(x) \in Own!Deletes(t) =>
                   d[Own!Link(x, w)] = Gone /\ d[Own!Value(x, w)] = Gone /\ d[Own!Binding(x, w)] = Gone
<1>1. \A k \in Own!Keys :
        d[k] = IF t.wrote[k] # Gone /\ Own!Refers(k, t.wrote[k]) \cap Own!Deletes(t) # {} THEN Gone ELSE t.wrote[k]
  BY DEF Own!Cascaded
<1>2. \A x \in Devices : d[Own!Device(x)] = t.wrote[Own!Device(x)]
  BY <1>1, KeysIn, RefersTo
<1>3. \A p \in Profiles : d[Own!Profile(p)] = t.wrote[Own!Profile(p)]
  BY <1>1, KeysIn, RefersTo
<1>4. \A w \in Owners :
        d[Own!Mapping(w)] = t.wrote[Own!Mapping(w)] /\ d[Own!Property(w)] = t.wrote[Own!Property(w)]
  BY <1>1, KeysIn, RefersTo
<1>5. ASSUME NEW x \in Devices, NEW w \in Owners
      PROVE  /\ d[Own!Link(x, w)] \in {Gone, t.wrote[Own!Link(x, w)]}
             /\ d[Own!Value(x, w)] \in {Gone, t.wrote[Own!Value(x, w)]}
             /\ d[Own!Binding(x, w)] \in {Gone, t.wrote[Own!Binding(x, w)]}
             /\ Own!Device(x) \in Own!Deletes(t) =>
                  d[Own!Link(x, w)] = Gone /\ d[Own!Value(x, w)] = Gone /\ d[Own!Binding(x, w)] = Gone
  BY <1>1, KeysIn, RefersTo
<1>6. QED
  BY <1>2, <1>3, <1>4, <1>5

\* A request that opens and will only take rows away, with what goes with them.
LEMMA OpensToDelete ==
  ASSUME Own!OwnInv, NEW r \in Requests, served < MaxEdits, NEW u \in Owners, NEW op, NEW e,
         Own!Opens(r, u, op, e), Writes(r, u, op, e), op # "import",
         \A x \in Devices : e[Own!Device(x)] \in {Gone, db[Own!Device(x)]},
         \A w \in Owners : e[Own!Property(w)] = db[Own!Property(w)],
         \A x \in Devices, w \in Owners :
           e[Own!Link(x, w)] = db[Own!Link(x, w)] /\ e[Own!Value(x, w)] = db[Own!Value(x, w)]
           /\ e[Own!Binding(x, w)] = db[Own!Binding(x, w)]
  PROVE  Own!OwnInv'
<1> DEFINE t == OwnTx(u, op, e)  d == Own!Cascaded(t, t.wrote)
<1>1. t.by = u /\ t.op = op /\ t.read = db /\ t.wrote = e
  BY DEF OwnTx
<1>2. e \in Own!Database
  BY DEF Writes
<1> HIDE DEF t
<1>3. /\ \A x \in Devices : d[Own!Device(x)] = e[Own!Device(x)]
      /\ \A w \in Owners : d[Own!Property(w)] = e[Own!Property(w)]
      /\ \A x \in Devices, w \in Owners :
           /\ d[Own!Link(x, w)] \in {Gone, e[Own!Link(x, w)]}
           /\ d[Own!Value(x, w)] \in {Gone, e[Own!Value(x, w)]}
           /\ d[Own!Binding(x, w)] \in {Gone, e[Own!Binding(x, w)]}
           /\ Own!Device(x) \in Own!Deletes(t) =>
                d[Own!Link(x, w)] = Gone /\ d[Own!Value(x, w)] = Gone /\ d[Own!Binding(x, w)] = Gone
  BY <1>1, <1>2, CascadeTables
<1> HIDE DEF d
<1>4. KeepsInSight(d, db)
  <2>1. ASSUME NEW x \in Devices, NEW w \in Owners,
               d[Own!Link(x, w)] # Gone \/ d[Own!Value(x, w)] # Gone \/ d[Own!Binding(x, w)] # Gone
        PROVE  Own!Sees(d, w, x) \/ ~Own!Sees(db, w, x)
    <3>1. Own!Device(x) \notin Own!Deletes(t)
      BY <1>3, <2>1
    <3>2. db[Own!Device(x)] # Gone => d[Own!Device(x)] = db[Own!Device(x)]
      BY <1>1, <1>3, <3>1, KeysIn DEF Own!Deletes
    <3>3. QED
      BY <3>2 DEF Own!Sees
  <2>2. QED
    BY <1>3, <2>1 DEF KeepsInSight
<1>5. BindsResolved(d, db)
  BY <1>3 DEF BindsResolved
<1>6. Own!WhenAlone(t)
  BY <1>1, <1>4, <1>5, AloneByTables DEF d
<1>7. QED
  BY <1>6, OwnOpens DEF t

\* A device is deleted.
LEMMA DeviceGoes ==
  ASSUME Own!OwnInv, NEW r \in Requests, served < MaxEdits, NEW u \in Owners, NEW x \in Devices,
         Own!Delete(r, u, x)
  PROVE  Own!OwnInv'
<1> DEFINE k == Own!Device(x)  e == [db EXCEPT ![k] = Gone]
<1>1. Own!Opens(r, u, "delete", e)
  BY DEF Own!Delete
<1>2. e \in Own!Database /\ e[k] = Gone /\ \A j \in Own!Keys : j # k => e[j] = db[j]
  BY KeysIn, OwnDatabase, OneRow
<1> HIDE DEF e
<1>3. /\ \A y \in Devices : e[Own!Device(y)] \in {Gone, db[Own!Device(y)]}
      /\ \A p \in Profiles : e[Own!Profile(p)] = db[Own!Profile(p)]
      /\ \A w \in Owners : e[Own!Mapping(w)] = db[Own!Mapping(w)] /\ e[Own!Property(w)] = db[Own!Property(w)]
      /\ \A y \in Devices, w \in Owners :
           e[Own!Link(y, w)] = db[Own!Link(y, w)] /\ e[Own!Value(y, w)] = db[Own!Value(y, w)]
           /\ e[Own!Binding(y, w)] = db[Own!Binding(y, w)]
  BY <1>2, KeysIn, KeyParts
<1>4. Writes(r, u, "delete", e)
  BY <1>2, <1>3 DEF Writes, Own!Ops
<1>5. QED
  BY <1>1, <1>3, <1>4, OpensToDelete

\* A profile is deleted.
LEMMA ProfileGoes ==
  ASSUME Own!OwnInv, NEW r \in Requests, served < MaxEdits, NEW u \in Owners, NEW p \in Profiles,
         Own!ProfileDelete(r, u, p)
  PROVE  Own!OwnInv'
<1> DEFINE k == Own!Profile(p)  e == [db EXCEPT ![k] = Gone]
<1>1. Own!Opens(r, u, "profile", e) /\ db[k] # Gone /\ db[k].owner = u
  BY DEF Own!ProfileDelete, Own!Owned
<1>2. e \in Own!Database /\ e[k] = Gone /\ \A j \in Own!Keys : j # k => e[j] = db[j]
  BY KeysIn, OwnDatabase, OneRow
<1> HIDE DEF e
<1>3. /\ \A y \in Devices : e[Own!Device(y)] = db[Own!Device(y)]
      /\ \A q \in Profiles \ {p} : e[Own!Profile(q)] = db[Own!Profile(q)]
      /\ \A w \in Owners : e[Own!Mapping(w)] = db[Own!Mapping(w)] /\ e[Own!Property(w)] = db[Own!Property(w)]
      /\ \A y \in Devices, w \in Owners :
           e[Own!Link(y, w)] = db[Own!Link(y, w)] /\ e[Own!Value(y, w)] = db[Own!Value(y, w)]
           /\ e[Own!Binding(y, w)] = db[Own!Binding(y, w)]
  BY <1>2, KeysIn, KeyParts
<1>4. Writes(r, u, "profile", e)
  BY <1>1, <1>2, <1>3 DEF Writes, Own!Ops
<1>5. QED
  BY <1>1, <1>3, <1>4, OpensToDelete

\* A mapping is deleted.
LEMMA MappingGoes ==
  ASSUME Own!OwnInv, NEW r \in Requests, served < MaxEdits, NEW u \in Owners, Own!MappingDelete(r, u)
  PROVE  Own!OwnInv'
<1> DEFINE k == Own!Mapping(u)  e == [db EXCEPT ![k] = Gone]
<1>1. Own!Opens(r, u, "mapping", e)
  BY DEF Own!MappingDelete
<1>2. e \in Own!Database /\ e[k] = Gone /\ \A j \in Own!Keys : j # k => e[j] = db[j]
  BY KeysIn, OwnDatabase, OneRow
<1> HIDE DEF e
<1>3. /\ \A y \in Devices : e[Own!Device(y)] = db[Own!Device(y)]
      /\ \A p \in Profiles : e[Own!Profile(p)] = db[Own!Profile(p)]
      /\ \A w \in Owners \ {u} : e[Own!Mapping(w)] = db[Own!Mapping(w)]
      /\ \A w \in Owners : e[Own!Property(w)] = db[Own!Property(w)]
      /\ \A y \in Devices, w \in Owners :
           e[Own!Link(y, w)] = db[Own!Link(y, w)] /\ e[Own!Value(y, w)] = db[Own!Value(y, w)]
           /\ e[Own!Binding(y, w)] = db[Own!Binding(y, w)]
  BY <1>2, KeysIn, KeyParts
<1>4. Writes(r, u, "mapping", e)
  BY <1>2, <1>3 DEF Writes, Own!Ops
<1>5. QED
  BY <1>1, <1>3, <1>4, OpensToDelete

\* A property is deleted, with its user's values.
LEMMA PropertyGoes ==
  ASSUME Own!OwnInv, NEW r \in Requests, served < MaxEdits, NEW u \in Owners, Own!PropertyDelete(r, u)
  PROVE  Own!OwnInv'
<1> DEFINE e == [k \in Own!Keys |-> IF k = Own!Property(u) \/ (k[1] = "value" /\ k[3] = u) THEN Gone ELSE db[k]]
<1>1. Own!Opens(r, u, "property", e)
  BY DEF Own!PropertyDelete
<1>2. e = [k \in Own!Keys |-> e[k]] /\ \A k \in Own!Keys :
        e[k] = IF k = Own!Property(u) \/ (k[1] = "value" /\ k[3] = u) THEN Gone ELSE db[k]
  OBVIOUS
<1> HIDE DEF e
<1>3. e \in Own!Database
  <2>1. \A k \in Own!Keys : e[k] = Gone \/ e[k] \in Own!RowsOf(k)
    BY <1>2, OwnDatabase, DatabaseRows
  <2>2. QED
    BY <1>2, <2>1, IsDatabase
<1>4. /\ \A x \in Devices : e[Own!Device(x)] = db[Own!Device(x)]
      /\ \A p \in Profiles : e[Own!Profile(p)] = db[Own!Profile(p)]
      /\ \A w \in Owners : e[Own!Mapping(w)] = db[Own!Mapping(w)]
      /\ \A w \in Owners \ {u} : e[Own!Property(w)] = db[Own!Property(w)]
      /\ \A x \in Devices, w \in Owners :
           e[Own!Link(x, w)] = db[Own!Link(x, w)] /\ e[Own!Binding(x, w)] = db[Own!Binding(x, w)]
  BY <1>2, KeysIn, KeyParts
<1>5. \A x \in Devices, w \in Owners : e[Own!Value(x, w)] = IF w = u THEN Gone ELSE db[Own!Value(x, w)]
  BY <1>2, KeysIn, KeyParts
<1>6. Writes(r, u, "property", e)
  BY <1>3, <1>4, <1>5 DEF Writes, Own!Ops
<1>7. KeepsInSight(e, db)
  BY <1>4, <1>5 DEF KeepsInSight, Own!Sees
<1>8. BindsResolved(e, db)
  BY <1>4 DEF BindsResolved
<1>9. QED
  BY <1>1, <1>4, <1>6, <1>7, <1>8, OpensQuietly

\* Links that are set on several devices.
LEMMA LinksSet ==
  ASSUME Own!OwnInv, NEW r \in Requests, served < MaxEdits, NEW u \in Owners, NEW xs \in SUBSET Devices,
         NEW p \in Profiles \cup {Gone}, Own!BulkLink(r, u, xs, p)
  PROVE  Own!OwnInv'
<1> DEFINE row == IF p = Gone THEN Gone ELSE [profile |-> p]
           e == [k \in Own!Keys |-> IF \E x \in xs : k = Own!Link(x, u) /\ Own!Sees(db, u, x) THEN row ELSE db[k]]
<1>1. Own!Opens(r, u, "bulk link", e) /\ (p # Gone => db[Own!Profile(p)] # Gone /\ db[Own!Profile(p)].owner = u)
  BY DEF Own!BulkLink, Own!ProfileAllowed
<1>2. e = [k \in Own!Keys |-> e[k]] /\ \A k \in Own!Keys :
        e[k] = IF \E x \in xs : k = Own!Link(x, u) /\ Own!Sees(db, u, x) THEN row ELSE db[k]
  OBVIOUS
<1>3. \A x \in Devices : row = Gone \/ row \in Own!RowsOf(Own!Link(x, u))
  BY RowsOfTables DEF Own!LinkRows
<1>4. row # Gone => p # Gone /\ p \in Profiles /\ row.profile = p
  OBVIOUS
<1> HIDE DEF e, row
<1>5. e \in Own!Database
  <2>1. \A k \in Own!Keys : e[k] = Gone \/ e[k] \in Own!RowsOf(k)
    BY <1>2, <1>3, OwnDatabase, DatabaseRows
  <2>2. QED
    BY <1>2, <2>1, IsDatabase
<1>6. /\ \A x \in Devices : e[Own!Device(x)] = db[Own!Device(x)]
      /\ \A q \in Profiles : e[Own!Profile(q)] = db[Own!Profile(q)]
      /\ \A w \in Owners : e[Own!Mapping(w)] = db[Own!Mapping(w)] /\ e[Own!Property(w)] = db[Own!Property(w)]
      /\ \A x \in Devices, w \in Owners :
           e[Own!Value(x, w)] = db[Own!Value(x, w)] /\ e[Own!Binding(x, w)] = db[Own!Binding(x, w)]
  BY <1>2, KeysIn, KeyParts
<1>7. \A x \in Devices, w \in Owners :
        \/ e[Own!Link(x, w)] = db[Own!Link(x, w)]
        \/ w = u /\ Own!Sees(db, u, x) /\ e[Own!Link(x, w)] = row
  BY <1>2, KeysIn, KeyParts
<1>8. \A x \in Devices : e[Own!Link(x, u)] \notin {db[Own!Link(x, u)], Gone} =>
         /\ e[Own!Profile(e[Own!Link(x, u)].profile)] # Gone
         /\ e[Own!Profile(e[Own!Link(x, u)].profile)].owner = u
  <2> SUFFICES ASSUME NEW x \in Devices, e[Own!Link(x, u)] # db[Own!Link(x, u)], e[Own!Link(x, u)] # Gone
               PROVE  /\ e[Own!Profile(e[Own!Link(x, u)].profile)] # Gone
                      /\ e[Own!Profile(e[Own!Link(x, u)].profile)].owner = u
    OBVIOUS
  <2>1. e[Own!Link(x, u)] = row
    BY <1>7
  <2>2. e[Own!Link(x, u)].profile = p /\ p # Gone /\ p \in Profiles
    BY <1>4, <2>1
  <2>3. QED
    BY <1>1, <1>6, <2>2
<1>9. Writes(r, u, "bulk link", e)
  BY <1>5, <1>6, <1>7, <1>8 DEF Writes, Own!Ops
<1>10. KeepsInSight(e, db)
  BY <1>6, <1>7 DEF KeepsInSight, Own!Sees
<1>11. BindsResolved(e, db)
  BY <1>6 DEF BindsResolved
<1>12. QED
  BY <1>1, <1>6, <1>9, <1>10, <1>11, OpensQuietly

\* A mapping that is bound to several devices, or released.
LEMMA MappingBound ==
  ASSUME Own!OwnInv, NEW r \in Requests, served < MaxEdits, NEW u \in Owners,
         NEW assign \in SUBSET Devices, NEW remove \in SUBSET Devices, Own!MappingAssign(r, u, assign, remove)
  PROVE  Own!OwnInv'
<1> DEFINE Binds(k) == \E x \in assign :
             k = Own!Binding(x, u) /\ db[k] = Gone /\ Own!Sees(db, u, x) /\ Own!Eligible(db, u, x)
           e == [k \in Own!Keys |-> IF Binds(k) THEN Own!Bound
                                    ELSE IF \E x \in remove : k = Own!Binding(x, u) THEN Gone ELSE db[k]]
<1>1. Own!Opens(r, u, "bulk assign", e)
  BY DEF Own!MappingAssign
<1>2. e = [k \in Own!Keys |-> e[k]] /\ \A k \in Own!Keys :
        \/ e[k] = db[k]
        \/ e[k] = Own!Bound /\ Binds(k)
        \/ e[k] = Gone /\ \E x \in remove : k = Own!Binding(x, u)
  OBVIOUS
<1> HIDE DEF e
<1>3. e \in Own!Database
  <2>1. \A k \in Own!Keys : e[k] = Gone \/ e[k] \in Own!RowsOf(k)
    BY <1>2, OwnDatabase, DatabaseRows, RowsOfTables
  <2>2. QED
    BY <1>2, <2>1, IsDatabase
<1>4. /\ \A x \in Devices : e[Own!Device(x)] = db[Own!Device(x)]
      /\ \A p \in Profiles : e[Own!Profile(p)] = db[Own!Profile(p)]
      /\ \A w \in Owners : e[Own!Mapping(w)] = db[Own!Mapping(w)] /\ e[Own!Property(w)] = db[Own!Property(w)]
      /\ \A x \in Devices, w \in Owners :
           e[Own!Link(x, w)] = db[Own!Link(x, w)] /\ e[Own!Value(x, w)] = db[Own!Value(x, w)]
  BY <1>2, KeysIn, KeyParts
<1>5. \A x \in Devices, w \in Owners :
        \/ e[Own!Binding(x, w)] = db[Own!Binding(x, w)]
        \/ w = u /\ e[Own!Binding(x, w)] = Gone
        \/ w = u /\ Own!Sees(db, u, x) /\ Own!Resolvable(db, u, x)
  BY <1>2, KeysIn, KeyParts DEF Own!Eligible
<1>6. Writes(r, u, "bulk assign", e)
  BY <1>3, <1>4, <1>5 DEF Writes, Own!Ops
<1>7. KeepsInSight(e, db)
  BY <1>4, <1>5 DEF KeepsInSight, Own!Sees
<1>8. BindsResolved(e, db)
  BY <1>4, <1>5 DEF BindsResolved, Own!Resolvable, Own!MappedValue
<1>9. QED
  BY <1>1, <1>4, <1>6, <1>7, <1>8, OpensQuietly

\* What u's form does to a database: the link, the value and the binding of one device are u's and as they should be.
Saved(d, u, x, p, own, ticked) ==
  Own!BindMappings(Own!SetCustomValue(Own!LinkProfile(d, u, x, p), u, x, own), u, x, ticked)

\* A value is one of the table's.
LEMMA ParsedRow ==
  ASSUME NEW u, NEW filled, NEW k \in {Own!Value(x, w) : x \in Devices, w \in Owners}
  PROVE  Own!Parsed(u, filled) = Gone \/ Own!Parsed(u, filled) \in Own!RowsOf(k)
<1>1. Own!RowsOf(k) = Own!ValueRows
  BY RowsOfTables
<1>2. Own!Parsed(u, filled) = Gone \/ Own!Parsed(u, filled) \in Own!ValueRows
  BY DEF Own!Parsed, Own!ValueRows, Own!AttrValues
<1>3. QED
  BY <1>1, <1>2

\* What u's form leaves as it was, and what it makes.
LEMMA SavedRows ==
  ASSUME NEW d \in Own!Database, NEW u \in Owners, NEW x \in Devices, NEW p \in Profiles \cup {Gone},
         NEW own \in BOOLEAN, NEW ticked \in BOOLEAN, NEW s, s = Saved(d, u, x, p, own, ticked)
  PROVE  /\ s \in Own!Database
         /\ \A k \in Own!Keys : k \notin {Own!Link(x, u), Own!Value(x, u), Own!Binding(x, u)} => s[k] = d[k]
         /\ s[Own!Link(x, u)] = IF p = Gone THEN Gone ELSE [profile |-> p]
         /\ s[Own!Value(x, u)] \in {Gone, d[Own!Value(x, u)]} \/ db[Own!Property(u)] # Gone
         /\ s[Own!Binding(x, u)] # Gone => Own!Resolvable(s, u, x)
<1> DEFINE link == Own!Link(x, u)  value == Own!Value(x, u)  binding == Own!Binding(x, u)
           row == IF p = Gone THEN Gone ELSE [profile |-> p]
           d1 == Own!LinkProfile(d, u, x, p)  d2 == Own!SetCustomValue(d1, u, x, own)
<1>1. link \in Own!Keys /\ value \in Own!Keys /\ binding \in Own!Keys
  BY KeysIn
<1>2. link # value /\ link # binding /\ value # binding
  BY KeyParts
<1>3. row = Gone \/ row \in Own!RowsOf(link)
  BY RowsOfTables DEF Own!LinkRows
<1>4. d1 = [d EXCEPT ![link] = row]
  BY DEF Own!LinkProfile
<1> HIDE DEF d1, row
<1>5. d1 \in Own!Database /\ d1[link] = row /\ \A k \in Own!Keys : k # link => d1[k] = d[k]
  <2> DEFINE n == [d EXCEPT ![link] = row]
  <2>1. n \in Own!Database /\ n[link] = row /\ \A k \in Own!Keys : k # link => n[k] = d[k]
    BY <1>1, <1>3, OneRow
  <2>2. QED
    BY <1>4, <2>1
<1>6. Own!Parsed(u, own) = Gone \/ Own!Parsed(u, own) \in Own!RowsOf(value)
  BY ParsedRow
<1>7. /\ d2 \in Own!Database /\ \A k \in Own!Keys : k # value => d2[k] = d1[k]
      /\ d2[value] = d1[value] \/ db[Own!Property(u)] # Gone
  <2>1. CASE db[Own!Property(u)] = Gone
    BY <1>5, <2>1 DEF Own!SetCustomValue
  <2>2. CASE db[Own!Property(u)] # Gone
    <3>1. d2 = [d1 EXCEPT ![value] = Own!Parsed(u, own)]
      BY <2>2 DEF Own!SetCustomValue
    <3> DEFINE n == [d1 EXCEPT ![value] = Own!Parsed(u, own)]
    <3>2. n \in Own!Database /\ \A k \in Own!Keys : k # value => n[k] = d1[k]
      BY <1>1, <1>5, <1>6, OneRow
    <3>3. QED
      BY <2>2, <3>1, <3>2
  <2>3. QED
    BY <2>1, <2>2
<1> HIDE DEF d2
<1>8. s = [k \in Own!Keys |-> IF k = binding /\ ticked /\ Own!Eligible(d2, u, x) THEN Own!Bound
                              ELSE IF k \in Own!ReplacedBindings(u, x) THEN Gone ELSE d2[k]]
  BY DEF Saved, Own!BindMappings, d2, d1
<1>9. /\ s = [k \in Own!Keys |-> s[k]]
      /\ \A k \in Own!Keys : k # binding => s[k] = d2[k]
      /\ s[binding] = IF ticked /\ Own!Eligible(d2, u, x) THEN Own!Bound ELSE Gone
  BY <1>1, <1>8 DEF Own!ReplacedBindings
<1>10. s \in Own!Database
  <2>1. \A k \in Own!Keys : s[k] = Gone \/ s[k] \in Own!RowsOf(k)
    BY <1>7, <1>9, RowsOfTables DEF Own!Database
  <2>2. QED
    BY <1>9, <2>1, IsDatabase
<1>11. s[binding] # Gone => Own!Resolvable(s, u, x)
  <2> SUFFICES ASSUME s[binding] # Gone PROVE Own!Resolvable(s, u, x)
    OBVIOUS
  <2>1. Own!Resolvable(d2, u, x)
    BY <1>9 DEF Own!Eligible
  <2>2. /\ s[Own!Mapping(u)] = d2[Own!Mapping(u)] /\ s[Own!Device(x)] = d2[Own!Device(x)]
        /\ s[Own!Value(x, u)] = d2[Own!Value(x, u)]
    BY <1>9, KeysIn, KeyParts
  <2>3. QED
    BY <2>1, <2>2 DEF Own!Resolvable, Own!MappedValue
<1>12. \A k \in Own!Keys : k \notin {link, value, binding} => s[k] = d[k]
  BY <1>5, <1>7, <1>9
<1>13. s[link] = row
  BY <1>1, <1>2, <1>5, <1>7, <1>9
<1>14. s[value] \in {Gone, d[value]} \/ db[Own!Property(u)] # Gone
  BY <1>1, <1>2, <1>5, <1>7, <1>9
<1>15. QED
  BY <1>10, <1>11, <1>12, <1>13, <1>14 DEF row

\* What the form makes of d, by tables: the rest of it is as it was.
FormSaved(s, d, u, x, p) ==
  /\ s \in Own!Database
  /\ \A y \in Devices : s[Own!Device(y)] = d[Own!Device(y)]
  /\ \A q \in Profiles : s[Own!Profile(q)] = d[Own!Profile(q)]
  /\ \A w \in Owners : s[Own!Mapping(w)] = d[Own!Mapping(w)] /\ s[Own!Property(w)] = d[Own!Property(w)]
  /\ \A y \in Devices, w \in Owners : y # x \/ w # u =>
       /\ s[Own!Link(y, w)] = d[Own!Link(y, w)] /\ s[Own!Value(y, w)] = d[Own!Value(y, w)]
       /\ s[Own!Binding(y, w)] = d[Own!Binding(y, w)]
  /\ s[Own!Link(x, u)] = IF p = Gone THEN Gone ELSE [profile |-> p]
  /\ s[Own!Value(x, u)] \in {Gone, d[Own!Value(x, u)]} \/ db[Own!Property(u)] # Gone
  /\ s[Own!Binding(x, u)] # Gone => Own!Resolvable(s, u, x)

\* The same by tables.
LEMMA SavedTables ==
  ASSUME NEW d \in Own!Database, NEW u \in Owners, NEW x \in Devices, NEW p \in Profiles \cup {Gone},
         NEW own \in BOOLEAN, NEW ticked \in BOOLEAN, NEW s, s = Saved(d, u, x, p, own, ticked)
  PROVE  FormSaved(s, d, u, x, p)
<1>1. /\ s \in Own!Database
      /\ \A k \in Own!Keys : k \notin {Own!Link(x, u), Own!Value(x, u), Own!Binding(x, u)} => s[k] = d[k]
      /\ s[Own!Link(x, u)] = IF p = Gone THEN Gone ELSE [profile |-> p]
      /\ s[Own!Value(x, u)] \in {Gone, d[Own!Value(x, u)]} \/ db[Own!Property(u)] # Gone
      /\ s[Own!Binding(x, u)] # Gone => Own!Resolvable(s, u, x)
  BY SavedRows
<1>2. \A y \in Devices : s[Own!Device(y)] = d[Own!Device(y)]
  BY <1>1, KeysIn, KeyParts
<1>3. \A q \in Profiles : s[Own!Profile(q)] = d[Own!Profile(q)]
  BY <1>1, KeysIn, KeyParts
<1>4. \A w \in Owners : s[Own!Mapping(w)] = d[Own!Mapping(w)] /\ s[Own!Property(w)] = d[Own!Property(w)]
  BY <1>1, KeysIn, KeyParts
<1>5. ASSUME NEW y \in Devices, NEW w \in Owners, y # x \/ w # u
      PROVE  /\ s[Own!Link(y, w)] = d[Own!Link(y, w)] /\ s[Own!Value(y, w)] = d[Own!Value(y, w)]
             /\ s[Own!Binding(y, w)] = d[Own!Binding(y, w)]
  BY <1>1, <1>5, KeysIn, KeyParts
<1>6. QED
  BY <1>1, <1>2, <1>3, <1>4, <1>5 DEF FormSaved

\* A link to an allowed profile is the user's own.
LEMMA AllowedLink ==
  ASSUME NEW u \in Owners, NEW x \in Devices, NEW p \in Profiles \cup {Gone}, Own!ProfileAllowed(u, p), NEW e,
         \A q \in Profiles : e[Own!Profile(q)] = db[Own!Profile(q)],
         e[Own!Link(x, u)] = IF p = Gone THEN Gone ELSE [profile |-> p], e[Own!Link(x, u)] # Gone
  PROVE  /\ e[Own!Profile(e[Own!Link(x, u)].profile)] # Gone
         /\ e[Own!Profile(e[Own!Link(x, u)].profile)].owner = u
<1>1. p # Gone /\ e[Own!Link(x, u)].profile = p /\ p \in Profiles
  OBVIOUS
<1>2. QED
  BY <1>1 DEF Own!ProfileAllowed

\* What anyone who sees a device keeps on it.
LEMMA AttributesSaved ==
  ASSUME Own!OwnInv, NEW r \in Requests, served < MaxEdits, NEW u \in Owners, NEW x \in Devices,
         NEW p \in Profiles \cup {Gone}, NEW own \in BOOLEAN, NEW ticked \in BOOLEAN,
         Own!Attributes(r, u, x, p, own, ticked)
  PROVE  Own!OwnInv'
<1> DEFINE e == Saved(db, u, x, p, own, ticked)
<1>1. Own!Opens(r, u, "attributes", e) /\ Own!Sees(db, u, x) /\ Own!ProfileAllowed(u, p)
  BY DEF Own!Attributes, Saved
<1>2. /\ e \in Own!Database
      /\ \A y \in Devices : e[Own!Device(y)] = db[Own!Device(y)]
      /\ \A q \in Profiles : e[Own!Profile(q)] = db[Own!Profile(q)]
      /\ \A w \in Owners : e[Own!Mapping(w)] = db[Own!Mapping(w)] /\ e[Own!Property(w)] = db[Own!Property(w)]
      /\ \A y \in Devices, w \in Owners : y # x \/ w # u =>
           /\ e[Own!Link(y, w)] = db[Own!Link(y, w)] /\ e[Own!Value(y, w)] = db[Own!Value(y, w)]
           /\ e[Own!Binding(y, w)] = db[Own!Binding(y, w)]
      /\ e[Own!Link(x, u)] = IF p = Gone THEN Gone ELSE [profile |-> p]
      /\ e[Own!Value(x, u)] \in {Gone, db[Own!Value(x, u)]} \/ db[Own!Property(u)] # Gone
      /\ e[Own!Binding(x, u)] # Gone => Own!Resolvable(e, u, x)
  <2>1. FormSaved(e, db, u, x, p)
    BY OwnDatabase, SavedTables
  <2>2. QED
    BY <2>1 DEF FormSaved
<1> HIDE DEF e
<1>3. \A y \in Devices : e[Own!Link(y, u)] \notin {db[Own!Link(y, u)], Gone} =>
        /\ e[Own!Profile(e[Own!Link(y, u)].profile)] # Gone
        /\ e[Own!Profile(e[Own!Link(y, u)].profile)].owner = u
  BY <1>1, <1>2, AllowedLink
<1>4. Writes(r, u, "attributes", e)
  BY <1>2, <1>3 DEF Writes, Own!Ops
<1>5. \A y \in Devices, w \in Owners : Own!Sees(e, w, y) <=> Own!Sees(db, w, y)
  BY <1>2 DEF Own!Sees
<1>6. KeepsInSight(e, db)
  BY <1>1, <1>2, <1>5 DEF KeepsInSight
<1>7. BindsResolved(e, db)
  BY <1>2 DEF BindsResolved
<1>8. QED
  BY <1>1, <1>2, <1>4, <1>6, <1>7, OpensQuietly

\* A new device.
LEMMA DeviceMade ==
  ASSUME Own!OwnInv, NEW r \in Requests, served < MaxEdits, NEW u \in Owners, NEW x \in Devices,
         NEW global \in BOOLEAN, NEW p \in Profiles \cup {Gone}, Own!Create(r, u, x, global, p)
  PROVE  Own!OwnInv'
<1> DEFINE row == [owner |-> u, global |-> global /\ u \in Admins, sys |-> Gone]
           d == [db EXCEPT ![Own!Device(x)] = row]
           to == IF p = Gone THEN Gone ELSE [profile |-> p]
           e == [d EXCEPT ![Own!Link(x, u)] = to]
<1>1. Own!Opens(r, u, "create", e) /\ Own!Fresh(Own!Device(x)) /\ Own!ProfileAllowed(u, p)
  BY DEF Own!Create, Own!LinkProfile
<1>2. db[Own!Device(x)] = Gone
  BY <1>1 DEF Own!Fresh
<1>3. row \in Own!RowsOf(Own!Device(x)) /\ (to = Gone \/ to \in Own!RowsOf(Own!Link(x, u)))
  <2>1. row \in Own!DeviceRows
    BY DEF Own!DeviceRows
  <2>2. to = Gone \/ to \in Own!LinkRows
    BY DEF Own!LinkRows
  <2>3. QED
    BY <2>1, <2>2, RowsOfTables
<1>4. row # Gone /\ row.owner = u
  BY <1>3, RowsThere
<1> HIDE DEF row, to
<1>5. d \in Own!Database /\ d[Own!Device(x)] = row /\ \A j \in Own!Keys : j # Own!Device(x) => d[j] = db[j]
  BY <1>3, KeysIn, OwnDatabase, OneRow
<1> HIDE DEF d
<1>6. e \in Own!Database /\ e[Own!Link(x, u)] = to /\ \A j \in Own!Keys : j # Own!Link(x, u) => e[j] = d[j]
  BY <1>3, <1>5, KeysIn, OneRow
<1> HIDE DEF e
<1>7. e[Own!Device(x)] = row
  BY <1>5, <1>6, KeysIn, KeyParts
<1>8. /\ \A y \in Devices \ {x} : e[Own!Device(y)] = db[Own!Device(y)]
      /\ \A q \in Profiles : e[Own!Profile(q)] = db[Own!Profile(q)]
      /\ \A w \in Owners : e[Own!Mapping(w)] = db[Own!Mapping(w)] /\ e[Own!Property(w)] = db[Own!Property(w)]
      /\ \A y \in Devices, w \in Owners :
           e[Own!Value(y, w)] = db[Own!Value(y, w)] /\ e[Own!Binding(y, w)] = db[Own!Binding(y, w)]
  BY <1>5, <1>6, KeysIn, KeyParts
<1>9. \A y \in Devices, w \in Owners : y # x \/ w # u => e[Own!Link(y, w)] = db[Own!Link(y, w)]
  BY <1>5, <1>6, KeysIn, KeyParts
<1>10. \A y \in Devices : e[Own!Link(y, u)] \notin {db[Own!Link(y, u)], Gone} =>
         /\ e[Own!Profile(e[Own!Link(y, u)].profile)] # Gone
         /\ e[Own!Profile(e[Own!Link(y, u)].profile)].owner = u
  BY <1>1, <1>6, <1>8, <1>9, AllowedLink DEF to
<1>11. Writes(r, u, "create", e)
  BY <1>4, <1>6, <1>7, <1>8, <1>9, <1>10 DEF Writes, Own!Ops
<1>12. Own!Sees(e, u, x)
  BY <1>4, <1>7 DEF Own!Sees
<1>13. KeepsInSight(e, db)
  BY <1>2, <1>8, <1>9, <1>12 DEF KeepsInSight, Own!Sees
<1>14. BindsResolved(e, db)
  BY <1>8 DEF BindsResolved
<1>15. QED
  BY <1>1, <1>2, <1>4, <1>7, <1>8, <1>11, <1>13, <1>14, OpensQuietly

\* A device made local is its editor's, and loses what the others kept on it.
LEMMA LocalTables ==
  ASSUME NEW s \in Own!Database, NEW u \in Owners, NEW x \in Devices, s[Own!Device(x)] # Gone,
         NEW e, e = Own!MadeLocal(s, u, x)
  PROVE  /\ e \in Own!Database
         /\ e[Own!Device(x)] = [owner |-> u, global |-> s[Own!Device(x)].global, sys |-> s[Own!Device(x)].sys]
         /\ \A y \in Devices \ {x} : e[Own!Device(y)] = s[Own!Device(y)]
         /\ \A q \in Profiles : e[Own!Profile(q)] = s[Own!Profile(q)]
         /\ \A w \in Owners : e[Own!Mapping(w)] = s[Own!Mapping(w)] /\ e[Own!Property(w)] = s[Own!Property(w)]
         /\ \A y \in Devices, w \in Owners :
              IF y = x /\ w # u
                THEN e[Own!Link(y, w)] = Gone /\ e[Own!Value(y, w)] = Gone /\ e[Own!Binding(y, w)] = Gone
                ELSE /\ e[Own!Link(y, w)] = s[Own!Link(y, w)] /\ e[Own!Value(y, w)] = s[Own!Value(y, w)]
                     /\ e[Own!Binding(y, w)] = s[Own!Binding(y, w)]
<1> DEFINE j == Own!Device(x)  row == [owner |-> u, global |-> s[j].global, sys |-> s[j].sys]
           dropped == Own!DroppedOfOthers(u, x)
<1>1. j \in Own!Keys /\ s[j] \in Own!DeviceRows
  BY KeysIn, DatabaseRows
<1>2. [s[j] EXCEPT !.owner = u] = row /\ row \in Own!DeviceRows
  BY <1>1 DEF Own!DeviceRows
<1>3. e = [k \in Own!Keys |-> IF k = j THEN [s[k] EXCEPT !.owner = u] ELSE IF k \in dropped THEN Gone ELSE s[k]]
  BY DEF Own!MadeLocal
<1>4. /\ e = [k \in Own!Keys |-> e[k]] /\ e[j] = row
      /\ \A k \in Own!Keys : k # j => e[k] = IF k \in dropped THEN Gone ELSE s[k]
  BY <1>1, <1>2, <1>3
<1> HIDE DEF row
<1>5. e \in Own!Database
  <2>1. \A k \in Own!Keys : e[k] = Gone \/ e[k] \in Own!RowsOf(k)
    BY <1>2, <1>4, RowsOfTables DEF Own!Database
  <2>2. QED
    BY <1>4, <2>1, IsDatabase
<1>6. /\ \A y : Own!Device(y) \notin dropped /\ Own!Profile(y) \notin dropped
      /\ \A w : Own!Mapping(w) \notin dropped /\ Own!Property(w) \notin dropped
  BY KeyParts DEF Own!DroppedOfOthers
<1>7. \A y \in Devices, w \in Owners :
        /\ Own!Link(y, w) \in dropped <=> y = x /\ w # u
        /\ Own!Value(y, w) \in dropped <=> y = x /\ w # u
        /\ Own!Binding(y, w) \in dropped <=> y = x /\ w # u
  BY KeysIn, KeyParts DEF Own!DroppedOfOthers
<1> HIDE DEF dropped
<1>8. /\ \A y \in Devices \ {x} : e[Own!Device(y)] = s[Own!Device(y)]
      /\ \A q \in Profiles : e[Own!Profile(q)] = s[Own!Profile(q)]
      /\ \A w \in Owners : e[Own!Mapping(w)] = s[Own!Mapping(w)] /\ e[Own!Property(w)] = s[Own!Property(w)]
  BY <1>4, <1>6, KeysIn, KeyParts
<1>9. \A y \in Devices, w \in Owners :
        IF y = x /\ w # u
          THEN e[Own!Link(y, w)] = Gone /\ e[Own!Value(y, w)] = Gone /\ e[Own!Binding(y, w)] = Gone
          ELSE /\ e[Own!Link(y, w)] = s[Own!Link(y, w)] /\ e[Own!Value(y, w)] = s[Own!Value(y, w)]
               /\ e[Own!Binding(y, w)] = s[Own!Binding(y, w)]
  BY <1>4, <1>7, KeysIn, KeyParts
<1>10. QED
  BY <1>4, <1>5, <1>8, <1>9 DEF row

\* The columns of a device that a form sets.
LEMMA DeviceColumns ==
  ASSUME NEW a \in Own!DeviceRows, NEW g, NEW v
  PROVE  [a EXCEPT !.global = g, !.sys = v] = [owner |-> a.owner, global |-> g, sys |-> v]
<1> DEFINE c == [a EXCEPT !.global = g]
<1>1. PICK o \in Owners, b \in BOOLEAN, y \in {"text", Gone} : a = [owner |-> o, global |-> b, sys |-> y]
  BY DEF Own!DeviceRows
<1>2. a.owner = o /\ c = [owner |-> o, global |-> g, sys |-> y]
  BY <1>1
<1>3. [c EXCEPT !.sys = v] = [a EXCEPT !.global = g, !.sys = v]
  OBVIOUS
<1> HIDE DEF c
<1>4. [c EXCEPT !.sys = v] = [owner |-> o, global |-> g, sys |-> v]
  BY <1>2
<1>5. QED
  BY <1>2, <1>3, <1>4, Zenon

\* What an edit makes of the database, by tables.
EditSaved(e, u, x, p, local) ==
  /\ e \in Own!Database /\ e[Own!Device(x)] # Gone
  /\ local => e[Own!Device(x)].owner = u
  /\ ~local => /\ e[Own!Device(x)].owner = db[Own!Device(x)].owner
               /\ db[Own!Device(x)].global => e[Own!Device(x)].global
  /\ \A y \in Devices \ {x} : e[Own!Device(y)] = db[Own!Device(y)]
  /\ \A q \in Profiles : e[Own!Profile(q)] = db[Own!Profile(q)]
  /\ \A w \in Owners : e[Own!Mapping(w)] = db[Own!Mapping(w)] /\ e[Own!Property(w)] = db[Own!Property(w)]
  /\ \A y \in Devices, w \in Owners : y # x \/ w # u =>
       \/ /\ e[Own!Link(y, w)] = db[Own!Link(y, w)] /\ e[Own!Value(y, w)] = db[Own!Value(y, w)]
          /\ e[Own!Binding(y, w)] = db[Own!Binding(y, w)]
          /\ ~local \/ y # x
       \/ /\ local /\ y = x
          /\ e[Own!Link(y, w)] = Gone /\ e[Own!Value(y, w)] = Gone /\ e[Own!Binding(y, w)] = Gone
  /\ e[Own!Link(x, u)] = IF p = Gone THEN Gone ELSE [profile |-> p]
  /\ e[Own!Value(x, u)] \in {Gone, db[Own!Value(x, u)]} \/ db[Own!Property(u)] # Gone
  /\ e[Own!Binding(x, u)] # Gone => Own!Resolvable(e, u, x)

\* An edit writes that.
LEMMA EditTables ==
  ASSUME Own!OwnInv, NEW u \in Owners, NEW x \in Devices, Own!CanEdit(db, u, x), NEW global \in BOOLEAN,
         NEW p \in Profiles \cup {Gone}, NEW sys \in BOOLEAN, NEW own \in BOOLEAN, NEW ticked \in BOOLEAN,
         NEW e, e = Own!SaveDevice(u, x, global, p, sys, own, ticked), NEW local, local = Own!MakesLocal(u, x, global)
  PROVE  EditSaved(e, u, x, p, local)
<1> DEFINE j == Own!Device(x)
           row == [owner |-> db[j].owner, global |-> Own!IsGlobal(u, x, global), sys |-> Own!SystemValue(sys)]
           d == [db EXCEPT ![j] = row]
           s == Saved(d, u, x, p, own, ticked)
<1>1. j \in Own!Keys /\ db \in Own!Database /\ db[j] \in Own!DeviceRows
  BY KeysIn, OwnDatabase, DatabaseRows DEF Own!CanEdit
<1>2. row \in Own!DeviceRows
  <2>1. Own!IsGlobal(u, x, global) \in BOOLEAN
    BY <1>1 DEF Own!IsGlobal, Own!DeviceRows
  <2>2. Own!SystemValue(sys) \in {"text", Gone}
    BY DEF Own!SystemValue
  <2>3. db[j].owner \in Owners
    BY <1>1 DEF Own!DeviceRows
  <2>4. QED
    BY <2>1, <2>2, <2>3 DEF Own!DeviceRows
<1>3. [db[j] EXCEPT !.global = Own!IsGlobal(u, x, global), !.sys = Own!SystemValue(sys)] = row
  BY <1>1, DeviceColumns
<1>4. e = IF local THEN Own!MadeLocal(s, u, x) ELSE s
  BY <1>3 DEF Own!SaveDevice, Saved
<1>5. d \in Own!Database /\ d[j] = row /\ \A k \in Own!Keys : k # j => d[k] = db[k]
  BY <1>1, <1>2, RowsOfTables, OneRow
<1>6. row # Gone /\ row.owner = db[j].owner /\ row.global = Own!IsGlobal(u, x, global)
  BY <1>2, RowsOfTables, RowsThere
<1>s. s = Saved(d, u, x, p, own, ticked)
  OBVIOUS
<1> HIDE DEF d, row, s
<1>7. /\ \A y \in Devices \ {x} : d[Own!Device(y)] = db[Own!Device(y)]
      /\ \A q \in Profiles : d[Own!Profile(q)] = db[Own!Profile(q)]
      /\ \A w \in Owners : d[Own!Mapping(w)] = db[Own!Mapping(w)] /\ d[Own!Property(w)] = db[Own!Property(w)]
      /\ \A y \in Devices, w \in Owners :
           /\ d[Own!Link(y, w)] = db[Own!Link(y, w)] /\ d[Own!Value(y, w)] = db[Own!Value(y, w)]
           /\ d[Own!Binding(y, w)] = db[Own!Binding(y, w)]
  BY <1>5, KeysIn, KeyParts
<1>8. /\ s \in Own!Database
      /\ \A y \in Devices : s[Own!Device(y)] = d[Own!Device(y)]
      /\ \A q \in Profiles : s[Own!Profile(q)] = d[Own!Profile(q)]
      /\ \A w \in Owners : s[Own!Mapping(w)] = d[Own!Mapping(w)] /\ s[Own!Property(w)] = d[Own!Property(w)]
      /\ \A y \in Devices, w \in Owners : y # x \/ w # u =>
           /\ s[Own!Link(y, w)] = d[Own!Link(y, w)] /\ s[Own!Value(y, w)] = d[Own!Value(y, w)]
           /\ s[Own!Binding(y, w)] = d[Own!Binding(y, w)]
      /\ s[Own!Link(x, u)] = IF p = Gone THEN Gone ELSE [profile |-> p]
      /\ s[Own!Value(x, u)] \in {Gone, d[Own!Value(x, u)]} \/ db[Own!Property(u)] # Gone
      /\ s[Own!Binding(x, u)] # Gone => Own!Resolvable(s, u, x)
  <2>1. FormSaved(s, d, u, x, p)
    BY <1>5, <1>s, SavedTables
  <2>2. QED
    BY <2>1 DEF FormSaved
<1>9. s[j] = row /\ s[j] # Gone
  BY <1>5, <1>6, <1>8
<1>10. CASE local
  <2>1. e = Own!MadeLocal(s, u, x)
    BY <1>4, <1>10
  <2>2. /\ e \in Own!Database
        /\ e[Own!Device(x)] = [owner |-> u, global |-> s[Own!Device(x)].global, sys |-> s[Own!Device(x)].sys]
        /\ \A y \in Devices \ {x} : e[Own!Device(y)] = s[Own!Device(y)]
        /\ \A q \in Profiles : e[Own!Profile(q)] = s[Own!Profile(q)]
        /\ \A w \in Owners : e[Own!Mapping(w)] = s[Own!Mapping(w)] /\ e[Own!Property(w)] = s[Own!Property(w)]
        /\ \A y \in Devices, w \in Owners :
             IF y = x /\ w # u
               THEN e[Own!Link(y, w)] = Gone /\ e[Own!Value(y, w)] = Gone /\ e[Own!Binding(y, w)] = Gone
               ELSE /\ e[Own!Link(y, w)] = s[Own!Link(y, w)] /\ e[Own!Value(y, w)] = s[Own!Value(y, w)]
                    /\ e[Own!Binding(y, w)] = s[Own!Binding(y, w)]
    BY <1>8, <1>9, <2>1, LocalTables
  <2>3. e[j].owner = u /\ e[j].sys = s[j].sys
    BY <2>2
  <2>4. e[j] # Gone
    <3>1. e[j] = Gone \/ e[j] \in Own!DeviceRows
      BY <2>2, DatabaseRows
    <3>2. [owner |-> u, global |-> s[j].global, sys |-> s[j].sys] \in Own!DeviceRows
      <4>1. s[j] \in Own!DeviceRows
        BY <1>2, <1>9
      <4>2. QED
        BY <4>1 DEF Own!DeviceRows
    <3>3. QED
      BY <2>2, <3>2, RowsOfTables, RowsThere
  <2>5. e[Own!Binding(x, u)] # Gone => Own!Resolvable(e, u, x)
    <3>1. SUFFICES ASSUME e[Own!Binding(x, u)] # Gone PROVE Own!Resolvable(e, u, x)
      OBVIOUS
    <3>2. Own!Resolvable(s, u, x)
      BY <1>8, <2>2, <3>1
    <3>3. Own!MappedValue(e, u, x) = Own!MappedValue(s, u, x)
      BY <2>2, <2>3 DEF Own!MappedValue
    <3>4. QED
      BY <2>2, <3>2, <3>3 DEF Own!Resolvable
  <2>6. \A y \in Devices, w \in Owners : y # x \/ w # u =>
          \/ /\ e[Own!Link(y, w)] = db[Own!Link(y, w)] /\ e[Own!Value(y, w)] = db[Own!Value(y, w)]
             /\ e[Own!Binding(y, w)] = db[Own!Binding(y, w)]
             /\ ~local \/ y # x
          \/ /\ local /\ y = x
             /\ e[Own!Link(y, w)] = Gone /\ e[Own!Value(y, w)] = Gone /\ e[Own!Binding(y, w)] = Gone
    BY <1>7, <1>8, <1>10, <2>2
  <2>7. /\ \A y \in Devices \ {x} : e[Own!Device(y)] = db[Own!Device(y)]
        /\ \A q \in Profiles : e[Own!Profile(q)] = db[Own!Profile(q)]
        /\ \A w \in Owners : e[Own!Mapping(w)] = db[Own!Mapping(w)] /\ e[Own!Property(w)] = db[Own!Property(w)]
        /\ e[Own!Link(x, u)] = IF p = Gone THEN Gone ELSE [profile |-> p]
        /\ e[Own!Value(x, u)] \in {Gone, db[Own!Value(x, u)]} \/ db[Own!Property(u)] # Gone
    BY <1>7, <1>8, <2>2
  <2>8. QED
    BY <1>10, <2>2, <2>3, <2>4, <2>5, <2>6, <2>7 DEF EditSaved
<1>11. CASE ~local
  <2>1. e = s
    BY <1>4, <1>11
  <2>2. db[j].global => Own!IsGlobal(u, x, global)
    BY <1>11 DEF Own!MakesLocal
  <2>3. e[j] # Gone /\ e[j].owner = db[j].owner /\ (db[j].global => e[j].global)
    BY <1>6, <1>9, <2>1, <2>2
  <2>4. \A y \in Devices, w \in Owners : y # x \/ w # u =>
          /\ e[Own!Link(y, w)] = db[Own!Link(y, w)] /\ e[Own!Value(y, w)] = db[Own!Value(y, w)]
          /\ e[Own!Binding(y, w)] = db[Own!Binding(y, w)]
    BY <1>7, <1>8, <2>1
  <2>5. /\ \A y \in Devices \ {x} : e[Own!Device(y)] = db[Own!Device(y)]
        /\ \A q \in Profiles : e[Own!Profile(q)] = db[Own!Profile(q)]
        /\ \A w \in Owners : e[Own!Mapping(w)] = db[Own!Mapping(w)] /\ e[Own!Property(w)] = db[Own!Property(w)]
        /\ e[Own!Link(x, u)] = IF p = Gone THEN Gone ELSE [profile |-> p]
        /\ e[Own!Value(x, u)] \in {Gone, db[Own!Value(x, u)]} \/ db[Own!Property(u)] # Gone
        /\ e[Own!Binding(x, u)] # Gone => Own!Resolvable(e, u, x)
    BY <1>7, <1>8, <2>1
  <2>6. QED
    BY <1>8, <1>11, <2>1, <2>3, <2>4, <2>5 DEF EditSaved
<1>12. QED
  BY <1>10, <1>11

\* A device is edited.
LEMMA DeviceEdited ==
  ASSUME Own!OwnInv, NEW r \in Requests, served < MaxEdits, NEW u \in Owners, NEW x \in Devices,
         NEW global \in BOOLEAN, NEW p \in Profiles \cup {Gone}, NEW sys \in BOOLEAN, NEW own \in BOOLEAN,
         NEW ticked \in BOOLEAN, Own!Edit(r, u, x, global, p, sys, own, ticked)
  PROVE  Own!OwnInv'
<1> DEFINE local == Own!MakesLocal(u, x, global)  op == IF local THEN "make local" ELSE "edit"
           e == Own!SaveDevice(u, x, global, p, sys, own, ticked)
<1>1. Own!Opens(r, u, op, e) /\ Own!CanEdit(db, u, x) /\ Own!ProfileAllowed(u, p)
  BY DEF Own!Edit
<1>2. op \in Own!Ops /\ op # "import" /\ (local => op = "make local")
  BY DEF Own!Ops
<1>e. e = Own!SaveDevice(u, x, global, p, sys, own, ticked) /\ local = Own!MakesLocal(u, x, global)
  OBVIOUS
<1> HIDE DEF e, local, op
<1>3. /\ e \in Own!Database /\ e[Own!Device(x)] # Gone
      /\ local => e[Own!Device(x)].owner = u
      /\ ~local => /\ e[Own!Device(x)].owner = db[Own!Device(x)].owner
                   /\ db[Own!Device(x)].global => e[Own!Device(x)].global
      /\ \A y \in Devices \ {x} : e[Own!Device(y)] = db[Own!Device(y)]
      /\ \A q \in Profiles : e[Own!Profile(q)] = db[Own!Profile(q)]
      /\ \A w \in Owners : e[Own!Mapping(w)] = db[Own!Mapping(w)] /\ e[Own!Property(w)] = db[Own!Property(w)]
      /\ \A y \in Devices, w \in Owners : y # x \/ w # u =>
           \/ /\ e[Own!Link(y, w)] = db[Own!Link(y, w)] /\ e[Own!Value(y, w)] = db[Own!Value(y, w)]
              /\ e[Own!Binding(y, w)] = db[Own!Binding(y, w)]
              /\ ~local \/ y # x
           \/ /\ local /\ y = x
              /\ e[Own!Link(y, w)] = Gone /\ e[Own!Value(y, w)] = Gone /\ e[Own!Binding(y, w)] = Gone
      /\ e[Own!Link(x, u)] = IF p = Gone THEN Gone ELSE [profile |-> p]
      /\ e[Own!Value(x, u)] \in {Gone, db[Own!Value(x, u)]} \/ db[Own!Property(u)] # Gone
      /\ e[Own!Binding(x, u)] # Gone => Own!Resolvable(e, u, x)
  <2>1. EditSaved(e, u, x, p, local)
    BY <1>1, <1>e, EditTables
  <2>2. QED
    BY <2>1 DEF EditSaved
<1>4. \A y \in Devices : e[Own!Link(y, u)] \notin {db[Own!Link(y, u)], Gone} =>
        /\ e[Own!Profile(e[Own!Link(y, u)].profile)] # Gone
        /\ e[Own!Profile(e[Own!Link(y, u)].profile)].owner = u
  <2>1. /\ \A q \in Profiles : e[Own!Profile(q)] = db[Own!Profile(q)]
        /\ e[Own!Link(x, u)] = IF p = Gone THEN Gone ELSE [profile |-> p]
    BY <1>3
  <2>2. \A y \in Devices \ {x} : e[Own!Link(y, u)] \in {db[Own!Link(y, u)], Gone}
    BY <1>3
  <2>3. QED
    BY <1>1, <2>1, <2>2, AllowedLink
<1>5. Writes(r, u, op, e)
  BY <1>2, <1>3, <1>4 DEF Writes
<1>6. Own!Sees(e, u, x)
  BY <1>1, <1>3 DEF Own!Sees, Own!CanEdit
<1>7. \A y \in Devices, w \in Owners : (~local \/ y # x) /\ Own!Sees(db, w, y) => Own!Sees(e, w, y)
  BY <1>3 DEF Own!Sees
<1>8. KeepsInSight(e, db)
  BY <1>3, <1>6, <1>7 DEF KeepsInSight
<1>9. BindsResolved(e, db)
  BY <1>3 DEF BindsResolved
<1>10. QED
  BY <1>1, <1>2, <1>3, <1>5, <1>8, <1>9, OpensQuietly

\* What an import makes of the database, by tables; cred is what a profile's rows say.
ImportSaved(e, u, xs, of, cred) ==
  /\ \A x \in xs : e[Own!Device(x)] # Gone /\ e[Own!Device(x)].owner = u
  /\ \A x \in Devices \ xs : e[Own!Device(x)] = db[Own!Device(x)]
  /\ \A x \in xs : of[x] # Gone =>
       e[Own!Profile(of[x])] = [owner |-> u, cred |-> cred[of[x]]] /\ e[Own!Profile(of[x])] # Gone
  /\ \A q \in Profiles : e[Own!Profile(q)] = db[Own!Profile(q)] \/ \E x \in xs : of[x] = q
  /\ \A w \in Owners : e[Own!Mapping(w)] = db[Own!Mapping(w)] /\ e[Own!Property(w)] = db[Own!Property(w)]
  /\ \A x \in Devices, w \in Owners :
       e[Own!Link(x, w)] = db[Own!Link(x, w)]
         \/ (w = u /\ x \in xs /\ of[x] # Gone /\ e[Own!Link(x, w)] = [profile |-> of[x]])
  /\ \A x \in Devices, w \in Owners :
       e[Own!Value(x, w)] = db[Own!Value(x, w)] \/ (w = u /\ x \in xs /\ db[Own!Property(u)] # Gone)
  /\ \A x \in Devices, w \in Owners : e[Own!Binding(x, w)] = db[Own!Binding(x, w)]

\* The credentials that the rows of an import give each of its profiles.
CredentialsOf(rows, of) == [q \in Profiles |-> rows[CHOOSE z \in DOMAIN rows : of[z] = q]]

\* The profiles of an import: each is of one row's credentials, the user's that has them or a new one.
LEMMA ImportProfiles ==
  ASSUME NEW r \in Requests, NEW u \in Owners, NEW xs \in SUBSET Devices,
         NEW rows \in [xs -> Credentials \cup {Gone}],
         NEW of \in [xs -> Profiles \cup {Gone}], Own!Resolved(u, rows, of), NEW q \in Profiles,
         NEW x \in xs, of[x] = q
  PROVE  LET y == CHOOSE z \in DOMAIN rows : of[z] = q
         IN  /\ y \in xs /\ of[y] = q /\ rows[y] = rows[x] /\ rows[x] \in Credentials /\ rows[x] # Gone
             /\ \/ db[Own!Profile(q)] = [owner |-> u, cred |-> rows[x]]
                \/ /\ Own!Fresh(Own!Profile(q))
                   /\ \A p \in Profiles : db[Own!Profile(p)] # [owner |-> u, cred |-> rows[x]]
<1> DEFINE y == CHOOSE z \in DOMAIN rows : of[z] = q
           known == {p \in Profiles : db[Own!Profile(p)] = [owner |-> u, cred |-> rows[x]]}
<1>1. y \in xs /\ of[y] = q /\ DOMAIN rows = xs
  OBVIOUS
<1> HIDE DEF y
<1>2. q # Gone
  BY InventoryAssumption
<1>3. /\ rows[y] = rows[x]
      /\ IF rows[x] = Gone THEN of[x] = Gone
         ELSE of[x] # Gone /\ (IF known # {} THEN of[x] \in known ELSE Own!Fresh(Own!Profile(of[x])))
  BY <1>1, <1>2 DEF Own!Resolved, Own!Shares
<1>4. rows[x] # Gone /\ rows[x] \in Credentials
  BY <1>2, <1>3
<1>5. CASE known # {}
  BY <1>1, <1>3, <1>4, <1>5 DEF y
<1>6. CASE known = {}
  BY <1>1, <1>3, <1>4, <1>6 DEF y
<1>7. QED
  BY <1>5, <1>6

\* An import writes that.
LEMMA ImportTables ==
  ASSUME Own!OwnInv, NEW u \in Owners, NEW xs \in SUBSET Devices, NEW rows \in [xs -> Credentials \cup {Gone}],
         NEW of \in [xs -> Profiles \cup {Gone}], NEW cells, NEW e, e = Own!Imported(u, rows, of, cells),
         NEW cred, cred = CredentialsOf(rows, of),
         \A q \in Profiles : (\E x \in xs : of[x] = q) => cred[q] \in Credentials
  PROVE  e \in Own!Database /\ ImportSaved(e, u, xs, of, cred)
<1> DEFINE device == [owner |-> u, global |-> FALSE, sys |-> Own!SystemValue(cells)]
           profile(q) == [owner |-> u, cred |-> rows[CHOOSE z \in DOMAIN rows : of[z] = q]]
           value == Own!Parsed(u, cells)
<1>1. e = [k \in Own!Keys |->
             IF \E x \in DOMAIN rows : k = Own!Device(x) THEN device
             ELSE IF k[1] = "profile" /\ \E x \in DOMAIN rows : of[x] = k[2] THEN profile(k[2])
             ELSE IF k[1] = "link" /\ k[3] = u /\ k[2] \in DOMAIN rows /\ of[k[2]] # Gone THEN [profile |-> of[k[2]]]
             ELSE IF k[1] = "value" /\ k[3] = u /\ k[2] \in DOMAIN rows /\ db[Own!Property(u)] # Gone THEN value
             ELSE db[k]]
  BY DEF Own!Imported
<1>2. DOMAIN rows = xs
  OBVIOUS
<1>3. device \in Own!DeviceRows /\ (value = Gone \/ value \in Own!ValueRows)
  <2>1. Own!SystemValue(cells) \in {"text", Gone}
    BY DEF Own!SystemValue
  <2>2. QED
    BY <2>1 DEF Own!DeviceRows, Own!Parsed, Own!ValueRows, Own!AttrValues
<1>4. \A q \in Profiles : profile(q) = [owner |-> u, cred |-> cred[q]]
  BY DEF CredentialsOf
<1>5. device.owner = u
  OBVIOUS
<1> HIDE DEF device, value, profile
<1>6. \A x \in Devices : e[Own!Device(x)] = IF x \in xs THEN device ELSE db[Own!Device(x)]
  BY <1>1, <1>2, KeysIn, KeyParts
<1>7. \A q \in Profiles : e[Own!Profile(q)] = IF \E x \in xs : of[x] = q THEN profile(q) ELSE db[Own!Profile(q)]
  BY <1>1, <1>2, KeysIn, KeyParts
<1>8. \A w \in Owners : e[Own!Mapping(w)] = db[Own!Mapping(w)] /\ e[Own!Property(w)] = db[Own!Property(w)]
  BY <1>1, KeysIn, KeyParts
<1>9. \A x \in Devices, w \in Owners :
        e[Own!Link(x, w)] = IF w = u /\ x \in xs /\ of[x] # Gone THEN [profile |-> of[x]] ELSE db[Own!Link(x, w)]
  BY <1>1, <1>2, KeysIn, KeyParts
<1>10. \A x \in Devices, w \in Owners :
         e[Own!Value(x, w)] = IF w = u /\ x \in xs /\ db[Own!Property(u)] # Gone THEN value ELSE db[Own!Value(x, w)]
  BY <1>1, <1>2, KeysIn, KeyParts
<1>11. \A x \in Devices, w \in Owners : e[Own!Binding(x, w)] = db[Own!Binding(x, w)]
  BY <1>1, KeysIn, KeyParts
<1>12. \A q \in Profiles : (\E x \in xs : of[x] = q) => profile(q) \in Own!ProfileRows
  BY <1>4 DEF Own!ProfileRows
<1>13. e \in Own!Database
  <2>1. ASSUME NEW k \in Own!Keys PROVE e[k] = Gone \/ e[k] \in Own!RowsOf(k)
    <3>1. ASSUME NEW x \in Devices, k = Own!Device(x) PROVE e[k] = Gone \/ e[k] \in Own!RowsOf(k)
      BY <1>3, <1>6, <3>1, OwnDatabase, DatabaseRows, RowsOfTables
    <3>2. ASSUME NEW q \in Profiles, k = Own!Profile(q) PROVE e[k] = Gone \/ e[k] \in Own!RowsOf(k)
      BY <1>7, <1>12, <3>2, OwnDatabase, DatabaseRows, RowsOfTables
    <3>3. ASSUME NEW x \in Devices, NEW w \in Owners, k = Own!Link(x, w) PROVE e[k] = Gone \/ e[k] \in Own!RowsOf(k)
      <4>1. CASE w = u /\ x \in xs /\ of[x] # Gone
        <5>1. e[k] = [profile |-> of[x]] /\ of[x] \in Profiles
          BY <1>9, <3>3, <4>1
        <5>2. e[k] \in Own!LinkRows
          BY <5>1 DEF Own!LinkRows
        <5>3. QED
          BY <3>3, <5>2, RowsOfTables
      <4>2. CASE ~(w = u /\ x \in xs /\ of[x] # Gone)
        <5>1. e[k] = db[k]
          BY <1>9, <3>3, <4>2
        <5>2. QED
          BY <5>1, OwnDatabase, DatabaseRows
      <4>3. QED
        BY <4>1, <4>2
    <3>4. ASSUME NEW x \in Devices, NEW w \in Owners, k = Own!Value(x, w) PROVE e[k] = Gone \/ e[k] \in Own!RowsOf(k)
      BY <1>3, <1>10, <3>4, OwnDatabase, DatabaseRows, RowsOfTables
    <3>5. ASSUME NEW w \in Owners,
                 k = Own!Mapping(w) \/ k = Own!Property(w) \/ \E x \in Devices : k = Own!Binding(x, w)
          PROVE  e[k] = Gone \/ e[k] \in Own!RowsOf(k)
      <4>1. e[k] = db[k]
        BY <1>8, <1>11, <3>5
      <4>2. QED
        BY <4>1, OwnDatabase, DatabaseRows
    <3>6. QED
      BY <3>1, <3>2, <3>3, <3>4, <3>5, KeyKinds
  <2>2. e = [k \in Own!Keys |-> e[k]]
    BY <1>1
  <2>3. QED
    BY <2>1, <2>2, IsDatabase
<1>14. \A q \in Profiles : (\E x \in xs : of[x] = q) => profile(q) # Gone
  BY <1>12, RowsOfTables, RowsThere
<1>15. device # Gone
  BY <1>3, RowsOfTables, RowsThere
<1>16. \A x \in xs : e[Own!Device(x)] # Gone /\ e[Own!Device(x)].owner = u
  BY <1>5, <1>6, <1>15
<1>17. \A x \in Devices \ xs : e[Own!Device(x)] = db[Own!Device(x)]
  BY <1>6
<1>18. \A x \in xs : of[x] # Gone =>
         e[Own!Profile(of[x])] = [owner |-> u, cred |-> cred[of[x]]] /\ e[Own!Profile(of[x])] # Gone
  <2> SUFFICES ASSUME NEW x \in xs, of[x] # Gone
               PROVE  e[Own!Profile(of[x])] = [owner |-> u, cred |-> cred[of[x]]] /\ e[Own!Profile(of[x])] # Gone
    OBVIOUS
  <2>1. of[x] \in Profiles /\ \E z \in xs : of[z] = of[x]
    OBVIOUS
  <2>2. e[Own!Profile(of[x])] = profile(of[x]) /\ profile(of[x]) # Gone
    BY <1>7, <1>14, <2>1
  <2>3. QED
    BY <1>4, <2>1, <2>2
<1>19. \A q \in Profiles : e[Own!Profile(q)] = db[Own!Profile(q)] \/ \E x \in xs : of[x] = q
  BY <1>7
<1>20. \A x \in Devices, w \in Owners :
         e[Own!Link(x, w)] = db[Own!Link(x, w)]
           \/ (w = u /\ x \in xs /\ of[x] # Gone /\ e[Own!Link(x, w)] = [profile |-> of[x]])
  BY <1>9
<1>21. \A x \in Devices, w \in Owners :
         e[Own!Value(x, w)] = db[Own!Value(x, w)] \/ (w = u /\ x \in xs /\ db[Own!Property(u)] # Gone)
  BY <1>10
<1>22. QED
  BY <1>8, <1>11, <1>13, <1>16, <1>17, <1>18, <1>19, <1>20, <1>21 DEF ImportSaved

\* An import.
LEMMA DevicesImported ==
  ASSUME Own!OwnInv, NEW r \in Requests, served < MaxEdits, NEW u \in Owners, NEW xs \in SUBSET Devices,
         NEW rows \in [xs -> Credentials \cup {Gone}], NEW of \in [xs -> Profiles \cup {Gone}], NEW cells \in BOOLEAN,
         Own!Import(r, u, rows, of, cells)
  PROVE  Own!OwnInv'
<1> DEFINE e == Own!Imported(u, rows, of, cells)
           cred == CredentialsOf(rows, of)
<1>1. /\ Own!Opens(r, u, "import", e) /\ Own!Resolved(u, rows, of) /\ DOMAIN rows = xs
      /\ \A x \in xs : db[Own!Device(x)] = Gone
  BY DEF Own!Import, Own!Fresh
<1>2. ASSUME NEW x \in xs, NEW q \in Profiles, of[x] = q
      PROVE  /\ cred[q] = rows[x] /\ cred[q] \in Credentials
             /\ \/ db[Own!Profile(q)] = [owner |-> u, cred |-> cred[q]]
                \/ /\ Own!Fresh(Own!Profile(q))
                   /\ \A p \in Profiles : db[Own!Profile(p)] # [owner |-> u, cred |-> cred[q]]
  BY <1>1, <1>2, ImportProfiles DEF CredentialsOf
<1>3. cred = CredentialsOf(rows, of)
  OBVIOUS
<1>4. e = Own!Imported(u, rows, of, cells)
  OBVIOUS
<1> HIDE DEF e, cred
<1>6. e \in Own!Database /\ ImportSaved(e, u, xs, of, cred)
  <2>1. \A q \in Profiles : (\E x \in xs : of[x] = q) => cred[q] \in Credentials
    BY <1>2
  <2>2. QED
    BY <1>3, <1>4, <2>1, ImportTables
<1>7. \A x \in xs : e[Own!Device(x)] # Gone /\ e[Own!Device(x)].owner = u
  BY <1>6 DEF ImportSaved
<1>8. \A x \in Devices \ xs : e[Own!Device(x)] = db[Own!Device(x)]
  BY <1>6 DEF ImportSaved
<1>9. \A x \in xs : of[x] # Gone =>
        e[Own!Profile(of[x])] = [owner |-> u, cred |-> cred[of[x]]] /\ e[Own!Profile(of[x])] # Gone
  BY <1>6 DEF ImportSaved
<1>10. \A q \in Profiles : e[Own!Profile(q)] = db[Own!Profile(q)] \/ \E x \in xs : of[x] = q
  BY <1>6 DEF ImportSaved
<1>11. \A w \in Owners : e[Own!Mapping(w)] = db[Own!Mapping(w)] /\ e[Own!Property(w)] = db[Own!Property(w)]
  BY <1>6 DEF ImportSaved
<1>12. \A x \in Devices, w \in Owners :
         e[Own!Link(x, w)] = db[Own!Link(x, w)]
           \/ (w = u /\ x \in xs /\ of[x] # Gone /\ e[Own!Link(x, w)] = [profile |-> of[x]])
  BY <1>6 DEF ImportSaved
<1>13. \A x \in Devices, w \in Owners :
         e[Own!Value(x, w)] = db[Own!Value(x, w)] \/ (w = u /\ x \in xs /\ db[Own!Property(u)] # Gone)
  BY <1>6 DEF ImportSaved
<1>14. \A x \in Devices, w \in Owners : e[Own!Binding(x, w)] = db[Own!Binding(x, w)]
  BY <1>6 DEF ImportSaved
\* A profile that the import writes
<1>15. ASSUME NEW q \in Profiles, e[Own!Profile(q)] # db[Own!Profile(q)]
       PROVE  /\ e[Own!Profile(q)] # Gone /\ e[Own!Profile(q)].owner = u /\ Own!Fresh(Own!Profile(q))
              /\ db[Own!Profile(q)] = Gone
  <2>1. \E x \in xs : of[x] = q
    BY <1>10, <1>15
  <2>2. PICK x \in xs : of[x] = q
    BY <2>1
  <2>3. of[x] # Gone
    BY <2>2, InventoryAssumption
  <2>4. e[Own!Profile(q)] = [owner |-> u, cred |-> cred[q]] /\ e[Own!Profile(q)] # Gone
    BY <1>9, <2>2, <2>3
  <2>5. db[Own!Profile(q)] = [owner |-> u, cred |-> cred[q]] \/ Own!Fresh(Own!Profile(q))
    BY <1>2, <2>2
  <2>6. Own!Fresh(Own!Profile(q))
    BY <1>15, <2>4, <2>5
  <2>7. e[Own!Profile(q)].owner = u
    BY <2>4
  <2>8. QED
    BY <2>4, <2>6, <2>7 DEF Own!Fresh
\* A link that the import sets
<1>16. ASSUME NEW x \in Devices, e[Own!Link(x, u)] # db[Own!Link(x, u)]
       PROVE  /\ x \in xs /\ e[Own!Profile(e[Own!Link(x, u)].profile)] # Gone
              /\ e[Own!Profile(e[Own!Link(x, u)].profile)].owner = u
  <2>1. x \in xs /\ of[x] # Gone /\ e[Own!Link(x, u)] = [profile |-> of[x]]
    BY <1>12, <1>16
  <2>2. e[Own!Link(x, u)].profile = of[x]
    BY <2>1
  <2>3. e[Own!Profile(of[x])] = [owner |-> u, cred |-> cred[of[x]]] /\ e[Own!Profile(of[x])] # Gone
    BY <1>9, <2>1
  <2>4. e[Own!Profile(of[x])].owner = u
    BY <2>3
  <2>5. QED
    BY <2>1, <2>2, <2>3, <2>4
<1>17. \A x \in Devices : e[Own!Device(x)] = Gone => db[Own!Device(x)] = Gone
  BY <1>7, <1>8
<1>18. \A q \in Profiles : e[Own!Profile(q)] = Gone => db[Own!Profile(q)] = Gone
  BY <1>15
<1>19. Writes(r, u, "import", e)
  <2>1. \A q \in Profiles : e[Own!Profile(q)] # db[Own!Profile(q)] =>
          /\ db[Own!Profile(q)] = Gone => Own!Fresh(Own!Profile(q))
          /\ db[Own!Profile(q)] # Gone => db[Own!Profile(q)].owner = u
          /\ e[Own!Profile(q)] # Gone => e[Own!Profile(q)].owner = u
    BY <1>15
  <2>2. \A x \in Devices, w \in Owners \ {u} :
          /\ e[Own!Link(x, w)] = db[Own!Link(x, w)] /\ e[Own!Value(x, w)] = db[Own!Value(x, w)]
          /\ e[Own!Binding(x, w)] = db[Own!Binding(x, w)]
    BY <1>12, <1>13, <1>14
  <2>3. \A x \in Devices : e[Own!Link(x, u)] \notin {db[Own!Link(x, u)], Gone} =>
          /\ e[Own!Profile(e[Own!Link(x, u)].profile)] # Gone
          /\ e[Own!Profile(e[Own!Link(x, u)].profile)].owner = u
    BY <1>16
  <2>4. "import" \in Own!Ops
    BY DEF Own!Ops
  <2>5. QED
    BY <1>6, <1>11, <1>17, <2>1, <2>2, <2>3, <2>4 DEF Writes
<1>20. KeepsInSight(e, db)
  <2>1. ASSUME NEW x \in Devices, NEW w \in Owners, NEW k, e[k] # Gone,
               e[k] = db[k] \/ (w = u /\ x \in xs)
        PROVE  Own!Sees(e, w, x) \/ (db[k] # Gone /\ ~Own!Sees(db, w, x))
    <3>1. CASE x \in xs
      <4>1. ~Own!Sees(db, w, x)
        BY <1>1, <3>1 DEF Own!Sees
      <4>2. CASE w = u
        BY <1>7, <3>1, <4>2 DEF Own!Sees
      <4>3. CASE w # u
        BY <2>1, <4>1, <4>3
      <4>4. QED
        BY <4>2, <4>3
    <3>2. CASE x \notin xs
      <4>1. Own!Sees(e, w, x) = Own!Sees(db, w, x)
        BY <1>8, <3>2 DEF Own!Sees
      <4>2. QED
        BY <2>1, <3>2, <4>1
    <3>3. QED
      BY <3>1, <3>2
  <2>2. \A x \in Devices, w \in Owners :
          e[Own!Link(x, w)] # Gone => Own!Sees(e, w, x) \/ (db[Own!Link(x, w)] # Gone /\ ~Own!Sees(db, w, x))
    BY <1>12, <2>1
  <2>3. \A x \in Devices, w \in Owners :
          e[Own!Value(x, w)] # Gone => Own!Sees(e, w, x) \/ (db[Own!Value(x, w)] # Gone /\ ~Own!Sees(db, w, x))
    BY <1>13, <2>1
  <2>4. \A x \in Devices, w \in Owners :
          e[Own!Binding(x, w)] # Gone => Own!Sees(e, w, x) \/ (db[Own!Binding(x, w)] # Gone /\ ~Own!Sees(db, w, x))
    BY <1>14, <2>1
  <2>5. \A x \in Devices, w \in Owners : e[Own!Value(x, w)] # Gone /\ e[Own!Property(w)] = Gone =>
          db[Own!Value(x, w)] # Gone /\ db[Own!Property(w)] = Gone
    BY <1>11, <1>13
  <2>6. QED
    BY <2>2, <2>3, <2>4, <2>5 DEF KeepsInSight
<1>21. BindsResolved(e, db)
  <2>1. \A x \in Devices, w \in Owners : ~(db[Own!Binding(x, w)] = Gone /\ e[Own!Binding(x, w)] # Gone)
    BY <1>14
  <2>2. QED
    BY <2>1, Zenon DEF BindsResolved
<1>22. MakesNoTwin(e, db)
  <2> SUFFICES ASSUME NEW p \in Profiles, NEW q \in Profiles, p # q, db[Own!Profile(p)] = Gone,
                      e[Own!Profile(p)] # Gone, e[Own!Profile(q)] = e[Own!Profile(p)]
               PROVE  FALSE
    BY DEF MakesNoTwin
  <2>1. \E x \in xs : of[x] = p
    BY <1>10
  <2>2. PICK x \in xs : of[x] = p
    BY <2>1
  <2>3. of[x] # Gone
    BY <2>2, InventoryAssumption
  <2>4. e[Own!Profile(p)] = [owner |-> u, cred |-> cred[p]]
    BY <1>9, <2>2, <2>3
  <2>5. cred[p] = rows[x] /\ \A o \in Profiles : db[Own!Profile(o)] # [owner |-> u, cred |-> cred[p]]
    <3>1. db[Own!Profile(p)] # [owner |-> u, cred |-> cred[p]]
      BY <2>4
    <3>2. QED
      BY <1>2, <2>2, <3>1
  <2>6. \E y \in xs : of[y] = q
    BY <1>10, <2>4, <2>5
  <2>7. PICK y \in xs : of[y] = q
    BY <2>6
  <2>8. of[y] # Gone
    BY <2>7, InventoryAssumption
  <2>9. e[Own!Profile(q)] = [owner |-> u, cred |-> cred[q]] /\ cred[q] = rows[y]
    BY <1>2, <1>9, <2>7, <2>8
  <2>10. cred[p] = cred[q]
    <3>1. [owner |-> u, cred |-> cred[p]].cred = [owner |-> u, cred |-> cred[q]].cred
      BY <2>4, <2>9
    <3>2. QED
      BY <3>1
  <2>11. rows[x] = rows[y]
    BY <2>5, <2>9, <2>10
  <2>12. \A z \in xs, v \in xs : of[z] # Gone => (of[z] = of[v] <=> rows[z] = rows[v])
    BY <1>1 DEF Own!Resolved, Own!Shares
  <2>13. of[x] = of[y]
    BY <2>3, <2>11, <2>12
  <2>14. QED
    BY <2>2, <2>7, <2>13
<1>23. \A w \in Owners : e[Own!Mapping(w)] = Gone => db[Own!Mapping(w)] = Gone
  BY <1>11
<1>24. QED
  BY <1>1, <1>17, <1>18, <1>19, <1>20, <1>21, <1>22, <1>23, OpensQuietly

\* A user asks for something: the request opens its transaction.
LEMMA OwnAsks ==
  ASSUME Own!OwnInv, NEW r \in Requests, served < MaxEdits, NEW u \in Owners, Own!Asks(r, u)
  PROVE  Own!OwnInv' /\ \E op, e : Own!Opens(r, u, op, e)
<1> DEFINE Goal == Own!OwnInv' /\ \E op, e : Own!Opens(r, u, op, e)
<1>1. ASSUME NEW x \in Devices, Own!Delete(r, u, x) PROVE Goal
  <2>1. Own!OwnInv'
    BY <1>1, DeviceGoes
  <2>2. QED
    BY <1>1, <2>1 DEF Own!Delete
<1>2. ASSUME NEW x \in Devices, NEW p \in Profiles \cup {Gone}, NEW global \in BOOLEAN, Own!Create(r, u, x, global, p)
      PROVE  Goal
  <2>1. Own!OwnInv'
    BY <1>2, DeviceMade
  <2>2. QED
    BY <1>2, <2>1, Zenon DEF Own!Create
<1>3. ASSUME NEW x \in Devices, NEW p \in Profiles \cup {Gone}, NEW own \in BOOLEAN, NEW ticked \in BOOLEAN,
             Own!Attributes(r, u, x, p, own, ticked)
      PROVE  Goal
  <2>1. Own!OwnInv'
    BY <1>3, AttributesSaved
  <2>2. QED
    BY <1>3, <2>1, Zenon DEF Own!Attributes
<1>4. ASSUME NEW x \in Devices, NEW p \in Profiles \cup {Gone}, NEW own \in BOOLEAN, NEW ticked \in BOOLEAN,
             NEW global \in BOOLEAN, NEW sys \in BOOLEAN, Own!Edit(r, u, x, global, p, sys, own, ticked)
      PROVE  Goal
  <2>1. Own!OwnInv'
    BY <1>4, DeviceEdited
  <2>2. QED
    BY <1>4, <2>1, Zenon DEF Own!Edit
<1>5. ASSUME NEW xs \in SUBSET Devices, NEW p \in Profiles \cup {Gone}, Own!BulkLink(r, u, xs, p) PROVE Goal
  <2>1. Own!OwnInv'
    BY <1>5, LinksSet
  <2>2. QED
    BY <1>5, <2>1, Zenon DEF Own!BulkLink
<1>6. ASSUME NEW assign \in SUBSET Devices, NEW remove \in SUBSET Devices, Own!MappingAssign(r, u, assign, remove)
      PROVE  Goal
  <2>1. Own!OwnInv'
    BY <1>6, MappingBound
  <2>2. QED
    BY <1>6, <2>1, Zenon DEF Own!MappingAssign
<1>7. ASSUME NEW xs \in SUBSET Devices, NEW rows \in [xs -> Credentials \cup {Gone}],
             NEW of \in [xs -> Profiles \cup {Gone}], NEW cells \in BOOLEAN, Own!Import(r, u, rows, of, cells)
      PROVE  Goal
  <2>1. Own!OwnInv'
    BY <1>7, DevicesImported
  <2>2. QED
    BY <1>7, <2>1, Zenon DEF Own!Import
<1>8. ASSUME NEW p \in Profiles, Own!ProfileDelete(r, u, p) PROVE Goal
  <2>1. Own!OwnInv'
    BY <1>8, ProfileGoes
  <2>2. QED
    BY <1>8, <2>1, Zenon DEF Own!ProfileDelete
<1>9. ASSUME NEW p \in Profiles, NEW c \in Credentials, Own!ProfileCreate(r, u, p, c) \/ Own!ProfileEdit(r, u, p, c)
      PROVE  Goal
  <2>1. Own!OwnInv'
    BY <1>9, ProfileRow
  <2>2. QED
    BY <1>9, <2>1, Zenon DEF Own!ProfileCreate, Own!ProfileEdit
<1>10. ASSUME Own!MappingDelete(r, u) PROVE Goal
  <2>1. Own!OwnInv'
    BY <1>10, MappingGoes
  <2>2. QED
    BY <1>10, <2>1, Zenon DEF Own!MappingDelete
<1>11. ASSUME NEW row \in Own!MappingRows, Own!MappingSave(r, u, row) PROVE Goal
  <2>1. Own!OwnInv'
    BY <1>11, MappingRow
  <2>2. QED
    BY <1>11, <2>1, Zenon DEF Own!MappingSave
<1>12. ASSUME Own!PropertyDelete(r, u) PROVE Goal
  <2>1. Own!OwnInv'
    BY <1>12, PropertyGoes
  <2>2. QED
    BY <1>12, <2>1, Zenon DEF Own!PropertyDelete
<1>13. ASSUME NEW list \in BOOLEAN, Own!PropertyCreate(r, u, list) \/ Own!PropertyEdit(r, u, list) PROVE Goal
  <2>1. Own!OwnInv'
    BY <1>13, PropertyRow
  <2>2. QED
    BY <1>13, <2>1, Zenon DEF Own!PropertyCreate, Own!PropertyEdit
<1> HIDE DEF Goal
<1>14. {} \in SUBSET Devices
  OBVIOUS
<1> DEFINE OnDevice ==
             \E x \in Devices :
               \/ Own!Delete(r, u, x)
               \/ \E p \in Profiles \cup {Gone} :
                    \/ \E global \in BOOLEAN : Own!Create(r, u, x, global, p)
                    \/ \E own, ticked \in BOOLEAN :
                         \/ Own!Attributes(r, u, x, p, own, ticked)
                         \/ \E global, sys \in BOOLEAN : Own!Edit(r, u, x, global, p, sys, own, ticked)
           OnDevices ==
             \E xs \in (SUBSET Devices) \ {{}} :
               \/ \E p \in Profiles \cup {Gone} : Own!BulkLink(r, u, xs, p)
               \/ Own!MappingAssign(r, u, xs, {}) \/ Own!MappingAssign(r, u, {}, xs)
               \/ \E rows \in [xs -> Credentials \cup {Gone}], of \in [xs -> Profiles \cup {Gone}],
                     cells \in BOOLEAN :
                    Own!Import(r, u, rows, of, cells)
           OnOwn ==
             \/ \E p \in Profiles :
                  \/ Own!ProfileDelete(r, u, p)
                  \/ \E c \in Credentials : Own!ProfileCreate(r, u, p, c) \/ Own!ProfileEdit(r, u, p, c)
             \/ Own!MappingDelete(r, u) \/ \E row \in Own!MappingRows : Own!MappingSave(r, u, row)
             \/ Own!PropertyDelete(r, u)
             \/ \E list \in BOOLEAN : Own!PropertyCreate(r, u, list) \/ Own!PropertyEdit(r, u, list)
<1>15. OnDevice \/ OnDevices \/ OnOwn
  BY Zenon DEF Own!Asks
<1>16. ASSUME OnDevice PROVE Goal
  BY <1>1, <1>2, <1>3, <1>4, <1>16, Zenon
<1>17. ASSUME OnDevices PROVE Goal
  <2>1. PICK xs \in (SUBSET Devices) \ {{}} :
          \/ \E p \in Profiles \cup {Gone} : Own!BulkLink(r, u, xs, p)
          \/ Own!MappingAssign(r, u, xs, {}) \/ Own!MappingAssign(r, u, {}, xs)
          \/ \E rows \in [xs -> Credentials \cup {Gone}], of \in [xs -> Profiles \cup {Gone}], cells \in BOOLEAN :
               Own!Import(r, u, rows, of, cells)
    BY <1>17
  <2>2. xs \in SUBSET Devices
    OBVIOUS
  <2>3. ASSUME NEW p \in Profiles \cup {Gone}, Own!BulkLink(r, u, xs, p) PROVE Goal
    BY <1>5, <2>2, <2>3
  <2>4. ASSUME Own!MappingAssign(r, u, xs, {}) \/ Own!MappingAssign(r, u, {}, xs) PROVE Goal
    BY <1>6, <1>14, <2>2, <2>4
  <2>5. ASSUME NEW rows \in [xs -> Credentials \cup {Gone}], NEW of \in [xs -> Profiles \cup {Gone}],
               NEW cells \in BOOLEAN, Own!Import(r, u, rows, of, cells)
        PROVE  Goal
    BY <1>7, <2>2, <2>5
  <2>6. QED
    BY <2>1, <2>3, <2>4, <2>5, Zenon
<1>18. ASSUME OnOwn PROVE Goal
  BY <1>8, <1>9, <1>10, <1>11, <1>12, <1>13, <1>18, Zenon
<1>19. QED
  BY <1>15, <1>16, <1>17, <1>18 DEF Goal

\* Nothing is open.
LEMMA OwnInit == ASSUME Own!Init PROVE Own!OwnInv
<1>1. db \in InventoryRows /\ tx = [r \in Requests |-> Gone] /\ served = 0
  BY DEF Own!Init
<1>2. db \in Own!Database /\ Own!OwnCredentials
  BY <1>1, InventoryAssumption DEF Own!OwnCredentials
<1>3. served \in 0..MaxEdits
  BY <1>1, InventoryAssumption
<1>4. tx \in [Requests -> Own!Transactions \cup {Gone}] /\ \A r \in Requests : tx[r] = Gone
  BY <1>1
<1>5. QED
  BY <1>2, <1>3, <1>4 DEF Own!OwnInv

\* Every step keeps the invariant.
LEMMA OwnNext == ASSUME Own!OwnInv, Own!Next PROVE Own!OwnInv'
<1>1. ASSUME NEW r \in Requests, Own!Commits(r) PROVE Own!OwnInv'
  BY <1>1, OwnCommits
<1>2. ASSUME NEW r \in Requests, served < MaxEdits, NEW u \in Owners, Own!Asks(r, u) PROVE Own!OwnInv'
  BY <1>2, OwnAsks
<1>3. QED
  BY <1>1, <1>2 DEF Own!Next

\* So does a step of nothing.
LEMMA OwnFrame == ASSUME Own!OwnInv, UNCHANGED <<rowVars, served>> PROVE Own!OwnInv'
<1>1. db' = db /\ tx' = tx /\ served' = served
  BY DEF rowVars
<1>2. (\A r \in Requests : Own!Remembered(r)') <=> (\A r \in Requests : Own!Remembered(r))
  BY <1>1 DEF Own!Remembered
<1>3. QED
  BY <1>1, <1>2 DEF Own!OwnInv, Own!OwnCredentials, Own!Remembered

\* What the states show
LEMMA OwnStates == ASSUME Own!OwnInv PROVE Own!TypeOK /\ Own!OwnCredentials
<1>1. \A k \in Own!Keys : db[k] = Gone \/ db[k] \in Own!RowsOf(k)
  BY OwnDatabase, DatabaseRows
<1>2. QED
  BY <1>1 DEF Own!OwnInv, Own!TypeOK

\* What the steps keep
LEMMA OwnSteps ==
  ASSUME Own!OwnInv, Own!Next PROVE Own!OthersUntouched /\ Own!NoOrphans /\ Own!BoundResolves /\ Own!NoTwins
<1> DEFINE Goal == Own!OthersUntouched /\ Own!NoOrphans /\ Own!BoundResolves /\ Own!NoTwins
<1>1. ASSUME NEW r \in Requests, Own!Commits(r) PROVE Goal
  BY <1>1, OwnCommitSteps
<1>2. ASSUME NEW r \in Requests, tx[r] = Gone, served < MaxEdits, NEW u \in Owners, Own!Asks(r, u) PROVE Goal
  <2>1. \A q \in Requests : ~Own!CommitsNow(q)
    <3>1. PICK op, e : Own!Opens(r, u, op, e)
      BY <1>2, OwnAsks
    <3>2. QED
      BY <1>2, <3>1, OwnOpening
  <2>2. \A q \in Requests : ~Own!CommitsAlone(q)
    BY <2>1 DEF Own!CommitsAlone
  <2>3. Own!OthersUntouched
    BY <2>1, Zenon DEF Own!OthersUntouched
  <2>4. Own!NoOrphans
    BY <2>2, Zenon DEF Own!NoOrphans
  <2>5. Own!BoundResolves
    BY <2>2, Zenon DEF Own!BoundResolves
  <2>6. Own!NoTwins
    BY <2>2, Zenon DEF Own!NoTwins
  <2>7. QED
    BY <2>3, <2>4, <2>5, <2>6
<1> HIDE DEF Goal
<1>3. Goal
  BY <1>1, <1>2 DEF Own!Next
<1>4. QED
  BY <1>3 DEF Goal

\* A rollout signs in with its user's own credentials, whatever is saved at the same time as a profile or a device is
\* deleted; what a user keeps on a shared device is theirs; and a request that runs alone leaves no orphans, binds
\* nothing that doesn't resolve and makes no second profile of the same credentials: for any users, devices, profiles
\* and credentials, and any number of requests at the same time.
THEOREM InventoryKept == Spec => InventorySafe
<1> DEFINE Inv == part = "inventory" => Own!OwnInv
<1>1. Init => Inv
  BY OwnInit DEF Init
<1>2. Inv /\ [Next]_vars => Inv'
  <2> SUFFICES ASSUME Inv, [Next]_vars, part' = "inventory" PROVE Own!OwnInv'
    OBVIOUS
  <2>1. CASE Next
    <3>1. part = "inventory" /\ Own!Next
      BY <2>1 DEF Next
    <3>2. QED
      BY <3>1, OwnNext
  <2>2. CASE UNCHANGED vars
    <3>1. part = "inventory" /\ UNCHANGED <<rowVars, served>>
      BY <2>2 DEF vars
    <3>2. QED
      BY <3>1, OwnFrame
  <2>3. QED
    BY <2>1, <2>2
<1>3. Inv => (part = "inventory" => Own!TypeOK /\ Own!OwnCredentials)
  BY OwnStates
<1>4. Inv /\ [Next]_vars =>
        [part = "inventory" =>
           Own!OthersUntouched /\ Own!NoOrphans /\ Own!BoundResolves /\ Own!NoTwins]_vars
  BY OwnSteps DEF Next
<1>5. QED
  BY <1>1, <1>2, <1>3, <1>4, PTL DEF Spec, InventorySafe

(***************************************************************************)
(* Accounts: what a transaction has read of a row still holds when it      *)
(* commits, of the columns that no request changes, or the row is lost to  *)
(* it; and what a request that runs alone does is settled when it opens.   *)
(***************************************************************************)

\* Usernames, servers and rules are of their own kinds; a rule is one server's.
LEMMA AccountKeys ==
  /\ Account!Keys = Names \cup Servers \cup Account!Rules
  /\ \A n \in Names : n \notin Servers /\ n \notin Account!Rules
  /\ \A s \in Servers : s \notin Names /\ s \notin Account!Rules /\ s # None
  /\ \A k \in Account!Rules : k \notin Names /\ k \notin Servers /\ k[1] \in Servers
<1>1. \A k \in Account!Rules : k[1] \in Servers
  BY DEF Account!Rules
<1>2. QED
  BY <1>1, AccountsAssumption DEF Account!Keys

\* A row is none of an absence.
LEMMA AccountRowsThere ==
  /\ \A u \in Account!UserRows : u # Gone
  /\ \A s \in Account!ServerRows : s # Gone
  /\ \A k \in Account!RuleRows : k # Gone
BY AccountsAssumption

\* What is in a database.
LEMMA InDatabases ==
  ASSUME NEW d \in Account!Databases
  PROVE  /\ d = [k \in Account!Keys |-> d[k]]
         /\ \A n \in Names : d[n] # Gone =>
              /\ d[n] \in Account!UserRows
              /\ d[n].kind = "local" => d[n].server = None
              /\ d[n].server # None => d[n].server \in Servers /\ d[d[n].server] # Gone
         /\ \A s \in Servers : d[s] # Gone => d[s] \in Account!ServerRows
         /\ \A k \in Account!Rules : d[k] # Gone => d[k] \in Account!RuleRows /\ d[k[1]] # Gone
         /\ d[Factory] # Gone /\ d[Factory].kind = "local" /\ d[Factory].role = "admin"
<1>1. d = [k \in Account!Keys |-> d[k]]
  BY DEF Account!Databases
<1>2. \A n \in Names : d[n] # Gone => Account!UserFits(d, n)
  BY DEF Account!Databases
<1>3. \A u \in Account!UserRows : u.server \in Servers \cup {None}
  BY DEF Account!UserRows
<1>4. QED
  BY <1>1, <1>2, <1>3 DEF Account!Databases, Account!UserFits

\* What makes a database.
LEMMA IsDatabases ==
  ASSUME NEW e, e = [k \in Account!Keys |-> e[k]],
         \A n \in Names : e[n] # Gone => Account!UserFits(e, n),
         \A s \in Servers : e[s] # Gone => e[s] \in Account!ServerRows,
         \A k \in Account!Rules : e[k] # Gone => e[k] \in Account!RuleRows /\ e[k[1]] # Gone,
         e[Factory] # Gone, e[Factory].kind = "local", e[Factory].role = "admin"
  PROVE  e \in Account!Databases
<1>1. \A k \in Account!Keys : e[k] \in Account!UserRows \cup Account!ServerRows \cup Account!RuleRows \cup {Gone}
  BY AccountKeys DEF Account!UserFits
<1>2. e \in [Account!Keys -> Account!UserRows \cup Account!ServerRows \cup Account!RuleRows \cup {Gone}]
  BY <1>1
<1>3. QED
  BY <1>2 DEF Account!Databases

\* The columns of a user's row
LEMMA UserColumns ==
  ASSUME NEW u
  PROVE  /\ u \in Account!UserRows =>
              /\ u.kind \in {"local", "ldap"} /\ u.role \in {"operator", "admin"} /\ u.active \in BOOLEAN
              /\ u.approved \in BOOLEAN /\ u.server \in Servers \cup {None}
              /\ DOMAIN u = {"kind", "role", "active", "approved", "server"}
BY DEF Account!UserRows, Account!Roles

\* A row with those columns.
LEMMA UserRowOf ==
  ASSUME NEW k \in {"local", "ldap"}, NEW o \in {"operator", "admin"}, NEW a \in BOOLEAN, NEW p \in BOOLEAN,
         NEW s \in Servers \cup {None}
  PROVE  [kind |-> k, role |-> o, active |-> a, approved |-> p, server |-> s] \in Account!UserRows
BY DEF Account!UserRows, Account!Roles

\* A transaction that opens.
AccountTx(op, e) == [op |-> op, read |-> db, wrote |-> e, lost |-> {}]

\* A request that opens so keeps the invariant.
LEMMA AccountOpens ==
  ASSUME Account!AccountInv, NEW r \in Requests, NEW op \in Account!Ops, NEW e \in Account!Databases,
         Account!Opens(r, op, e), Account!KindsStay(AccountTx(op, e)), Account!WhenAlone(AccountTx(op, e))
  PROVE  Account!AccountInv'
<1> DEFINE t == AccountTx(op, e)
<1>1. db' = db /\ served' = served + 1 /\ served < MaxRequests /\ tx' = [tx EXCEPT ![r] = t]
  BY DEF Account!Opens, AccountTx
<1>2. t \in Account!Transactions /\ t.read = db /\ t.lost = {}
  BY DEF AccountTx, Account!Transactions, Account!AccountInv
<1>3. Account!KindsStay(t) /\ Account!WhenAlone(t)
  OBVIOUS
<1> HIDE DEF t
<1>4. tx' \in [Requests -> Account!Transactions \cup {Gone}] /\ tx'[r] = t /\ \A q \in Requests \ {r} : tx'[q] = tx[q]
  BY <1>1, <1>2 DEF Account!AccountInv
<1>5. Account!Remembers(t, db')
  BY <1>1, <1>2 DEF Account!Remembers
<1>6. ASSUME NEW q \in Requests, tx'[q] # Gone
      PROVE  Account!KindsStay(tx'[q]) /\ Account!WhenAlone(tx'[q]) /\ Account!Remembers(tx'[q], db')
  <2>1. CASE q # r
    <3>1. tx'[q] = tx[q] /\ tx[q] # Gone
      BY <1>4, <1>6, <2>1
    <3>2. Account!KindsStay(tx[q]) /\ Account!WhenAlone(tx[q]) /\ Account!Remembers(tx[q], db)
      BY <3>1 DEF Account!AccountInv
    <3>3. QED
      BY <1>1, <3>1, <3>2
  <2>2. CASE q = r
    BY <1>3, <1>4, <1>5, <2>2
  <2>3. QED
    BY <2>1, <2>2
<1>7. served' \in 0..MaxRequests
  BY <1>1, AccountsAssumption DEF Account!AccountInv
<1>8. db' \in Account!Databases
  BY <1>1 DEF Account!AccountInv
<1>9. QED
  BY <1>4, <1>6, <1>7, <1>8 DEF Account!AccountInv

\* What a commit leaves of the requests.
LEMMA AccountClosed ==
  ASSUME Account!AccountInv, NEW r \in Requests, Account!Commits(r)
  PROVE  /\ tx[r] # Gone /\ tx[r] \in Account!Transactions /\ tx' \in [Requests -> Account!Transactions \cup {Gone}]
         /\ tx'[r] = Gone /\ served' = served
         /\ \A q \in Requests \ {r} : tx[q] = Gone => tx'[q] = Gone
         /\ \A q \in Requests \ {r} : tx[q] # Gone =>
              tx'[q] = [op |-> tx[q].op, read |-> tx[q].read, wrote |-> tx[q].wrote,
                        lost |-> tx[q].lost \cup Account!LostOf(tx[q])]
         /\ Account!Refuses(tx[r]) => db' = db
         /\ ~Account!Refuses(tx[r]) => db' = Account!Cascaded(Account!Merged(tx[r]))
<1>1. /\ tx[r] # Gone /\ served' = served
      /\ db' = IF Account!Refuses(tx[r]) THEN db ELSE Account!Cascaded(Account!Merged(tx[r]))
      /\ tx' = [q \in Requests |-> IF q = r \/ tx[q] = Gone THEN Gone
                                   ELSE [tx[q] EXCEPT !.lost = @ \cup Account!LostOf(tx[q])]]
  BY DEF Account!Commits
<1>2. \A q \in Requests : tx[q] # Gone => tx[q] \in Account!Transactions
  BY DEF Account!AccountInv
<1>3. \A t \in Account!Transactions : Account!LostOf(t) \subseteq Account!Keys
  BY DEF Account!LostOf
<1>4. ASSUME NEW t \in Account!Transactions, NEW l, l \subseteq Account!Keys
      PROVE  /\ [t EXCEPT !.lost = @ \cup l] =
                  [op |-> t.op, read |-> t.read, wrote |-> t.wrote, lost |-> t.lost \cup l]
             /\ [t EXCEPT !.lost = @ \cup l] \in Account!Transactions
  BY <1>4 DEF Account!Transactions
<1>5. \A q \in Requests : tx[q] # Gone =>
        LET t == tx[q]  n == [t EXCEPT !.lost = @ \cup Account!LostOf(t)]
        IN  /\ n = [op |-> t.op, read |-> t.read, wrote |-> t.wrote, lost |-> t.lost \cup Account!LostOf(t)]
            /\ n \in Account!Transactions
  BY <1>2, <1>3, <1>4
<1>6. tx' \in [Requests -> Account!Transactions \cup {Gone}]
  BY <1>1, <1>5
<1>7. QED
  BY <1>1, <1>2, <1>5, <1>6

\* A user's row of which some columns change is a user's row.
LEMMA ColumnsMerged ==
  ASSUME NEW a \in Account!UserRows, NEW o \in Account!UserRows, NEW w \in Account!UserRows, NEW m,
         m = [f \in DOMAIN a |-> IF w[f] # o[f] THEN w[f] ELSE a[f]]
  PROVE  /\ m \in Account!UserRows
         /\ m.kind = IF w.kind # o.kind THEN w.kind ELSE a.kind
         /\ m.role = IF w.role # o.role THEN w.role ELSE a.role
         /\ m.server = IF w.server # o.server THEN w.server ELSE a.server
<1>1. DOMAIN a = {"kind", "role", "active", "approved", "server"}
  BY UserColumns
<1>2. /\ m.kind = IF w.kind # o.kind THEN w.kind ELSE a.kind
      /\ m.role = IF w.role # o.role THEN w.role ELSE a.role
      /\ m.active = IF w.active # o.active THEN w.active ELSE a.active
      /\ m.approved = IF w.approved # o.approved THEN w.approved ELSE a.approved
      /\ m.server = IF w.server # o.server THEN w.server ELSE a.server
  BY <1>1
<1>3. m = [kind |-> m.kind, role |-> m.role, active |-> m.active, approved |-> m.approved, server |-> m.server]
  BY <1>1
<1>4. m.kind \in {"local", "ldap"} /\ m.role \in {"operator", "admin"} /\ m.server \in Servers \cup {None}
  BY <1>2, UserColumns
<1>5. m.active \in BOOLEAN /\ m.approved \in BOOLEAN
  <2>1. m.active \in {w.active, a.active} /\ m.approved \in {w.approved, a.approved}
    BY <1>2
  <2>2. QED
    BY <2>1, UserColumns
<1>6. QED
  BY <1>2, <1>3, <1>4, <1>5, UserRowOf

\* The rows after a commit that isn't refused, before the foreign keys.
LEMMA MergedUsers ==
  ASSUME Account!AccountInv, NEW r \in Requests, tx[r] # Gone, ~Account!Refuses(tx[r]), NEW n \in Names,
         NEW m, m = Account!Merged(tx[r])[n]
  PROVE  /\ m # Gone => m \in Account!UserRows /\ (m.kind = "local" => m.server = None)
         /\ m # Gone /\ db[n] # Gone => m.kind = db[n].kind
         /\ n = Factory => m # Gone /\ m.kind = "local" /\ m.role = "admin"
<1> DEFINE t == tx[r]  o == t.read[n]  w == t.wrote[n]  a == db[n]
<1>1. n \in Account!Keys
  BY AccountKeys
<1>2. t \in Account!Transactions /\ Account!KindsStay(t) /\ Account!Remembers(t, db)
  BY DEF Account!AccountInv
<1>3. t.read \in Account!Databases /\ t.wrote \in Account!Databases /\ db \in Account!Databases
  BY <1>2 DEF Account!Transactions, Account!AccountInv
<1>4. m = IF w = o \/ n \in t.lost THEN a
          ELSE IF Gone \in {w, o} THEN w
          ELSE [f \in DOMAIN a |-> IF w[f] # o[f] THEN w[f] ELSE a[f]]
  BY <1>1 DEF Account!Merged
<1>5. /\ w # o /\ w # Gone => n \notin t.lost /\ (o = Gone => a = Gone)
  BY <1>1 DEF Account!Refuses
<1>6. n \notin t.lost /\ o # Gone => a # Gone /\ a.kind = o.kind
  BY <1>1, <1>2 DEF Account!Remembers
<1>7. o # Gone /\ w # Gone => w.kind = o.kind
  BY <1>2 DEF Account!KindsStay
<1>8. /\ a # Gone => a \in Account!UserRows /\ (a.kind = "local" => a.server = None)
      /\ n = Factory => a # Gone /\ a.kind = "local" /\ a.role = "admin"
  BY <1>3, InDatabases
<1>9. /\ w # Gone => w \in Account!UserRows /\ (w.kind = "local" => w.server = None)
      /\ n = Factory => w # Gone /\ w.kind = "local" /\ w.role = "admin"
  BY <1>3, InDatabases
<1>10. /\ o # Gone => o \in Account!UserRows /\ (o.kind = "local" => o.server = None)
       /\ n = Factory => o # Gone /\ o.kind = "local" /\ o.role = "admin"
  BY <1>3, InDatabases
<1> HIDE DEF o, w, a
<1>11. CASE m = a
  BY <1>8, <1>11 DEF a
<1>12. CASE m # a /\ Gone \in {w, o}
  <2>1. m = w
    BY <1>4, <1>12
  <2>2. w # Gone => a = Gone
    <3>1. w # o
      BY <1>4, <1>12
    <3>2. QED
      BY <1>5, <1>12, <3>1
  <2>3. QED
    BY <1>9, <2>1, <2>2 DEF a
<1>13. CASE m # a /\ Gone \notin {w, o}
  <2>1. m = [f \in DOMAIN a |-> IF w[f] # o[f] THEN w[f] ELSE a[f]] /\ w # o /\ n \notin t.lost
    BY <1>4, <1>13
  <2>2. a # Gone /\ a.kind = o.kind
    BY <1>6, <1>13, <2>1
  <2>3. w.kind = o.kind
    BY <1>7, <1>13
  <2>4. /\ m \in Account!UserRows
        /\ m.kind = IF w.kind # o.kind THEN w.kind ELSE a.kind
        /\ m.role = IF w.role # o.role THEN w.role ELSE a.role
        /\ m.server = IF w.server # o.server THEN w.server ELSE a.server
    BY <1>8, <1>9, <1>10, <1>13, <2>1, <2>2, ColumnsMerged
  <2>5. m # Gone
    BY <2>4, AccountRowsThere
  <2>6. m.kind = a.kind
    BY <2>3, <2>4
  <2>7. m.kind = "local" => m.server = None
    BY <1>8, <1>9, <1>10, <1>13, <2>2, <2>3, <2>4
  <2>8. n = Factory => m.role = "admin"
    BY <1>8, <1>9, <1>10, <2>4
  <2>9. n = Factory => m.kind = "local"
    BY <1>8, <2>6
  <2>10. QED
    BY <2>4, <2>5, <2>6, <2>7, <2>8, <2>9 DEF a
<1>14. QED
  BY <1>11, <1>12, <1>13

\* The directories' rows, and the rules', after such a commit.
LEMMA MergedOthers ==
  ASSUME Account!AccountInv, NEW r \in Requests, tx[r] # Gone, ~Account!Refuses(tx[r]),
         NEW k \in Servers \cup Account!Rules,
         NEW m, m = Account!Merged(tx[r])[k]
  PROVE  /\ k \in Servers /\ m # Gone => m \in Account!ServerRows
         /\ k \in Account!Rules /\ m # Gone => m \in Account!RuleRows
<1> DEFINE t == tx[r]  o == t.read[k]  w == t.wrote[k]  a == db[k]
<1>1. k \in Account!Keys
  BY AccountKeys
<1>2. t \in Account!Transactions /\ Account!Remembers(t, db)
  BY DEF Account!AccountInv
<1>3. t.read \in Account!Databases /\ t.wrote \in Account!Databases /\ db \in Account!Databases
  BY <1>2 DEF Account!Transactions, Account!AccountInv
<1>4. m = IF w = o \/ k \in t.lost THEN a
          ELSE IF Gone \in {w, o} THEN w
          ELSE [f \in DOMAIN a |-> IF w[f] # o[f] THEN w[f] ELSE a[f]]
  BY <1>1 DEF Account!Merged
<1>5. w # o /\ w # Gone => k \notin t.lost
  BY <1>1 DEF Account!Refuses
<1>6. k \notin t.lost /\ o # Gone => a # Gone
  BY <1>1, <1>2 DEF Account!Remembers
<1>7. \A d \in Account!Databases :
        /\ k \in Servers /\ d[k] # Gone => d[k] \in Account!ServerRows
        /\ k \in Account!Rules /\ d[k] # Gone => d[k] \in Account!RuleRows
  BY InDatabases
<1>8. /\ k \in Servers /\ a # Gone => a \in Account!ServerRows
      /\ k \in Account!Rules /\ a # Gone => a \in Account!RuleRows
  BY <1>3, <1>7
<1>9. /\ k \in Servers /\ w # Gone => w \in Account!ServerRows
      /\ k \in Account!Rules /\ w # Gone => w \in Account!RuleRows
  BY <1>3, <1>7
<1> HIDE DEF o, w, a
<1>10. CASE m = a \/ m = w
  BY <1>8, <1>9, <1>10
<1>11. CASE m # a /\ m # w
  <2>1. m = [f \in DOMAIN a |-> IF w[f] # o[f] THEN w[f] ELSE a[f]] /\ w # Gone /\ o # Gone /\ k \notin t.lost
    BY <1>4, <1>11
  <2>2. a # Gone
    BY <1>6, <2>1
  <2>3. ASSUME k \in Servers PROVE m \in Account!ServerRows
    <3>1. a \in Account!ServerRows /\ w \in Account!ServerRows
      BY <1>8, <1>9, <2>1, <2>2, <2>3
    <3>2. DOMAIN a = {"on", "regular"} /\ {a.on, w.on, a.regular, w.regular} \subseteq BOOLEAN
      BY <3>1 DEF Account!ServerRows
    <3>3. m = [on |-> m.on, regular |-> m.regular] /\ m.on \in {a.on, w.on} /\ m.regular \in {a.regular, w.regular}
      BY <2>1, <3>2
    <3>4. m.on \in BOOLEAN /\ m.regular \in BOOLEAN
      BY <3>2, <3>3, Zenon
    <3>5. QED
      BY <3>3, <3>4 DEF Account!ServerRows
  <2>4. ASSUME k \in Account!Rules PROVE m \in Account!RuleRows
    <3>1. a \in Account!RuleRows /\ w \in Account!RuleRows
      BY <1>8, <1>9, <2>1, <2>2, <2>4
    <3>2. DOMAIN a = {"role", "on"} /\ {a.on, w.on} \subseteq BOOLEAN /\ {a.role, w.role} \subseteq Account!Roles
      BY <3>1 DEF Account!RuleRows
    <3>3. m = [role |-> m.role, on |-> m.on] /\ m.on \in {a.on, w.on} /\ m.role \in {a.role, w.role}
      BY <2>1, <3>2
    <3>4. m.on \in BOOLEAN /\ m.role \in Account!Roles
      BY <3>2, <3>3, Zenon
    <3>5. QED
      BY <3>3, <3>4 DEF Account!RuleRows
  <2>5. QED
    BY <2>3, <2>4
<1>12. QED
  BY <1>10, <1>11

\* What the foreign keys make of the rows.
LEMMA CascadedRows ==
  ASSUME NEW d, NEW c, c = Account!Cascaded(d)
  PROVE  /\ c = [k \in Account!Keys |-> c[k]]
         /\ \A n \in Names : c[n] = IF d[n] # Gone /\ d[n].server # None /\ d[d[n].server] = Gone
                                      THEN [d[n] EXCEPT !.server = None] ELSE d[n]
         /\ \A s \in Servers : c[s] = d[s]
         /\ \A k \in Account!Rules : c[k] = IF d[k[1]] = Gone THEN Gone ELSE d[k]
<1>1. c = [k \in Account!Keys |->
             IF k \in Account!Users(d) /\ d[k].server # None /\ d[d[k].server] = Gone
                THEN [d[k] EXCEPT !.server = None]
             ELSE IF k \in Account!Rules /\ d[k[1]] = Gone THEN Gone ELSE d[k]]
  BY DEF Account!Cascaded
<1>2. \A k : k \in Account!Users(d) <=> k \in Names /\ d[k] # Gone
  BY DEF Account!Users
<1>3. QED
  BY <1>1, <1>2, AccountKeys

\* A user's row without its directory.
LEMMA WithoutDirectory ==
  ASSUME NEW u \in Account!UserRows
  PROVE  LET v == [u EXCEPT !.server = None]
         IN  v \in Account!UserRows /\ v.server = None /\ v.kind = u.kind /\ v.role = u.role /\ v # Gone
<1> DEFINE v == [u EXCEPT !.server = None]
<1>1. v = [kind |-> u.kind, role |-> u.role, active |-> u.active, approved |-> u.approved, server |-> None]
  BY DEF Account!UserRows
<1>2. v \in Account!UserRows
  BY <1>1, UserColumns, UserRowOf
<1>3. QED
  BY <1>1, <1>2, AccountRowsThere

\* A commit keeps the database, and every row that stays its kind.
LEMMA CommittedDatabase ==
  ASSUME Account!AccountInv, NEW r \in Requests, tx[r] # Gone, ~Account!Refuses(tx[r]),
         NEW c, c = Account!Cascaded(Account!Merged(tx[r]))
  PROVE  c \in Account!Databases /\ \A n \in Names : db[n] # Gone /\ c[n] # Gone => c[n].kind = db[n].kind
<1> DEFINE d == Account!Merged(tx[r])
<1>1. \A n \in Names :
        /\ d[n] # Gone => d[n] \in Account!UserRows /\ (d[n].kind = "local" => d[n].server = None)
        /\ d[n] # Gone /\ db[n] # Gone => d[n].kind = db[n].kind
        /\ n = Factory => d[n] # Gone /\ d[n].kind = "local" /\ d[n].role = "admin"
  BY MergedUsers
<1>2. /\ \A s \in Servers : d[s] # Gone => d[s] \in Account!ServerRows
      /\ \A k \in Account!Rules : d[k] # Gone => d[k] \in Account!RuleRows
  BY MergedOthers
<1> HIDE DEF d
<1>3. /\ c = [k \in Account!Keys |-> c[k]]
      /\ \A n \in Names : c[n] = IF d[n] # Gone /\ d[n].server # None /\ d[d[n].server] = Gone
                                   THEN [d[n] EXCEPT !.server = None] ELSE d[n]
      /\ \A s \in Servers : c[s] = d[s]
      /\ \A k \in Account!Rules : c[k] = IF d[k[1]] = Gone THEN Gone ELSE d[k]
  BY CascadedRows DEF d
<1>4. ASSUME NEW n \in Names, c[n] # Gone
      PROVE  /\ Account!UserFits(c, n) /\ d[n] # Gone /\ c[n].kind = d[n].kind /\ c[n].role = d[n].role
  <2>1. d[n] # Gone
    BY <1>3, <1>4
  <2>2. CASE d[n].server # None /\ d[d[n].server] = Gone
    <3>1. c[n] = [d[n] EXCEPT !.server = None]
      BY <1>3, <2>1, <2>2
    <3>2. QED
      BY <1>1, <2>1, <3>1, WithoutDirectory DEF Account!UserFits
  <2>3. CASE ~(d[n].server # None /\ d[d[n].server] = Gone)
    <3>1. c[n] = d[n]
      BY <1>3, <2>3
    <3>2. d[n].server # None => c[d[n].server] # Gone
      BY <1>1, <1>3, <2>1, <2>3, UserColumns
    <3>3. QED
      BY <1>1, <2>1, <3>1, <3>2 DEF Account!UserFits
  <2>4. QED
    BY <2>2, <2>3
<1>5. \A s \in Servers : c[s] # Gone => c[s] \in Account!ServerRows
  BY <1>2, <1>3
<1>6. \A k \in Account!Rules : c[k] # Gone => c[k] \in Account!RuleRows /\ c[k[1]] # Gone
  BY <1>2, <1>3, AccountKeys
<1>7. c[Factory] # Gone /\ c[Factory].kind = "local" /\ c[Factory].role = "admin"
  <2>1. Factory \in Names
    BY AccountsAssumption
  <2>2. d[Factory] # Gone /\ d[Factory] \in Account!UserRows /\ d[Factory].server = None
    BY <1>1, <2>1
  <2>3. c[Factory] = d[Factory]
    BY <1>3, <2>1, <2>2
  <2>4. QED
    BY <1>1, <2>1, <2>3
<1>8. c \in Account!Databases
  BY <1>3, <1>4, <1>5, <1>6, <1>7, IsDatabases
<1>9. QED
  BY <1>1, <1>4, <1>8

\* A commit keeps the invariant.
LEMMA AccountCommits == ASSUME Account!AccountInv, NEW r \in Requests, Account!Commits(r) PROVE Account!AccountInv'
<1>1. /\ tx[r] # Gone /\ tx' \in [Requests -> Account!Transactions \cup {Gone}]
      /\ tx'[r] = Gone /\ served' = served
      /\ \A q \in Requests \ {r} : tx[q] = Gone => tx'[q] = Gone
      /\ \A q \in Requests \ {r} : tx[q] # Gone =>
           tx'[q] = [op |-> tx[q].op, read |-> tx[q].read, wrote |-> tx[q].wrote,
                     lost |-> tx[q].lost \cup Account!LostOf(tx[q])]
      /\ Account!Refuses(tx[r]) => db' = db
      /\ ~Account!Refuses(tx[r]) => db' = Account!Cascaded(Account!Merged(tx[r]))
  BY AccountClosed
<1>2. db' \in Account!Databases /\ \A n \in Names : db[n] # Gone /\ db'[n] # Gone => db'[n].kind = db[n].kind
  <2>1. CASE Account!Refuses(tx[r])
    BY <1>1, <2>1 DEF Account!AccountInv
  <2>2. CASE ~Account!Refuses(tx[r])
    BY <1>1, <2>2, CommittedDatabase
  <2>3. QED
    BY <2>1, <2>2
<1>3. ASSUME NEW q \in Requests, tx'[q] # Gone
      PROVE  Account!KindsStay(tx'[q]) /\ Account!WhenAlone(tx'[q]) /\ Account!Remembers(tx'[q], db')
  <2> DEFINE t == tx[q]  n == tx'[q]
  <2>1. q # r /\ t # Gone
    BY <1>1, <1>3
  <2>2. n.op = t.op /\ n.read = t.read /\ n.wrote = t.wrote /\ n.lost = t.lost \cup Account!LostOf(t)
    BY <1>1, <2>1
  <2>3. Account!KindsStay(t) /\ Account!WhenAlone(t) /\ Account!Remembers(t, db)
    BY <2>1 DEF Account!AccountInv
  <2> HIDE DEF t, n
  <2>4. Account!KindsStay(n)
    BY <2>2, <2>3 DEF Account!KindsStay
  <2>5. Account!WhenAlone(n)
    BY <2>2, <2>3 DEF Account!WhenAlone
  <2>6. Account!Remembers(n, db')
    <3> SUFFICES ASSUME NEW k \in Account!Keys \ n.lost, n.read[k] # Gone
                 PROVE  db'[k] # Gone /\ (k \in Names => db'[k].kind = n.read[k].kind)
      BY DEF Account!Remembers
    <3>1. k \notin t.lost /\ k \notin Account!LostOf(t) /\ t.read[k] # Gone
      BY <2>2
    <3>2. db[k] # Gone /\ (k \in Names => db[k].kind = t.read[k].kind)
      BY <2>3, <3>1 DEF Account!Remembers
    <3>3. db'[k] # Gone
      BY <3>1, <3>2 DEF Account!LostOf
    <3>4. QED
      BY <1>2, <2>2, <3>2, <3>3
  <2>7. QED
    BY <2>4, <2>5, <2>6 DEF n
<1>4. served' \in 0..MaxRequests
  BY <1>1 DEF Account!AccountInv
<1>5. QED
  BY <1>1, <1>2, <1>3, <1>4 DEF Account!AccountInv

\* A commit of a database that nobody changed is what the request meant, or nothing.
LEMMA AccountAlone ==
  ASSUME Account!AccountInv, NEW r \in Requests, Account!Commits(r), tx[r].read = db, tx[r].lost = {}
  PROVE  db' = db \/ db' = tx[r].wrote
<1>1. /\ tx[r] # Gone /\ tx[r] \in Account!Transactions
      /\ Account!Refuses(tx[r]) => db' = db
      /\ ~Account!Refuses(tx[r]) => db' = Account!Cascaded(Account!Merged(tx[r]))
  BY AccountClosed
<1> DEFINE t == tx[r]  w == t.wrote
<1>2. w \in Account!Databases /\ db \in Account!Databases
  BY <1>1 DEF Account!Transactions, Account!AccountInv
<1>3. ASSUME NEW k \in Account!Keys PROVE Account!Merged(t)[k] = w[k]
  <2>1. Account!Merged(t)[k] = IF w[k] = db[k] THEN db[k]
                               ELSE IF Gone \in {w[k], db[k]} THEN w[k]
                               ELSE [f \in DOMAIN db[k] |-> IF w[k][f] # db[k][f] THEN w[k][f] ELSE db[k][f]]
    BY DEF Account!Merged
  <2>2. ASSUME w[k] # Gone, db[k] # Gone
        PROVE  [f \in DOMAIN db[k] |-> IF w[k][f] # db[k][f] THEN w[k][f] ELSE db[k][f]] = w[k]
    <3>1. [f \in DOMAIN db[k] |-> IF w[k][f] # db[k][f] THEN w[k][f] ELSE db[k][f]] = [f \in DOMAIN db[k] |-> w[k][f]]
      OBVIOUS
    <3>2. DOMAIN db[k] = DOMAIN w[k] /\ w[k] = [f \in DOMAIN w[k] |-> w[k][f]]
      <4>1. CASE k \in Names
        BY <1>2, <2>2, <4>1, InDatabases DEF Account!UserRows
      <4>2. CASE k \in Servers
        BY <1>2, <2>2, <4>2, InDatabases DEF Account!ServerRows
      <4>3. CASE k \in Account!Rules
        BY <1>2, <2>2, <4>3, InDatabases DEF Account!RuleRows
      <4>4. QED
        BY <4>1, <4>2, <4>3, AccountKeys
    <3>3. QED
      BY <3>1, <3>2
  <2>3. QED
    BY <2>1, <2>2
<1>4. Account!Merged(t) = w
  <2>1. Account!Merged(t) = [k \in Account!Keys |-> Account!Merged(t)[k]]
    BY DEF Account!Merged
  <2>2. w = [k \in Account!Keys |-> w[k]]
    BY <1>2, InDatabases
  <2>3. QED
    BY <1>3, <2>1, <2>2
<1> HIDE DEF w
<1>5. Account!Cascaded(w) = w
  <2> DEFINE c == Account!Cascaded(w)
  <2>1. /\ c = [k \in Account!Keys |-> c[k]]
        /\ \A n \in Names : c[n] = IF w[n] # Gone /\ w[n].server # None /\ w[w[n].server] = Gone
                                     THEN [w[n] EXCEPT !.server = None] ELSE w[n]
        /\ \A s \in Servers : c[s] = w[s]
        /\ \A k \in Account!Rules : c[k] = IF w[k[1]] = Gone THEN Gone ELSE w[k]
    BY CascadedRows
  <2>2. \A k \in Account!Keys : c[k] = w[k]
    BY <1>2, <2>1, InDatabases, AccountKeys
  <2>3. w = [k \in Account!Keys |-> w[k]]
    BY <1>2, InDatabases
  <2>4. QED
    BY <2>1, <2>2, <2>3
<1>6. QED
  BY <1>1, <1>4, <1>5 DEF w

\* An administrator who can sign in is one that is left.
LEMMA AdminThere ==
  ASSUME NEW e, NEW n \in Names, e[n] # Gone, e[n].role = "admin", Account!CanSignIn(e, n)
  PROVE  Account!AdminsLeft(e, {}) # {}
BY DEF Account!AdminsLeft, Account!Users

\* Administrators who are left are such.
LEMMA AdminsAre ==
  ASSUME NEW d, NEW x, NEW n \in Account!AdminsLeft(d, x)
  PROVE  n \in Names /\ d[n] # Gone /\ n \notin x /\ d[n].role = "admin" /\ Account!CanSignIn(d, n)
BY DEF Account!AdminsLeft, Account!Users

\* A user who can sign in still can, when neither the account nor a directory has changed.
LEMMA SameSignsIn ==
  ASSUME NEW e, NEW n \in Names, e[n] = db[n], Account!CanSignIn(db, n),
         db[n].server # None => e[db[n].server] = db[db[n].server]
  PROVE  Account!CanSignIn(e, n)
BY DEF Account!CanSignIn

\* What a request does to the last administrator, to accounts without a directory and to names.
AdminsStay(e) == Account!AdminsLeft(db, {}) # {} => Account!AdminsLeft(e, {}) # {}
WaysStay(e) ==
  \A n \in Names : e[n] # Gone /\ Account!HasNoDirectory(e, n) /\ e[n].active =>
    db[n] # Gone /\ Account!HasNoDirectory(db, n) /\ db[n].active
NamesStay(e) ==
  \A n \in Account!Users(e) : \/ Account!ByNameCi(e, n) = {n}
                              \/ Account!ByNameCi(e, n) \subseteq Account!ByNameCi(db, n)

\* A request that does no harm to them opens.
LEMMA OpensSafely ==
  ASSUME Account!AccountInv, NEW r \in Requests, NEW op \in Account!Ops, NEW e \in Account!Databases,
         Account!Opens(r, op, e),
         \A n \in Names : db[n] # Gone /\ e[n] # Gone => e[n].kind = db[n].kind,
         op \in {"save directory", "wrong passwords"} \/ AdminsStay(e), WaysStay(e), NamesStay(e)
  PROVE  Account!AccountInv'
<1> DEFINE t == AccountTx(op, e)
<1>1. t.op = op /\ t.read = db /\ t.wrote = e
  BY DEF AccountTx
<1> HIDE DEF t
<1>2. Account!KindsStay(t)
  BY <1>1 DEF Account!KindsStay
<1>3. Account!AdminsLeft(t.read, {}) # {} /\ Account!AdminsLeft(t.wrote, {}) = {} =>
        t.op \in {"save directory", "wrong passwords"}
  BY <1>1 DEF AdminsStay
<1>4. \A n \in Account!Users(t.wrote) : Account!HasNoDirectory(t.wrote, n) /\ t.wrote[n].active =>
        n \in Account!Users(t.read) /\ Account!HasNoDirectory(t.read, n) /\ t.read[n].active
  BY <1>1, Zenon DEF WaysStay, Account!Users
<1>5. \A n \in Account!Users(t.wrote) :
        \/ Account!ByNameCi(t.wrote, n) = {n}
        \/ Account!ByNameCi(t.wrote, n) \subseteq Account!ByNameCi(t.read, n)
  BY <1>1 DEF NamesStay
<1>6. Account!WhenAlone(t)
  BY <1>3, <1>4, <1>5, Zenon DEF Account!WhenAlone
<1>7. QED
  BY <1>2, <1>6, AccountOpens DEF t

\* Without a new account the names stay.
LEMMA NoNewName == ASSUME NEW e, \A n \in Names : e[n] # Gone => db[n] # Gone PROVE NamesStay(e)
<1>1. Account!Users(e) \subseteq Account!Users(db)
  BY DEF Account!Users
<1>2. QED
  BY <1>1 DEF NamesStay, Account!ByNameCi

\* A name that no account has in any case
LEMMA FreeName ==
  ASSUME NEW n \in Names, Account!Free(n)
  PROVE  db[n] = Gone /\ \A m \in Names : db[m] # Gone => Folded[m] # Folded[n]
BY DEF Account!Free, Account!ByNameCi, Account!Users

\* An account that is made of a free name
LEMMA AccountMade ==
  ASSUME Account!AccountInv, NEW r \in Requests, NEW op \in Account!Ops, NEW n \in Names, Account!Free(n),
         NEW u \in Account!UserRows, u.kind = "local" => u.server = None,
         u.server # None => db[u.server] # Gone, u.kind = "ldap" => u.server # None,
         Account!Opens(r, op, [db EXCEPT ![n] = u])
  PROVE  Account!AccountInv'
<1> DEFINE e == [db EXCEPT ![n] = u]
<1>1. db \in Account!Databases /\ n \in Account!Keys /\ db[n] = Gone /\ n # Factory
  <2>1. db \in Account!Databases /\ n \in Account!Keys /\ db[n] = Gone
    BY FreeName, AccountKeys DEF Account!AccountInv
  <2>2. QED
    BY <2>1, InDatabases
<1>2. db = [k \in Account!Keys |-> db[k]]
  BY <1>1, InDatabases
<1>3. e = [k \in Account!Keys |-> IF k = n THEN u ELSE db[k]]
  BY <1>2
<1>4. e = [k \in Account!Keys |-> e[k]] /\ e[n] = u /\ \A k \in Account!Keys : k # n => e[k] = db[k]
  BY <1>1, <1>3
<1>5. Account!Opens(r, op, e)
  OBVIOUS
<1> HIDE DEF e
<1>6. /\ \A m \in Names : m # n => e[m] = db[m]
      /\ \A k \in Servers \cup Account!Rules : e[k] = db[k]
  BY <1>4, AccountKeys
<1>7. u.server \in Servers \cup {None} /\ u.kind \in {"local", "ldap"}
  BY UserColumns
<1>8. e \in Account!Databases
  <2>1. ASSUME NEW m \in Names, e[m] # Gone PROVE Account!UserFits(e, m)
    <3>1. CASE m = n
      BY <1>4, <1>6, <1>7, <3>1 DEF Account!UserFits
    <3>2. CASE m # n
      BY <1>1, <1>6, <2>1, <3>2, InDatabases DEF Account!UserFits
    <3>3. QED
      BY <3>1, <3>2
  <2>2. \A s \in Servers : e[s] # Gone => e[s] \in Account!ServerRows
    BY <1>1, <1>6, InDatabases
  <2>3. \A k \in Account!Rules : e[k] # Gone => e[k] \in Account!RuleRows /\ e[k[1]] # Gone
    BY <1>1, <1>6, InDatabases, AccountKeys
  <2>4. e[Factory] = db[Factory]
    BY <1>1, <1>6, AccountsAssumption
  <2>5. QED
    BY <1>1, <1>4, <2>1, <2>2, <2>3, <2>4, InDatabases, IsDatabases
<1>9. \A m \in Names : db[m] # Gone /\ e[m] # Gone => e[m].kind = db[m].kind
  BY <1>1, <1>6
<1>10. AdminsStay(e)
  <2> SUFFICES ASSUME NEW a \in Account!AdminsLeft(db, {}) PROVE Account!AdminsLeft(e, {}) # {}
    BY DEF AdminsStay
  <2>1. a \in Names /\ db[a] # Gone /\ db[a].role = "admin" /\ Account!CanSignIn(db, a)
    BY AdminsAre
  <2>2. e[a] = db[a] /\ (db[a].server # None => db[a].server \in Servers)
    BY <1>1, <1>6, <2>1, InDatabases
  <2>3. Account!CanSignIn(e, a)
    BY <1>1, <1>6, <2>1, <2>2, SameSignsIn
  <2>4. QED
    BY <2>1, <2>2, <2>3, AdminThere
<1>11. WaysStay(e)
  <2> SUFFICES ASSUME NEW m \in Names, e[m] # Gone, Account!HasNoDirectory(e, m), e[m].active
               PROVE  db[m] # Gone /\ Account!HasNoDirectory(db, m) /\ db[m].active
    BY DEF WaysStay
  <2>1. m # n
    BY <1>4 DEF Account!HasNoDirectory
  <2>2. QED
    BY <1>6, <2>1 DEF Account!HasNoDirectory
<1>12. NamesStay(e)
  <2> SUFFICES ASSUME NEW m \in Account!Users(e), Account!ByNameCi(e, m) # {m}
               PROVE  Account!ByNameCi(e, m) \subseteq Account!ByNameCi(db, m)
    BY DEF NamesStay
  <2>1. \A o \in Names : e[o] # Gone => o = n \/ (db[o] # Gone /\ Folded[o] # Folded[n])
    BY <1>6, FreeName
  <2>2. m \in Names /\ m \in Account!ByNameCi(e, m)
    BY DEF Account!Users, Account!ByNameCi
  <2>3. PICK o \in Account!ByNameCi(e, m) : o # m
    BY <2>2
  <2>4. o \in Names /\ e[o] # Gone /\ e[m] # Gone /\ Folded[o] = Folded[m]
    BY <2>3 DEF Account!Users, Account!ByNameCi
  <2>5. m # n /\ Folded[m] # Folded[n]
    BY <2>1, <2>2, <2>3, <2>4
  <2>6. \A x \in Account!ByNameCi(e, m) : x \in Account!ByNameCi(db, m)
    BY <2>1, <2>5 DEF Account!Users, Account!ByNameCi
  <2>7. QED
    BY <2>6
<1>13. QED
  BY <1>5, <1>8, <1>9, <1>10, <1>11, <1>12, OpensSafely

\* A user's row after a request about existing accounts: gone, or of the same kind, with its directory or one that is
\* there.
Edited(n, u) ==
  /\ u \in Account!UserRows /\ u.kind = db[n].kind
  /\ u.server = db[n].server \/ (u.kind = "ldap" /\ u.server # None /\ db[u.server] # Gone)

\* What requests about existing accounts leave of the database
LEMMA UsersEdited ==
  ASSUME Account!AccountInv, NEW e, e = [k \in Account!Keys |-> e[k]],
         \A k \in Servers \cup Account!Rules : e[k] = db[k],
         \A n \in Names : e[n] = db[n] \/ (db[n] # Gone /\ (e[n] = Gone \/ Edited(n, e[n]))),
         e[Factory] # Gone, e[Factory].role = "admin"
  PROVE  /\ e \in Account!Databases /\ NamesStay(e)
         /\ \A n \in Names : db[n] # Gone /\ e[n] # Gone => e[n].kind = db[n].kind
<1>1. db \in Account!Databases /\ Factory \in Names
  BY AccountsAssumption DEF Account!AccountInv
<1>2. \A n \in Names : db[n] # Gone /\ e[n] # Gone => e[n].kind = db[n].kind
  BY DEF Edited
<1>3. NamesStay(e)
  BY NoNewName
<1>4. ASSUME NEW n \in Names, e[n] # Gone PROVE Account!UserFits(e, n)
  <2>1. db[n] # Gone
    BY <1>4
  <2>2. /\ db[n] \in Account!UserRows
        /\ db[n].kind = "local" => db[n].server = None
        /\ db[n].server # None => db[n].server \in Servers /\ db[db[n].server] # Gone
    BY <1>1, <2>1, InDatabases
  <2>3. CASE e[n] = db[n]
    BY <2>2, <2>3 DEF Account!UserFits
  <2>4. CASE Edited(n, e[n])
    <3>1. e[n] \in Account!UserRows /\ e[n].kind = db[n].kind /\ e[n].server \in Servers \cup {None}
      BY <2>4, UserColumns DEF Edited
    <3>2. e[n].kind = "local" => e[n].server = None
      BY <2>2, <2>4 DEF Edited
    <3>3. e[n].server # None => e[e[n].server] # Gone
      BY <2>2, <2>4, <3>1 DEF Edited
    <3>4. QED
      BY <3>1, <3>2, <3>3 DEF Account!UserFits
  <2>5. QED
    BY <1>4, <2>3, <2>4
<1>5. \A s \in Servers : e[s] # Gone => e[s] \in Account!ServerRows
  BY <1>1, InDatabases
<1>6. \A k \in Account!Rules : e[k] # Gone => e[k] \in Account!RuleRows /\ e[k[1]] # Gone
  BY <1>1, InDatabases, AccountKeys
<1>7. e[Factory].kind = "local"
  BY <1>1, <1>2, InDatabases
<1>8. QED
  BY <1>2, <1>3, <1>4, <1>5, <1>6, <1>7, IsDatabases

\* What an action makes of a user's row.
ActedOn(a, u, v) ==
  /\ v \in Account!UserRows /\ v.kind = u.kind /\ v.server = u.server
  /\ a = "disable" => v.active = FALSE
  /\ a \in {"enable", "disable"} => v.role = u.role
  /\ a = "demote" => v.active = u.active
  /\ a \in {"approve", "enable", "promote"} =>
       /\ v.active = TRUE /\ (u.approved = TRUE => v.approved = TRUE)
       /\ u.role = "admin" => v.role = "admin"

\* An action makes that.
LEMMA ActedRow ==
  ASSUME NEW u \in Account!UserRows, NEW a \in {"approve", "enable", "disable", "promote", "demote"}
  PROVE  ActedOn(a, u, Account!Acted(a, u))
<1> DEFINE v == Account!Acted(a, u)
<1>1. u = [kind |-> u.kind, role |-> u.role, active |-> u.active, approved |-> u.approved, server |-> u.server]
  BY DEF Account!UserRows
<1>0. /\ u.kind \in {"local", "ldap"} /\ u.role \in {"operator", "admin"} /\ u.active \in BOOLEAN
      /\ u.approved \in BOOLEAN /\ u.server \in Servers \cup {None}
  BY UserColumns, Zenon
<1>2. ASSUME a = "approve" PROVE ActedOn(a, u, v)
  <2>1. v = [u EXCEPT !.approved = TRUE, !.active = TRUE]
    BY <1>2 DEF Account!Acted
  <2>2. v = [kind |-> u.kind, role |-> u.role, active |-> TRUE, approved |-> TRUE, server |-> u.server]
    BY <2>1 DEF Account!UserRows
  <2>3. v \in Account!UserRows
    BY <2>2, UserColumns, UserRowOf
  <2>4. QED
    BY <1>2, <2>2, <2>3 DEF ActedOn
<1>3. ASSUME a = "enable" PROVE ActedOn(a, u, v)
  <2>1. v = [u EXCEPT !.active = TRUE]
    BY <1>3 DEF Account!Acted
  <2>2. v = [kind |-> u.kind, role |-> u.role, active |-> TRUE, approved |-> u.approved, server |-> u.server]
    BY <2>1 DEF Account!UserRows
  <2>3. v \in Account!UserRows
    BY <1>0, <2>2, UserRowOf, Zenon
  <2>4. QED
    BY <1>3, <2>2, <2>3 DEF ActedOn
<1>4. ASSUME a = "disable" PROVE ActedOn(a, u, v)
  <2>1. v = [u EXCEPT !.active = FALSE]
    BY <1>4 DEF Account!Acted
  <2>2. v = [kind |-> u.kind, role |-> u.role, active |-> FALSE, approved |-> u.approved, server |-> u.server]
    BY <2>1 DEF Account!UserRows
  <2>3. v \in Account!UserRows
    BY <1>0, <2>2, UserRowOf, Zenon
  <2>4. QED
    BY <1>4, <2>2, <2>3 DEF ActedOn
<1>5. ASSUME a = "promote" PROVE ActedOn(a, u, v)
  <2>1. v = [u EXCEPT !.role = "admin", !.approved = TRUE, !.active = TRUE]
    BY <1>5 DEF Account!Acted
  <2>2. v = [kind |-> u.kind, role |-> "admin", active |-> TRUE, approved |-> TRUE, server |-> u.server]
    BY <2>1 DEF Account!UserRows
  <2>3. v \in Account!UserRows
    BY <2>2, UserColumns, UserRowOf
  <2>4. QED
    BY <1>5, <2>2, <2>3 DEF ActedOn
<1>6. ASSUME a = "demote" PROVE ActedOn(a, u, v)
  <2>1. v = [u EXCEPT !.role = "operator"]
    BY <1>6 DEF Account!Acted
  <2>2. v = [kind |-> u.kind, role |-> "operator", active |-> u.active, approved |-> u.approved, server |-> u.server]
    BY <2>1 DEF Account!UserRows
  <2>3. v \in Account!UserRows
    BY <2>2, UserColumns, UserRowOf
  <2>4. QED
    BY <1>6, <2>2, <2>3 DEF ActedOn
<1> HIDE DEF v
<1>7. ActedOn(a, u, v)
  BY <1>2, <1>3, <1>4, <1>5, <1>6
<1>8. QED
  BY <1>7 DEF v

\* An admin's action on users.
LEMMA UserActs ==
  ASSUME Account!AccountInv, NEW r \in Requests, NEW me, NEW ticked \in SUBSET Account!Users(db),
         NEW a \in {"approve", "enable", "disable", "promote", "demote", "delete"},
         Account!UserAction(r, me, a, ticked)
  PROVE  Account!AccountInv'
<1> DEFINE chosen == {n \in ticked : Account!MayActOn(n, a, me)}
           e == [k \in Account!Keys |-> IF k \in chosen THEN Account!Acted(a, db[k]) ELSE db[k]]
<1>1. /\ a \in {"approve", "enable", "promote"} => Account!HasAWayIn(chosen)
      /\ a \in {"disable", "demote", "delete"} => Account!AdminsLeftWithout(db, chosen)
      /\ Account!Opens(r, a, e)
  BY DEF Account!UserAction
<1>2. \A n \in chosen : n \in Names /\ db[n] # Gone /\ Account!MayActOn(n, a, me)
  BY DEF Account!Users
<1>3. db \in Account!Databases
  BY DEF Account!AccountInv
<1>4. a \in Account!Ops
  BY DEF Account!Ops
<1> HIDE DEF chosen
<1>5. /\ e = [k \in Account!Keys |-> e[k]]
      /\ \A k \in Account!Keys : e[k] = IF k \in chosen THEN Account!Acted(a, db[k]) ELSE db[k]
  OBVIOUS
<1> HIDE DEF e
<1>6. \A k \in Servers \cup Account!Rules : e[k] = db[k]
  BY <1>2, <1>5, AccountKeys
<1>7. \A n \in Names : e[n] = IF n \in chosen THEN Account!Acted(a, db[n]) ELSE db[n]
  BY <1>5, AccountKeys
<1>8. ASSUME NEW n \in chosen, a # "delete"
      PROVE  /\ e[n] \in Account!UserRows /\ e[n].kind = db[n].kind /\ e[n].server = db[n].server
             /\ a = "disable" => e[n].active = FALSE
             /\ a \in {"enable", "disable"} => e[n].role = db[n].role
             /\ a = "demote" => e[n].active = db[n].active
             /\ a \in {"approve", "enable", "promote"} =>
                  /\ e[n].active = TRUE /\ (db[n].approved = TRUE => e[n].approved = TRUE)
                  /\ db[n].role = "admin" => e[n].role = "admin"
  <2>1. db[n] \in Account!UserRows /\ e[n] = Account!Acted(a, db[n])
    BY <1>2, <1>3, <1>7, <1>8, InDatabases
  <2>2. a \in {"approve", "enable", "disable", "promote", "demote"}
    BY <1>8
  <2>3. ActedOn(a, db[n], e[n])
    BY <2>1, <2>2, ActedRow
  <2>4. QED
    BY <1>8, <2>3 DEF ActedOn
<1>9. a = "delete" => \A n \in chosen : e[n] = Gone
  BY <1>2, <1>7 DEF Account!Acted
<1>10. \A n \in Names : e[n] = db[n] \/ (db[n] # Gone /\ (e[n] = Gone \/ Edited(n, e[n])))
  BY <1>2, <1>7, <1>8, <1>9 DEF Edited
<1>11. e[Factory] # Gone /\ e[Factory].role = "admin"
  <2>1. Factory \in Names /\ db[Factory] # Gone /\ db[Factory].kind = "local" /\ db[Factory].role = "admin"
    BY <1>3, InDatabases, AccountsAssumption
  <2>2. CASE Factory \in chosen
    <3>1. a \in {"enable", "disable"}
      BY <1>2, <2>1, <2>2 DEF Account!MayActOn, Account!IsFactoryAdmin
    <3>2. e[Factory] \in Account!UserRows /\ e[Factory].role = db[Factory].role
      BY <1>8, <2>2, <3>1
    <3>3. QED
      BY <2>1, <3>2, AccountRowsThere
  <2>3. CASE Factory \notin chosen
    BY <1>7, <2>1, <2>3
  <2>4. QED
    BY <2>2, <2>3
<1>12. /\ e \in Account!Databases /\ NamesStay(e)
       /\ \A n \in Names : db[n] # Gone /\ e[n] # Gone => e[n].kind = db[n].kind
  BY <1>5, <1>6, <1>10, <1>11, UsersEdited
<1>13. AdminsStay(e)
  <2> SUFFICES ASSUME NEW b \in Account!AdminsLeft(db, {}) PROVE Account!AdminsLeft(e, {}) # {}
    BY DEF AdminsStay
  <2>1. ASSUME NEW n \in Account!AdminsLeft(db, {}), n \notin chosen PROVE Account!AdminsLeft(e, {}) # {}
    <3>1. n \in Names /\ db[n] # Gone /\ db[n].role = "admin" /\ Account!CanSignIn(db, n)
      BY AdminsAre
    <3>2. e[n] = db[n] /\ (db[n].server # None => e[db[n].server] = db[db[n].server])
      BY <1>3, <1>6, <1>7, <2>1, <3>1, InDatabases
    <3>3. QED
      BY <3>1, <3>2, SameSignsIn, AdminThere
  <2>2. CASE a \in {"disable", "demote", "delete"}
    <3>1. PICK n : n \in Account!AdminsLeft(db, chosen)
      BY <1>1, <2>2 DEF Account!AdminsLeftWithout
    <3>2. n \in Account!AdminsLeft(db, {}) /\ n \notin chosen
      BY <3>1 DEF Account!AdminsLeft
    <3>3. QED
      BY <2>1, <3>2
  <2>3. CASE a \in {"approve", "enable", "promote"} /\ b \in chosen
    <3>1. b \in Names /\ db[b] # Gone /\ db[b].role = "admin" /\ Account!CanSignIn(db, b)
      BY AdminsAre
    <3>2. /\ e[b] \in Account!UserRows /\ e[b].kind = db[b].kind /\ e[b].server = db[b].server
          /\ e[b].active = TRUE /\ (db[b].approved = TRUE => e[b].approved = TRUE) /\ e[b].role = "admin"
      BY <1>8, <2>3, <3>1
    <3>3. db[b].approved /\ (db[b].kind = "local" \/ (db[b].server # None /\ db[db[b].server].on))
      BY <3>1 DEF Account!CanSignIn
    <3>4. db[b].approved \in BOOLEAN
      BY <1>3, <3>1, InDatabases, UserColumns
    <3>5. e[b].active /\ e[b].approved
      BY <3>2, <3>3, <3>4
    <3>6. db[b].server # None => e[db[b].server] = db[db[b].server]
      BY <1>3, <1>6, <3>1, InDatabases
    <3>7. Account!CanSignIn(e, b)
      BY <3>2, <3>3, <3>5, <3>6 DEF Account!CanSignIn
    <3>8. QED
      BY <3>1, <3>2, <3>7, AccountRowsThere, AdminThere
  <2>4. QED
    BY <2>1, <2>2, <2>3
<1>14. WaysStay(e)
  <2> SUFFICES ASSUME NEW n \in Names, e[n] # Gone, Account!HasNoDirectory(e, n), e[n].active
               PROVE  db[n] # Gone /\ Account!HasNoDirectory(db, n) /\ db[n].active
    BY DEF WaysStay
  <2>1. CASE n \notin chosen
    BY <1>7, <2>1 DEF Account!HasNoDirectory
  <2>2. CASE n \in chosen
    <3>1. a # "delete" /\ db[n] # Gone
      BY <1>2, <1>9, <2>2
    <3>2. e[n].kind = db[n].kind /\ e[n].server = db[n].server
      BY <1>8, <2>2, <3>1
    <3>3. Account!HasNoDirectory(db, n)
      BY <3>2 DEF Account!HasNoDirectory
    <3>4. a \notin {"approve", "enable", "promote"}
      BY <1>1, <2>2, <3>3 DEF Account!HasAWayIn
    <3>5. a # "disable"
      BY <1>8, <2>2, <3>1
    <3>6. e[n].active = db[n].active
      BY <1>8, <2>2, <3>1, <3>4, <3>5
    <3>7. QED
      BY <3>1, <3>3, <3>6
  <2>3. QED
    BY <2>1, <2>2
<1>15. QED
  BY <1>1, <1>4, <1>12, <1>13, <1>14, OpensSafely

\* A request about one account, that takes no administrator away and gives nobody without a directory access.
LEMMA UserEdited ==
  ASSUME Account!AccountInv, NEW r \in Requests, NEW op \in Account!Ops, NEW n \in Names, db[n] # Gone,
         NEW u \in Account!UserRows, u.kind = db[n].kind, u.server = db[n].server,
         u.active = TRUE => db[n].active = TRUE \/ ~Account!HasNoDirectory(db, n),
         n = Factory => u.role = "admin",
         \/ op \in {"save directory", "wrong passwords"}
         \/ Account!AdminsLeftWithout(db, {n})
         \/ /\ db[n].role = "admin" => u.role = "admin"
            /\ db[n].active = TRUE => u.active = TRUE
            /\ db[n].approved = TRUE => u.approved = TRUE,
         NEW e, e = [db EXCEPT ![n] = u], Account!Opens(r, op, e)
  PROVE  Account!AccountInv'
<1>1. db \in Account!Databases /\ n \in Account!Keys
  BY AccountKeys DEF Account!AccountInv
<1>2. db = [k \in Account!Keys |-> db[k]]
  BY <1>1, InDatabases
<1>3. e = [k \in Account!Keys |-> IF k = n THEN u ELSE db[k]]
  BY <1>2
<1>4. e = [k \in Account!Keys |-> e[k]] /\ e[n] = u /\ \A k \in Account!Keys : k # n => e[k] = db[k]
  BY <1>1, <1>3
<1>5. /\ \A m \in Names : m # n => e[m] = db[m]
      /\ \A k \in Servers \cup Account!Rules : e[k] = db[k]
  BY <1>4, AccountKeys
<1>6. db[n] \in Account!UserRows
  BY <1>1, InDatabases
<1>7. u # Gone
  BY AccountRowsThere
<1>8. Edited(n, e[n])
  BY <1>4 DEF Edited
<1>9. e[Factory] # Gone /\ e[Factory].role = "admin"
  <2>1. Factory \in Names /\ db[Factory] # Gone /\ db[Factory].role = "admin"
    BY <1>1, InDatabases, AccountsAssumption
  <2>2. CASE n = Factory
    BY <1>4, <1>7, <2>2
  <2>3. CASE n # Factory
    BY <1>5, <2>1, <2>3
  <2>4. QED
    BY <2>2, <2>3
<1>10. /\ e \in Account!Databases /\ NamesStay(e)
       /\ \A m \in Names : db[m] # Gone /\ e[m] # Gone => e[m].kind = db[m].kind
  BY <1>4, <1>5, <1>8, <1>9, UsersEdited
<1>11. ASSUME NEW a \in Account!AdminsLeft(db, {}), a # n PROVE Account!AdminsLeft(e, {}) # {}
  <2>1. a \in Names /\ db[a] # Gone /\ db[a].role = "admin" /\ Account!CanSignIn(db, a)
    BY AdminsAre
  <2>2. e[a] = db[a] /\ (db[a].server # None => e[db[a].server] = db[db[a].server])
    BY <1>1, <1>5, <1>11, <2>1, InDatabases
  <2>3. QED
    BY <2>1, <2>2, SameSignsIn, AdminThere
<1>12. op \in {"save directory", "wrong passwords"} \/ AdminsStay(e)
  <2> SUFFICES ASSUME op \notin {"save directory", "wrong passwords"}, NEW b \in Account!AdminsLeft(db, {})
               PROVE  Account!AdminsLeft(e, {}) # {}
    BY DEF AdminsStay
  <2>1. CASE Account!AdminsLeftWithout(db, {n})
    <3>1. PICK a : a \in Account!AdminsLeft(db, {n})
      BY <2>1 DEF Account!AdminsLeftWithout
    <3>2. a \in Account!AdminsLeft(db, {}) /\ a # n
      BY <3>1 DEF Account!AdminsLeft
    <3>3. QED
      BY <1>11, <3>2
  <2>2. CASE /\ db[n].role = "admin" => u.role = "admin"
             /\ db[n].active = TRUE => u.active = TRUE
             /\ db[n].approved = TRUE => u.approved = TRUE
    <3>1. CASE b # n
      BY <1>11, <3>1
    <3>2. CASE b = n
      <4>1. n \in Names /\ db[n] # Gone /\ db[n].role = "admin" /\ Account!CanSignIn(db, n)
        BY <3>2, AdminsAre
      <4>2. db[n].active \in BOOLEAN /\ db[n].approved \in BOOLEAN
        BY <1>6, UserColumns
      <4>3. db[n].active /\ db[n].approved /\ (db[n].kind = "local" \/ (db[n].server # None /\ db[db[n].server].on))
        BY <4>1 DEF Account!CanSignIn
      <4>4. u.active /\ u.approved /\ u.role = "admin"
        BY <2>2, <4>1, <4>2, <4>3
      <4>5. db[n].server # None => e[db[n].server] = db[db[n].server]
        BY <1>1, <1>5, InDatabases
      <4>6. Account!CanSignIn(e, n)
        BY <1>4, <4>3, <4>4, <4>5 DEF Account!CanSignIn
      <4>7. QED
        BY <1>4, <1>7, <4>4, <4>6, AdminThere
    <3>3. QED
      BY <3>1, <3>2
  <2>3. QED
    BY <2>1, <2>2
<1>13. WaysStay(e)
  <2> SUFFICES ASSUME NEW m \in Names, e[m] # Gone, Account!HasNoDirectory(e, m), e[m].active
               PROVE  db[m] # Gone /\ Account!HasNoDirectory(db, m) /\ db[m].active
    BY DEF WaysStay
  <2>1. CASE m # n
    BY <1>5, <2>1 DEF Account!HasNoDirectory
  <2>2. CASE m = n
    <3>1. Account!HasNoDirectory(db, n)
      BY <1>4, <2>2 DEF Account!HasNoDirectory
    <3>2. u.active = TRUE
      <4>1. e[m].active
        OBVIOUS
      <4>2. u.active
        BY <1>4, <2>2, <4>1
      <4>3. u.active \in BOOLEAN
        BY UserColumns
      <4>4. QED
        BY <4>2, <4>3
    <3>3. db[n].active
      BY <3>1, <3>2
    <3>4. QED
      BY <2>2, <3>1, <3>3
  <2>3. QED
    BY <2>1, <2>2
<1>14. QED
  BY <1>10, <1>12, <1>13, OpensSafely

\* A sign-in on an account of a directory.
LEMMA SignedInByDirectory ==
  ASSUME Account!AccountInv, NEW r \in Requests, NEW n \in Account!Users(db), Account!LdapSignIn(r, n)
  PROVE  Account!AccountInv'
<1>1. n \in Names /\ db[n] # Gone /\ db[n].kind = "ldap"
  BY DEF Account!Users, Account!LdapSignIn
<1>2. PICK role \in Account!RolesGiven(db, db[n].server) :
        Account!Opens(r, "sign-in", [db EXCEPT ![n].role = Account!RoleAtSignIn(n, role)])
  BY DEF Account!LdapSignIn
<1>3. role \in {"operator", "admin"}
  BY DEF Account!RolesGiven, Account!HighestRole
<1> DEFINE o == Account!RoleAtSignIn(n, role)  u == [db[n] EXCEPT !.role = o]
<1>4. /\ o \in {"operator", "admin"}
      /\ Account!AdminsLeftWithout(db, {n}) \/ (db[n].role = "admin" => o = "admin")
  BY <1>3 DEF Account!RoleAtSignIn
<1>5. Account!Opens(r, "sign-in", [db EXCEPT ![n] = u])
  BY <1>2
<1> HIDE DEF o
<1>6. db[n] \in Account!UserRows /\ n # Factory
  BY <1>1, InDatabases DEF Account!AccountInv
<1>7. u = [kind |-> db[n].kind, role |-> o, active |-> db[n].active, approved |-> db[n].approved,
           server |-> db[n].server]
  BY <1>6 DEF Account!UserRows
<1> HIDE DEF u
<1>8. u \in Account!UserRows
  <2>1. db[n].kind \in {"local", "ldap"} /\ db[n].active \in BOOLEAN /\ db[n].approved \in BOOLEAN
        /\ db[n].server \in Servers \cup {None}
    BY <1>6, UserColumns, Zenon
  <2>2. QED
    BY <1>4, <1>7, <2>1, UserRowOf, Zenon
<1>9. /\ u.kind = db[n].kind /\ u.role = o /\ u.server = db[n].server
      /\ u.active = db[n].active /\ u.approved = db[n].approved
  BY <1>7
<1>10. "sign-in" \in Account!Ops
  BY DEF Account!Ops
<1>11. QED
  BY <1>1, <1>4, <1>5, <1>6, <1>8, <1>9, <1>10, UserEdited

\* A row that is disabled, and one that is reset
LEMMA RowAfter ==
  ASSUME NEW u \in Account!UserRows, NEW v
  PROVE  /\ v = [u EXCEPT !.active = FALSE] =>
              v = [kind |-> u.kind, role |-> u.role, active |-> FALSE, approved |-> u.approved, server |-> u.server]
         /\ v = [u EXCEPT !.active = TRUE, !.approved = TRUE, !.role = "admin"] =>
              v = [kind |-> u.kind, role |-> "admin", active |-> TRUE, approved |-> TRUE, server |-> u.server]
<1>1. ASSUME v = [u EXCEPT !.active = FALSE]
      PROVE  v = [kind |-> u.kind, role |-> u.role, active |-> FALSE, approved |-> u.approved, server |-> u.server]
  BY <1>1 DEF Account!UserRows
<1>2. ASSUME v = [u EXCEPT !.active = TRUE, !.approved = TRUE, !.role = "admin"]
      PROVE  v = [kind |-> u.kind, role |-> "admin", active |-> TRUE, approved |-> TRUE, server |-> u.server]
  BY <1>2 DEF Account!UserRows
<1>3. QED
  BY <1>1, <1>2

\* Wrong passwords, once too often.
LEMMA WrongOnes ==
  ASSUME Account!AccountInv, NEW r \in Requests, NEW n \in Account!Users(db), Account!WrongPasswords(r, n)
  PROVE  Account!AccountInv'
<1>1. n \in Names /\ db[n] # Gone /\ db[n].kind = "local" /\ n # Factory
  BY DEF Account!Users, Account!WrongPasswords, Account!IsFactoryAdmin
<1> DEFINE u == [db[n] EXCEPT !.active = FALSE]
<1>2. Account!Opens(r, "wrong passwords", [db EXCEPT ![n] = u])
  BY DEF Account!WrongPasswords
<1>3. db[n] \in Account!UserRows
  BY <1>1, InDatabases DEF Account!AccountInv
<1>4. u = [kind |-> db[n].kind, role |-> db[n].role, active |-> FALSE, approved |-> db[n].approved,
           server |-> db[n].server]
  BY <1>3, RowAfter
<1> HIDE DEF u
<1>5. u \in Account!UserRows
  <2>1. db[n].kind \in {"local", "ldap"} /\ db[n].role \in {"operator", "admin"} /\ db[n].approved \in BOOLEAN
        /\ db[n].server \in Servers \cup {None}
    BY <1>3, UserColumns, Zenon
  <2>2. QED
    BY <1>4, <2>1, UserRowOf, Zenon
<1>6. u.kind = db[n].kind /\ u.server = db[n].server /\ u.active = FALSE
  BY <1>4
<1>7. "wrong passwords" \in Account!Ops
  BY DEF Account!Ops
<1>8. QED
  BY <1>1, <1>2, <1>5, <1>6, <1>7, UserEdited

\* The factory admin is reset.
LEMMA FactoryReset ==
  ASSUME Account!AccountInv, NEW r \in Requests, Account!ResetAdmin(r)
  PROVE  Account!AccountInv'
<1>1. Factory \in Names /\ db[Factory] # Gone /\ db[Factory].kind = "local" /\ db \in Account!Databases
  BY AccountsAssumption DEF Account!ResetAdmin, Account!IsFactoryAdmin, Account!AccountInv
<1> DEFINE u == [db[Factory] EXCEPT !.active = TRUE, !.approved = TRUE, !.role = "admin"]
<1>2. Account!Opens(r, "reset", [db EXCEPT ![Factory] = u])
  BY DEF Account!ResetAdmin
<1>3. db[Factory] \in Account!UserRows
  BY <1>1, InDatabases
<1>4. u = [kind |-> db[Factory].kind, role |-> "admin", active |-> TRUE, approved |-> TRUE,
           server |-> db[Factory].server]
  BY <1>3, RowAfter
<1> HIDE DEF u
<1>5. u \in Account!UserRows
  BY <1>3, <1>4, UserColumns, UserRowOf
<1>6. /\ u.kind = db[Factory].kind /\ u.role = "admin" /\ u.server = db[Factory].server
      /\ u.active = TRUE /\ u.approved = TRUE
  BY <1>4
<1>7. ~Account!HasNoDirectory(db, Factory)
  BY <1>1 DEF Account!HasNoDirectory
<1>8. "reset" \in Account!Ops
  BY DEF Account!Ops
<1>9. QED
  BY <1>1, <1>2, <1>5, <1>6, <1>7, <1>8, UserEdited

\* The roles that a directory may give are roles.
LEMMA RolesAre ==
  ASSUME NEW d, NEW s, NEW o \in Account!RolesGiven(d, s)
  PROVE  o \in {"operator", "admin"}
BY DEF Account!RolesGiven, Account!HighestRole

\* An administrator whom a request leaves alone, and whose directory, is left.
LEMMA OneIsLeft ==
  ASSUME db \in Account!Databases, NEW e, NEW a \in Account!AdminsLeft(db, {}), e[a] = db[a],
         db[a].server # None => e[db[a].server] = db[db[a].server]
  PROVE  Account!AdminsLeft(e, {}) # {}
<1>1. a \in Names /\ db[a] # Gone /\ db[a].role = "admin" /\ Account!CanSignIn(db, a)
  BY AdminsAre
<1>2. QED
  BY <1>1, SameSignsIn, AdminThere

\* Users of a deleted directory are connected again.
LEMMA Reconnected ==
  ASSUME Account!AccountInv, NEW r \in Requests, NEW names \in SUBSET Account!Users(db), NEW s \in Servers,
         Account!Reconnect(r, names, s)
  PROVE  Account!AccountInv'
<1>1. /\ \A n \in names : n \in Names /\ db[n] # Gone /\ db[n].kind = "ldap" /\ db[n].server = None
      /\ db[s] # Gone /\ s # None /\ db \in Account!Databases
  BY AccountKeys DEF Account!Reconnect, Account!HasNoDirectory, Account!Users, Account!AccountInv
<1>2. PICK role \in [names -> Account!RolesGiven(db, s)] :
        Account!Opens(r, "reconnect",
                      [k \in Account!Keys |-> IF k \in names
                         THEN [db[k] EXCEPT !.server = s, !.active = FALSE,
                                            !.role = IF Account!SetsRoles(db, s) THEN role[k] ELSE @]
                         ELSE db[k]])
  BY DEF Account!Reconnect
<1> DEFINE e == [k \in Account!Keys |-> IF k \in names
                   THEN [db[k] EXCEPT !.server = s, !.active = FALSE,
                                      !.role = IF Account!SetsRoles(db, s) THEN role[k] ELSE @]
                   ELSE db[k]]
<1>3. Account!Opens(r, "reconnect", e)
  BY <1>2
<1>4. /\ e = [k \in Account!Keys |-> e[k]]
      /\ \A k \in Account!Keys \ names : e[k] = db[k]
      /\ \A n \in names : n \in Account!Keys =>
           e[n] = [db[n] EXCEPT !.server = s, !.active = FALSE,
                                !.role = IF Account!SetsRoles(db, s) THEN role[n] ELSE @]
  OBVIOUS
<1> HIDE DEF e
<1>5. /\ \A k \in Servers \cup Account!Rules : e[k] = db[k]
      /\ \A n \in Names : n \notin names => e[n] = db[n]
  BY <1>1, <1>4, AccountKeys
<1>6. ASSUME NEW n \in names PROVE Edited(n, e[n]) /\ e[n].server = s /\ n # Factory
  <2> DEFINE o == IF Account!SetsRoles(db, s) THEN role[n] ELSE db[n].role
  <2>1. db[n] \in Account!UserRows /\ n \in Account!Keys /\ n # Factory
    BY <1>1, InDatabases, AccountKeys
  <2>2. o \in {"operator", "admin"}
    BY <2>1, RolesAre, UserColumns
  <2>3. e[n] = [db[n] EXCEPT !.server = s, !.active = FALSE, !.role = o]
    BY <1>4, <2>1
  <2> HIDE DEF o
  <2>4. e[n] = [kind |-> db[n].kind, role |-> o, active |-> FALSE, approved |-> db[n].approved, server |-> s]
    BY <2>1, <2>3 DEF Account!UserRows
  <2>5. db[n].kind \in {"local", "ldap"} /\ db[n].approved \in BOOLEAN
    BY <2>1, UserColumns, Zenon
  <2>6. e[n] \in Account!UserRows
    BY <2>2, <2>4, <2>5, UserRowOf, Zenon
  <2>7. e[n].kind = db[n].kind /\ e[n].server = s
    BY <2>4
  <2>8. QED
    BY <1>1, <2>1, <2>6, <2>7 DEF Edited
<1>7. \A n \in Names : e[n] = db[n] \/ (db[n] # Gone /\ (e[n] = Gone \/ Edited(n, e[n])))
  BY <1>1, <1>5, <1>6
<1>8. e[Factory] # Gone /\ e[Factory].role = "admin"
  <2>1. Factory \in Names /\ Factory \notin names
    BY <1>6, AccountsAssumption
  <2>2. QED
    BY <1>1, <1>5, <2>1, InDatabases
<1>9. /\ e \in Account!Databases /\ NamesStay(e)
      /\ \A m \in Names : db[m] # Gone /\ e[m] # Gone => e[m].kind = db[m].kind
  BY <1>4, <1>5, <1>7, <1>8, UsersEdited
<1>10. AdminsStay(e)
  <2> SUFFICES ASSUME NEW a \in Account!AdminsLeft(db, {}) PROVE Account!AdminsLeft(e, {}) # {}
    BY DEF AdminsStay
  <2>1. a \in Names /\ db[a] # Gone /\ Account!CanSignIn(db, a)
    BY AdminsAre
  <2>2. a \notin names
    BY <1>1, <2>1 DEF Account!CanSignIn
  <2>3. db[a].server # None => db[a].server \in Servers
    BY <1>1, <2>1, InDatabases
  <2>4. QED
    BY <1>1, <1>5, <2>1, <2>2, <2>3, OneIsLeft
<1>11. WaysStay(e)
  <2> SUFFICES ASSUME NEW m \in Names, e[m] # Gone, Account!HasNoDirectory(e, m), e[m].active
               PROVE  db[m] # Gone /\ Account!HasNoDirectory(db, m) /\ db[m].active
    BY DEF WaysStay
  <2>1. m \notin names
    BY <1>1, <1>6 DEF Account!HasNoDirectory
  <2>2. QED
    BY <1>5, <2>1 DEF Account!HasNoDirectory
<1>12. "reconnect" \in Account!Ops
  BY DEF Account!Ops
<1>13. QED
  BY <1>3, <1>9, <1>10, <1>11, <1>12, OpensSafely

\* A directory is deleted, with its users or without.
LEMMA DirectoryGoes ==
  ASSUME Account!AccountInv, NEW r \in Requests, NEW me, NEW s \in Servers, NEW deleteUsers \in BOOLEAN,
         Account!DeleteServer(r, me, s, deleteUsers)
  PROVE  Account!AccountInv'
<1> DEFINE gone(n) == IF deleteUsers THEN Gone ELSE Account!KeptUser(db[n])
           e == [k \in Account!Keys |->
                   IF k = s \/ (k \in Account!Rules /\ k[1] = s) THEN Gone
                   ELSE IF k \in Account!UsersOf(db, s) THEN (IF deleteUsers THEN Gone ELSE Account!KeptUser(db[k]))
                   ELSE db[k]]
<1>1. /\ Account!Opens(r, "delete directory", e) /\ Account!AdminsLeftWithout(db, Account!UsersOf(db, s))
      /\ db \in Account!Databases
  BY DEF Account!DeleteServer, Account!AccountInv
<1>2. /\ e = [k \in Account!Keys |-> e[k]]
      /\ \A k \in Account!Keys :
           e[k] = IF k = s \/ (k \in Account!Rules /\ k[1] = s) THEN Gone
                  ELSE IF k \in Account!UsersOf(db, s) THEN gone(k) ELSE db[k]
  OBVIOUS
<1> HIDE DEF e, gone
<1>3. /\ \A n \in Account!UsersOf(db, s) : n \in Names /\ db[n] # Gone /\ db[n].server = s
      /\ \A n \in Names : db[n] # Gone /\ db[n].server = s => n \in Account!UsersOf(db, s)
  BY DEF Account!UsersOf, Account!Users
<1>4. /\ \A n \in Names : e[n] = IF n \in Account!UsersOf(db, s) THEN gone(n) ELSE db[n]
      /\ \A k \in Servers : e[k] = IF k = s THEN Gone ELSE db[k]
      /\ \A k \in Account!Rules : e[k] = IF k[1] = s THEN Gone ELSE db[k]
  BY <1>2, <1>3, AccountKeys
<1>5. ASSUME NEW n \in Account!UsersOf(db, s), e[n] # Gone
      PROVE  e[n] \in Account!UserRows /\ e[n].server = None /\ e[n].active = FALSE /\ e[n].kind = db[n].kind
  <2>1. n \in Names /\ db[n] \in Account!UserRows
    BY <1>1, <1>3, InDatabases
  <2>2. e[n] = [db[n] EXCEPT !.server = None, !.active = FALSE]
    BY <1>4, <1>5, <2>1 DEF gone, Account!KeptUser
  <2>3. e[n] = [kind |-> db[n].kind, role |-> db[n].role, active |-> FALSE, approved |-> db[n].approved,
                server |-> None]
    BY <2>1, <2>2 DEF Account!UserRows
  <2>4. db[n].kind \in {"local", "ldap"} /\ db[n].role \in {"operator", "admin"} /\ db[n].approved \in BOOLEAN
    BY <2>1, UserColumns, Zenon
  <2>5. None \in Servers \cup {None}
    OBVIOUS
  <2>6. e[n] \in Account!UserRows
    BY <2>3, <2>4, <2>5, UserRowOf, Zenon
  <2>7. QED
    BY <2>3, <2>6
<1>6. Factory \in Names /\ Factory \notin Account!UsersOf(db, s) /\ e[Factory] = db[Factory]
  <2>1. Factory \in Names /\ db[Factory] # Gone /\ db[Factory].kind = "local" /\ s # None
    BY <1>1, InDatabases, AccountKeys, AccountsAssumption
  <2>2. db[Factory].server = None
    BY <1>1, <2>1, InDatabases
  <2>3. QED
    BY <1>3, <1>4, <2>1, <2>2
<1>7. ASSUME NEW n \in Names, e[n] # Gone, n \notin Account!UsersOf(db, s)
      PROVE  /\ e[n] = db[n]
             /\ db[n].server # None => db[n].server \in Servers /\ e[db[n].server] = db[db[n].server]
  BY <1>1, <1>3, <1>4, <1>7, InDatabases
<1>8. \A n \in Names : db[n] # Gone /\ e[n] # Gone => e[n].kind = db[n].kind
  BY <1>5, <1>7
<1>9. \A n \in Names : e[n] # Gone => db[n] # Gone
  BY <1>3, <1>7
<1>10. e \in Account!Databases
  <2>1. ASSUME NEW n \in Names, e[n] # Gone PROVE Account!UserFits(e, n)
    <3>1. CASE n \in Account!UsersOf(db, s)
      BY <1>5, <2>1, <3>1 DEF Account!UserFits
    <3>2. CASE n \notin Account!UsersOf(db, s)
      <4>1. /\ e[n] = db[n]
            /\ db[n].server # None => db[n].server \in Servers /\ e[db[n].server] = db[db[n].server]
        BY <1>7, <2>1, <3>2
      <4>2. /\ db[n] \in Account!UserRows /\ (db[n].kind = "local" => db[n].server = None)
            /\ db[n].server # None => db[db[n].server] # Gone
        BY <1>1, <2>1, <4>1, InDatabases
      <4>3. QED
        BY <4>1, <4>2 DEF Account!UserFits
    <3>3. QED
      BY <3>1, <3>2
  <2>2. \A k \in Servers : e[k] # Gone => e[k] \in Account!ServerRows
    BY <1>1, <1>4, InDatabases
  <2>3. \A k \in Account!Rules : e[k] # Gone => e[k] \in Account!RuleRows /\ e[k[1]] # Gone
    <3> SUFFICES ASSUME NEW k \in Account!Rules, e[k] # Gone
                 PROVE  e[k] \in Account!RuleRows /\ e[k[1]] # Gone
      OBVIOUS
    <3>1. k[1] \in Servers /\ k[1] # s /\ e[k] = db[k]
      BY <1>4, AccountKeys
    <3>2. db[k] \in Account!RuleRows /\ db[k[1]] # Gone
      BY <1>1, <3>1, InDatabases
    <3>3. QED
      BY <1>4, <3>1, <3>2
  <2>4. QED
    BY <1>1, <1>2, <1>6, <2>1, <2>2, <2>3, InDatabases, IsDatabases
<1>11. NamesStay(e)
  BY <1>9, NoNewName
<1>12. AdminsStay(e)
  <2> SUFFICES ASSUME NEW b \in Account!AdminsLeft(db, {}) PROVE Account!AdminsLeft(e, {}) # {}
    BY DEF AdminsStay
  <2>1. PICK a : a \in Account!AdminsLeft(db, Account!UsersOf(db, s))
    BY <1>1 DEF Account!AdminsLeftWithout
  <2>2. a \in Account!AdminsLeft(db, {}) /\ a \in Names /\ a \notin Account!UsersOf(db, s) /\ db[a] # Gone
    BY <2>1, AdminsAre DEF Account!AdminsLeft
  <2>3. e[a] = db[a] /\ e[a] # Gone
    BY <1>4, <2>2
  <2>4. QED
    BY <1>1, <1>7, <2>2, <2>3, OneIsLeft
<1>13. WaysStay(e)
  <2> SUFFICES ASSUME NEW m \in Names, e[m] # Gone, Account!HasNoDirectory(e, m), e[m].active
               PROVE  db[m] # Gone /\ Account!HasNoDirectory(db, m) /\ db[m].active
    BY DEF WaysStay
  <2>1. m \notin Account!UsersOf(db, s)
    BY <1>5
  <2>2. e[m] = db[m]
    BY <1>7, <2>1
  <2>3. QED
    BY <2>2 DEF Account!HasNoDirectory
<1>14. "delete directory" \in Account!Ops
  BY DEF Account!Ops
<1>15. QED
  BY <1>1, <1>8, <1>10, <1>11, <1>12, <1>13, <1>14, OpensSafely

\* A request about directories or rules alone: whoever could sign in still can, but for a directory that is switched
\* off.
LEMMA DirectoriesEdited ==
  ASSUME Account!AccountInv, NEW r \in Requests, NEW op \in Account!Ops, NEW e, e = [k \in Account!Keys |-> e[k]],
         \A n \in Names : e[n] = db[n],
         \A s \in Servers : (e[s] # Gone => e[s] \in Account!ServerRows) /\ (db[s] # Gone => e[s] # Gone),
         \A k \in Account!Rules : e[k] # Gone => e[k] \in Account!RuleRows /\ e[k[1]] # Gone,
         op = "save directory" \/ \A s \in Servers : e[s] = db[s],
         Account!Opens(r, op, e)
  PROVE  Account!AccountInv'
<1>1. db \in Account!Databases /\ Factory \in Names
  BY AccountsAssumption DEF Account!AccountInv
<1>2. e \in Account!Databases
  <2>1. ASSUME NEW n \in Names, e[n] # Gone PROVE Account!UserFits(e, n)
    <3>1. e[n] = db[n] /\ db[n] # Gone
      BY <2>1
    <3>2. /\ db[n] \in Account!UserRows /\ (db[n].kind = "local" => db[n].server = None)
          /\ db[n].server # None => db[n].server \in Servers /\ db[db[n].server] # Gone
      BY <1>1, <3>1, InDatabases
    <3>3. QED
      BY <3>1, <3>2 DEF Account!UserFits
  <2>2. e[Factory] # Gone /\ e[Factory].kind = "local" /\ e[Factory].role = "admin"
    BY <1>1, InDatabases
  <2>3. QED
    BY <2>1, <2>2, IsDatabases
<1>3. NamesStay(e)
  BY NoNewName
<1>4. WaysStay(e)
  BY DEF WaysStay, Account!HasNoDirectory
<1>5. op = "save directory" \/ AdminsStay(e)
  <2> SUFFICES ASSUME \A s \in Servers : e[s] = db[s], NEW a \in Account!AdminsLeft(db, {})
               PROVE  Account!AdminsLeft(e, {}) # {}
    BY DEF AdminsStay
  <2>1. a \in Names /\ db[a] # Gone
    BY DEF Account!AdminsLeft, Account!Users
  <2>2. db[a].server # None => db[a].server \in Servers
    BY <1>1, <2>1, InDatabases
  <2>3. QED
    BY <1>1, <2>1, <2>2, OneIsLeft
<1>6. QED
  BY <1>2, <1>3, <1>4, <1>5, OpensSafely

\* A directory is made or saved.
LEMMA DirectorySaved ==
  ASSUME Account!AccountInv, NEW r \in Requests, NEW s \in Servers, NEW on \in BOOLEAN, NEW regular \in BOOLEAN,
         Account!SaveServer(r, s, on, regular)
  PROVE  Account!AccountInv'
<1> DEFINE row == [on |-> on, regular |-> regular]  e == [db EXCEPT ![s] = row]
<1>1. Account!Opens(r, "save directory", e) /\ row \in Account!ServerRows
  BY DEF Account!SaveServer, Account!ServerRows
<1> HIDE DEF row
<1>2. db \in Account!Databases /\ s \in Account!Keys
  BY AccountKeys DEF Account!AccountInv
<1>3. db = [k \in Account!Keys |-> db[k]]
  BY <1>2, InDatabases
<1>4. e = [k \in Account!Keys |-> IF k = s THEN row ELSE db[k]]
  BY <1>3
<1>5. e = [k \in Account!Keys |-> e[k]] /\ e[s] = row /\ \A k \in Account!Keys : k # s => e[k] = db[k]
  BY <1>2, <1>4
<1> HIDE DEF e
<1>6. row # Gone /\ "save directory" \in Account!Ops
  BY <1>1, AccountRowsThere DEF Account!Ops
<1>7. \A n \in Names : e[n] = db[n]
  BY <1>5, AccountKeys
<1>8. \A x \in Servers : (e[x] # Gone => e[x] \in Account!ServerRows) /\ (db[x] # Gone => e[x] # Gone)
  BY <1>1, <1>2, <1>5, <1>6, InDatabases, AccountKeys
<1>9. ASSUME NEW k \in Account!Rules, e[k] # Gone PROVE e[k] \in Account!RuleRows /\ e[k[1]] # Gone
  <2>1. e[k] = db[k] /\ k[1] \in Servers
    BY <1>5, AccountKeys
  <2>2. db[k] \in Account!RuleRows /\ db[k[1]] # Gone
    BY <1>2, <1>9, <2>1, InDatabases
  <2>3. QED
    BY <1>8, <2>1, <2>2
<1>10. QED
  BY <1>1, <1>5, <1>6, <1>7, <1>8, <1>9, DirectoriesEdited

\* A rule is imported, switched, given another role or deleted.
LEMMA RuleSaved ==
  ASSUME Account!AccountInv, NEW r \in Requests, NEW x \in Account!Rules, Account!SaveRule(r, x)
  PROVE  Account!AccountInv'
<1>1. PICK row \in Account!RuleAfter(db[x]) : Account!Opens(r, "rule", [db EXCEPT ![x] = row])
  BY DEF Account!SaveRule
<1>2. db[x[1]] # Gone /\ x[1] \in Servers /\ x \in Account!Keys /\ db \in Account!Databases /\ "rule" \in Account!Ops
  BY AccountKeys DEF Account!SaveRule, Account!AccountInv, Account!Ops
<1>3. row = Gone \/ row \in Account!RuleRows
  <2>1. CASE db[x] = Gone
    <3>1. row = [role |-> "operator", on |-> TRUE]
      BY <2>1 DEF Account!RuleAfter
    <3>2. QED
      BY <3>1 DEF Account!RuleRows, Account!Roles
  <2>2. CASE db[x] # Gone
    <3>1. db[x] \in Account!RuleRows
      BY <1>2, <2>2, InDatabases
    <3>2. db[x].role \in Account!Roles /\ db[x].on \in BOOLEAN /\ db[x] = [role |-> db[x].role, on |-> db[x].on]
      BY <3>1 DEF Account!RuleRows
    <3>3. CASE row = [db[x] EXCEPT !.on = ~@]
      <4>1. row = [role |-> db[x].role, on |-> ~db[x].on]
        BY <3>1, <3>3 DEF Account!RuleRows
      <4>2. (~db[x].on) \in BOOLEAN
        OBVIOUS
      <4>3. QED
        BY <3>2, <4>1, <4>2, Zenon DEF Account!RuleRows
    <3>4. ASSUME NEW role \in Account!Roles, row = [db[x] EXCEPT !.role = role] PROVE row \in Account!RuleRows
      BY <3>1, <3>4 DEF Account!RuleRows
    <3>5. \/ row = Gone \/ row = [db[x] EXCEPT !.on = ~@]
          \/ \E role \in Account!Roles : row = [db[x] EXCEPT !.role = role]
      BY <2>2, Zenon DEF Account!RuleAfter
    <3>6. QED
      BY <3>3, <3>4, <3>5
  <2>3. QED
    BY <2>1, <2>2
<1> DEFINE e == [db EXCEPT ![x] = row]
<1>4. db = [k \in Account!Keys |-> db[k]]
  BY <1>2, InDatabases
<1>5. e = [k \in Account!Keys |-> IF k = x THEN row ELSE db[k]]
  BY <1>4
<1>6. e = [k \in Account!Keys |-> e[k]] /\ e[x] = row /\ \A k \in Account!Keys : k # x => e[k] = db[k]
  BY <1>2, <1>5
<1>7. Account!Opens(r, "rule", e)
  BY <1>1
<1> HIDE DEF e
<1>8. (\A n \in Names : e[n] = db[n]) /\ \A s \in Servers : e[s] = db[s]
  BY <1>6, AccountKeys
<1>9. \A s \in Servers : (e[s] # Gone => e[s] \in Account!ServerRows) /\ (db[s] # Gone => e[s] # Gone)
  BY <1>2, <1>8, InDatabases
<1>10. ASSUME NEW k \in Account!Rules, e[k] # Gone PROVE e[k] \in Account!RuleRows /\ e[k[1]] # Gone
  <2>1. k[1] \in Servers /\ e[k[1]] = db[k[1]]
    BY <1>8, AccountKeys
  <2>2. CASE k = x
    BY <1>2, <1>3, <1>6, <1>10, <2>1, <2>2
  <2>3. CASE k # x
    <3>1. e[k] = db[k]
      BY <1>6, <2>3, AccountKeys
    <3>2. QED
      BY <1>2, <1>10, <2>1, <3>1, InDatabases
  <2>4. QED
    BY <2>2, <2>3
<1>11. QED
  BY <1>2, <1>6, <1>7, <1>8, <1>9, <1>10, DirectoriesEdited

\* An account is made: by hand, at a first sign-in, by an import.
LEMMA LocalMade ==
  ASSUME Account!AccountInv, NEW r \in Requests, NEW n \in Names, NEW role \in Account!Roles,
         NEW approved \in BOOLEAN, Account!NewLocal(r, n, role, approved)
  PROVE  Account!AccountInv'
<1> DEFINE u == [kind |-> "local", role |-> role, active |-> approved, approved |-> approved, server |-> None]
<1>1. Account!Free(n) /\ Account!Opens(r, "new", [db EXCEPT ![n] = u])
  BY DEF Account!NewLocal
<1>2. u \in Account!UserRows
  BY Zenon DEF Account!UserRows
<1>3. u.kind = "local" /\ u.server = None
  OBVIOUS
<1>4. "new" \in Account!Ops
  BY DEF Account!Ops
<1> HIDE DEF u
<1>5. QED
  BY <1>1, <1>2, <1>3, <1>4, AccountMade

\* A directory's account
LEMMA LdapMade ==
  ASSUME Account!AccountInv, NEW r \in Requests, NEW op \in Account!Ops, NEW n \in Names, NEW s \in Servers,
         NEW role \in Account!Roles, Account!Free(n), db[s] # Gone,
         Account!Opens(r, op, [db EXCEPT ![n] = Account!NewLdap(n, s, role)])
  PROVE  Account!AccountInv'
<1> DEFINE u == Account!NewLdap(n, s, role)
<1>1. u \in Account!UserRows
  BY DEF Account!UserRows, Account!NewLdap
<1>2. u.kind = "ldap" /\ u.server = s
  BY DEF Account!NewLdap
<1>3. s # None
  BY AccountKeys
<1>4. Account!Opens(r, op, [db EXCEPT ![n] = u])
  OBVIOUS
<1> HIDE DEF u
<1>5. QED
  BY <1>1, <1>2, <1>3, <1>4, AccountMade

\* A first sign-in makes one.
LEMMA FirstTime ==
  ASSUME Account!AccountInv, NEW r \in Requests, NEW n \in Names, NEW s \in Servers, Account!FirstSignIn(r, n, s)
  PROVE  Account!AccountInv'
<1>1. Account!Free(n) /\ db[s] # Gone
  BY DEF Account!FirstSignIn
<1>2. PICK m \in (SUBSET Account!ActiveRules(db, s)) \ {{}} :
        Account!Opens(r, "first sign-in",
                      [db EXCEPT ![n] = Account!NewLdap(n, s, Account!HighestRole({db[k].role : k \in m}))])
  BY DEF Account!FirstSignIn
<1>3. Account!HighestRole({db[k].role : k \in m}) \in Account!Roles /\ "first sign-in" \in Account!Ops
  BY DEF Account!HighestRole, Account!Roles, Account!Ops
<1>4. QED
  BY <1>1, <1>2, <1>3, LdapMade

\* An import does.
LEMMA Imported ==
  ASSUME Account!AccountInv, NEW r \in Requests, NEW n \in Names, NEW s \in Servers, Account!Import(r, n, s)
  PROVE  Account!AccountInv'
<1>1. Account!Free(n) /\ db[s] # Gone
  BY DEF Account!Import
<1>2. PICK role \in IF Account!SetsRoles(db, s) THEN Account!RolesGiven(db, s) ELSE {"operator"} :
        Account!Opens(r, "import", [db EXCEPT ![n] = Account!NewLdap(n, s, role)])
  BY DEF Account!Import
<1>3. role \in Account!Roles /\ "import" \in Account!Ops
  BY RolesAre DEF Account!Roles, Account!Ops
<1>4. QED
  BY <1>1, <1>2, <1>3, LdapMade

\* Nothing is open.
LEMMA AccountInit == ASSUME Account!Init PROVE Account!AccountInv
<1>1. db \in AccountRows /\ tx = [r \in Requests |-> Gone] /\ served = 0
  BY DEF Account!Init
<1>2. db \in Account!Databases /\ served \in 0..MaxRequests
  BY <1>1, AccountsAssumption
<1>3. tx \in [Requests -> Account!Transactions \cup {Gone}] /\ \A r \in Requests : tx[r] = Gone
  BY <1>1
<1>4. QED
  BY <1>2, <1>3 DEF Account!AccountInv

\* A step commits a request, or opens one.
LEMMA AccountStep ==
  ASSUME Account!AccountInv, Account!Next
  PROVE  /\ Account!AccountInv'
         /\ \E r \in Requests : Account!Commits(r) \/ \E op, e : Account!Opens(r, op, e)
<1> DEFINE Opened(r) == Account!AccountInv' /\ \E op, e : Account!Opens(r, op, e)
           Actions == {"approve", "enable", "disable", "promote", "demote", "delete"}
<1>1. ASSUME NEW r \in Requests, Account!ResetAdmin(r) PROVE Opened(r)
  <2>1. Account!AccountInv'
    BY <1>1, FactoryReset
  <2>2. QED
    BY <1>1, <2>1, Zenon DEF Account!ResetAdmin
<1>2. ASSUME NEW r \in Requests, NEW me, NEW ticked \in SUBSET Account!Users(db), NEW a \in Actions,
             Account!UserAction(r, me, a, ticked)
      PROVE  Opened(r)
  <2>1. Account!AccountInv'
    BY <1>2, UserActs
  <2>2. QED
    BY <1>2, <2>1, Zenon DEF Account!UserAction
<1>3. ASSUME NEW r \in Requests, NEW me, NEW s \in Servers, NEW deleteUsers \in BOOLEAN,
             Account!DeleteServer(r, me, s, deleteUsers)
      PROVE  Opened(r)
  <2>1. Account!AccountInv'
    BY <1>3, DirectoryGoes
  <2>2. QED
    BY <1>3, <2>1, Zenon DEF Account!DeleteServer
<1>4. ASSUME NEW r \in Requests, NEW n \in Account!Users(db), Account!LdapSignIn(r, n) \/ Account!WrongPasswords(r, n)
      PROVE  Opened(r)
  <2>1. Account!AccountInv'
    BY <1>4, SignedInByDirectory, WrongOnes
  <2>2. QED
    BY <1>4, <2>1, Zenon DEF Account!LdapSignIn, Account!WrongPasswords
<1>5. ASSUME NEW r \in Requests, NEW n \in Names, NEW role \in Account!Roles, NEW approved \in BOOLEAN,
             Account!NewLocal(r, n, role, approved)
      PROVE  Opened(r)
  <2>1. Account!AccountInv'
    BY <1>5, LocalMade
  <2>2. QED
    BY <1>5, <2>1, Zenon DEF Account!NewLocal
<1>6. ASSUME NEW r \in Requests, NEW n \in Names, NEW s \in Servers,
             Account!FirstSignIn(r, n, s) \/ Account!Import(r, n, s)
      PROVE  Opened(r)
  <2>1. Account!AccountInv'
    BY <1>6, FirstTime, Imported
  <2>2. QED
    BY <1>6, <2>1, Zenon DEF Account!FirstSignIn, Account!Import
<1>7. ASSUME NEW r \in Requests, NEW names \in SUBSET Account!Users(db), NEW s \in Servers,
             Account!Reconnect(r, names, s)
      PROVE  Opened(r)
  <2>1. Account!AccountInv'
    BY <1>7, Reconnected
  <2>2. QED
    BY <1>7, <2>1, Zenon DEF Account!Reconnect
<1>8. ASSUME NEW r \in Requests, NEW s \in Servers, NEW on \in BOOLEAN, NEW regular \in BOOLEAN,
             Account!SaveServer(r, s, on, regular)
      PROVE  Opened(r)
  <2>1. Account!AccountInv'
    BY <1>8, DirectorySaved
  <2>2. QED
    BY <1>8, <2>1, Zenon DEF Account!SaveServer
<1>9. ASSUME NEW r \in Requests, NEW k \in Account!Rules, Account!SaveRule(r, k) PROVE Opened(r)
  <2>1. Account!AccountInv'
    BY <1>9, RuleSaved
  <2>2. QED
    BY <1>9, <2>1, Zenon DEF Account!SaveRule
<1> DEFINE Asked(r) ==
      \/ Account!ResetAdmin(r)
      \/ \E me \in Account!Users(db) :
           \/ \E ticked \in SUBSET Account!Users(db), a \in Actions : Account!UserAction(r, me, a, ticked)
           \/ \E s \in Servers, deleteUsers \in BOOLEAN : Account!DeleteServer(r, me, s, deleteUsers)
      \/ \E n \in Account!Users(db) : Account!LdapSignIn(r, n) \/ Account!WrongPasswords(r, n)
      \/ \E n \in Names : \E role \in Account!Roles, approved \in BOOLEAN : Account!NewLocal(r, n, role, approved)
      \/ \E n \in Names, s \in Servers : Account!FirstSignIn(r, n, s) \/ Account!Import(r, n, s)
      \/ \E names \in SUBSET Account!Users(db), s \in Servers : Account!Reconnect(r, names, s)
      \/ \E s \in Servers, on \in BOOLEAN, regular \in BOOLEAN : Account!SaveServer(r, s, on, regular)
      \/ \E k \in Account!Rules : Account!SaveRule(r, k)
<1>10. PICK r \in Requests : Account!Commits(r) \/ Asked(r)
  BY Zenon DEF Account!Next
<1> HIDE DEF Opened
<1>11. ASSUME Asked(r) PROVE Opened(r)
  BY <1>1, <1>2, <1>3, <1>4, <1>5, <1>6, <1>7, <1>8, <1>9, <1>11, Zenon
<1>12. ASSUME Account!Commits(r) PROVE Account!AccountInv'
  BY <1>12, AccountCommits
<1>13. QED
  BY <1>10, <1>11, <1>12 DEF Opened

\* So does a step of nothing.
LEMMA AccountFrame == ASSUME Account!AccountInv, UNCHANGED <<rowVars, served>> PROVE Account!AccountInv'
<1>1. db' = db /\ tx' = tx /\ served' = served
  BY DEF rowVars
<1>2. QED
  BY <1>1 DEF Account!AccountInv

\* What the states show
LEMMA AccountStates == ASSUME Account!AccountInv PROVE Account!TypeOK /\ Account!FactoryStays
<1>1. db \in Account!Databases /\ served \in 0..MaxRequests /\ Factory \in Names
  BY AccountsAssumption DEF Account!AccountInv
<1>2. Account!TypeOK
  BY <1>1, InDatabases DEF Account!TypeOK, Account!Users
<1>3. Account!FactoryStays
  BY <1>1, InDatabases DEF Account!FactoryStays, Account!Users
<1>4. QED
  BY <1>2, <1>3

\* While a request opens, none is committed.
LEMMA AccountOpening ==
  ASSUME NEW r \in Requests, NEW op, NEW e, Account!AccountInv, Account!Opens(r, op, e)
  PROVE  ~Account!CommitsAlone
<1> DEFINE t == [op |-> op, read |-> db, wrote |-> e, lost |-> {}]
<1>1. tx[r] = Gone /\ tx' = [tx EXCEPT ![r] = t]
  BY DEF Account!Opens
<1> HIDE DEF t
<1>2. \A q \in Requests : q # r => tx'[q] = tx[q]
  BY <1>1 DEF Account!AccountInv
<1>3. QED
  BY <1>1, <1>2 DEF Account!CommitsAlone

\* The request that a commit ends is the one that is committed.
LEMMA OneCommits ==
  ASSUME Account!AccountInv, NEW r \in Requests, Account!Commits(r)
  PROVE  Account!Committed = tx[r] /\ (Account!CommitsAlone => tx[r].read = db /\ tx[r].lost = {})
<1>1. /\ tx[r] # Gone /\ tx'[r] = Gone /\ tx' \in [Requests -> Account!Transactions \cup {Gone}]
      /\ \A q \in Requests \ {r} : tx[q] # Gone =>
           tx'[q] = [op |-> tx[q].op, read |-> tx[q].read, wrote |-> tx[q].wrote,
                     lost |-> tx[q].lost \cup Account!LostOf(tx[q])]
  BY AccountClosed
<1>2. ASSUME NEW q \in Requests, tx[q] # Gone, tx'[q] = Gone PROVE q = r
  <2> SUFFICES ASSUME q # r PROVE FALSE
    OBVIOUS
  <2> DEFINE t == [op |-> tx[q].op, read |-> tx[q].read, wrote |-> tx[q].wrote,
                   lost |-> tx[q].lost \cup Account!LostOf(tx[q])]
  <2>1. tx'[q] = t
    BY <1>1, <1>2
  <2>2. tx[q] \in Account!Transactions
    BY <1>2 DEF Account!AccountInv
  <2>3. Account!LostOf(tx[q]) \subseteq Account!Keys
    BY DEF Account!LostOf
  <2>4. t \in Account!Transactions
    BY <2>2, <2>3 DEF Account!Transactions
  <2>5. QED
    BY <1>2, <2>1, <2>4, AccountsAssumption
<1>3. Account!Committed = tx[r]
  BY <1>1, <1>2, Zenon DEF Account!Committed
<1>4. Account!CommitsAlone => tx[r].read = db /\ tx[r].lost = {}
  BY <1>2 DEF Account!CommitsAlone
<1>5. QED
  BY <1>3, <1>4

\* A set of names counts no more than a set that holds it, and one name counts as one.
LEMMA NamesCount ==
  /\ \A S, T : S \subseteq T /\ T \subseteq Names =>
       /\ Account!Cardinality(S) \in Nat /\ Account!Cardinality(T) \in Nat
       /\ Account!Cardinality(S) <= Account!Cardinality(T)
  /\ \A n : Account!Cardinality({n}) = 1
<1>1. \A S : Account!Cardinality(S) = Cardinality(S)
  BY DEF Account!Cardinality, Cardinality
<1>2. ASSUME NEW S, NEW T, S \subseteq T, T \subseteq Names
      PROVE  Cardinality(S) \in Nat /\ Cardinality(T) \in Nat /\ Cardinality(S) <= Cardinality(T)
  <2>1. IsFiniteSet(T)
    BY <1>2, AccountsAssumption, FS_Subset
  <2>2. IsFiniteSet(S) /\ Cardinality(S) <= Cardinality(T)
    BY <1>2, <2>1, FS_Subset
  <2>3. QED
    BY <2>1, <2>2, FS_CardinalityType
<1>3. \A n : Cardinality({n}) = 1
  BY FS_Singleton
<1>4. QED
  BY <1>1, <1>2, <1>3

\* What the steps keep
LEMMA AccountSteps ==
  ASSUME Account!AccountInv, Account!Next
  PROVE  Account!LastAdminStays /\ Account!WayInFirst /\ Account!OnePerName
<1>1. ASSUME ~Account!CommitsAlone PROVE Account!LastAdminStays /\ Account!WayInFirst /\ Account!OnePerName
  BY <1>1, Zenon DEF Account!LastAdminStays, Account!WayInFirst, Account!OnePerName
<1>2. ASSUME Account!CommitsAlone, NEW r \in Requests, Account!Commits(r)
      PROVE  Account!LastAdminStays /\ Account!WayInFirst /\ Account!OnePerName
  <2>1. Account!Committed = tx[r] /\ tx[r].read = db /\ tx[r].lost = {} /\ tx[r] # Gone
    BY <1>2, OneCommits, AccountClosed
  <2>2. db' = db \/ db' = tx[r].wrote
    BY <1>2, <2>1, AccountAlone
  <2>3. Account!WhenAlone(tx[r])
    BY <2>1 DEF Account!AccountInv
  <2>4. CASE db' = db
    <3>1. Account!LastAdminStays
      BY <2>4 DEF Account!LastAdminStays
    <3>2. Account!WayInFirst
      BY <2>4 DEF Account!WayInFirst
    <3>3. Account!OnePerName
      BY <2>4 DEF Account!OnePerName
    <3>4. QED
      BY <3>1, <3>2, <3>3
  <2>5. CASE db' = tx[r].wrote
    <3>1. Account!LastAdminStays
      BY <2>1, <2>3, <2>5 DEF Account!LastAdminStays, Account!WhenAlone
    <3>2. Account!WayInFirst
      BY <2>1, <2>3, <2>5 DEF Account!WayInFirst, Account!WhenAlone
    <3>3. Account!OnePerName
      <4> SUFFICES ASSUME NEW n \in Account!Users(db'), Account!Cardinality(Account!ByNameCi(db', n)) > 1
                   PROVE  Account!Cardinality(Account!ByNameCi(db, n)) > 1
        BY DEF Account!OnePerName
      <4>1. \/ Account!ByNameCi(db', n) = {n}
            \/ Account!ByNameCi(db', n) \subseteq Account!ByNameCi(db, n)
        BY <2>1, <2>3, <2>5 DEF Account!WhenAlone
      <4>2. Account!ByNameCi(db, n) \subseteq Names
        BY DEF Account!ByNameCi, Account!Users
      <4>3. QED
        BY <4>1, <4>2, NamesCount
    <3>4. QED
      BY <3>1, <3>2, <3>3
  <2>6. QED
    BY <2>2, <2>4, <2>5
<1>3. PICK r \in Requests : Account!Commits(r) \/ \E op, e : Account!Opens(r, op, e)
  BY AccountStep
<1>4. CASE \E op, e : Account!Opens(r, op, e)
  BY <1>1, <1>4, AccountOpening
<1>5. QED
  BY <1>1, <1>2, <1>3, <1>4

\* Accounts, for any usernames, directories and requests: whatever is committed in whatever order, every row
\* keeps its columns and the factory admin stays a local administrator; and a request that runs alone never
\* takes the last administrator away, leaves an active account without a directory, or makes a second
\* account of a name in other capitals.
THEOREM AccountsKept == Spec => AccountsSafe
<1> DEFINE Inv == part = "accounts" => Account!AccountInv
<1>1. Init => Inv
  BY AccountInit DEF Init
<1>2. Inv /\ [Next]_vars => Inv'
  <2> SUFFICES ASSUME Inv, [Next]_vars, part' = "accounts" PROVE Account!AccountInv'
    OBVIOUS
  <2>1. CASE Next
    <3>1. part = "accounts" /\ Account!Next
      BY <2>1 DEF Next
    <3>2. QED
      BY <3>1, AccountStep
  <2>2. CASE UNCHANGED vars
    <3>1. part = "accounts" /\ UNCHANGED <<rowVars, served>>
      BY <2>2 DEF vars
    <3>2. QED
      BY <3>1, AccountFrame
  <2>3. QED
    BY <2>1, <2>2
<1>3. Inv => (part = "accounts" => Account!TypeOK /\ Account!FactoryStays)
  BY AccountStates
<1>4. Inv /\ [Next]_vars =>
        [part = "accounts" => Account!LastAdminStays /\ Account!WayInFirst /\ Account!OnePerName]_vars
  BY AccountSteps DEF Next
<1>5. QED
  BY <1>1, <1>2, <1>3, <1>4, PTL DEF Spec, AccountsSafe
=============================================================================
