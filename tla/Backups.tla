------------------------------ MODULE Backups ------------------------------
(***************************************************************************)
(* Backups are made and restored (src/src/backup/archive.py) by the app's  *)
(* scheduler (src/src/backup/schedule.py) and by the scripts' one-off      *)
(* processes (src/src/backup/__main__.py), one at a time under a lock file *)
(* in the backups folder.  A process may be killed at any step: its lock   *)
(* stays until nobody has refreshed it for long enough, and is taken over. *)
(***************************************************************************)
EXTENDS Naturals, FiniteSets

CONSTANTS
  Scripts, Scheduler,     \* who works in the folder
  Keys,                   \* encryption keys: this install's, and the ones of backups from elsewhere
  AppKey,                 \* this install's
  Elsewhere,              \* backups brought from elsewhere: [key, good], good: the key decrypts the rows
  Period, RetryAfter,     \* between two scheduled times; before a failed backup is tried again
  Keep,                   \* backup_keep
  MaxTime, MaxKills, MaxFaults, MaxWorks

VARIABLES
  lock,      \* the lock file: [token, stale]: whose it is (0: there is none), and whether its time is too old
  folder,    \* the backups: [kind, stamp, key]
  partials,  \* how many half-written backups killed processes left
  db,        \* the key that the database's credentials are encrypted with
  keys,      \* the keys at hand: [env, out]: in .env, and in the hand-over file (a set: none or one)
  work,      \* worker -> what it does
  status,    \* the scheduler's last outcome: [time, ok]
  made,      \* every backup that was ever complete
  count      \* [now, kills, faults, works], and what happened: [left: locks that nobody refreshes, without a
             \* kill; staled: a lock has gone stale; cut: restores cut off from their commit]

vars == <<lock, folder, partials, db, keys, work, status, made, count>>

Workers == Scripts \cup {Scheduler}
Work(there, does, token, stamp, from) ==
  [at |-> there, does |-> does, token |-> token, sees |-> 0, stamp |-> stamp, key |-> from.key,
   good |-> from.good, done |-> FALSE]
Idle == Work("idle", "none", 0, 0, [key |-> AppKey, good |-> TRUE])
NoLock == [token |-> 0, stale |-> FALSE]

Init ==
  /\ lock = NoLock /\ folder = {} /\ partials = 0 /\ made = {}
  /\ db = AppKey /\ keys = [env |-> AppKey, out |-> {}]
  /\ work = [w \in Workers |-> Idle]
  /\ status = [time |-> 0, ok |-> TRUE]
  /\ count = [now |-> 1, kills |-> 0, faults |-> 0, works |-> 0, left |-> 0, staled |-> FALSE, cut |-> 0]

Becomes(w, next) == work' = [work EXCEPT ![w] = next]
At(p, there) == [p EXCEPT !.at = there]
Goes(w, there) == Becomes(w, At(work[w], there))
Leaves(w) == Becomes(w, Idle)
\* The scheduler notes how it went before it is done.
GivesUp(w) == IF w = Scheduler THEN Goes(w, "failed") ELSE Leaves(w)

-----------------------------------------------------------------------------
(* When the scheduler makes one *)

\* last_slot: a scheduled time every Period
LastSlot == (count.now \div Period) * Period
Scheduled(backups) == {b \in backups : b.kind = "scheduled"}

\* (a plausible bug: a backup made at the scheduled time itself does not count)
MadeSinceAfter(slot) == \E b \in Scheduled(folder) : b.stamp > slot
\* newest_scheduled is at or after the slot
MadeSince(slot) == \E b \in Scheduled(folder) : b.stamp >= slot

\* due: a time has passed without a backup since, and no failure for it lately
Due ==
  /\ LastSlot > 0 /\ ~MadeSince(LastSlot)
  /\ ~(~status.ok /\ status.time >= LastSlot /\ count.now - status.time < RetryAfter)

-----------------------------------------------------------------------------
(* The lock *)

Begins(w, does, from) ==
  /\ work[w].at = "idle" /\ count.works < MaxWorks
  /\ count' = [count EXCEPT !.works = @ + 1]
  /\ Becomes(w, Work("stat", does, count.works + 1, count.now, from))
  /\ UNCHANGED <<lock, folder, partials, db, keys, status, made>>

\* tick, unless a database move runs
Ticks == Due /\ Begins(Scheduler, "scheduled", [key |-> keys.env, good |-> TRUE])
Creates(w) == Begins(w, "manual", [key |-> keys.env, good |-> TRUE])
\* restore: a backup that check() accepts; the person at the server runs one at a time
Restores(w) ==
  /\ \A v \in Workers : work[v].does # "restore"
  /\ \E from \in Elsewhere \cup {[key |-> b.key, good |-> TRUE] : b \in folder} : Begins(w, "restore", from)

Saw(p) == [p EXCEPT !.at = IF lock.stale THEN "compare" ELSE "open", !.sees = lock.token]

\* _take_over_stale: looked at, compared, removed
Stats(w) ==
  /\ work[w].at = "stat"
  /\ Becomes(w, Saw(work[w]))
  /\ UNCHANGED <<lock, folder, partials, db, keys, status, made, count>>

Compares(w) ==
  /\ work[w].at = "compare"
  /\ Goes(w, IF lock.stale /\ lock.token = work[w].sees THEN "unlink" ELSE "open")
  /\ UNCHANGED <<lock, folder, partials, db, keys, status, made, count>>

\* The file of that name goes, and with it what killed backups left, once it is old enough.
Unlinks(w) ==
  /\ work[w].at = "unlink"
  /\ lock' = NoLock /\ partials' \in {0, partials}
  /\ Goes(w, "open")
  /\ UNCHANGED <<folder, db, keys, status, made, count>>

\* (a plausible bug: the lock is opened without O_EXCL, and written over another worker's)
LockFreeShared == TRUE
\* O_CREAT | O_EXCL
LockFree == lock.token = 0

\* The lock is mine, or another backup or restore is running.
Opens(w) ==
  /\ work[w].at = "open"
  /\ IF LockFree
     THEN /\ lock' = [token |-> work[w].token, stale |-> FALSE]
          /\ Goes(w, IF work[w].does = "restore" THEN "key" ELSE "dump") /\ UNCHANGED status
     ELSE GivesUp(w) /\ UNCHANGED lock
  /\ UNCHANGED <<folder, partials, db, keys, status, made, count>>

\* Made, but it can't be written, or the heartbeat's thread can't be started: the file stays.
MakesNoLock(w) ==
  /\ work[w].at = "open" /\ LockFree /\ count.faults < MaxFaults
  /\ lock' = [token |-> work[w].token, stale |-> FALSE]
  /\ count' = [count EXCEPT !.faults = @ + 1, !.left = @ + 1]
  /\ GivesUp(w)
  /\ UNCHANGED <<folder, partials, db, keys, status, made>>

\* Between the making of its lock and its giving back, a worker's heartbeat runs.
Past == {"dump", "published", "release", "key", "commit", "files"}
Beating == {w \in Workers : work[w].at \in Past /\ work[w].token = lock.token}

\* The heartbeat keeps a lock fresh, unless the file's time can't be set: it ends.
GoesStale ==
  /\ lock.token # 0 /\ ~lock.stale
  /\ lock' = [lock EXCEPT !.stale = TRUE]
  /\ \/ Beating = {} /\ count' = [count EXCEPT !.staled = TRUE]
     \/ Beating # {} /\ count.faults < MaxFaults
        /\ count' = [count EXCEPT !.staled = TRUE, !.faults = @ + 1, !.left = @ + 1]
  /\ UNCHANGED <<folder, partials, db, keys, work, status, made>>

\* __exit__: removed while it is still its own.  Only then does the scheduler go on to prune, and a
\* restore to hand its key to the scripts.
AfterRelease(w) == CASE work[w].at = "published" -> "prune" [] work[w].done -> "restored" [] OTHER -> "none"
Releases(w) ==
  /\ work[w].at \in {"published", "release"}
  /\ lock' = IF lock.token = work[w].token THEN NoLock ELSE lock
  /\ IF AfterRelease(w) = "none" THEN GivesUp(w) ELSE Goes(w, AfterRelease(w))
  /\ UNCHANGED <<folder, partials, db, keys, status, made, count>>

-----------------------------------------------------------------------------
(* A backup *)

Backup(w) == [kind |-> work[w].does, stamp |-> work[w].stamp, key |-> work[w].key]

\* (a plausible bug: the newest are deleted)
PrunedNewest(backups) ==
  {b \in Scheduled(backups) : Cardinality({c \in Scheduled(backups) : c.stamp < b.stamp}) >= Keep}
\* prune: the scheduled ones beyond the newest Keep
Pruned(backups) ==
  {b \in Scheduled(backups) : Cardinality({c \in Scheduled(backups) : c.stamp > b.stamp}) >= Keep}

\* The tables from one snapshot, Grafana, the certificates, the logs and the key, then renamed.
Publishes(w) ==
  /\ work[w].at = "dump"
  /\ made' = made \cup {Backup(w)}
  /\ folder' = folder \cup {Backup(w)}
  /\ Goes(w, IF w = Scheduler THEN "published" ELSE "release")
  /\ UNCHANGED <<lock, partials, db, keys, status, count>>

\* Past the lock; one of the files may not go, and then the others stay too.
Prunes ==
  /\ work[Scheduler].at = "prune"
  /\ \/ folder' = folder \ Pruned(folder) /\ Goes(Scheduler, "pruned") /\ UNCHANGED count
     \/ /\ count.faults < MaxFaults /\ count' = [count EXCEPT !.faults = @ + 1]
        /\ \E gone \in SUBSET Pruned(folder) : folder' = folder \ gone
        /\ Goes(Scheduler, "failed")
  /\ UNCHANGED <<lock, partials, db, keys, status, made>>

\* write_status: an error of any step makes it a failure.
Notes ==
  /\ work[Scheduler].at \in {"pruned", "failed"}
  /\ status' = [time |-> work[Scheduler].stamp, ok |-> work[Scheduler].at = "pruned"]
  /\ Leaves(Scheduler)
  /\ UNCHANGED <<lock, folder, partials, db, keys, made, count>>

\* No file is left of a backup that failed.
CreateFails(w) ==
  /\ work[w].at = "dump" /\ count.faults < MaxFaults
  /\ count' = [count EXCEPT !.faults = @ + 1]
  /\ Goes(w, "release")
  /\ UNCHANGED <<lock, folder, partials, db, keys, status, made>>

-----------------------------------------------------------------------------
(* A restore *)

\* (a plausible bug: the key is handed over once the database is restored)
HandedOverAfter(w) == {}
\* The key is handed over before the commit.
HandedOver(w) == {work[w].key}

HandsOver(w) ==
  /\ work[w].at = "key"
  /\ keys' = [keys EXCEPT !.out = HandedOver(w)]
  /\ Goes(w, "commit")
  /\ UNCHANGED <<lock, folder, partials, db, status, made, count>>

\* (a plausible bug: the backup's key is not tried on its rows)
KeyFitsUntried(w) == TRUE
\* _check_key
KeyFits(w) == work[w].good

Restored(p) == [p EXCEPT !.at = "files", !.done = TRUE]

Commits(w) ==
  /\ work[w].at = "commit" /\ KeyFits(w)
  /\ db' = IF work[w].good THEN work[w].key ELSE "another"
  /\ Becomes(w, Restored(work[w]))
  /\ UNCHANGED <<lock, folder, partials, keys, status, made, count>>

\* Refused or failed before the commit: the key file goes again.
RestoreFails(w) ==
  /\ work[w].at \in {"key", "commit"}
  /\ \/ ~KeyFits(w) /\ work[w].at = "commit" /\ UNCHANGED count
     \/ count.faults < MaxFaults /\ count' = [count EXCEPT !.faults = @ + 1]
  /\ keys' = [keys EXCEPT !.out = {}]
  /\ Goes(w, "release")
  /\ UNCHANGED <<lock, folder, partials, db, status, made>>

\* The commit's answer is lost: taken for a failure, and the key file goes, but the database is restored.
CommitAnswerLost(w) ==
  /\ work[w].at = "commit" /\ KeyFits(w) /\ count.faults < MaxFaults
  /\ count' = [count EXCEPT !.faults = @ + 1, !.cut = @ + 1]
  /\ db' = IF work[w].good THEN work[w].key ELSE "another"
  /\ keys' = [keys EXCEPT !.out = {}]
  /\ Goes(w, "release")
  /\ UNCHANGED <<lock, folder, partials, status, made>>

\* The files, each tried: some may fail (FilesIncomplete), the database stays restored.
RestoresFiles(w) ==
  /\ work[w].at = "files" /\ Goes(w, "release")
  /\ UNCHANGED <<lock, folder, partials, db, keys, status, made, count>>

\* restore_key: the scripts put the key that was handed over into .env.
SavesKey(w) ==
  /\ work[w].at = "restored"
  /\ keys' = [env |-> IF keys.out = {} THEN keys.env ELSE CHOOSE k \in keys.out : TRUE, out |-> {}]
  /\ Leaves(w)
  /\ UNCHANGED <<lock, folder, partials, db, status, made, count>>

-----------------------------------------------------------------------------
(* Kills and the clock *)

\* Killed: its files stay, its lock and the key that it handed over too.
Killed(w) ==
  /\ work[w].at # "idle" /\ count.kills < MaxKills
  /\ count' = [count EXCEPT !.kills = @ + 1, !.cut = IF work[w].done THEN @ + 1 ELSE @]
  /\ partials' = IF work[w].at = "dump" THEN partials + 1 ELSE partials
  /\ Leaves(w)
  /\ UNCHANGED <<lock, folder, db, keys, status, made>>

Time ==
  /\ count.now < MaxTime
  /\ count' = [count EXCEPT !.now = @ + 1]
  /\ UNCHANGED <<lock, folder, partials, db, keys, work, status, made>>

-----------------------------------------------------------------------------

Step(w) ==
  \/ Stats(w) \/ Compares(w) \/ Unlinks(w) \/ Opens(w) \/ MakesNoLock(w) \/ Releases(w)
  \/ Publishes(w) \/ CreateFails(w) \/ HandsOver(w) \/ Commits(w) \/ CommitAnswerLost(w) \/ RestoreFails(w)
  \/ RestoresFiles(w) \/ SavesKey(w) \/ Killed(w)

Next ==
  \/ Ticks \/ GoesStale \/ Prunes \/ Notes \/ Time
  \/ \E w \in Workers : Step(w)
  \/ \E w \in Scripts : Creates(w) \/ Restores(w)

Spec == Init /\ [][Next]_vars

-----------------------------------------------------------------------------
(* Properties *)

\* The folder holds complete backups only, with keys.
TypeOK ==
  /\ folder \subseteq made /\ db \in Keys /\ keys.env \in Keys /\ keys.out \subseteq Keys

\* A scheduled time that was missed, failed or interrupted is caught up once: never two scheduled
\* backups between one scheduled time and the next.
OncePerSlot ==
  \A b, c \in Scheduled(made) : b.stamp \div Period = c.stamp \div Period => b = c

\* Only scheduled backups are deleted by retention, and only with Keep newer ones in the folder.
Retained ==
  \A b \in made \ folder :
    /\ b.kind = "scheduled"
    /\ Cardinality({c \in Scheduled(folder) : c.stamp > b.stamp}) >= Keep

\* Until a restore is cut off from its commit (killed after it and before the scripts have the key, or
\* its answer lost), some key at hand (in .env, or handed over) decrypts the database at every moment,
\* whether a restore is refused, fails, is killed before its commit or goes through.
KeyAtHand == count.cut = 0 => db \in {keys.env} \cup keys.out

\* restore(): "a restored database always comes with its key", those cut off included
KeyAlwaysAtHand == db \in {keys.env} \cup keys.out

\* BackupLock: "one backup or restore at a time per backups folder"
Inside == {w \in Workers : work[w].at \in {"dump", "key", "commit", "files"}}
OneAtATime == Cardinality(Inside) <= 1

\* The lock lets nobody in beside its holder, through whatever order of failed, refused, killed and
\* finished works, until a lock goes stale; and none does before a process was killed or left its lock
\* without anybody to refresh it.
OneWorks ==
  /\ ~count.staled => OneAtATime
  /\ count.kills = 0 /\ count.left = 0 => ~count.staled

-----------------------------------------------------------------------------
(***************************************************************************)
(* Why they hold.  Only the scheduler makes scheduled backups, one at a    *)
(* time, and when it began there was none since the scheduled time: what   *)
(* retention deleted has newer ones in the folder.  A restore that may     *)
(* have committed keeps its key handed over until the scripts save it, and *)
(* no other restore begins before that.  Every work has a token of its     *)
(* own, and until a lock goes stale the one there is has the token of the  *)
(* one worker that is past it; before a process is killed or leaves its    *)
(* lock, that worker refreshes it, so that it doesn't go stale.            *)
(***************************************************************************)
Works == [at : {"idle", "stat", "compare", "unlink", "open", "dump", "published", "prune", "pruned", "failed",
                "release", "key", "commit", "files", "restored"},
          does : {"none", "scheduled", "manual", "restore"}, token : Nat, sees : Nat, stamp : Nat,
          key : Keys, good : BOOLEAN, done : BOOLEAN]
Counts == [now : Nat, kills : Nat, faults : Nat, works : Nat, left : Nat, staled : BOOLEAN, cut : Nat]
Typed ==
  /\ made \subseteq [kind : {"none", "scheduled", "manual", "restore"}, stamp : Nat, key : Keys]
  /\ IsFiniteSet(made) /\ folder \subseteq made
  /\ db \in Keys /\ keys \in [env : Keys, out : SUBSET Keys]
  /\ work \in [Workers -> Works] /\ lock \in [token : Nat, stale : BOOLEAN]
  /\ count \in Counts

\* What a worker may be doing where it is.
Busy(w) ==
  /\ work[w].at \in {"idle", "published", "prune", "pruned", "failed"} => ~work[w].done
  /\ work[w].at \in {"published", "prune", "pruned", "failed"} => w = Scheduler
  /\ work[w].does = "none" => work[w].at = "idle"
  /\ work[w].does \in {"none", "scheduled"} \/ w # Scheduler
  /\ work[w].does # "scheduled" \/ w = Scheduler
  /\ work[w].at = "dump" => work[w].does \in {"scheduled", "manual"}
  /\ work[w].at \in {"key", "commit", "files", "restored"} \/ work[w].done => work[w].does = "restore"
  /\ work[w].at \in {"stat", "compare", "unlink", "open", "dump", "key", "commit"} => ~work[w].done
  /\ work[w].at \in {"files", "restored"} => work[w].done

\* No scheduled backup is as new as the scheduled time that one is being made for.
Slot(stamp) == (stamp \div Period) * Period
SlotOpen ==
  work[Scheduler].at \in {"stat", "compare", "unlink", "open", "dump"} =>
    \A b \in Scheduled(made) : b.stamp < Slot(work[Scheduler].stamp)

\* The key of the database, as long as no restore was cut off.
KeyKept ==
  count.cut = 0 =>
    /\ \A v, w \in Workers : work[v].does = "restore" /\ work[w].does = "restore" => v = w
    /\ \A w \in Workers : /\ work[w].at = "commit" \/ work[w].done => keys.out = {work[w].key}
                          /\ work[w].done => db = work[w].key
    /\ (\A w \in Workers : ~work[w].done) => db = keys.env

TokensDiffer ==
  /\ \A w \in Workers : /\ work[w].at # "idle" => work[w].token > 0
                        /\ work[w].token <= count.works
  /\ \A v, w \in Workers : work[v].token = work[w].token /\ work[v].token > 0 => v = w
LockKept ==
  ~count.staled =>
    /\ ~lock.stale /\ \A w \in Workers : work[w].at \notin {"compare", "unlink"}
    /\ \A w \in Workers : work[w].at \in Past => lock.token = work[w].token
\* Nobody was killed or left a lock: none has gone stale, and the one there is has its heartbeat.
Refreshed ==
  count.kills = 0 /\ count.left = 0 => ~count.staled /\ (lock.token # 0 => Beating # {})
LockInv == TokensDiffer /\ LockKept /\ Refreshed

BackupInv ==
  /\ Typed /\ OncePerSlot /\ Retained /\ SlotOpen /\ KeyKept
  /\ \A w \in Workers : Busy(w)
=============================================================================
