------------------------- MODULE RolloutJobs_proofs -------------------------
(***************************************************************************)
(* Proofs about RolloutJobs, for any rollouts, devices, limits and faults. *)
(***************************************************************************)
EXTENDS RolloutJobs, FiniteSetTheorems, SequenceTheorems, TLAPS

(***************************************************************************)
(* The queue after LREM (JobStore.unqueue): still job ids, each of them    *)
(* there before.                                                           *)
(***************************************************************************)
LEMMA WithoutLosesOnly ==
  ASSUME NEW q \in Seq(Jobs), NEW j
  PROVE  /\ Without(q, j) \in Seq(Jobs)
         /\ \A i \in DOMAIN Without(q, j) : \E k \in DOMAIN q : Without(q, j)[i] = q[k]
<1>1. CASE ~\E i \in DOMAIN q : q[i] = j
  BY <1>1 DEF Without
<1>2. CASE \E i \in DOMAIN q : q[i] = j
  <2> DEFINE n == CHOOSE i \in DOMAIN q : q[i] = j
             a == SubSeq(q, 1, n - 1)
             b == SubSeq(q, n + 1, Len(q))
  <2>1. n \in DOMAIN q
    BY <1>2
  <2>2. n \in 1 .. Len(q) /\ \A i \in 1 .. Len(q) : q[i] \in Jobs
    BY <2>1
  <2> HIDE DEF n
  <2>3. a \in Seq(Jobs) /\ \A i \in 1 .. Len(a) : i \in DOMAIN q /\ a[i] = q[i]
    BY <2>2, SubSeqProperties
  <2>4. b \in Seq(Jobs) /\ \A i \in 1 .. Len(b) : n + i \in DOMAIN q /\ b[i] = q[n + i]
    BY <2>2, SubSeqProperties
  <2>5. Without(q, j) = a \o b
    BY <1>2 DEF Without, SE!RemoveAt, n
  <2> HIDE DEF a, b
  <2>6. /\ a \o b \in Seq(Jobs)
        /\ Len(a \o b) = Len(a) + Len(b)
        /\ \A i \in 1 .. Len(a) + Len(b) :
             (a \o b)[i] = IF i <= Len(a) THEN a[i] ELSE b[i - Len(a)]
    BY <2>3, <2>4, ConcatProperties
  <2>7. ASSUME NEW i \in DOMAIN (a \o b)
        PROVE  \E k \in DOMAIN q : (a \o b)[i] = q[k]
    <3>1. i \in 1 .. Len(a) + Len(b) /\ Len(a) \in Nat /\ Len(b) \in Nat
      BY <2>3, <2>4, <2>6
    <3>2. CASE i <= Len(a)
      BY <2>3, <2>6, <3>1, <3>2
    <3>3. CASE ~(i <= Len(a))
      <4>1. i - Len(a) \in 1 .. Len(b)
        BY <3>1, <3>3
      <4>2. QED
        BY <2>4, <2>6, <3>1, <3>3, <4>1
    <3>4. QED
      BY <3>2, <3>3
  <2>8. QED
    BY <2>5, <2>6, <2>7
<1>3. QED
  BY <1>1, <1>2

(***************************************************************************)
(* The types of what a Redis call leaves behind.                           *)
(***************************************************************************)
StoreTyped ==
  /\ queue \in Seq(Jobs)
  /\ hash \in [Jobs -> Statuses]
  /\ pending \in Int /\ active \in Int

\* Whether a call is answered, refused or lost, Redis is up or away and the
\* faults are counted (REDIS_UNAVAILABLE, RedisConnection._build_client).
LEMMA CallTyped ==
  ASSUME TypeOK, Executed \/ Refused
  PROVE  redisUp' \in BOOLEAN /\ faults' \in Nat
<1>1. redisUp' \in BOOLEAN
  BY Zenon DEF TypeOK, Executed, Refused, Answered, Lost
<1>2. faults' \in Nat
  <2>1. faults' = faults \/ faults' = faults + 1
    BY Zenon DEF Executed, Refused, Answered, Lost, Strikes
  <2>2. QED
    BY <2>1 DEF TypeOK
<1>3. QED
  BY <1>1, <1>2

\* Each JobStore call keeps the keys' types: a queue of job ids, a status per
\* rollout, two integer gauges.
LEMMA StoreCallTyped ==
  ASSUME StoreTyped, NEW j \in Jobs
  PROVE  /\ StoreAdd(j) => StoreTyped'
         /\ StoreEnqueue(j) => StoreTyped'
         /\ StoreNextQueued /\ queue # <<>> => StoreTyped'
         /\ StoreUnqueue(j) => StoreTyped'
         /\ StoreSetStatus(j) => StoreTyped'
         /\ StoreStarted(j) => StoreTyped'
         /\ StoreForget(j) => StoreTyped'
         /\ \A wasRunning : StoreFinished(j, wasRunning) => StoreTyped'
         /\ UNCHANGED StoreKeys => StoreTyped'
<1>1. StoreAdd(j) => StoreTyped'
  BY DEF StoreTyped, StoreAdd, Statuses
<1>2. StoreEnqueue(j) => StoreTyped'
  BY DEF StoreTyped, StoreEnqueue
<1>3. StoreNextQueued /\ queue # <<>> => StoreTyped'
  BY HeadTailProperties DEF StoreTyped, StoreNextQueued
<1>4. StoreUnqueue(j) => StoreTyped'
  BY WithoutLosesOnly DEF StoreTyped, StoreUnqueue
<1>5. StoreSetStatus(j) => StoreTyped'
  BY DEF StoreTyped, StoreSetStatus, Statuses
<1>6. StoreStarted(j) => StoreTyped'
  BY DEF StoreTyped, StoreStarted, Statuses
<1>7. StoreForget(j) => StoreTyped'
  BY DEF StoreTyped, StoreForget, Statuses
<1>8. ASSUME NEW wasRunning, StoreFinished(j, wasRunning) PROVE StoreTyped'
  BY <1>8 DEF StoreTyped, StoreFinished, Statuses
<1>9. UNCHANGED StoreKeys => StoreTyped'
  BY DEF StoreTyped, StoreKeys
<1>10. QED
  BY <1>1, <1>2, <1>3, <1>4, <1>5, <1>6, <1>7, <1>8, <1>9

\* So does the start's clearing of them (JobStore.reset_stale), done or not.
LEMMA StoreResetTyped ==
  ASSUME StoreTyped
  PROVE  StoreResetStale \/ UNCHANGED StoreKeys => StoreTyped'
<1>1. StoreResetStale => StoreTyped'
  BY DEF StoreTyped, StoreResetStale, Statuses
<1>2. UNCHANGED StoreKeys => StoreTyped'
  BY DEF StoreTyped, StoreKeys
<1>3. QED
  BY <1>1, <1>2

\* What a process that ended leaves: no memory, and threads that are nowhere
\* (Shutdown._run's exit, or a crash; _jobs and _held are the process's own).
MemoryTyped ==
  /\ draining \in BOOLEAN /\ paused \in BOOLEAN
  /\ jobs \subseteq Jobs /\ claimed \subseteq Jobs /\ flagged \subseteq Jobs
  /\ added \subseteq Jobs /\ marking \subseteq Jobs /\ drainJobs \subseteq Jobs
  /\ held \in [Targets -> Jobs \cup {NoJob}]
  /\ slots \in Nat /\ saving \in Int
  /\ submit \in [Jobs -> SubmitSteps]
  /\ disp \in [at : {"pop"}, job : {NoJob}] \cup [at : DispatcherSteps \ {"pop"}, job : Jobs]
  /\ work \in [Jobs -> WorkSteps]
  /\ drain \in DrainSteps

LEMMA FreshTyped ==
  ASSUME TypeOK, Fresh
  PROVE  MemoryTyped'
<1>1. draining' \in BOOLEAN /\ paused' \in BOOLEAN
  BY Zenon DEF Fresh
<1>2. submit' \in [Jobs -> SubmitSteps] /\ work' \in [Jobs -> WorkSteps]
  BY DEF TypeOK, Fresh, SubmitSteps, WorkSteps
<1>3. QED
  BY <1>1, <1>2, SlotsAssumption DEF MemoryTyped, Fresh, DrainSteps

-----------------------------------------------------------------------------
\* Every variable of RolloutJobs keeps its type (the shapes of jobs.py's
\* state): no slot is taken that is not free, the queue holds only job ids,
\* and the dispatcher past its BLPOP has a rollout at hand.
THEOREM TypeCorrect == Spec => []TypeOK
<1>1. ASSUME Init PROVE TypeOK
  <2>1. up \in BOOLEAN /\ draining \in BOOLEAN /\ paused \in BOOLEAN /\ redisUp \in BOOLEAN
    BY <1>1, Zenon DEF Init
  <2>2. QED
    BY <1>1, <2>1, SlotsAssumption
      DEF Init, TypeOK, SubmitSteps, WorkSteps, DrainSteps, DispatcherSteps, Statuses
<1>2. TypeOK /\ [Next]_vars => TypeOK'
  <2> SUFFICES ASSUME TypeOK, [Next]_vars PROVE TypeOK'
    OBVIOUS
  <2>1. ASSUME NEW j \in Jobs, SubmitRefused(j) PROVE TypeOK'
    BY <2>1 DEF TypeOK, SubmitRefused, SubmitSteps, memory, redis, history
  <2>2. ASSUME NEW j \in Jobs, SubmitClaim(j) PROVE TypeOK'
    BY <2>2 DEF TypeOK, SubmitClaim, SubmitSteps, redis, history
  <2>3. ASSUME NEW j \in Jobs, SubmitAdd(j) PROVE TypeOK'
    <3>1. StoreTyped' /\ redisUp' \in BOOLEAN /\ faults' \in Nat
      BY <2>3, CallTyped, StoreCallTyped DEF TypeOK, StoreTyped, Executed, SubmitAdd
    <3>2. submit' \in [Jobs -> SubmitSteps] /\ added' \subseteq Jobs
      BY <2>3 DEF TypeOK, SubmitAdd, SubmitSteps
    <3>3. QED
      BY <2>3, <3>1, <3>2 DEF TypeOK, StoreTyped, SubmitAdd, memory
  <2>4. ASSUME NEW j \in Jobs, SubmitDescribe(j) PROVE TypeOK'
    BY <2>4 DEF TypeOK, SubmitDescribe, SubmitSteps, Strikes, memory, redis
  <2>5. ASSUME NEW j \in Jobs, SubmitEnqueue(j) PROVE TypeOK'
    <3>1. StoreTyped' /\ redisUp' \in BOOLEAN /\ faults' \in Nat
      BY <2>5, CallTyped, StoreCallTyped
        DEF TypeOK, StoreTyped, Executed, SubmitEnqueue
    <3>2. submit' \in [Jobs -> SubmitSteps]
      BY <2>5 DEF TypeOK, SubmitEnqueue, SubmitSteps
    <3>3. QED
      BY <2>5, <3>1, <3>2 DEF TypeOK, StoreTyped, SubmitEnqueue, memory
  <2>6. ASSUME NEW j \in Jobs, WithdrawRemove(j) PROVE TypeOK'
    BY <2>6 DEF TypeOK, WithdrawRemove, Remove, SubmitSteps, redis, history
  <2>7. ASSUME NEW j \in Jobs, WithdrawUnqueue(j) PROVE TypeOK'
    <3>1. StoreTyped' /\ redisUp' \in BOOLEAN /\ faults' \in Nat
      BY <2>7, CallTyped, StoreCallTyped
        DEF TypeOK, StoreTyped, Executed, WithdrawUnqueue
    <3>2. QED
      BY <2>7, <3>1 DEF TypeOK, StoreTyped, WithdrawUnqueue, SubmitSteps, memory
  <2>8. ASSUME NEW j \in Jobs, WithdrawGone(j) PROVE TypeOK'
    <3>1. StoreTyped' /\ redisUp' \in BOOLEAN /\ faults' \in Nat
      BY <2>8, CallTyped, StoreCallTyped
        DEF TypeOK, StoreTyped, Executed, WithdrawGone
    <3>2. QED
      BY <2>8, <3>1 DEF TypeOK, StoreTyped, WithdrawGone, SubmitSteps, memory
  <2>9. ASSUME NEW j \in Jobs, Cancel(j) PROVE TypeOK'
    BY <2>9 DEF TypeOK, Cancel, Take, WorkSteps, redis, history
  <2>10. ASSUME NEW j \in Jobs, CancelMark(j) PROVE TypeOK'
    <3>1. StoreTyped' /\ redisUp' \in BOOLEAN /\ faults' \in Nat
      BY <2>10, CallTyped, StoreCallTyped DEF TypeOK, StoreTyped, Executed, CancelMark
    <3>2. QED
      BY <2>10, <3>1 DEF TypeOK, StoreTyped, CancelMark, memory
  <2>11. ASSUME NEW j \in Jobs, EngineEnds(j) PROVE TypeOK'
    BY <2>11 DEF TypeOK, EngineEnds, WorkSteps, memory, redis, history
  <2>12. ASSUME NEW j \in Jobs, CancelQueued(j) PROVE TypeOK'
    <3>1. StoreTyped' /\ redisUp' \in BOOLEAN /\ faults' \in Nat
      BY <2>12, CallTyped, StoreCallTyped
        DEF TypeOK, StoreTyped, Executed, CancelQueued
    <3>2. QED
      BY <2>12, <3>1 DEF TypeOK, StoreTyped, CancelQueued, WorkSteps, memory
  <2>13. ASSUME NEW j \in Jobs, CancelQueuedFails(j) PROVE TypeOK'
    BY <2>13 DEF TypeOK, CancelQueuedFails, Remove, Strikes, WorkSteps, redis
  <2>14. ASSUME NEW j \in Jobs, Finalize(j) PROVE TypeOK'
    BY <2>14 DEF TypeOK, Finalize, Remove, SlotBack, WorkSteps, redis, history
  <2>15. ASSUME NEW j \in Jobs, SaveResults(j) PROVE TypeOK'
    BY <2>15 DEF TypeOK, SaveResults, WorkSteps, redis
  <2>16. ASSUME NEW j \in Jobs, Finish(j) PROVE TypeOK'
    <3>1. StoreTyped' /\ redisUp' \in BOOLEAN /\ faults' \in Nat
      BY <2>16, CallTyped, StoreCallTyped DEF TypeOK, StoreTyped, Executed, Finish
    <3>2. slots' \in Nat
      BY <2>16 DEF TypeOK, Finish, SlotBack
    <3>3. QED
      BY <2>16, <3>1, <3>2 DEF TypeOK, StoreTyped, Finish, WorkSteps
  <2>17. ASSUME DispatchPop PROVE TypeOK'
    <3>1. Head(queue) \in Jobs
      BY <2>17, HeadTailProperties DEF TypeOK, DispatchPop
    <3>2. redisUp' \in BOOLEAN /\ faults' \in Nat
      BY <2>17, CallTyped DEF DispatchPop, Executed
    <3>3. Tail(queue) \in Seq(Jobs)
      BY <2>17, HeadTailProperties DEF TypeOK, DispatchPop
    <3>4. QED
      BY <2>17, <3>1, <3>2, <3>3
        DEF TypeOK, DispatchPop, StoreNextQueued, DispatcherSteps, memory
  <2>18. ASSUME DispatchSlot PROVE TypeOK'
    BY <2>18 DEF TypeOK, DispatchSlot, SlotFree, DispatcherSteps, redis, history
  <2>19. ASSUME DispatchClaim PROVE TypeOK'
    BY <2>19
      DEF TypeOK, DispatchClaim, Claimable, Queued, DispatcherSteps, redis, history
  <2>20. ASSUME DispatchMark PROVE TypeOK'
    <3>1. disp.job \in Jobs
      BY <2>20 DEF TypeOK, DispatchMark
    <3>2. StoreTyped' /\ redisUp' \in BOOLEAN /\ faults' \in Nat
      BY <2>20, <3>1, CallTyped, StoreCallTyped DEF TypeOK, StoreTyped, Executed, DispatchMark
    <3>3. QED
      BY <2>20, <3>1, <3>2 DEF TypeOK, StoreTyped, DispatchMark, DispatcherSteps, memory
  <2>21. ASSUME DispatchLaunch PROVE TypeOK'
    BY <2>21
      DEF TypeOK, DispatchLaunch, Strikes, DispatcherSteps, WorkSteps, memory, redis
  <2>22. ASSUME Pause PROVE TypeOK'
    BY <2>22 DEF TypeOK, Pause, threads, redis, history
  <2>23. ASSUME Resume PROVE TypeOK'
    BY <2>23 DEF TypeOK, Resume, threads, redis, history
  <2>24. ASSUME DrainBegin PROVE TypeOK'
    BY <2>24 DEF TypeOK, DrainBegin, Queued, WorkSteps, DrainSteps, redis, history
  <2>25. ASSUME DrainRecorded PROVE TypeOK'
    BY <2>25 DEF TypeOK, DrainRecorded, DrainSteps, memory, redis, history
  <2>26. ASSUME DrainWaited PROVE TypeOK'
    BY <2>26 DEF TypeOK, DrainWaited, DrainSteps, memory, redis, history
  <2>27. ASSUME DrainCancelled PROVE TypeOK'
    BY <2>27 DEF TypeOK, DrainCancelled, DrainSteps, memory, redis, history
  <2>28. ASSUME DrainCancelWaited PROVE TypeOK'
    BY <2>28
      DEF TypeOK, DrainCancelWaited, WaitEnds, Strikes, DrainSteps, memory, redis
  <2>29. ASSUME DrainExit PROVE TypeOK'
    <3>1. faults' \in Nat
      BY <2>29 DEF TypeOK, DrainExit, WaitEnds, Strikes
    <3>2. QED
      BY <2>29, <3>1, FreshTyped DEF TypeOK, MemoryTyped, DrainExit, redis
  <2>30. ASSUME NEW j \in Jobs, DrainCancel(j) PROVE TypeOK'
    <3>1. StoreTyped' /\ redisUp' \in BOOLEAN /\ faults' \in Nat
      BY <2>30, CallTyped, StoreCallTyped DEF TypeOK, StoreTyped, Executed, DrainCancel
    <3>2. QED
      BY <2>30, <3>1 DEF TypeOK, StoreTyped, DrainCancel
  <2>31. ASSUME Crash PROVE TypeOK'
    <3>1. faults' \in Nat
      BY <2>31 DEF TypeOK, Crash, Strikes
    <3>2. QED
      BY <2>31, <3>1, FreshTyped DEF TypeOK, MemoryTyped, Crash, redis
  <2>32. ASSUME Start PROVE TypeOK'
    <3>1. StoreTyped'
      BY <2>32, StoreResetTyped DEF TypeOK, StoreTyped, Start
    <3>2. redisUp' \in BOOLEAN /\ faults' \in Nat
      BY <2>32, CallTyped DEF Start
    <3>3. up' \in BOOLEAN
      BY <2>32, Zenon DEF Start
    <3>4. QED
      BY <2>32, <3>1, <3>2, <3>3 DEF TypeOK, StoreTyped, Start, threads
  <2>33. ASSUME RedisFails PROVE TypeOK'
    <3>1. redisUp' \in BOOLEAN
      BY <2>33, Zenon DEF RedisFails
    <3>2. QED
      BY <2>33, <3>1 DEF TypeOK, RedisFails, Strikes, memory, threads, StoreKeys
  <2>34. ASSUME RedisReturns PROVE TypeOK'
    <3>1. redisUp' \in BOOLEAN
      BY <2>34, Zenon DEF RedisReturns
    <3>2. QED
      BY <2>34, <3>1 DEF TypeOK, RedisReturns, memory, threads, StoreKeys, history
  <2>35. CASE UNCHANGED vars
    BY <2>35 DEF TypeOK, vars, memory, threads, redis, history
  <2>36. QED
    BY <2>1, <2>2, <2>3, <2>4, <2>5, <2>6, <2>7, <2>8, <2>9, <2>10, <2>11, <2>12,
       <2>13, <2>14, <2>15, <2>16, <2>17, <2>18, <2>19, <2>20, <2>21, <2>22, <2>23,
       <2>24, <2>25, <2>26, <2>27, <2>28, <2>29, <2>30, <2>31, <2>32, <2>33, <2>34,
       <2>35
      DEF Next, Submitting, Worker, Dispatcher, Draining
<1>3. QED
  BY <1>1, <1>2, PTL DEF Spec

-----------------------------------------------------------------------------
(***************************************************************************)
(* The table and the devices held agree (TableHolds): in every step,       *)
(* whatever fails.                                                         *)
(***************************************************************************)

\* A step that leaves the table and the devices alone, and begins no submit
\* again, keeps them in agreement.
LEMMA TableFrame ==
  ASSUME TableHolds, UNCHANGED <<jobs, held>>,
         \A j \in Jobs : submit'[j] = "new" => submit[j] = "new"
  PROVE  TableHolds'
BY DEF TableHolds

\* _remove() takes a rollout out of the table together with its devices, and
\* leaves every other rollout's alone: of two rollouts no device is shared.
LEMMA RemoveKeepsTable ==
  ASSUME TypeOK, TableHolds, NEW j \in Jobs, Remove(j),
         \A k \in Jobs : submit'[k] = "new" => submit[k] = "new"
  PROVE  TableHolds'
BY TargetsAssumption DEF TypeOK, TableHolds, Remove

\* A process that has just ended holds nothing (its _jobs and _held are gone).
LEMMA FreshTable ==
  ASSUME Fresh
  PROVE  TableHolds'
BY JobsAssumption DEF TableHolds, Fresh

LEMMA TableStep ==
  ASSUME TypeOK, TableHolds, [Next]_vars
  PROVE  TableHolds'
<1>1. ASSUME NEW j \in Jobs, SubmitRefused(j) PROVE TableHolds'
  BY <1>1, TableFrame DEF TypeOK, SubmitRefused, memory
<1>2. ASSUME NEW j \in Jobs, SubmitClaim(j) PROVE TableHolds'
  BY <1>2, JobsAssumption, TargetsAssumption
    DEF TypeOK, TableHolds, SubmitClaim, Conflicts
<1>3. ASSUME NEW j \in Jobs, SubmitAdd(j) PROVE TableHolds'
  BY <1>3, TableFrame DEF TypeOK, SubmitAdd, memory
<1>4. ASSUME NEW j \in Jobs, SubmitDescribe(j) PROVE TableHolds'
  BY <1>4, TableFrame DEF TypeOK, SubmitDescribe, memory
<1>5. ASSUME NEW j \in Jobs, SubmitEnqueue(j) PROVE TableHolds'
  BY <1>5, TableFrame DEF TypeOK, SubmitEnqueue, memory
<1>6. ASSUME NEW j \in Jobs, WithdrawRemove(j) PROVE TableHolds'
  BY <1>6, RemoveKeepsTable DEF TypeOK, WithdrawRemove
<1>7. ASSUME NEW j \in Jobs, WithdrawUnqueue(j) PROVE TableHolds'
  BY <1>7, TableFrame DEF TypeOK, WithdrawUnqueue, memory
<1>8. ASSUME NEW j \in Jobs, WithdrawGone(j) PROVE TableHolds'
  BY <1>8, TableFrame DEF TypeOK, WithdrawGone, memory
<1>9. ASSUME NEW j \in Jobs, Cancel(j) PROVE TableHolds'
  BY <1>9, TableFrame DEF Cancel
<1>10. ASSUME NEW j \in Jobs, CancelMark(j) PROVE TableHolds'
  BY <1>10, TableFrame DEF CancelMark, memory
<1>11. ASSUME NEW j \in Jobs, EngineEnds(j) PROVE TableHolds'
  BY <1>11, TableFrame DEF EngineEnds, memory
<1>12. ASSUME NEW j \in Jobs, CancelQueued(j) PROVE TableHolds'
  BY <1>12, TableFrame DEF CancelQueued, memory
<1>13. ASSUME NEW j \in Jobs, CancelQueuedFails(j) PROVE TableHolds'
  BY <1>13, RemoveKeepsTable DEF TypeOK, CancelQueuedFails
<1>14. ASSUME NEW j \in Jobs, Finalize(j) PROVE TableHolds'
  <2>1. CASE j \in jobs
    BY <1>14, <2>1, RemoveKeepsTable DEF Finalize
  <2>2. CASE j \notin jobs
    BY <1>14, <2>2, TableFrame DEF Finalize
  <2>3. QED
    BY <2>1, <2>2
<1>15. ASSUME NEW j \in Jobs, SaveResults(j) PROVE TableHolds'
  BY <1>15, TableFrame DEF SaveResults
<1>16. ASSUME NEW j \in Jobs, Finish(j) PROVE TableHolds'
  BY <1>16, TableFrame DEF Finish
<1>17. ASSUME DispatchPop PROVE TableHolds'
  BY <1>17, TableFrame DEF DispatchPop, memory
<1>18. ASSUME DispatchSlot PROVE TableHolds'
  BY <1>18, TableFrame DEF DispatchSlot
<1>19. ASSUME DispatchClaim PROVE TableHolds'
  BY <1>19, TableFrame DEF DispatchClaim
<1>20. ASSUME DispatchMark PROVE TableHolds'
  BY <1>20, TableFrame DEF DispatchMark, memory
<1>21. ASSUME DispatchLaunch PROVE TableHolds'
  BY <1>21, TableFrame DEF DispatchLaunch, memory
<1>22. ASSUME Pause PROVE TableHolds'
  BY <1>22, TableFrame DEF Pause, threads
<1>23. ASSUME Resume PROVE TableHolds'
  BY <1>23, TableFrame DEF Resume, threads
<1>24. ASSUME DrainBegin PROVE TableHolds'
  BY <1>24, TableFrame DEF DrainBegin
<1>25. ASSUME DrainRecorded PROVE TableHolds'
  BY <1>25, TableFrame DEF DrainRecorded, memory
<1>26. ASSUME DrainWaited PROVE TableHolds'
  BY <1>26, TableFrame DEF DrainWaited, memory
<1>27. ASSUME DrainCancelled PROVE TableHolds'
  BY <1>27, TableFrame DEF DrainCancelled, memory
<1>28. ASSUME DrainCancelWaited PROVE TableHolds'
  BY <1>28, TableFrame DEF DrainCancelWaited, memory
<1>29. ASSUME DrainExit PROVE TableHolds'
  BY <1>29, FreshTable DEF DrainExit
<1>30. ASSUME NEW j \in Jobs, DrainCancel(j) PROVE TableHolds'
  BY <1>30, TableFrame DEF DrainCancel
<1>31. ASSUME Crash PROVE TableHolds'
  BY <1>31, FreshTable DEF Crash
<1>32. ASSUME Start PROVE TableHolds'
  BY <1>32, TableFrame DEF Start, threads
<1>33. ASSUME RedisFails PROVE TableHolds'
  BY <1>33, TableFrame DEF RedisFails, memory, threads
<1>34. ASSUME RedisReturns PROVE TableHolds'
  BY <1>34, TableFrame DEF RedisReturns, memory, threads
<1>35. CASE UNCHANGED vars
  BY <1>35, TableFrame DEF vars, memory, threads
<1>36. QED
  BY <1>1, <1>2, <1>3, <1>4, <1>5, <1>6, <1>7, <1>8, <1>9, <1>10, <1>11, <1>12,
     <1>13, <1>14, <1>15, <1>16, <1>17, <1>18, <1>19, <1>20, <1>21, <1>22, <1>23,
     <1>24, <1>25, <1>26, <1>27, <1>28, <1>29, <1>30, <1>31, <1>32, <1>33, <1>34,
     <1>35
    DEF Next, Submitting, Worker, Dispatcher, Draining

\* A rollout in the table has every device it is for, whatever is held belongs
\* to a rollout in the table, and one whose submit() has not begun is not there.
THEOREM TableInvariant == Spec => []TableHolds
<1>1. Init => TableHolds
  BY DEF Init, TableHolds
<1>2. TypeOK /\ TableHolds /\ [Next]_vars => TableHolds'
  BY TableStep
<1>3. QED
  BY <1>1, <1>2, TypeCorrect, PTL DEF Spec

\* A rollout in the table holds all its devices, and no device stays held by
\* one that left it (_held, _remove): with every kind of fault, for any
\* number of rollouts and devices.
THEOREM DevicesFollowTable == Spec => []HoldsMatchTable
<1>1. TypeOK /\ TableHolds => HoldsMatchTable
  BY TargetsAssumption DEF TypeOK, TableHolds, HoldsMatchTable, Holding
<1>2. QED
  BY <1>1, TypeCorrect, TableInvariant, PTL

-----------------------------------------------------------------------------
(***************************************************************************)
(* A submit() begins once, and an answer is final.                         *)
(***************************************************************************)
SubmitKeeps ==
  \A j \in Jobs : /\ submit'[j] = "new" => submit[j] = "new"
                  /\ submit[j] = "accepted" => submit'[j] = "accepted"

LEMMA FreshKeepsSubmits ==
  ASSUME Fresh
  PROVE  SubmitKeeps
BY DEF SubmitKeeps, Fresh, UnderWay

LEMMA SubmitOneWay ==
  ASSUME TypeOK, [Next]_vars
  PROVE  SubmitKeeps
<1>1. ASSUME NEW j \in Jobs, SubmitRefused(j) PROVE SubmitKeeps
  BY <1>1 DEF TypeOK, SubmitKeeps, SubmitRefused
<1>2. ASSUME NEW j \in Jobs, SubmitClaim(j) PROVE SubmitKeeps
  BY <1>2 DEF TypeOK, SubmitKeeps, SubmitClaim
<1>3. ASSUME NEW j \in Jobs, SubmitAdd(j) PROVE SubmitKeeps
  BY <1>3 DEF TypeOK, SubmitKeeps, SubmitAdd
<1>4. ASSUME NEW j \in Jobs, SubmitDescribe(j) PROVE SubmitKeeps
  BY <1>4 DEF TypeOK, SubmitKeeps, SubmitDescribe
<1>5. ASSUME NEW j \in Jobs, SubmitEnqueue(j) PROVE SubmitKeeps
  BY <1>5 DEF TypeOK, SubmitKeeps, SubmitEnqueue
<1>6. ASSUME NEW j \in Jobs, WithdrawRemove(j) PROVE SubmitKeeps
  BY <1>6 DEF TypeOK, SubmitKeeps, WithdrawRemove
<1>7. ASSUME NEW j \in Jobs, WithdrawUnqueue(j) PROVE SubmitKeeps
  BY <1>7 DEF TypeOK, SubmitKeeps, WithdrawUnqueue
<1>8. ASSUME NEW j \in Jobs, WithdrawGone(j) PROVE SubmitKeeps
  BY <1>8 DEF TypeOK, SubmitKeeps, WithdrawGone
<1>9. ASSUME NEW j \in Jobs, Cancel(j) PROVE SubmitKeeps
  BY <1>9 DEF SubmitKeeps, Cancel
<1>10. ASSUME NEW j \in Jobs, CancelMark(j) PROVE SubmitKeeps
  BY <1>10 DEF SubmitKeeps, CancelMark
<1>11. ASSUME NEW j \in Jobs, EngineEnds(j) PROVE SubmitKeeps
  BY <1>11 DEF SubmitKeeps, EngineEnds
<1>12. ASSUME NEW j \in Jobs, CancelQueued(j) PROVE SubmitKeeps
  BY <1>12 DEF SubmitKeeps, CancelQueued
<1>13. ASSUME NEW j \in Jobs, CancelQueuedFails(j) PROVE SubmitKeeps
  BY <1>13 DEF SubmitKeeps, CancelQueuedFails
<1>14. ASSUME NEW j \in Jobs, Finalize(j) PROVE SubmitKeeps
  BY <1>14 DEF SubmitKeeps, Finalize
<1>15. ASSUME NEW j \in Jobs, SaveResults(j) PROVE SubmitKeeps
  BY <1>15 DEF SubmitKeeps, SaveResults
<1>16. ASSUME NEW j \in Jobs, Finish(j) PROVE SubmitKeeps
  BY <1>16 DEF SubmitKeeps, Finish
<1>17. ASSUME DispatchPop PROVE SubmitKeeps
  BY <1>17 DEF SubmitKeeps, DispatchPop
<1>18. ASSUME DispatchSlot PROVE SubmitKeeps
  BY <1>18 DEF SubmitKeeps, DispatchSlot
<1>19. ASSUME DispatchClaim PROVE SubmitKeeps
  BY <1>19 DEF SubmitKeeps, DispatchClaim
<1>20. ASSUME DispatchMark PROVE SubmitKeeps
  BY <1>20 DEF SubmitKeeps, DispatchMark
<1>21. ASSUME DispatchLaunch PROVE SubmitKeeps
  BY <1>21 DEF SubmitKeeps, DispatchLaunch
<1>22. ASSUME Pause PROVE SubmitKeeps
  BY <1>22 DEF SubmitKeeps, Pause, threads
<1>23. ASSUME Resume PROVE SubmitKeeps
  BY <1>23 DEF SubmitKeeps, Resume, threads
<1>24. ASSUME DrainBegin PROVE SubmitKeeps
  BY <1>24 DEF SubmitKeeps, DrainBegin
<1>25. ASSUME DrainRecorded PROVE SubmitKeeps
  BY <1>25 DEF SubmitKeeps, DrainRecorded
<1>26. ASSUME DrainWaited PROVE SubmitKeeps
  BY <1>26 DEF SubmitKeeps, DrainWaited
<1>27. ASSUME DrainCancelled PROVE SubmitKeeps
  BY <1>27 DEF SubmitKeeps, DrainCancelled
<1>28. ASSUME DrainCancelWaited PROVE SubmitKeeps
  BY <1>28 DEF SubmitKeeps, DrainCancelWaited
<1>29. ASSUME DrainExit PROVE SubmitKeeps
  BY <1>29, FreshKeepsSubmits DEF DrainExit
<1>30. ASSUME NEW j \in Jobs, DrainCancel(j) PROVE SubmitKeeps
  BY <1>30 DEF SubmitKeeps, DrainCancel
<1>31. ASSUME Crash PROVE SubmitKeeps
  BY <1>31, FreshKeepsSubmits DEF Crash
<1>32. ASSUME Start PROVE SubmitKeeps
  BY <1>32 DEF SubmitKeeps, Start, threads
<1>33. ASSUME RedisFails PROVE SubmitKeeps
  BY <1>33 DEF SubmitKeeps, RedisFails, memory, threads
<1>34. ASSUME RedisReturns PROVE SubmitKeeps
  BY <1>34 DEF SubmitKeeps, RedisReturns, memory, threads
<1>35. CASE UNCHANGED vars
  BY <1>35 DEF SubmitKeeps, vars, threads
<1>36. QED
  BY <1>1, <1>2, <1>3, <1>4, <1>5, <1>6, <1>7, <1>8, <1>9, <1>10, <1>11, <1>12,
     <1>13, <1>14, <1>15, <1>16, <1>17, <1>18, <1>19, <1>20, <1>21, <1>22, <1>23,
     <1>24, <1>25, <1>26, <1>27, <1>28, <1>29, <1>30, <1>31, <1>32, <1>33, <1>34,
     <1>35
    DEF Next, Submitting, Worker, Dispatcher, Draining

-----------------------------------------------------------------------------
(***************************************************************************)
(* With every reply of Redis arriving, only the ids of accepted rollouts   *)
(* are in the queue and with the dispatcher: a submit that fails has not   *)
(* pushed its id.                                                          *)
(***************************************************************************)
LEMMA NothingLost ==
  ASSUME "reply_lost" \notin Faults
  PROVE  ~Lost
BY DEF Lost, Strikes

\* JobStore's calls about a rollout's hash and the gauges leave the queue alone.
LEMMA StoreLeavesQueue ==
  ASSUME NEW j,
         \/ StoreAdd(j) \/ StoreSetStatus(j) \/ StoreStarted(j) \/ StoreForget(j)
         \/ StoreFinished(j, TRUE) \/ StoreFinished(j, FALSE) \/ StoreFinished(j, j \in ran)
         \/ UNCHANGED StoreKeys
  PROVE  UNCHANGED queue
BY DEF StoreAdd, StoreSetStatus, StoreStarted, StoreForget, StoreFinished, StoreKeys

LEMMA EntriesFrame ==
  ASSUME TypeOK, EntriesAccepted, SubmitKeeps, UNCHANGED <<queue, disp>>
  PROVE  EntriesAccepted'
<1>1. \A i \in DOMAIN queue : queue[i] \in Jobs /\ submit'[queue[i]] = "accepted"
  BY DEF TypeOK, EntriesAccepted, SubmitKeeps
<1>2. disp.at # "pop" => disp.job \in Jobs /\ submit'[disp.job] = "accepted"
  BY DEF EntriesAccepted, SubmitKeeps
<1>3. QED
  BY <1>1, <1>2 DEF EntriesAccepted

LEMMA EntriesStep ==
  ASSUME "reply_lost" \notin Faults, TypeOK, EntriesAccepted, [Next]_vars
  PROVE  EntriesAccepted'
<1>0. SubmitKeeps
  BY SubmitOneWay
<1>1. ASSUME NEW j \in Jobs, SubmitRefused(j) PROVE EntriesAccepted'
  BY <1>1, <1>0, EntriesFrame DEF SubmitRefused, redis
<1>2. ASSUME NEW j \in Jobs, SubmitClaim(j) PROVE EntriesAccepted'
  BY <1>2, <1>0, EntriesFrame DEF SubmitClaim, redis
<1>3. ASSUME NEW j \in Jobs, SubmitAdd(j) PROVE EntriesAccepted'
  BY <1>3, <1>0, EntriesFrame, StoreLeavesQueue DEF SubmitAdd, Executed
<1>4. ASSUME NEW j \in Jobs, SubmitDescribe(j) PROVE EntriesAccepted'
  BY <1>4, <1>0, EntriesFrame DEF SubmitDescribe, redis
<1>5. ASSUME NEW j \in Jobs, SubmitEnqueue(j) PROVE EntriesAccepted'
  <2>1. CASE Answered /\ StoreEnqueue(j) /\ submit' = [submit EXCEPT ![j] = "accepted"]
    <3>1. queue' \in Seq(Jobs) /\ Len(queue') = Len(queue) + 1 /\ queue'[Len(queue) + 1] = j
      BY <2>1, AppendProperties DEF TypeOK, StoreEnqueue
    <3>2. \A i \in 1 .. Len(queue) : queue'[i] = queue[i]
      BY <2>1, AppendProperties DEF TypeOK, StoreEnqueue
    <3>3. submit'[j] = "accepted"
      BY <2>1 DEF TypeOK
    <3>4. ASSUME NEW i \in DOMAIN queue' PROVE submit'[queue'[i]] = "accepted"
      <4>1. CASE i = Len(queue) + 1
        BY <3>1, <3>3, <4>1
      <4>2. CASE i # Len(queue) + 1
        <5>1. i \in DOMAIN queue
          BY <3>1, <4>2 DEF TypeOK
        <5>2. queue[i] \in Jobs /\ submit[queue[i]] = "accepted"
          BY <5>1 DEF TypeOK, EntriesAccepted
        <5>3. queue'[i] = queue[i]
          BY <3>2, <5>1 DEF TypeOK
        <5>4. QED
          BY <1>0, <5>2, <5>3 DEF SubmitKeeps
      <4>3. QED
        BY <4>1, <4>2
    <3>5. disp' = disp /\ (disp.at # "pop" => disp.job \in Jobs /\ submit'[disp.job] = "accepted")
      BY <1>0, <1>5 DEF EntriesAccepted, SubmitEnqueue, SubmitKeeps
    <3>6. QED
      BY <3>4, <3>5 DEF EntriesAccepted
  <2>2. CASE Refused /\ UNCHANGED StoreKeys
    BY <1>0, <1>5, <2>2, EntriesFrame DEF SubmitEnqueue, StoreKeys
  <2>3. QED
    BY <1>5, <2>1, <2>2, NothingLost DEF SubmitEnqueue
<1>6. ASSUME NEW j \in Jobs, WithdrawRemove(j) PROVE EntriesAccepted'
  BY <1>6, <1>0, EntriesFrame DEF WithdrawRemove, redis
<1>7. ASSUME NEW j \in Jobs, WithdrawUnqueue(j) PROVE EntriesAccepted'
  <2>1. queue' = queue \/ queue' = Without(queue, j)
    BY <1>7 DEF WithdrawUnqueue, StoreUnqueue, StoreKeys
  <2>2. QED
    BY <1>0, <1>7, <2>1, WithoutLosesOnly DEF TypeOK, EntriesAccepted, SubmitKeeps, WithdrawUnqueue
<1>8. ASSUME NEW j \in Jobs, WithdrawGone(j) PROVE EntriesAccepted'
  BY <1>8, <1>0, EntriesFrame, StoreLeavesQueue DEF WithdrawGone, Executed
<1>9. ASSUME NEW j \in Jobs, Cancel(j) PROVE EntriesAccepted'
  BY <1>9, <1>0, EntriesFrame DEF Cancel, redis
<1>10. ASSUME NEW j \in Jobs, CancelMark(j) PROVE EntriesAccepted'
  BY <1>10, <1>0, EntriesFrame, StoreLeavesQueue DEF CancelMark, Executed
<1>11. ASSUME NEW j \in Jobs, EngineEnds(j) PROVE EntriesAccepted'
  BY <1>11, <1>0, EntriesFrame DEF EngineEnds, redis
<1>12. ASSUME NEW j \in Jobs, CancelQueued(j) PROVE EntriesAccepted'
  <2>1. queue' = queue \/ queue' = Without(queue, j)
    BY <1>12 DEF CancelQueued, StoreUnqueue, StoreKeys
  <2>2. QED
    BY <1>0, <1>12, <2>1, WithoutLosesOnly DEF TypeOK, EntriesAccepted, SubmitKeeps, CancelQueued
<1>13. ASSUME NEW j \in Jobs, CancelQueuedFails(j) PROVE EntriesAccepted'
  BY <1>13, <1>0, EntriesFrame DEF CancelQueuedFails, redis
<1>14. ASSUME NEW j \in Jobs, Finalize(j) PROVE EntriesAccepted'
  BY <1>14, <1>0, EntriesFrame DEF Finalize, redis
<1>15. ASSUME NEW j \in Jobs, SaveResults(j) PROVE EntriesAccepted'
  BY <1>15, <1>0, EntriesFrame DEF SaveResults, redis
<1>16. ASSUME NEW j \in Jobs, Finish(j) PROVE EntriesAccepted'
  BY <1>16, <1>0, EntriesFrame, StoreLeavesQueue DEF Finish, Executed
<1>17. ASSUME DispatchPop PROVE EntriesAccepted'
  <2>1. /\ Head(queue) \in Jobs /\ submit[Head(queue)] = "accepted"
        /\ Head(queue) = queue[1]
    BY <1>17, HeadTailProperties DEF TypeOK, EntriesAccepted, DispatchPop
  <2>2. ASSUME NEW i \in DOMAIN queue' PROVE \E k \in DOMAIN queue : queue'[i] = queue[k]
    <3>1. queue' = Tail(queue)
      BY <1>17 DEF DispatchPop, StoreNextQueued
    <3>2. i + 1 \in DOMAIN queue /\ queue'[i] = queue[i + 1]
      BY <1>17, <3>1, HeadTailProperties DEF TypeOK, DispatchPop
    <3>3. QED
      BY <3>2
  <2>3. disp' = disp \/ disp' = [at |-> "slot", job |-> Head(queue)]
    BY <1>17 DEF DispatchPop
  <2>4. \A i \in DOMAIN queue' : submit'[queue'[i]] = "accepted"
    <3>1. \A k \in DOMAIN queue : queue[k] \in Jobs /\ submit'[queue[k]] = "accepted"
      BY <1>0 DEF TypeOK, EntriesAccepted, SubmitKeeps
    <3>2. QED
      BY <2>2, <3>1
  <2>5. disp'.at # "pop" => disp'.job \in Jobs /\ submit'[disp'.job] = "accepted"
    BY <1>0, <2>1, <2>3 DEF EntriesAccepted, SubmitKeeps
  <2>6. QED
    BY <2>4, <2>5 DEF EntriesAccepted
<1>18. ASSUME DispatchSlot PROVE EntriesAccepted'
  BY <1>18, <1>0 DEF TypeOK, EntriesAccepted, SubmitKeeps, DispatchSlot, redis
<1>19. ASSUME DispatchClaim PROVE EntriesAccepted'
  BY <1>19, <1>0 DEF TypeOK, EntriesAccepted, SubmitKeeps, DispatchClaim, redis
<1>20. ASSUME DispatchMark PROVE EntriesAccepted'
  <2>1. UNCHANGED queue
    BY <1>20, StoreLeavesQueue DEF DispatchMark
  <2>2. QED
    BY <1>0, <1>20, <2>1 DEF TypeOK, EntriesAccepted, SubmitKeeps, DispatchMark
<1>21. ASSUME DispatchLaunch PROVE EntriesAccepted'
  BY <1>21, <1>0 DEF TypeOK, EntriesAccepted, SubmitKeeps, DispatchLaunch, redis
<1>22. ASSUME Pause PROVE EntriesAccepted'
  BY <1>22, <1>0, EntriesFrame DEF Pause, threads, redis
<1>23. ASSUME Resume PROVE EntriesAccepted'
  BY <1>23, <1>0, EntriesFrame DEF Resume, threads, redis
<1>24. ASSUME DrainBegin PROVE EntriesAccepted'
  BY <1>24, <1>0, EntriesFrame DEF DrainBegin, redis
<1>25. ASSUME DrainRecorded PROVE EntriesAccepted'
  BY <1>25, <1>0, EntriesFrame DEF DrainRecorded, redis
<1>26. ASSUME DrainWaited PROVE EntriesAccepted'
  BY <1>26, <1>0, EntriesFrame DEF DrainWaited, redis
<1>27. ASSUME DrainCancelled PROVE EntriesAccepted'
  BY <1>27, <1>0, EntriesFrame DEF DrainCancelled, redis
<1>28. ASSUME DrainCancelWaited PROVE EntriesAccepted'
  BY <1>28, <1>0, EntriesFrame DEF DrainCancelWaited, redis
<1>29. ASSUME DrainExit PROVE EntriesAccepted'
  BY <1>29, <1>0 DEF TypeOK, EntriesAccepted, SubmitKeeps, DrainExit, Fresh, redis
<1>30. ASSUME NEW j \in Jobs, DrainCancel(j) PROVE EntriesAccepted'
  BY <1>30, <1>0, EntriesFrame, StoreLeavesQueue DEF DrainCancel, Executed
<1>31. ASSUME Crash PROVE EntriesAccepted'
  BY <1>31, <1>0 DEF TypeOK, EntriesAccepted, SubmitKeeps, Crash, Fresh, redis
<1>32. ASSUME Start PROVE EntriesAccepted'
  <2>1. queue' = queue \/ queue' = <<>>
    BY <1>32 DEF Start, StoreResetStale, StoreKeys
  <2>2. QED
    BY <1>0, <1>32, <2>1 DEF TypeOK, EntriesAccepted, SubmitKeeps, Start, threads
<1>33. ASSUME RedisFails PROVE EntriesAccepted'
  BY <1>33, <1>0, EntriesFrame DEF RedisFails, memory, threads, StoreKeys
<1>34. ASSUME RedisReturns PROVE EntriesAccepted'
  BY <1>34, <1>0, EntriesFrame DEF RedisReturns, memory, threads, StoreKeys
<1>35. CASE UNCHANGED vars
  BY <1>35, <1>0, EntriesFrame DEF vars, threads, redis
<1>36. QED
  BY <1>1, <1>2, <1>3, <1>4, <1>5, <1>6, <1>7, <1>8, <1>9, <1>10, <1>11, <1>12,
     <1>13, <1>14, <1>15, <1>16, <1>17, <1>18, <1>19, <1>20, <1>21, <1>22, <1>23,
     <1>24, <1>25, <1>26, <1>27, <1>28, <1>29, <1>30, <1>31, <1>32, <1>33, <1>34,
     <1>35
    DEF Next, Submitting, Worker, Dispatcher, Draining

-----------------------------------------------------------------------------
(***************************************************************************)
(* A rollout is claimed once (RolloutJob.claim), so whoever could end it   *)
(* or run it has it alone: while its engine runs nobody takes it out of    *)
(* the table.                                                              *)
(***************************************************************************)
LEMMA ClaimFrame ==
  ASSUME ClaimedOnce, SubmitKeeps, UNCHANGED <<jobs, claimed, disp, work>>
  PROVE  ClaimedOnce'
BY DEF ClaimedOnce, SubmitKeeps

LEMMA ClaimStep ==
  ASSUME TypeOK, EntriesAccepted, ClaimedOnce, [Next]_vars,
         \A j \in Jobs : submit[j] = "new" => j \notin jobs
  PROVE  ClaimedOnce'
<1>0. SubmitKeeps
  BY SubmitOneWay
<1>1. ASSUME NEW j \in Jobs, SubmitRefused(j) PROVE ClaimedOnce'
  BY <1>1, <1>0, ClaimFrame DEF SubmitRefused, memory
<1>2. ASSUME NEW j \in Jobs, SubmitClaim(j) PROVE ClaimedOnce'
  BY <1>2, <1>0 DEF TypeOK, ClaimedOnce, SubmitKeeps, SubmitClaim
<1>3. ASSUME NEW j \in Jobs, SubmitAdd(j) PROVE ClaimedOnce'
  BY <1>3, <1>0, ClaimFrame DEF SubmitAdd, memory
<1>4. ASSUME NEW j \in Jobs, SubmitDescribe(j) PROVE ClaimedOnce'
  BY <1>4, <1>0, ClaimFrame DEF SubmitDescribe, memory
<1>5. ASSUME NEW j \in Jobs, SubmitEnqueue(j) PROVE ClaimedOnce'
  BY <1>5, <1>0, ClaimFrame DEF SubmitEnqueue, memory
<1>6. ASSUME NEW j \in Jobs, WithdrawRemove(j) PROVE ClaimedOnce'
  BY <1>6, <1>0
    DEF TypeOK, ClaimedOnce, SubmitKeeps, EntriesAccepted, WithdrawRemove, Remove
<1>7. ASSUME NEW j \in Jobs, WithdrawUnqueue(j) PROVE ClaimedOnce'
  BY <1>7, <1>0, ClaimFrame DEF WithdrawUnqueue, memory
<1>8. ASSUME NEW j \in Jobs, WithdrawGone(j) PROVE ClaimedOnce'
  BY <1>8, <1>0, ClaimFrame DEF WithdrawGone, memory
<1>9. ASSUME NEW j \in Jobs, Cancel(j) PROVE ClaimedOnce'
  BY <1>9, <1>0
    DEF TypeOK, ClaimedOnce, SubmitKeeps, Cancel, Take, Claimable, Queued
<1>10. ASSUME NEW j \in Jobs, CancelMark(j) PROVE ClaimedOnce'
  BY <1>10, <1>0, ClaimFrame DEF CancelMark, memory
<1>11. ASSUME NEW j \in Jobs, EngineEnds(j) PROVE ClaimedOnce'
  BY <1>11, <1>0 DEF TypeOK, ClaimedOnce, SubmitKeeps, EngineEnds, memory
<1>12. ASSUME NEW j \in Jobs, CancelQueued(j) PROVE ClaimedOnce'
  BY <1>12, <1>0 DEF TypeOK, ClaimedOnce, SubmitKeeps, CancelQueued, memory
<1>13. ASSUME NEW j \in Jobs, CancelQueuedFails(j) PROVE ClaimedOnce'
  BY <1>13, <1>0 DEF TypeOK, ClaimedOnce, SubmitKeeps, CancelQueuedFails, Remove
<1>14. ASSUME NEW j \in Jobs, Finalize(j) PROVE ClaimedOnce'
  <2>1. CASE j \in jobs
    BY <1>0, <1>14, <2>1 DEF TypeOK, ClaimedOnce, SubmitKeeps, Finalize, Remove
  <2>2. CASE j \notin jobs
    BY <1>0, <1>14, <2>2 DEF TypeOK, ClaimedOnce, SubmitKeeps, Finalize
  <2>3. QED
    BY <2>1, <2>2
<1>15. ASSUME NEW j \in Jobs, SaveResults(j) PROVE ClaimedOnce'
  BY <1>15, <1>0 DEF TypeOK, ClaimedOnce, SubmitKeeps, SaveResults
<1>16. ASSUME NEW j \in Jobs, Finish(j) PROVE ClaimedOnce'
  BY <1>16, <1>0 DEF TypeOK, ClaimedOnce, SubmitKeeps, Finish
<1>17. ASSUME DispatchPop PROVE ClaimedOnce'
  BY <1>17, <1>0 DEF TypeOK, ClaimedOnce, SubmitKeeps, DispatchPop, memory
<1>18. ASSUME DispatchSlot PROVE ClaimedOnce'
  BY <1>18, <1>0 DEF TypeOK, ClaimedOnce, SubmitKeeps, DispatchSlot
<1>19. ASSUME DispatchClaim PROVE ClaimedOnce'
  BY <1>19, <1>0
    DEF TypeOK, ClaimedOnce, SubmitKeeps, DispatchClaim, Claimable, Queued
<1>20. ASSUME DispatchMark PROVE ClaimedOnce'
  BY <1>20, <1>0 DEF TypeOK, ClaimedOnce, SubmitKeeps, DispatchMark, memory
<1>21. ASSUME DispatchLaunch PROVE ClaimedOnce'
  BY <1>21, <1>0
    DEF TypeOK, ClaimedOnce, SubmitKeeps, EntriesAccepted, DispatchLaunch, memory
<1>22. ASSUME Pause PROVE ClaimedOnce'
  BY <1>22, <1>0, ClaimFrame DEF Pause, threads
<1>23. ASSUME Resume PROVE ClaimedOnce'
  BY <1>23, <1>0, ClaimFrame DEF Resume, threads
<1>24. ASSUME DrainBegin PROVE ClaimedOnce'
  BY <1>24, <1>0 DEF TypeOK, ClaimedOnce, SubmitKeeps, DrainBegin, Queued
<1>25. ASSUME DrainRecorded PROVE ClaimedOnce'
  BY <1>25, <1>0, ClaimFrame DEF DrainRecorded, memory
<1>26. ASSUME DrainWaited PROVE ClaimedOnce'
  BY <1>26, <1>0, ClaimFrame DEF DrainWaited, memory
<1>27. ASSUME DrainCancelled PROVE ClaimedOnce'
  BY <1>27, <1>0, ClaimFrame DEF DrainCancelled, memory
<1>28. ASSUME DrainCancelWaited PROVE ClaimedOnce'
  BY <1>28, <1>0, ClaimFrame DEF DrainCancelWaited, memory
<1>29. ASSUME DrainExit PROVE ClaimedOnce'
  BY <1>29, <1>0 DEF TypeOK, ClaimedOnce, SubmitKeeps, DrainExit, Fresh
<1>30. ASSUME NEW j \in Jobs, DrainCancel(j) PROVE ClaimedOnce'
  BY <1>30, <1>0, ClaimFrame DEF DrainCancel
<1>31. ASSUME Crash PROVE ClaimedOnce'
  BY <1>31, <1>0 DEF TypeOK, ClaimedOnce, SubmitKeeps, Crash, Fresh
<1>32. ASSUME Start PROVE ClaimedOnce'
  BY <1>32, <1>0, ClaimFrame DEF Start, threads
<1>33. ASSUME RedisFails PROVE ClaimedOnce'
  BY <1>33, <1>0, ClaimFrame DEF RedisFails, memory, threads
<1>34. ASSUME RedisReturns PROVE ClaimedOnce'
  BY <1>34, <1>0, ClaimFrame DEF RedisReturns, memory, threads
<1>35. CASE UNCHANGED vars
  BY <1>35, <1>0, ClaimFrame DEF vars, memory, threads
<1>36. QED
  BY <1>1, <1>2, <1>3, <1>4, <1>5, <1>6, <1>7, <1>8, <1>9, <1>10, <1>11, <1>12,
     <1>13, <1>14, <1>15, <1>16, <1>17, <1>18, <1>19, <1>20, <1>21, <1>22, <1>23,
     <1>24, <1>25, <1>26, <1>27, <1>28, <1>29, <1>30, <1>31, <1>32, <1>33, <1>34,
     <1>35
    DEF Next, Submitting, Worker, Dispatcher, Draining

\* The inductive invariant behind OnePushPerDevice, for every number of
\* rollouts, devices and slots, with outages, failing writes, missing threads
\* and crashes - with every fault but a lost reply.
THEOREM DeviceInvariant ==
  ASSUME "reply_lost" \notin Faults
  PROVE  Spec => []DeviceInv
<1>1. Init => DeviceInv
  BY DEF Init, DeviceInv, TableHolds, EntriesAccepted, ClaimedOnce
<1>2. TypeOK /\ DeviceInv /\ [Next]_vars => DeviceInv'
  <2> SUFFICES ASSUME TypeOK, DeviceInv, [Next]_vars PROVE DeviceInv'
    OBVIOUS
  <2>1. TableHolds'
    BY TableStep DEF DeviceInv
  <2>2. EntriesAccepted'
    BY EntriesStep DEF DeviceInv
  <2>3. ClaimedOnce'
    BY ClaimStep DEF DeviceInv, TableHolds
  <2>4. QED
    BY <2>1, <2>2, <2>3 DEF DeviceInv
<1>3. QED
  BY <1>1, <1>2, TypeCorrect, PTL DEF Spec

\* Of two rollouts to one device at most one is pushing to it (DeviceBusy,
\* submit()): a rollout pushes only while it is in the table, and there its
\* devices are its own.
THEOREM OnePush ==
  ASSUME "reply_lost" \notin Faults
  PROVE  Spec => []OnePushPerDevice
<1>1. TypeOK /\ DeviceInv => OnePushPerDevice
  <2> SUFFICES ASSUME TypeOK, DeviceInv, NEW j \in Jobs, NEW k \in Jobs, j # k,
                      work[j] = "running", work[k] = "running",
                      NEW t \in TargetsOf[j], t \in TargetsOf[k]
               PROVE  FALSE
    BY DEF OnePushPerDevice
  <2>1. j \in jobs /\ k \in jobs
    BY DEF DeviceInv, ClaimedOnce
  <2>2. held[t] = j /\ held[t] = k
    BY <2>1 DEF DeviceInv, TableHolds
  <2>3. QED
    BY <2>2
<1>2. QED
  BY <1>1, TypeCorrect, DeviceInvariant, PTL

-----------------------------------------------------------------------------
(***************************************************************************)
(* RolloutJobs implements DeviceHolds.                                     *)
(***************************************************************************)
Pushing == {j \in Jobs : work[j] = "running"}

LEMMA PushingFrame ==
  ASSUME UNCHANGED held,
         \A j \in Jobs : work'[j] = "running" <=> work[j] = "running"
  PROVE  UNCHANGED Devices!holdVars
BY DEF Devices!holdVars

\* _remove() of a rollout that is not pushing lets go of its devices.
LEMMA RemoveLetsGo ==
  ASSUME NEW j \in Jobs, Remove(j), work[j] # "running",
         \A k \in Jobs : work'[k] = "running" <=> work[k] = "running"
  PROVE  Devices!Next
<1>1. Devices!LetGo(j)
  BY DEF Devices!LetGo, Remove
<1>2. QED
  BY <1>1 DEF Devices!Next

LEMMA FreshEnds ==
  ASSUME Fresh
  PROVE  Devices!Next
<1>1. Devices!End
  BY DEF Devices!End, Fresh
<1>2. QED
  BY <1>1 DEF Devices!Next

LEMMA DeviceStep ==
  ASSUME TypeOK, DeviceInv, [Next]_vars
  PROVE  Devices!Next \/ UNCHANGED Devices!holdVars
<1>1. ASSUME NEW j \in Jobs, SubmitRefused(j) PROVE Devices!Next \/ UNCHANGED Devices!holdVars
  BY <1>1, PushingFrame DEF SubmitRefused, memory
<1>2. ASSUME NEW j \in Jobs, SubmitClaim(j) PROVE Devices!Next \/ UNCHANGED Devices!holdVars
  <2>1. work[j] = "none"
    BY <1>2 DEF DeviceInv, ClaimedOnce, SubmitClaim
  <2>2. Devices!Hold(j)
    BY <1>2, <2>1, TargetsAssumption
      DEF SubmitClaim, Conflicts, Devices!Hold, Devices!Free
  <2>3. QED
    BY <2>2 DEF Devices!Next
<1>3. ASSUME NEW j \in Jobs, SubmitAdd(j) PROVE Devices!Next \/ UNCHANGED Devices!holdVars
  BY <1>3, PushingFrame DEF SubmitAdd, memory
<1>4. ASSUME NEW j \in Jobs, SubmitDescribe(j) PROVE Devices!Next \/ UNCHANGED Devices!holdVars
  BY <1>4, PushingFrame DEF SubmitDescribe, memory
<1>5. ASSUME NEW j \in Jobs, SubmitEnqueue(j) PROVE Devices!Next \/ UNCHANGED Devices!holdVars
  BY <1>5, PushingFrame DEF SubmitEnqueue, memory
<1>6. ASSUME NEW j \in Jobs, WithdrawRemove(j) PROVE Devices!Next \/ UNCHANGED Devices!holdVars
  <2>1. work[j] # "running"
    BY <1>6 DEF DeviceInv, ClaimedOnce, WithdrawRemove
  <2>2. QED
    BY <1>6, <2>1, RemoveLetsGo DEF WithdrawRemove
<1>7. ASSUME NEW j \in Jobs, WithdrawUnqueue(j) PROVE Devices!Next \/ UNCHANGED Devices!holdVars
  BY <1>7, PushingFrame DEF WithdrawUnqueue, memory
<1>8. ASSUME NEW j \in Jobs, WithdrawGone(j) PROVE Devices!Next \/ UNCHANGED Devices!holdVars
  BY <1>8, PushingFrame DEF WithdrawGone, memory
<1>9. ASSUME NEW j \in Jobs, Cancel(j) PROVE Devices!Next \/ UNCHANGED Devices!holdVars
  BY <1>9, PushingFrame
    DEF TypeOK, DeviceInv, ClaimedOnce, Cancel, Take, Claimable, Queued
<1>10. ASSUME NEW j \in Jobs, CancelMark(j) PROVE Devices!Next \/ UNCHANGED Devices!holdVars
  BY <1>10, PushingFrame DEF CancelMark, memory
<1>11. ASSUME NEW j \in Jobs, EngineEnds(j) PROVE Devices!Next \/ UNCHANGED Devices!holdVars
  <2>1. UNCHANGED held
    BY <1>11 DEF EngineEnds, memory
  <2>2. j \in Pushing /\ Pushing' = Pushing \ {j}
    BY <1>11 DEF TypeOK, EngineEnds, Pushing
  <2>3. Devices!Stop(j)
    BY <2>1, <2>2 DEF Devices!Stop, Pushing
  <2>4. QED
    BY <2>3 DEF Devices!Next
<1>12. ASSUME NEW j \in Jobs, CancelQueued(j) PROVE Devices!Next \/ UNCHANGED Devices!holdVars
  BY <1>12, PushingFrame DEF TypeOK, DeviceInv, ClaimedOnce, CancelQueued, memory
<1>13. ASSUME NEW j \in Jobs, CancelQueuedFails(j) PROVE Devices!Next \/ UNCHANGED Devices!holdVars
  BY <1>13, RemoveLetsGo DEF TypeOK, CancelQueuedFails
<1>14. ASSUME NEW j \in Jobs, Finalize(j) PROVE Devices!Next \/ UNCHANGED Devices!holdVars
  <2>1. CASE j \in jobs
    BY <1>14, <2>1, RemoveLetsGo DEF TypeOK, Finalize
  <2>2. CASE j \notin jobs
    BY <1>14, <2>2, PushingFrame DEF TypeOK, Finalize
  <2>3. QED
    BY <2>1, <2>2
<1>15. ASSUME NEW j \in Jobs, SaveResults(j) PROVE Devices!Next \/ UNCHANGED Devices!holdVars
  BY <1>15, PushingFrame DEF TypeOK, DeviceInv, ClaimedOnce, SaveResults
<1>16. ASSUME NEW j \in Jobs, Finish(j) PROVE Devices!Next \/ UNCHANGED Devices!holdVars
  BY <1>16, PushingFrame DEF TypeOK, DeviceInv, ClaimedOnce, Finish
<1>17. ASSUME DispatchPop PROVE Devices!Next \/ UNCHANGED Devices!holdVars
  BY <1>17, PushingFrame DEF DispatchPop, memory
<1>18. ASSUME DispatchSlot PROVE Devices!Next \/ UNCHANGED Devices!holdVars
  BY <1>18, PushingFrame DEF DispatchSlot
<1>19. ASSUME DispatchClaim PROVE Devices!Next \/ UNCHANGED Devices!holdVars
  BY <1>19, PushingFrame DEF DispatchClaim
<1>20. ASSUME DispatchMark PROVE Devices!Next \/ UNCHANGED Devices!holdVars
  BY <1>20, PushingFrame DEF DispatchMark, memory
<1>21. ASSUME DispatchLaunch PROVE Devices!Next \/ UNCHANGED Devices!holdVars
  <2>0. PICK k \in Jobs : k = disp.job
    BY <1>21 DEF TypeOK, DispatchLaunch
  <2>1. UNCHANGED held
    BY <1>21 DEF DispatchLaunch, memory
  <2>2. CASE work' = [work EXCEPT ![k] = "running"]
    <3>1. k \in jobs
      BY <1>21, <2>0 DEF DeviceInv, ClaimedOnce, DispatchLaunch
    <3>2. Pushing' = Pushing \cup {k}
      BY <2>2 DEF TypeOK, Pushing
    <3>3. \A t \in TargetsOf[k] : held[t] = k
      BY <3>1 DEF DeviceInv, TableHolds
    <3>4. Devices!Push(k)
      BY <2>1, <3>2, <3>3 DEF Devices!Push, Pushing
    <3>5. QED
      BY <3>4 DEF Devices!Next
  <2>3. CASE UNCHANGED work
    BY <2>1, <2>3, PushingFrame
  <2>4. QED
    BY <1>21, <2>0, <2>2, <2>3 DEF DispatchLaunch
<1>22. ASSUME Pause PROVE Devices!Next \/ UNCHANGED Devices!holdVars
  BY <1>22, PushingFrame DEF Pause, threads
<1>23. ASSUME Resume PROVE Devices!Next \/ UNCHANGED Devices!holdVars
  BY <1>23, PushingFrame DEF Resume, threads
<1>24. ASSUME DrainBegin PROVE Devices!Next \/ UNCHANGED Devices!holdVars
  BY <1>24, PushingFrame DEF TypeOK, DeviceInv, ClaimedOnce, DrainBegin, Queued
<1>25. ASSUME DrainRecorded PROVE Devices!Next \/ UNCHANGED Devices!holdVars
  BY <1>25, PushingFrame DEF DrainRecorded, memory
<1>26. ASSUME DrainWaited PROVE Devices!Next \/ UNCHANGED Devices!holdVars
  BY <1>26, PushingFrame DEF DrainWaited, memory
<1>27. ASSUME DrainCancelled PROVE Devices!Next \/ UNCHANGED Devices!holdVars
  BY <1>27, PushingFrame DEF DrainCancelled, memory
<1>28. ASSUME DrainCancelWaited PROVE Devices!Next \/ UNCHANGED Devices!holdVars
  BY <1>28, PushingFrame DEF DrainCancelWaited, memory
<1>29. ASSUME DrainExit PROVE Devices!Next \/ UNCHANGED Devices!holdVars
  BY <1>29, FreshEnds DEF DrainExit
<1>30. ASSUME NEW j \in Jobs, DrainCancel(j) PROVE Devices!Next \/ UNCHANGED Devices!holdVars
  BY <1>30, PushingFrame DEF DrainCancel
<1>31. ASSUME Crash PROVE Devices!Next \/ UNCHANGED Devices!holdVars
  BY <1>31, FreshEnds DEF Crash
<1>32. ASSUME Start PROVE Devices!Next \/ UNCHANGED Devices!holdVars
  BY <1>32, PushingFrame DEF Start, threads
<1>33. ASSUME RedisFails PROVE Devices!Next \/ UNCHANGED Devices!holdVars
  BY <1>33, PushingFrame DEF RedisFails, memory, threads
<1>34. ASSUME RedisReturns PROVE Devices!Next \/ UNCHANGED Devices!holdVars
  BY <1>34, PushingFrame DEF RedisReturns, memory, threads
<1>35. CASE UNCHANGED vars
  BY <1>35, PushingFrame DEF vars, memory, threads
<1>36. QED
  BY <1>1, <1>2, <1>3, <1>4, <1>5, <1>6, <1>7, <1>8, <1>9, <1>10, <1>11, <1>12,
     <1>13, <1>14, <1>15, <1>16, <1>17, <1>18, <1>19, <1>20, <1>21, <1>22, <1>23,
     <1>24, <1>25, <1>26, <1>27, <1>28, <1>29, <1>30, <1>31, <1>32, <1>33, <1>34,
     <1>35
    DEF Next, Submitting, Worker, Dispatcher, Draining

\* RolloutJobs implements DeviceHolds (jobs.py's promise about devices):
\* every step takes all of a rollout's devices when all are free, lets go of
\* them all when it does not push, starts a push with all of them held, ends
\* one, or leaves devices and pushes as they are.
THEOREM Implementation ==
  ASSUME "reply_lost" \notin Faults
  PROVE  Spec => ImplementsDeviceHolds
<1>1. Init => Devices!Init
  BY DEF Init, Devices!Init
<1>2. TypeOK /\ DeviceInv /\ [Next]_vars => [Devices!Next]_(Devices!holdVars)
  BY DeviceStep
<1>3. QED
  BY <1>1, <1>2, TypeCorrect, DeviceInvariant, PTL
    DEF Spec, ImplementsDeviceHolds, Devices!Spec

-----------------------------------------------------------------------------
(***************************************************************************)
(* What a step does to the rollouts, their threads and what is recorded:   *)
(* all but sixteen kinds of step leave them alone.                         *)
(***************************************************************************)
Withdrawn == {"unlisted", "unqueued", "failed"}

OnTheSide ==
  /\ UNCHANGED <<jobs, held, claimed, saving, slots, disp, work, ran, recorded>>
  /\ \A j \in Jobs : /\ submit'[j] = "new" => submit[j] = "new"
                     /\ Standing(j)' => Standing(j)
                     /\ submit'[j] \in Withdrawn => submit[j] \in Withdrawn

\* A stop's exit, or a crash: memory and threads go, what was run and recorded
\* stays.  Without a fault it is the exit, after the last wait.
ProcessEnds ==
  /\ Fresh
  /\ UNCHANGED <<ran, recorded>>
  /\ faults' = 0 => drain = "savewait" /\ ~Busy

LEMMA RolloutSteps ==
  ASSUME TypeOK, [Next]_vars
  PROVE  \/ OnTheSide
         \/ \E j \in Jobs :
              \/ SubmitClaim(j) \/ WithdrawRemove(j) \/ Cancel(j) \/ EngineEnds(j) \/ CancelQueued(j)
              \/ CancelQueuedFails(j) \/ Finalize(j) \/ SaveResults(j) \/ Finish(j)
         \/ DispatchPop \/ DispatchSlot \/ DispatchClaim \/ DispatchMark \/ DispatchLaunch
         \/ DrainBegin \/ ProcessEnds
<1>1. ASSUME NEW j \in Jobs, SubmitRefused(j) PROVE OnTheSide
  BY <1>1 DEF TypeOK, OnTheSide, Standing, Withdrawn, SubmitRefused, memory, history
<1>2. ASSUME NEW j \in Jobs, SubmitAdd(j) PROVE OnTheSide
  BY <1>2 DEF TypeOK, OnTheSide, Standing, Withdrawn, SubmitAdd, memory
<1>3. ASSUME NEW j \in Jobs, SubmitDescribe(j) PROVE OnTheSide
  BY <1>3 DEF TypeOK, OnTheSide, Standing, Withdrawn, SubmitDescribe, memory
<1>4. ASSUME NEW j \in Jobs, SubmitEnqueue(j) PROVE OnTheSide
  BY <1>4 DEF TypeOK, OnTheSide, Standing, Withdrawn, SubmitEnqueue, memory
<1>5. ASSUME NEW j \in Jobs, WithdrawUnqueue(j) PROVE OnTheSide
  BY <1>5 DEF TypeOK, OnTheSide, Standing, Withdrawn, WithdrawUnqueue, memory
<1>6. ASSUME NEW j \in Jobs, WithdrawGone(j) PROVE OnTheSide
  BY <1>6 DEF TypeOK, OnTheSide, Standing, Withdrawn, WithdrawGone, memory
<1>7. ASSUME NEW j \in Jobs, CancelMark(j) PROVE OnTheSide
  BY <1>7 DEF OnTheSide, Standing, CancelMark, memory
<1>8. ASSUME Pause PROVE OnTheSide
  BY <1>8 DEF OnTheSide, Standing, Pause, threads, history
<1>9. ASSUME Resume PROVE OnTheSide
  BY <1>9 DEF OnTheSide, Standing, Resume, threads, history
<1>10. ASSUME DrainRecorded PROVE OnTheSide
  BY <1>10 DEF OnTheSide, Standing, DrainRecorded, memory, history
<1>11. ASSUME DrainWaited PROVE OnTheSide
  BY <1>11 DEF OnTheSide, Standing, DrainWaited, memory, history
<1>12. ASSUME DrainCancelled PROVE OnTheSide
  BY <1>12 DEF OnTheSide, Standing, DrainCancelled, memory, history
<1>13. ASSUME DrainCancelWaited PROVE OnTheSide
  BY <1>13 DEF OnTheSide, Standing, DrainCancelWaited, memory
<1>14. ASSUME NEW j \in Jobs, DrainCancel(j) PROVE OnTheSide
  BY <1>14 DEF OnTheSide, Standing, DrainCancel
<1>15. ASSUME Start PROVE OnTheSide
  BY <1>15 DEF OnTheSide, Standing, Start, threads
<1>16. ASSUME RedisFails PROVE OnTheSide
  BY <1>16 DEF OnTheSide, Standing, RedisFails, memory, threads
<1>17. ASSUME RedisReturns PROVE OnTheSide
  BY <1>17 DEF OnTheSide, Standing, RedisReturns, memory, threads, history
<1>18. CASE UNCHANGED vars
  BY <1>18 DEF OnTheSide, Standing, vars, memory, threads, history
<1>19. ASSUME DrainExit \/ Crash PROVE ProcessEnds
  BY <1>19 DEF TypeOK, ProcessEnds, DrainExit, Crash, WaitEnds, Strikes
<1>20. QED
  BY <1>1, <1>2, <1>3, <1>4, <1>5, <1>6, <1>7, <1>8, <1>9, <1>10, <1>11, <1>12, <1>13,
    <1>14, <1>15, <1>16, <1>17, <1>18, <1>19
    DEF Next, Submitting, Worker, Dispatcher, Draining

-----------------------------------------------------------------------------
(***************************************************************************)
(* What is recorded (RecordInv): under every fault a rollout is taken once *)
(* and recorded once; unless a cancellation fails to be recorded, results  *)
(* are never dropped.                                                      *)
(***************************************************************************)
\* No step takes a rollout a second time (claim(), under the lock).
LEMMA TakenStep ==
  ASSUME TypeOK, TableHolds, TakenOnce, [Next]_vars
  PROVE  TakenOnce'
<1>1. ASSUME NEW j \in Jobs, SubmitClaim(j) PROVE TakenOnce'
  BY <1>1 DEF TypeOK, TakenOnce, NobodyAtIt, SubmitClaim, history
<1>2. ASSUME NEW j \in Jobs, WithdrawRemove(j) PROVE TakenOnce'
  BY <1>2 DEF TypeOK, TakenOnce, NobodyAtIt, WithdrawRemove, Remove, history
<1>3. ASSUME NEW j \in Jobs, Cancel(j) PROVE TakenOnce'
  <2>1. CASE Claimable(j)
    BY <1>3, <2>1
      DEF TypeOK, TableHolds, TakenOnce, NobodyAtIt, Cancel, Take, Claimable, Queued,
        history
  <2>2. CASE ~Claimable(j)
    BY <1>3, <2>2
      DEF TypeOK, TableHolds, TakenOnce, NobodyAtIt, Cancel, Take, Claimable, Queued,
        history
  <2>3. QED
    BY <2>1, <2>2
<1>4. ASSUME NEW j \in Jobs, EngineEnds(j) PROVE TakenOnce'
  BY <1>4 DEF TypeOK, TakenOnce, NobodyAtIt, EngineEnds, memory, history
<1>5. ASSUME NEW j \in Jobs, CancelQueued(j) PROVE TakenOnce'
  BY <1>5 DEF TypeOK, TakenOnce, NobodyAtIt, CancelQueued, memory
<1>6. ASSUME NEW j \in Jobs, CancelQueuedFails(j) PROVE TakenOnce'
  BY <1>6 DEF TypeOK, TakenOnce, NobodyAtIt, CancelQueuedFails, Remove
<1>7. ASSUME NEW j \in Jobs, Finalize(j) PROVE TakenOnce'
  <2>1. CASE j \in jobs
    BY <1>7, <2>1 DEF TypeOK, TakenOnce, NobodyAtIt, Finalize, Remove, history
  <2>2. CASE j \notin jobs
    BY <1>7, <2>2 DEF TypeOK, TakenOnce, NobodyAtIt, Finalize, Remove, history
  <2>3. QED
    BY <2>1, <2>2
<1>8. ASSUME NEW j \in Jobs, SaveResults(j) PROVE TakenOnce'
  BY <1>8 DEF TypeOK, TakenOnce, NobodyAtIt, SaveResults
<1>9. ASSUME NEW j \in Jobs, Finish(j) PROVE TakenOnce'
  BY <1>9 DEF TypeOK, TakenOnce, NobodyAtIt, Finish
<1>10. ASSUME DispatchPop PROVE TakenOnce'
  BY <1>10 DEF TypeOK, TakenOnce, NobodyAtIt, DispatchPop, memory
<1>11. ASSUME DispatchSlot PROVE TakenOnce'
  BY <1>11 DEF TypeOK, TakenOnce, NobodyAtIt, DispatchSlot, history
<1>12. ASSUME DispatchClaim PROVE TakenOnce'
  BY <1>12
    DEF TypeOK, TakenOnce, NobodyAtIt, DispatchClaim, TableHolds, Claimable, Queued, history
<1>13. ASSUME DispatchMark PROVE TakenOnce'
  BY <1>13 DEF TypeOK, TakenOnce, NobodyAtIt, DispatchMark, memory
<1>14. ASSUME DispatchLaunch PROVE TakenOnce'
  <2>1. CASE work' = [work EXCEPT ![disp.job] = "running"]
    BY <1>14, <2>1 DEF TypeOK, TakenOnce, NobodyAtIt, DispatchLaunch, memory
  <2>2. CASE UNCHANGED <<work, ran>>
    BY <1>14, <2>2 DEF TypeOK, TakenOnce, NobodyAtIt, DispatchLaunch, memory
  <2>3. QED
    BY <1>14, <2>1, <2>2 DEF DispatchLaunch
<1>15. ASSUME DrainBegin PROVE TakenOnce'
  BY <1>15 DEF TypeOK, TakenOnce, NobodyAtIt, DrainBegin, Queued, history, TableHolds
<1>16. ASSUME ProcessEnds PROVE TakenOnce'
  BY <1>16 DEF TypeOK, TakenOnce, NobodyAtIt, ProcessEnds, Fresh, UnderWay
<1>17. CASE OnTheSide
  BY <1>17 DEF TypeOK, TakenOnce, NobodyAtIt, OnTheSide
<1>18. QED
  BY <1>1, <1>2, <1>3, <1>4, <1>5, <1>6, <1>7, <1>8, <1>9, <1>10, <1>11, <1>12, <1>13,
    <1>14, <1>15, <1>16, <1>17, RolloutSteps

\* No step records what the rollout's own thread did not do (ResultRecorder.save).
LEMMA RecordedStep ==
  ASSUME TypeOK, TakenOnce, RecordedByOne, [Next]_vars
  PROVE  RecordedByOne'
<1>1. ASSUME NEW j \in Jobs, SubmitClaim(j) PROVE RecordedByOne'
  BY <1>1 DEF TypeOK, RecordedByOne, SubmitClaim, history
<1>2. ASSUME NEW j \in Jobs, WithdrawRemove(j) PROVE RecordedByOne'
  BY <1>2 DEF TypeOK, RecordedByOne, WithdrawRemove, Remove, history
<1>3. ASSUME NEW j \in Jobs, Cancel(j) PROVE RecordedByOne'
  BY <1>3
    DEF TypeOK, RecordedByOne, Cancel, Take, Claimable, Queued, history, TakenOnce,
      NobodyAtIt
<1>4. ASSUME NEW j \in Jobs, EngineEnds(j) PROVE RecordedByOne'
  BY <1>4 DEF TypeOK, RecordedByOne, EngineEnds, memory, history
<1>5. ASSUME NEW j \in Jobs, CancelQueued(j) PROVE RecordedByOne'
  BY <1>5 DEF TypeOK, RecordedByOne, CancelQueued, memory
<1>6. ASSUME NEW j \in Jobs, CancelQueuedFails(j) PROVE RecordedByOne'
  BY <1>6 DEF TypeOK, RecordedByOne, CancelQueuedFails, Remove
<1>7. ASSUME NEW j \in Jobs, Finalize(j) PROVE RecordedByOne'
  <2>1. CASE j \in jobs
    BY <1>7, <2>1 DEF TypeOK, RecordedByOne, Finalize, Remove, history
  <2>2. CASE j \notin jobs
    BY <1>7, <2>2 DEF TypeOK, RecordedByOne, Finalize, Remove, history
  <2>3. QED
    BY <2>1, <2>2
<1>8. ASSUME NEW j \in Jobs, SaveResults(j) PROVE RecordedByOne'
  BY <1>8 DEF TypeOK, RecordedByOne, SaveResults
<1>9. ASSUME NEW j \in Jobs, Finish(j) PROVE RecordedByOne'
  BY <1>9 DEF TypeOK, RecordedByOne, Finish
<1>10. ASSUME DispatchPop PROVE RecordedByOne'
  BY <1>10 DEF TypeOK, RecordedByOne, DispatchPop, memory
<1>11. ASSUME DispatchSlot PROVE RecordedByOne'
  BY <1>11 DEF TypeOK, RecordedByOne, DispatchSlot, history
<1>12. ASSUME DispatchClaim PROVE RecordedByOne'
  BY <1>12 DEF TypeOK, RecordedByOne, DispatchClaim, TableHolds, Claimable, Queued, history
<1>13. ASSUME DispatchMark PROVE RecordedByOne'
  BY <1>13 DEF TypeOK, RecordedByOne, DispatchMark, memory
<1>14. ASSUME DispatchLaunch PROVE RecordedByOne'
  BY <1>14 DEF TypeOK, RecordedByOne, DispatchLaunch, memory, TakenOnce, NobodyAtIt
<1>15. ASSUME DrainBegin PROVE RecordedByOne'
  BY <1>15 DEF TypeOK, RecordedByOne, DrainBegin, Queued, history, TakenOnce, NobodyAtIt
<1>16. ASSUME ProcessEnds PROVE RecordedByOne'
  BY <1>16 DEF TypeOK, RecordedByOne, ProcessEnds, Fresh, UnderWay
<1>17. CASE OnTheSide
  BY <1>17 DEF TypeOK, RecordedByOne, OnTheSide
<1>18. QED
  BY <1>1, <1>2, <1>3, <1>4, <1>5, <1>6, <1>7, <1>8, <1>9, <1>10, <1>11, <1>12, <1>13,
    <1>14, <1>15, <1>16, <1>17, RolloutSteps

\* Nobody removes a rollout that stands and that somebody else is ending (_remove).
LEMMA StandingStep ==
  ASSUME TypeOK, TakenOnce, StandingStays, [Next]_vars
  PROVE  StandingStays'
<1>1. ASSUME NEW j \in Jobs, SubmitClaim(j) PROVE StandingStays'
  BY <1>1 DEF TypeOK, StandingStays, Standing, SubmitClaim, history, TakenOnce, NobodyAtIt
<1>2. ASSUME NEW j \in Jobs, WithdrawRemove(j) PROVE StandingStays'
  BY <1>2
    DEF TypeOK, StandingStays, Standing, WithdrawRemove, Remove, history, TakenOnce,
      NobodyAtIt
<1>3. ASSUME NEW j \in Jobs, Cancel(j) PROVE StandingStays'
  BY <1>3
    DEF TypeOK, StandingStays, Standing, Cancel, Take, Claimable, Queued, history,
      TakenOnce, NobodyAtIt
<1>4. ASSUME NEW j \in Jobs, EngineEnds(j) PROVE StandingStays'
  BY <1>4
    DEF TypeOK, StandingStays, Standing, EngineEnds, memory, history, TakenOnce, NobodyAtIt
<1>5. ASSUME NEW j \in Jobs, CancelQueued(j) PROVE StandingStays'
  BY <1>5 DEF TypeOK, StandingStays, Standing, CancelQueued, memory, TakenOnce, NobodyAtIt
<1>6. ASSUME NEW j \in Jobs, CancelQueuedFails(j) PROVE StandingStays'
  BY <1>6
    DEF TypeOK, StandingStays, Standing, CancelQueuedFails, Remove, TakenOnce, NobodyAtIt
<1>7. ASSUME NEW j \in Jobs, Finalize(j) PROVE StandingStays'
  BY <1>7 DEF TypeOK, StandingStays, Standing, Finalize, Remove, TakenOnce, NobodyAtIt
<1>8. ASSUME NEW j \in Jobs, SaveResults(j) PROVE StandingStays'
  BY <1>8 DEF TypeOK, StandingStays, Standing, SaveResults, TakenOnce, NobodyAtIt
<1>9. ASSUME NEW j \in Jobs, Finish(j) PROVE StandingStays'
  BY <1>9 DEF TypeOK, StandingStays, Standing, Finish, TakenOnce, NobodyAtIt
<1>10. ASSUME DispatchPop PROVE StandingStays'
  BY <1>10 DEF TypeOK, StandingStays, Standing, DispatchPop, memory, TakenOnce, NobodyAtIt
<1>11. ASSUME DispatchSlot PROVE StandingStays'
  BY <1>11 DEF TypeOK, StandingStays, Standing, DispatchSlot, history, TakenOnce, NobodyAtIt
<1>12. ASSUME DispatchClaim PROVE StandingStays'
  BY <1>12
    DEF TypeOK, StandingStays, Standing, DispatchClaim, TableHolds, Claimable, Queued,
      history, TakenOnce, NobodyAtIt
<1>13. ASSUME DispatchMark PROVE StandingStays'
  BY <1>13 DEF TypeOK, StandingStays, Standing, DispatchMark, memory, TakenOnce, NobodyAtIt
<1>14. ASSUME DispatchLaunch PROVE StandingStays'
  BY <1>14
    DEF TypeOK, StandingStays, Standing, DispatchLaunch, memory, TakenOnce, NobodyAtIt
<1>15. ASSUME DrainBegin PROVE StandingStays'
  BY <1>15
    DEF TypeOK, StandingStays, Standing, DrainBegin, Queued, history, TableHolds, TakenOnce,
      NobodyAtIt
<1>16. ASSUME ProcessEnds PROVE StandingStays'
  BY <1>16
    DEF TypeOK, StandingStays, Standing, ProcessEnds, Fresh, UnderWay, TakenOnce, NobodyAtIt
<1>17. CASE OnTheSide
  BY <1>17 DEF TypeOK, StandingStays, Standing, OnTheSide
<1>18. QED
  BY <1>1, <1>2, <1>3, <1>4, <1>5, <1>6, <1>7, <1>8, <1>9, <1>10, <1>11, <1>12, <1>13,
    <1>14, <1>15, <1>16, <1>17, RolloutSteps

\* Unless a cancellation cannot be written down (_cancel_queued()'s last resort),
\* nobody's results are dropped on the way from claimed to over.
LEMMA SavedStep ==
  ASSUME "log" \notin Faults, TypeOK, TakenOnce, StandingStays, SavedIsRecorded, [Next]_vars
  PROVE  SavedIsRecorded'
<1>1. ASSUME NEW j \in Jobs, SubmitClaim(j) PROVE SavedIsRecorded'
  BY <1>1
    DEF TypeOK, SavedIsRecorded, Standing, SubmitClaim, history, TakenOnce, NobodyAtIt,
      StandingStays
<1>2. ASSUME NEW j \in Jobs, WithdrawRemove(j) PROVE SavedIsRecorded'
  BY <1>2
    DEF TypeOK, SavedIsRecorded, Standing, WithdrawRemove, Remove, history, TakenOnce,
      NobodyAtIt, StandingStays
<1>3. ASSUME NEW j \in Jobs, Cancel(j) PROVE SavedIsRecorded'
  BY <1>3
    DEF TypeOK, SavedIsRecorded, Standing, Cancel, Take, Claimable, Queued, history,
      TakenOnce, NobodyAtIt
<1>4. ASSUME NEW j \in Jobs, EngineEnds(j) PROVE SavedIsRecorded'
  BY <1>4
    DEF TypeOK, SavedIsRecorded, Standing, EngineEnds, memory, history, TakenOnce,
      NobodyAtIt, StandingStays
<1>5. ASSUME NEW j \in Jobs, CancelQueued(j) PROVE SavedIsRecorded'
  BY <1>5
    DEF TypeOK, SavedIsRecorded, Standing, CancelQueued, memory, TakenOnce, NobodyAtIt,
      StandingStays
<1>6. ASSUME NEW j \in Jobs, CancelQueuedFails(j) PROVE SavedIsRecorded'
  BY <1>6 DEF TypeOK, SavedIsRecorded, Standing, CancelQueuedFails, Strikes
<1>7. ASSUME NEW j \in Jobs, Finalize(j) PROVE SavedIsRecorded'
  <2>1. CASE j \in jobs
    BY <1>7, <2>1
      DEF TypeOK, SavedIsRecorded, Standing, TakenOnce, NobodyAtIt, StandingStays, Finalize,
        Remove, history
  <2>2. CASE j \notin jobs
    BY <1>7, <2>2
      DEF TypeOK, SavedIsRecorded, Standing, TakenOnce, NobodyAtIt, StandingStays, Finalize,
        Remove, history
  <2>3. QED
    BY <2>1, <2>2
<1>8. ASSUME NEW j \in Jobs, SaveResults(j) PROVE SavedIsRecorded'
  BY <1>8
    DEF TypeOK, SavedIsRecorded, Standing, SaveResults, TakenOnce, NobodyAtIt, StandingStays
<1>9. ASSUME NEW j \in Jobs, Finish(j) PROVE SavedIsRecorded'
  BY <1>9
    DEF TypeOK, SavedIsRecorded, Standing, Finish, TakenOnce, NobodyAtIt, StandingStays
<1>10. ASSUME DispatchPop PROVE SavedIsRecorded'
  BY <1>10
    DEF TypeOK, SavedIsRecorded, Standing, DispatchPop, memory, TakenOnce, NobodyAtIt,
      StandingStays
<1>11. ASSUME DispatchSlot PROVE SavedIsRecorded'
  BY <1>11
    DEF TypeOK, SavedIsRecorded, Standing, DispatchSlot, history, TakenOnce, NobodyAtIt,
      StandingStays
<1>12. ASSUME DispatchClaim PROVE SavedIsRecorded'
  BY <1>12
    DEF TypeOK, SavedIsRecorded, Standing, DispatchClaim, TableHolds, Claimable, Queued,
      history, TakenOnce, NobodyAtIt, StandingStays
<1>13. ASSUME DispatchMark PROVE SavedIsRecorded'
  BY <1>13
    DEF TypeOK, SavedIsRecorded, Standing, DispatchMark, memory, TakenOnce, NobodyAtIt,
      StandingStays
<1>14. ASSUME DispatchLaunch PROVE SavedIsRecorded'
  BY <1>14
    DEF TypeOK, SavedIsRecorded, Standing, DispatchLaunch, memory, TakenOnce, NobodyAtIt
<1>15. ASSUME DrainBegin PROVE SavedIsRecorded'
  BY <1>15
    DEF TypeOK, SavedIsRecorded, Standing, DrainBegin, Queued, history, TableHolds,
      TakenOnce, NobodyAtIt, StandingStays
<1>16. ASSUME ProcessEnds PROVE SavedIsRecorded'
  BY <1>16
    DEF TypeOK, SavedIsRecorded, Standing, ProcessEnds, Fresh, UnderWay, TakenOnce,
      NobodyAtIt, StandingStays
<1>17. CASE OnTheSide
  BY <1>17 DEF TypeOK, SavedIsRecorded, Standing, OnTheSide
<1>18. QED
  BY <1>1, <1>2, <1>3, <1>4, <1>5, <1>6, <1>7, <1>8, <1>9, <1>10, <1>11, <1>12, <1>13,
    <1>14, <1>15, <1>16, <1>17, RolloutSteps

\* No step brings a withdrawn rollout back into the table (_withdraw, submit).
LEMMA WithdrawnStep ==
  ASSUME TypeOK, WithdrawnLeft, TableHolds, [Next]_vars
  PROVE  WithdrawnLeft'
<1>1. ASSUME NEW j \in Jobs, SubmitClaim(j) PROVE WithdrawnLeft'
  BY <1>1 DEF TypeOK, WithdrawnLeft, SubmitClaim, history
<1>2. ASSUME NEW j \in Jobs, WithdrawRemove(j) PROVE WithdrawnLeft'
  BY <1>2 DEF TypeOK, WithdrawnLeft, WithdrawRemove, Remove, history
<1>3. ASSUME NEW j \in Jobs, Cancel(j) PROVE WithdrawnLeft'
  BY <1>3 DEF TypeOK, WithdrawnLeft, Cancel, history
<1>4. ASSUME NEW j \in Jobs, EngineEnds(j) PROVE WithdrawnLeft'
  BY <1>4 DEF TypeOK, WithdrawnLeft, EngineEnds, memory, history
<1>5. ASSUME NEW j \in Jobs, CancelQueued(j) PROVE WithdrawnLeft'
  BY <1>5 DEF TypeOK, WithdrawnLeft, CancelQueued, memory
<1>6. ASSUME NEW j \in Jobs, CancelQueuedFails(j) PROVE WithdrawnLeft'
  BY <1>6 DEF TypeOK, WithdrawnLeft, CancelQueuedFails, Remove
<1>7. ASSUME NEW j \in Jobs, Finalize(j) PROVE WithdrawnLeft'
  BY <1>7 DEF TypeOK, WithdrawnLeft, Finalize, Remove
<1>8. ASSUME NEW j \in Jobs, SaveResults(j) PROVE WithdrawnLeft'
  BY <1>8 DEF TypeOK, WithdrawnLeft, SaveResults
<1>9. ASSUME NEW j \in Jobs, Finish(j) PROVE WithdrawnLeft'
  BY <1>9 DEF TypeOK, WithdrawnLeft, Finish
<1>10. ASSUME DispatchPop PROVE WithdrawnLeft'
  BY <1>10 DEF TypeOK, WithdrawnLeft, DispatchPop, memory
<1>11. ASSUME DispatchSlot PROVE WithdrawnLeft'
  BY <1>11 DEF TypeOK, WithdrawnLeft, DispatchSlot, history
<1>12. ASSUME DispatchClaim PROVE WithdrawnLeft'
  BY <1>12 DEF TypeOK, WithdrawnLeft, DispatchClaim, TableHolds, Claimable, Queued, history
<1>13. ASSUME DispatchMark PROVE WithdrawnLeft'
  BY <1>13 DEF TypeOK, WithdrawnLeft, DispatchMark, memory
<1>14. ASSUME DispatchLaunch PROVE WithdrawnLeft'
  BY <1>14 DEF TypeOK, WithdrawnLeft, DispatchLaunch, memory
<1>15. ASSUME DrainBegin PROVE WithdrawnLeft'
  BY <1>15 DEF TypeOK, WithdrawnLeft, DrainBegin, Queued, history, TableHolds
<1>16. ASSUME ProcessEnds PROVE WithdrawnLeft'
  BY <1>16 DEF TypeOK, WithdrawnLeft, ProcessEnds, Fresh, UnderWay
<1>17. CASE OnTheSide
  BY <1>17 DEF TypeOK, WithdrawnLeft, OnTheSide, Withdrawn
<1>18. QED
  BY <1>1, <1>2, <1>3, <1>4, <1>5, <1>6, <1>7, <1>8, <1>9, <1>10, <1>11, <1>12, <1>13,
    <1>14, <1>15, <1>16, <1>17, RolloutSteps

\* Under every fault, a rollout is taken by one thread and what is recorded of
\* it is what that thread saved: "ran" after its engine ran, "cancelled" when
\* it never did (claim(), _cancel_queued(), _finalize()).
THEOREM TakenAndRecordedOnce == Spec => [](TakenOnce /\ RecordedByOne)
<1>1. Init => TakenOnce /\ RecordedByOne
  BY DEF Init, TakenOnce, NobodyAtIt, RecordedByOne
<1>2. TypeOK /\ TableHolds /\ TakenOnce /\ RecordedByOne /\ [Next]_vars
        => (TakenOnce /\ RecordedByOne)'
  BY TakenStep, RecordedStep
<1>3. QED
  BY <1>1, <1>2, TypeCorrect, TableInvariant, PTL DEF Spec

\* Recorded by its own thread, a rollout is recorded once at most.
LEMMA RecordedAtMostOnce ==
  ASSUME TypeOK, RecordedByOne, NEW j \in Jobs
  PROVE  Cardinality(recorded[j]) <= 1 /\ (j \in ran => "cancelled" \notin recorded[j])
<1>1. PICK x : x \in {"ran", "cancelled"} /\ (j \in ran => x = "ran") /\ recorded[j] \subseteq {x}
  BY DEF RecordedByOne
<1>2. recorded[j] = {} \/ recorded[j] = {x}
  BY <1>1
<1>3. Cardinality(recorded[j]) <= 1
  BY <1>2, FS_EmptySet, FS_Singleton
<1>4. QED
  BY <1>1, <1>3

\* A rollout is recorded once, as run or as cancelled, never both; and one
\* whose submit() was answered and that is over has been recorded - for any
\* rollouts and limits, with outages, lost replies, missing threads and
\* crashes: every fault but a cancellation that cannot be written down.
THEOREM EachRecordedOnce ==
  ASSUME "log" \notin Faults
  PROVE  Spec => []RecordedOnce
<1>1. Init => RecordInv
  BY DEF Init, RecordInv, TakenOnce, NobodyAtIt, RecordedByOne, StandingStays, SavedIsRecorded, Standing
<1>2. TypeOK /\ TableHolds /\ RecordInv /\ [Next]_vars => RecordInv'
  BY TakenStep, RecordedStep, StandingStep, SavedStep DEF RecordInv
<1>3. TypeOK /\ RecordInv => RecordedOnce
  BY RecordedAtMostOnce DEF RecordInv, RecordedOnce, SavedIsRecorded, Standing
<1>4. QED
  BY <1>1, <1>2, <1>3, TypeCorrect, TableInvariant, PTL DEF Spec

\* A submit() that raised leaves nothing behind: no row, no device, no push
\* (_withdraw(), and the dispatcher's claim of an id it finds in the queue).
THEOREM FailedNeverRuns ==
  ASSUME "reply_lost" \notin Faults
  PROVE  Spec => []FailedSubmitNeverRuns
<1>1. Init => WithdrawnLeft
  BY DEF Init, WithdrawnLeft
<1>2. TypeOK /\ DeviceInv /\ WithdrawnLeft /\ [Next]_vars => WithdrawnLeft'
  BY WithdrawnStep DEF DeviceInv
<1>3. TypeOK /\ DeviceInv /\ WithdrawnLeft => FailedSubmitNeverRuns
  <2> SUFFICES ASSUME TypeOK, DeviceInv, WithdrawnLeft, NEW j \in Jobs, submit[j] = "failed"
               PROVE  j \notin jobs /\ Holding(j) = {} /\ work[j] # "running"
    BY DEF FailedSubmitNeverRuns
  <2>1. j \notin jobs
    BY DEF WithdrawnLeft
  <2>2. Holding(j) = {}
    BY <2>1, JobsAssumption DEF Holding, DeviceInv, TableHolds
  <2>3. work[j] # "running"
    BY <2>1 DEF DeviceInv, ClaimedOnce
  <2>4. QED
    BY <2>1, <2>2, <2>3
<1>4. QED
  BY <1>1, <1>2, <1>3, TypeCorrect, DeviceInvariant, PTL DEF Spec

-----------------------------------------------------------------------------
(***************************************************************************)
(* The slots and the recorder's counter (CountersAccounted).  A finite     *)
(* number of rollouts has a slot or is being saved, so that a counter can  *)
(* be compared with it; what each step adds to the set or takes out of it  *)
(* is one rollout that was not, or was, in it.                             *)
(***************************************************************************)
Slotted == {j \in ran : work[j] \in {"running", "ended", "saving", "saved"}}
Saving == {j \in Jobs : work[j] = "saving"}
Dispatching == IF disp.at \in {"claim", "mark", "launch", "dead"} THEN 1 ELSE 0

CountInv ==
  /\ IsFiniteSet(Slotted) /\ slots + Cardinality(Slotted) + Dispatching = MaxConcurrent
  /\ IsFiniteSet(Saving) /\ saving = Cardinality(Saving)

\* One more in a set, one more in its count.
LEMMA OneMore ==
  ASSUME NEW S, NEW T, NEW x, IsFiniteSet(S), x \notin S, T = S \cup {x}
  PROVE  IsFiniteSet(T) /\ Cardinality(T) = Cardinality(S) + 1 /\ Cardinality(S) \in Nat
  BY FS_AddElement, FS_CardinalityType

\* One less in a set, one less in its count.
LEMMA OneLess ==
  ASSUME NEW S, NEW T, NEW x, IsFiniteSet(S), x \in S, T = S \ {x}
  PROVE  IsFiniteSet(T) /\ Cardinality(T) = Cardinality(S) - 1 /\ Cardinality(S) \in Nat
  BY FS_RemoveElement, FS_CardinalityType

\* A step that touches neither the counters nor what they count.
LEMMA CountFrame ==
  ASSUME CountInv, UNCHANGED <<slots, saving>>,
         Slotted' = Slotted, Saving' = Saving, Dispatching' = Dispatching
  PROVE  CountInv'
  BY DEF CountInv

\* Every step moves a counter by as much as the set it counts (_slots, _saving).
LEMMA CountStep ==
  ASSUME TypeOK, TakenOnce, CountInv, [Next]_vars
  PROVE  CountInv'
<1>1. ASSUME NEW j \in Jobs, SubmitClaim(j) PROVE CountInv'
  <2>1. Slotted' = Slotted
    BY <1>1 DEF TypeOK, Slotted, SubmitClaim, history
  <2>2. Saving' = Saving
    BY <1>1 DEF TypeOK, Saving, SubmitClaim, history
  <2>3. QED
    BY <1>1, <2>1, <2>2, CountFrame DEF SubmitClaim, Dispatching, history
<1>2. ASSUME NEW j \in Jobs, WithdrawRemove(j) PROVE CountInv'
  <2>1. Slotted' = Slotted
    BY <1>2 DEF TypeOK, Slotted, WithdrawRemove, history
  <2>2. Saving' = Saving
    BY <1>2 DEF TypeOK, Saving, WithdrawRemove, history
  <2>3. QED
    BY <1>2, <2>1, <2>2, CountFrame DEF WithdrawRemove, Dispatching, history
<1>3. ASSUME NEW j \in Jobs, Cancel(j) PROVE CountInv'
  <2>1. CASE Claimable(j)
    <3>1. Slotted' = Slotted
      BY <1>3, <2>1 DEF TypeOK, Slotted, TakenOnce, NobodyAtIt, Cancel, Claimable, Queued, Take, history
    <3>2. Saving' = Saving
      BY <1>3, <2>1 DEF TypeOK, Saving, TakenOnce, NobodyAtIt, Cancel, Claimable, Queued, Take, history
    <3>3. QED
      BY <1>3, <3>1, <3>2, CountFrame DEF Cancel, Dispatching
  <2>2. CASE ~Claimable(j)
    BY <1>3, <2>2, CountFrame DEF Cancel, Slotted, Saving, Dispatching, history
  <2>3. QED
    BY <2>1, <2>2
<1>4. ASSUME NEW j \in Jobs, EngineEnds(j) PROVE CountInv'
  <2>1. Slotted' = Slotted
    BY <1>4 DEF TypeOK, Slotted, EngineEnds, memory, history
  <2>2. Saving' = Saving
    BY <1>4 DEF TypeOK, Saving, EngineEnds, memory, history
  <2>3. QED
    BY <1>4, <2>1, <2>2, CountFrame DEF EngineEnds, Dispatching, memory, history
<1>5. ASSUME NEW j \in Jobs, CancelQueued(j) PROVE CountInv'
  <2>1. Slotted' = Slotted
    BY <1>5 DEF TypeOK, Slotted, CancelQueued, memory, TakenOnce, NobodyAtIt
  <2>2. Saving' = Saving
    BY <1>5 DEF TypeOK, Saving, CancelQueued, memory, TakenOnce, NobodyAtIt
  <2>3. QED
    BY <1>5, <2>1, <2>2, CountFrame DEF CancelQueued, Dispatching, memory
<1>6. ASSUME NEW j \in Jobs, CancelQueuedFails(j) PROVE CountInv'
  <2>1. Slotted' = Slotted
    BY <1>6 DEF TypeOK, Slotted, CancelQueuedFails, TakenOnce, NobodyAtIt
  <2>2. Saving' = Saving
    BY <1>6 DEF TypeOK, Saving, CancelQueuedFails, TakenOnce, NobodyAtIt
  <2>3. QED
    BY <1>6, <2>1, <2>2, CountFrame DEF CancelQueuedFails, Dispatching
<1>7. ASSUME NEW j \in Jobs, Finalize(j) PROVE CountInv'
  <2> USE DEF TypeOK, Finalize, history
  <2>1. CASE j \in jobs
    <3>1. Slotted' = Slotted
      BY <1>7, <2>1 DEF Slotted, TakenOnce
    <3>2. j \notin Saving /\ Saving' = Saving \cup {j}
      BY <1>7, <2>1 DEF Saving
    <3>3. IsFiniteSet(Saving') /\ Cardinality(Saving') = Cardinality(Saving) + 1
      BY <3>2, OneMore DEF CountInv
    <3>4. QED
      BY <1>7, <2>1, <3>1, <3>3 DEF CountInv, Dispatching
  <2>2. CASE j \notin jobs /\ j \in ran
    <3>1. j \in Slotted /\ Slotted' = Slotted \ {j}
      BY <1>7, <2>2 DEF Slotted, TakenOnce
    <3>2. Saving' = Saving
      BY <1>7, <2>2 DEF Saving
    <3>3. /\ IsFiniteSet(Slotted') /\ Cardinality(Slotted') = Cardinality(Slotted) - 1
          /\ Cardinality(Slotted) \in Nat
      BY <3>1, OneLess DEF CountInv
    <3>4. slots' = slots + 1 /\ saving' = saving /\ Dispatching' = Dispatching
      BY <1>7, <2>2 DEF SlotBack, Dispatching
    <3>5. QED
      BY <3>2, <3>3, <3>4 DEF CountInv, Dispatching
  <2>3. CASE j \notin jobs /\ j \notin ran
    <3>1. Slotted' = Slotted /\ Saving' = Saving
      BY <1>7, <2>3 DEF Slotted, Saving
    <3>2. QED
      BY <1>7, <2>3, <3>1, CountFrame DEF SlotBack, Dispatching
  <2>4. QED
    BY <2>1, <2>2, <2>3
<1>8. ASSUME NEW j \in Jobs, SaveResults(j) PROVE CountInv'
  <2> USE DEF TypeOK, SaveResults
  <2>1. Slotted' = Slotted
    BY <1>8 DEF Slotted
  <2>2. j \in Saving /\ Saving' = Saving \ {j}
    BY <1>8 DEF Saving
  <2>3. IsFiniteSet(Saving') /\ Cardinality(Saving') = Cardinality(Saving) - 1
    BY <2>2, OneLess DEF CountInv
  <2>4. QED
    BY <1>8, <2>1, <2>3 DEF CountInv, Dispatching
<1>9. ASSUME NEW j \in Jobs, Finish(j) PROVE CountInv'
  <2> USE DEF TypeOK, Finish
  <2>1. Saving' = Saving
    BY <1>9 DEF Saving
  <2>2. CASE j \in ran
    <3>1. j \in Slotted /\ Slotted' = Slotted \ {j}
      BY <1>9, <2>2 DEF Slotted
    <3>2. /\ IsFiniteSet(Slotted') /\ Cardinality(Slotted') = Cardinality(Slotted) - 1
          /\ Cardinality(Slotted) \in Nat
      BY <3>1, OneLess DEF CountInv
    <3>3. slots' = slots + 1 /\ saving' = saving /\ Dispatching' = Dispatching
      BY <1>9, <2>2 DEF SlotBack, Dispatching
    <3>4. QED
      BY <2>1, <3>2, <3>3 DEF CountInv, Dispatching
  <2>3. CASE j \notin ran
    <3>1. Slotted' = Slotted
      BY <1>9, <2>3 DEF Slotted
    <3>2. QED
      BY <1>9, <2>1, <2>3, <3>1, CountFrame DEF SlotBack, Dispatching
  <2>4. QED
    BY <2>2, <2>3
<1>10. ASSUME DispatchPop PROVE CountInv'
  <2>1. Slotted' = Slotted
    BY <1>10 DEF TypeOK, Slotted, DispatchPop, memory
  <2>2. Saving' = Saving
    BY <1>10 DEF TypeOK, Saving, DispatchPop, memory
  <2>3. QED
    BY <1>10, <2>1, <2>2, CountFrame DEF DispatchPop, Dispatching, memory
<1>11. ASSUME DispatchSlot PROVE CountInv'
  <2>1. Slotted' = Slotted /\ Saving' = Saving
    BY <1>11 DEF DispatchSlot, Slotted, Saving, history
  <2>2. slots' = slots - 1 /\ saving' = saving /\ Dispatching = 0 /\ Dispatching' = 1
    BY <1>11 DEF TypeOK, DispatchSlot, Dispatching
  <2>3. Cardinality(Slotted) \in Nat
    BY FS_CardinalityType DEF CountInv
  <2>4. QED
    BY <2>1, <2>2, <2>3 DEF TypeOK, CountInv
<1>12. ASSUME DispatchClaim PROVE CountInv'
  <2>1. Slotted' = Slotted /\ Saving' = Saving
    BY <1>12 DEF DispatchClaim, Slotted, Saving, history
  <2>2. CASE Claimable(disp.job) /\ ~draining
    BY <1>12, <2>1, <2>2, CountFrame DEF TypeOK, DispatchClaim, Dispatching
  <2>3. CASE ~(Claimable(disp.job) /\ ~draining)
    <3>1. slots' = slots + 1 /\ saving' = saving /\ Dispatching = 1 /\ Dispatching' = 0
      BY <1>12, <2>3 DEF DispatchClaim, Dispatching
    <3>2. Cardinality(Slotted) \in Nat
      BY FS_CardinalityType DEF CountInv
    <3>3. QED
      BY <2>1, <3>1, <3>2 DEF TypeOK, CountInv
  <2>4. QED
    BY <2>2, <2>3
<1>13. ASSUME DispatchMark PROVE CountInv'
  <2>1. Slotted' = Slotted
    BY <1>13 DEF TypeOK, Slotted, DispatchMark, memory
  <2>2. Saving' = Saving
    BY <1>13 DEF TypeOK, Saving, DispatchMark, memory
  <2>3. QED
    BY <1>13, <2>1, <2>2, CountFrame DEF DispatchMark, Dispatching, memory
<1>14. ASSUME DispatchLaunch PROVE CountInv'
  <2> DEFINE j == disp.job
  <2>1. j \in Jobs /\ work[j] = "none" /\ j \notin ran
    BY <1>14 DEF TypeOK, TakenOnce, NobodyAtIt, DispatchLaunch
  <2>2. CASE work' = [work EXCEPT ![j] = "running"] /\ ran' = ran \cup {j}
    <3>1. j \notin Slotted /\ Slotted' = Slotted \cup {j}
      BY <2>1, <2>2 DEF TypeOK, Slotted
    <3>2. Saving' = Saving
      BY <2>1, <2>2 DEF TypeOK, Saving
    <3>3. /\ IsFiniteSet(Slotted') /\ Cardinality(Slotted') = Cardinality(Slotted) + 1
          /\ Cardinality(Slotted) \in Nat
      BY <3>1, OneMore DEF CountInv
    <3>4. slots' = slots /\ saving' = saving /\ Dispatching = 1 /\ Dispatching' = 0
      BY <1>14, <2>1, <2>2 DEF TypeOK, DispatchLaunch, Dispatching, memory
    <3>5. QED
      BY <3>2, <3>3, <3>4 DEF TypeOK, CountInv
  <2>3. CASE disp' = [disp EXCEPT !.at = "dead"] /\ UNCHANGED <<work, ran>>
    BY <1>14, <2>3, CountFrame DEF TypeOK, DispatchLaunch, Slotted, Saving, Dispatching, memory
  <2>4. QED
    BY <1>14, <2>2, <2>3 DEF DispatchLaunch
<1>15. ASSUME DrainBegin PROVE CountInv'
  <2>1. Slotted' = Slotted
    BY <1>15 DEF TypeOK, Slotted, DrainBegin, history, Queued, TakenOnce, NobodyAtIt
  <2>2. Saving' = Saving
    BY <1>15 DEF TypeOK, Saving, DrainBegin, history, Queued, TakenOnce, NobodyAtIt
  <2>3. QED
    BY <1>15, <2>1, <2>2, CountFrame DEF DrainBegin, Dispatching, history, Queued
<1>16. ASSUME ProcessEnds PROVE CountInv'
  <2>1. Slotted' = {} /\ Saving' = {}
    BY <1>16 DEF TypeOK, ProcessEnds, Fresh, Slotted, Saving
  <2>2. slots' = MaxConcurrent /\ saving' = 0 /\ Dispatching' = 0
    BY <1>16 DEF ProcessEnds, Fresh, Dispatching
  <2>3. QED
    BY <2>1, <2>2, FS_EmptySet, SlotsAssumption DEF CountInv
<1>17. CASE OnTheSide
  BY <1>17, CountFrame DEF OnTheSide, Slotted, Saving, Dispatching
<1>18. QED
  BY <1>1, <1>2, <1>3, <1>4, <1>5, <1>6, <1>7, <1>8, <1>9, <1>10, <1>11, <1>12, <1>13,
    <1>14, <1>15, <1>16, <1>17, RolloutSteps

\* The counters and what they count, at every moment of every behaviour.
THEOREM CountInvariant == Spec => []CountInv
<1>1. Init => CountInv
  <2> SUFFICES ASSUME Init PROVE CountInv
    OBVIOUS
  <2>1. Slotted = {} /\ Saving = {} /\ Dispatching = 0 /\ slots = MaxConcurrent /\ saving = 0
    BY DEF Init, Slotted, Saving, Dispatching
  <2>2. QED
    BY <2>1, FS_EmptySet, SlotsAssumption DEF CountInv
<1>2. TypeOK /\ TakenOnce /\ CountInv /\ [Next]_vars => CountInv'
  BY CountStep
<1>3. QED
  BY <1>1, <1>2, TypeCorrect, TakenAndRecordedOnce, PTL DEF Spec

\* Every slot is free, with the dispatcher or with a rollout that ran, and the
\* recorder counts the saves under way: whatever cancels, drains, crashes and
\* faults of every kind come between (the semaphore _slots, _cleanup(),
\* ResultRecorder._saving).
THEOREM CountersKept == Spec => []CountersAccounted
<1>1. CountInv => CountersAccounted
  BY DEF CountInv, CountersAccounted, Slotted, Saving, Dispatching
<1>2. QED
  BY <1>1, CountInvariant, PTL

\* The recorder that says it is not busy is writing nobody's results
\* (ResultRecorder.busy(), which idle() and the drain's last wait ask).
LEMMA NotBusy ==
  ASSUME CountInv, ~Busy
  PROVE  saving = 0 /\ \A j \in Jobs : work[j] # "saving"
<1>1. saving = Cardinality(Saving) /\ Cardinality(Saving) \in Nat
  BY FS_CardinalityType DEF CountInv
<1>2. saving = 0
  BY <1>1 DEF Busy
<1>3. Saving = {}
  BY <1>1, <1>2, FS_EmptySet DEF CountInv
<1>4. QED
  BY <1>2, <1>3 DEF Saving

-----------------------------------------------------------------------------
(***************************************************************************)
(* What a database move and a stop may count on (idle(), drain()).         *)
(***************************************************************************)

\* Paused and idle: no step records anything, and nothing enters the table.
LEMMA QuietStep ==
  ASSUME TypeOK, CountInv, [Next]_vars, paused, Idle
  PROVE  Idle' /\ UNCHANGED recorded
<1> DEFINE Quietly == jobs' = {} /\ saving' = 0 /\ UNCHANGED recorded
<1>0. jobs = {} /\ saving = 0 /\ \A j \in Jobs : work[j] # "saving"
  BY NotBusy DEF Idle
<1>1. ASSUME NEW j \in Jobs, SubmitClaim(j) PROVE Quietly
  BY <1>1, <1>0 DEF SubmitClaim, Closed
<1>2. ASSUME NEW j \in Jobs, WithdrawRemove(j) PROVE Quietly
  BY <1>2, <1>0 DEF WithdrawRemove, Remove, history
<1>3. ASSUME NEW j \in Jobs, Cancel(j) PROVE Quietly
  BY <1>3, <1>0 DEF Cancel
<1>4. ASSUME NEW j \in Jobs, EngineEnds(j) PROVE Quietly
  BY <1>4, <1>0 DEF EngineEnds, memory, history
<1>5. ASSUME NEW j \in Jobs, CancelQueued(j) PROVE Quietly
  BY <1>5, <1>0 DEF CancelQueued, memory
<1>6. ASSUME NEW j \in Jobs, CancelQueuedFails(j) PROVE Quietly
  BY <1>6, <1>0 DEF CancelQueuedFails, Remove
<1>7. ASSUME NEW j \in Jobs, Finalize(j) PROVE Quietly
  BY <1>7, <1>0 DEF Finalize, history
<1>8. ASSUME NEW j \in Jobs, SaveResults(j) PROVE Quietly
  BY <1>8, <1>0 DEF SaveResults
<1>9. ASSUME NEW j \in Jobs, Finish(j) PROVE Quietly
  BY <1>9, <1>0 DEF Finish
<1>10. ASSUME DispatchPop PROVE Quietly
  BY <1>10, <1>0 DEF DispatchPop, memory
<1>11. ASSUME DispatchSlot PROVE Quietly
  BY <1>11, <1>0 DEF DispatchSlot, history
<1>12. ASSUME DispatchClaim PROVE Quietly
  BY <1>12, <1>0 DEF DispatchClaim, history
<1>13. ASSUME DispatchMark PROVE Quietly
  BY <1>13, <1>0 DEF DispatchMark, memory
<1>14. ASSUME DispatchLaunch PROVE Quietly
  BY <1>14, <1>0 DEF DispatchLaunch, memory
<1>15. ASSUME DrainBegin PROVE Quietly
  BY <1>15, <1>0 DEF DrainBegin, history
<1>16. ASSUME ProcessEnds PROVE Quietly
  BY <1>16, <1>0 DEF ProcessEnds, Fresh
<1>17. ASSUME OnTheSide PROVE Quietly
  BY <1>0, <1>17 DEF OnTheSide
<1>18. Quietly
  BY <1>1, <1>2, <1>3, <1>4, <1>5, <1>6, <1>7, <1>8, <1>9, <1>10, <1>11, <1>12, <1>13,
    <1>14, <1>15, <1>16, <1>17, RolloutSteps
<1>19. QED
  BY <1>18 DEF Idle, Busy

\* While a database move finds the app paused with nothing queued, running or
\* being saved, no result is written and no rollout comes back until resume():
\* under every fault, also when a submit is still on its way.
THEOREM MoveFindsQuiet == Spec => IdleStaysQuiet
<1>1. CountInv /\ TypeOK /\ [Next]_vars
        => [paused /\ paused' /\ Idle /\ (\A j \in Jobs : ~UnderWay(j))
              => Idle' /\ UNCHANGED recorded]_vars
  BY QuietStep
<1>2. QED
  BY <1>1, TypeCorrect, CountInvariant, PTL DEF Spec, IdleStaysQuiet

\* A step makes the table bigger only by a submit, and a claim is undone only
\* by the process's end.
LEMMA TableGrows ==
  ASSUME TypeOK, [Next]_vars
  PROVE  \/ ProcessEnds
         \/ claimed \subseteq claimed' /\ (jobs' \subseteq jobs \/ ~draining)
<1> DEFINE TableSafe == claimed \subseteq claimed' /\ (jobs' \subseteq jobs \/ ~draining)
<1>1. ASSUME NEW j \in Jobs, SubmitClaim(j) PROVE TableSafe
  BY <1>1 DEF SubmitClaim, Closed
<1>2. ASSUME NEW j \in Jobs, WithdrawRemove(j) PROVE TableSafe
  BY <1>2 DEF WithdrawRemove, Remove
<1>3. ASSUME NEW j \in Jobs, Cancel(j) PROVE TableSafe
  BY <1>3 DEF Cancel, Take
<1>4. ASSUME NEW j \in Jobs, EngineEnds(j) PROVE TableSafe
  BY <1>4 DEF EngineEnds, memory
<1>5. ASSUME NEW j \in Jobs, CancelQueued(j) PROVE TableSafe
  BY <1>5 DEF CancelQueued, memory
<1>6. ASSUME NEW j \in Jobs, CancelQueuedFails(j) PROVE TableSafe
  BY <1>6 DEF CancelQueuedFails, Remove
<1>7. ASSUME NEW j \in Jobs, Finalize(j) PROVE TableSafe
  BY <1>7 DEF Finalize, Remove
<1>8. ASSUME NEW j \in Jobs, SaveResults(j) PROVE TableSafe
  BY <1>8 DEF SaveResults
<1>9. ASSUME NEW j \in Jobs, Finish(j) PROVE TableSafe
  BY <1>9 DEF Finish
<1>10. ASSUME DispatchPop PROVE TableSafe
  BY <1>10 DEF DispatchPop, memory
<1>11. ASSUME DispatchSlot PROVE TableSafe
  BY <1>11 DEF DispatchSlot
<1>12. ASSUME DispatchClaim PROVE TableSafe
  BY <1>12 DEF DispatchClaim
<1>13. ASSUME DispatchMark PROVE TableSafe
  BY <1>13 DEF DispatchMark, memory
<1>14. ASSUME DispatchLaunch PROVE TableSafe
  BY <1>14 DEF DispatchLaunch, memory
<1>15. ASSUME DrainBegin PROVE TableSafe
  BY <1>15 DEF DrainBegin
<1>16. ASSUME OnTheSide PROVE TableSafe
  BY <1>16 DEF OnTheSide
<1>17. QED
  BY <1>1, <1>2, <1>3, <1>4, <1>5, <1>6, <1>7, <1>8, <1>9, <1>10, <1>11, <1>12, <1>13,
    <1>14, <1>15, <1>16, RolloutSteps

\* Only the stop's own thread moves the stop on (Shutdown._run, drain()).
LEMMA StopSteps ==
  ASSUME [Next]_vars
  PROVE  \/ UNCHANGED <<drain, draining>>
         \/ DrainBegin \/ DrainRecorded \/ DrainWaited \/ DrainCancelled \/ DrainCancelWaited \/ Fresh
<1> DEFINE Apart == UNCHANGED <<drain, draining>>
<1>1. ASSUME NEW j \in Jobs,
            \/ SubmitRefused(j) \/ SubmitAdd(j) \/ SubmitDescribe(j) \/ SubmitEnqueue(j)
            \/ WithdrawUnqueue(j) \/ WithdrawGone(j) \/ CancelMark(j) \/ EngineEnds(j)
            \/ CancelQueued(j)
     PROVE  Apart
  BY <1>1
    DEF memory, SubmitRefused, SubmitAdd, SubmitDescribe, SubmitEnqueue, WithdrawUnqueue,
      WithdrawGone, CancelMark, EngineEnds, CancelQueued
<1>2. ASSUME NEW j \in Jobs,
            \/ SubmitClaim(j) \/ WithdrawRemove(j) \/ Cancel(j) \/ CancelQueuedFails(j)
            \/ Finalize(j) \/ SaveResults(j) \/ Finish(j) \/ DrainCancel(j)
     PROVE  Apart
  BY <1>2
    DEF SubmitClaim, WithdrawRemove, Cancel, CancelQueuedFails, Finalize, SaveResults,
      Finish, DrainCancel
<1>3. ASSUME Dispatcher \/ RedisFails \/ RedisReturns PROVE Apart
  BY <1>3
    DEF Dispatcher, DispatchPop, DispatchSlot, DispatchClaim, DispatchMark, DispatchLaunch,
      RedisFails, RedisReturns, memory, threads
<1>4. ASSUME Pause \/ Resume \/ Start PROVE Apart
  BY <1>4 DEF Pause, Resume, Start, threads
<1>5. CASE UNCHANGED vars
  BY <1>5 DEF vars, memory, threads
<1>6. ASSUME DrainExit \/ Crash PROVE Fresh
  BY <1>6 DEF DrainExit, Crash
<1>7. QED
  BY <1>1, <1>2, <1>3, <1>4, <1>5, <1>6 DEF Next, Submitting, Worker, Draining

\* Faults are only counted up.
LEMMA FaultsStay ==
  ASSUME TypeOK, [Next]_vars, faults' = 0
  PROVE  faults = 0
<1> USE DEF TypeOK
<1>1. ASSUME NEW j \in Jobs,
            \/ SubmitRefused(j) \/ SubmitClaim(j) \/ WithdrawRemove(j) \/ Cancel(j)
            \/ EngineEnds(j) \/ Finalize(j)
     PROVE  faults = 0
  BY <1>1
    DEF SubmitRefused, SubmitClaim, WithdrawRemove, Cancel, EngineEnds, Finalize, history
<1>2. ASSUME NEW j \in Jobs,
            \/ SubmitAdd(j) \/ SubmitEnqueue(j) \/ WithdrawUnqueue(j) \/ WithdrawGone(j)
            \/ CancelQueued(j) \/ Finish(j) \/ CancelMark(j) \/ DrainCancel(j)
     PROVE  faults = 0
  <2>1. Executed \/ Refused
    BY <1>2
      DEF SubmitAdd, SubmitEnqueue, WithdrawUnqueue, WithdrawGone, CancelQueued, Finish,
        CancelMark, DrainCancel, Executed
  <2>2. QED
    BY <2>1 DEF Executed, Answered, Refused, Lost, Strikes
<1>3. ASSUME NEW j \in Jobs,
            \/ SubmitDescribe(j) \/ CancelQueuedFails(j) \/ SaveResults(j)
     PROVE  faults = 0
  BY <1>3 DEF SubmitDescribe, CancelQueuedFails, SaveResults, Strikes
<1>4. ASSUME \/ DispatchSlot \/ DispatchClaim \/ Pause \/ Resume \/ DrainBegin
            \/ DrainRecorded \/ DrainWaited \/ DrainCancelled \/ RedisReturns
     PROVE  faults = 0
  BY <1>4
    DEF DispatchSlot, DispatchClaim, Pause, Resume, DrainBegin, DrainRecorded, DrainWaited,
      DrainCancelled, RedisReturns, history
<1>5. ASSUME DispatchPop \/ DispatchMark \/ DispatchLaunch \/ Start PROVE faults = 0
  BY <1>5
    DEF DispatchPop, DispatchMark, DispatchLaunch, Start, Executed, Answered, Refused, Lost,
      Strikes
<1>6. ASSUME DrainCancelWaited \/ DrainExit \/ Crash \/ RedisFails PROVE faults = 0
  BY <1>6 DEF DrainCancelWaited, DrainExit, Crash, RedisFails, WaitEnds, Strikes
<1>7. CASE UNCHANGED vars
  BY <1>7 DEF vars, history
<1>8. QED
  BY <1>1, <1>2, <1>3, <1>4, <1>5, <1>6, <1>7
    DEF Next, Submitting, Worker, Dispatcher, Draining

\* From the moment a stop begins the table only shrinks, and the stop's last wait
\* finds it empty (drain()).
LEMMA DrainStep ==
  ASSUME TypeOK, DrainClaimsAll, [Next]_vars
  PROVE  DrainClaimsAll'
<1>1. CASE Fresh
  BY <1>1 DEF Fresh, DrainClaimsAll
<1>2. CASE ~Fresh
  <2> DEFINE Apart == UNCHANGED <<drain, draining>>
  <2>1. claimed \subseteq claimed' /\ (jobs' \subseteq jobs \/ ~draining)
    BY <1>2, TableGrows DEF ProcessEnds
  <2>2. faults' = 0 => faults = 0
    BY FaultsStay
  <2>3. CASE Apart
    BY <2>1, <2>2, <2>3 DEF DrainClaimsAll
  <2>4. CASE DrainBegin
    BY <2>4 DEF DrainClaimsAll, DrainBegin, Queued
  <2>5. CASE DrainRecorded \/ DrainCancelled
    BY <2>5 DEF DrainClaimsAll, DrainRecorded, DrainCancelled, memory
  <2>6. CASE DrainWaited
    BY <2>6 DEF DrainClaimsAll, DrainWaited, Running, memory
  <2>7. CASE DrainCancelWaited
    BY <2>7 DEF TypeOK, DrainClaimsAll, DrainCancelWaited, WaitEnds, Strikes, Running, memory
  <2>8. QED
    BY <1>2, <2>3, <2>4, <2>5, <2>6, <2>7, StopSteps
<1>3. QED
  BY <1>1, <1>2

\* Still in the table, on its way to Postgres, or there.
Kept(j) == j \in jobs \/ work[j] = "saving" \/ recorded[j] # {}

\* Until something fails, no step drops a rollout that stands (_finalize, drain()).
LEMMA DroppedStep ==
  ASSUME TypeOK, TakenOnce, CountInv, DrainClaimsAll, NothingDropped, [Next]_vars
  PROVE  NothingDropped'
<1> SUFFICES ASSUME faults' = 0, NEW k \in Jobs, Standing(k)'
             PROVE  Kept(k)'
  BY DEF NothingDropped, Kept
<1>0. Standing(k) => Kept(k)
  BY FaultsStay DEF NothingDropped, Kept
<1>1. ASSUME NEW j \in Jobs, SubmitClaim(j) PROVE Kept(k)'
  BY <1>1, <1>0 DEF TypeOK, Standing, Kept, SubmitClaim, history
<1>2. ASSUME NEW j \in Jobs, WithdrawRemove(j) PROVE Kept(k)'
  BY <1>2, <1>0 DEF TypeOK, Standing, Kept, WithdrawRemove, Remove, history
<1>3. ASSUME NEW j \in Jobs, Cancel(j) PROVE Kept(k)'
  BY <1>3, <1>0
    DEF TypeOK, Standing, Kept, Cancel, Take, Claimable, Queued, history, TakenOnce,
      NobodyAtIt
<1>4. ASSUME NEW j \in Jobs, EngineEnds(j) PROVE Kept(k)'
  BY <1>4, <1>0 DEF TypeOK, Standing, Kept, EngineEnds, memory, history
<1>5. ASSUME NEW j \in Jobs, CancelQueued(j) PROVE Kept(k)'
  BY <1>5, <1>0 DEF TypeOK, Standing, Kept, CancelQueued, memory
<1>6. ASSUME NEW j \in Jobs, CancelQueuedFails(j) PROVE Kept(k)'
  BY <1>6, <1>0 DEF TypeOK, Standing, Kept, CancelQueuedFails, Strikes
<1>7. ASSUME NEW j \in Jobs, Finalize(j) PROVE Kept(k)'
  <2>1. CASE j \in jobs
    BY <1>0, <1>7, <2>1 DEF TypeOK, Standing, Kept, Finalize, Remove, history
  <2>2. CASE j \notin jobs
    BY <1>0, <1>7, <2>2 DEF TypeOK, Standing, Kept, Finalize, Remove, history
  <2>3. QED
    BY <2>1, <2>2
<1>8. ASSUME NEW j \in Jobs, SaveResults(j) PROVE Kept(k)'
  BY <1>8, <1>0 DEF TypeOK, Standing, Kept, SaveResults
<1>9. ASSUME NEW j \in Jobs, Finish(j) PROVE Kept(k)'
  BY <1>9, <1>0 DEF TypeOK, Standing, Kept, Finish
<1>10. ASSUME DispatchPop PROVE Kept(k)'
  BY <1>10, <1>0 DEF TypeOK, Standing, Kept, DispatchPop, memory
<1>11. ASSUME DispatchSlot PROVE Kept(k)'
  BY <1>11, <1>0 DEF TypeOK, Standing, Kept, DispatchSlot, history
<1>12. ASSUME DispatchClaim PROVE Kept(k)'
  BY <1>12, <1>0 DEF TypeOK, Standing, Kept, DispatchClaim, history
<1>13. ASSUME DispatchMark PROVE Kept(k)'
  BY <1>13, <1>0 DEF TypeOK, Standing, Kept, DispatchMark, memory
<1>14. ASSUME DispatchLaunch PROVE Kept(k)'
  BY <1>14, <1>0 DEF TypeOK, Standing, Kept, DispatchLaunch, memory, TakenOnce, NobodyAtIt
<1>15. ASSUME DrainBegin PROVE Kept(k)'
  BY <1>15, <1>0
    DEF TypeOK, Standing, Kept, DrainBegin, history, Queued, TakenOnce, NobodyAtIt
<1>16. ASSUME ProcessEnds PROVE Kept(k)'
  <2>1. Standing(k) /\ faults = 0 /\ drain = "savewait" /\ ~Busy
    BY <1>16, FaultsStay DEF TypeOK, ProcessEnds, Fresh, UnderWay, Standing
  <2>2. k \notin jobs /\ work[k] # "saving"
    BY <2>1, NotBusy DEF DrainClaimsAll
  <2>3. QED
    BY <1>0, <1>16, <2>1, <2>2 DEF ProcessEnds, Kept
<1>17. CASE OnTheSide
  BY <1>0, <1>17 DEF OnTheSide, Kept
<1>18. QED
  BY <1>1, <1>2, <1>3, <1>4, <1>5, <1>6, <1>7, <1>8, <1>9, <1>10, <1>11, <1>12, <1>13,
    <1>14, <1>15, <1>16, <1>17, RolloutSteps

\* A stop that no fault struck, its patience running out included, has recorded
\* every rollout somebody was told is queued: no cancel, withdrawal, missing slot
\* or late submit makes drain() leave one behind, for any rollouts and limits.
THEOREM StopLosesNothing == Spec => ExitLosesNothing
<1>1. Init => NothingDropped /\ DrainClaimsAll
  BY DEF Init, NothingDropped, DrainClaimsAll, Standing
<1>2. TypeOK /\ TakenOnce /\ CountInv /\ NothingDropped /\ DrainClaimsAll /\ [Next]_vars
        => (NothingDropped /\ DrainClaimsAll)'
  BY DrainStep, DroppedStep
<1>3. TypeOK /\ CountInv /\ NothingDropped /\ DrainClaimsAll /\ [Next]_vars
        => [DrainExit /\ faults' = 0
              => \A j \in Jobs : submit[j] = "accepted" => recorded[j] # {}]_vars
  <2> SUFFICES ASSUME TypeOK, CountInv, NothingDropped, DrainClaimsAll, DrainExit, faults' = 0,
                      NEW j \in Jobs, submit[j] = "accepted"
               PROVE  recorded[j] # {}
    OBVIOUS
  <2>1. faults = 0 /\ ~Busy /\ drain = "savewait"
    BY DEF TypeOK, DrainExit, WaitEnds, Strikes
  <2>2. j \notin jobs /\ work[j] # "saving"
    BY <2>1, NotBusy DEF DrainClaimsAll
  <2>3. QED
    BY <2>1, <2>2 DEF NothingDropped, Standing
<1>4. QED
  BY <1>1, <1>2, <1>3, TypeCorrect, TakenAndRecordedOnce, CountInvariant, PTL
    DEF Spec, ExitLosesNothing

-----------------------------------------------------------------------------
(***************************************************************************)
(* The gauges in Redis (GaugesAgree), while every write goes through: no   *)
(* outage, no lost reply, no failed metadata write or cancellation.  What  *)
(* is left to strike is a crash, a thread that cannot be had, and a drain  *)
(* that runs out of patience.                                              *)
(***************************************************************************)
WritesGoThrough == Faults \cap {"outage", "reply_lost", "postgres", "log"} = {}

\* Steps that are not about a gauge, nor about what a gauge counts.
GaugesAside ==
  UNCHANGED <<up, jobs, claimed, work, disp, submit, ran, recorded, redisUp, pending, active>>

ProcessStops == up /\ up' = FALSE /\ Fresh /\ UNCHANGED <<redis, ran, recorded>>

\* While Redis is there and nothing is lost, every call is answered.
LEMMA CallAnswered ==
  ASSUME WritesGoThrough, redisUp
  PROVE  ~Refused /\ ~Lost /\ (Executed => Answered /\ redisUp')
BY DEF WritesGoThrough, Refused, Lost, Executed, Answered, Strikes


\* What a step can be while every write goes through: nobody withdraws.
LEMMA GaugeSteps ==
  ASSUME WritesGoThrough, TypeOK, Smooth, [Next]_vars
  PROVE  \/ GaugesAside
         \/ \E j \in Jobs :
              \/ SubmitRefused(j) \/ SubmitClaim(j) \/ SubmitAdd(j) \/ SubmitDescribe(j)
              \/ SubmitEnqueue(j) \/ Cancel(j) \/ EngineEnds(j) \/ CancelQueued(j) \/ Finalize(j)
              \/ SaveResults(j) \/ Finish(j)
         \/ DispatchPop \/ DispatchSlot \/ DispatchClaim \/ DispatchMark \/ DispatchLaunch
         \/ DrainBegin \/ ProcessStops \/ Start
<1>0. redisUp /\ ~Refused /\ ~Lost /\ (Executed => Answered /\ redisUp')
  BY CallAnswered DEF Smooth
<1>1. ASSUME NEW j \in Jobs, WithdrawRemove(j) \/ WithdrawUnqueue(j) \/ WithdrawGone(j) PROVE FALSE
  BY <1>1 DEF Smooth, WithdrawRemove, WithdrawUnqueue, WithdrawGone
<1>2. ASSUME NEW j \in Jobs, CancelQueuedFails(j) PROVE FALSE
  BY <1>2 DEF WritesGoThrough, CancelQueuedFails, Strikes
<1>3. ASSUME NEW j \in Jobs, CancelMark(j) \/ DrainCancel(j) PROVE GaugesAside
  <2>1. StoreSetStatus(j) /\ redisUp'
    BY <1>0, <1>3 DEF CancelMark, DrainCancel
  <2>2. QED
    BY <1>0, <1>3, <2>1 DEF GaugesAside, CancelMark, DrainCancel, StoreSetStatus, memory
<1>4. ASSUME Pause \/ Resume PROVE GaugesAside
  BY <1>4 DEF GaugesAside, Pause, Resume, threads, redis, history
<1>5. ASSUME DrainRecorded \/ DrainWaited \/ DrainCancelled PROVE GaugesAside
  BY <1>5 DEF GaugesAside, DrainRecorded, DrainWaited, DrainCancelled, memory, redis, history
<1>6. ASSUME DrainCancelWaited PROVE GaugesAside
  BY <1>6 DEF GaugesAside, DrainCancelWaited, memory, redis
<1>7. ASSUME DrainExit \/ Crash PROVE ProcessStops
  BY <1>7 DEF ProcessStops, DrainExit, Crash
<1>8. ASSUME RedisFails \/ RedisReturns PROVE FALSE
  BY <1>0, <1>8 DEF WritesGoThrough, RedisFails, RedisReturns, Strikes
<1>9. CASE UNCHANGED vars
  BY <1>9 DEF GaugesAside, vars, memory, threads, redis, history
<1>10. QED
  BY <1>1, <1>2, <1>3, <1>4, <1>5, <1>6, <1>7, <1>8, <1>9
    DEF Next, Submitting, Worker, Dispatcher, Draining

\* Each of them leaves the process as Smooth has it.
LEMMA SmoothStep ==
  ASSUME WritesGoThrough, TypeOK, DeviceInv, TakenOnce, Smooth, [Next]_vars
  PROVE  Smooth'
<1>0. redisUp /\ ~Refused /\ ~Lost /\ (Executed => Answered /\ redisUp')
  BY CallAnswered DEF Smooth
<1> USE DEF Smooth, Standing, Listed, UnderWay, NobodyAtIt
<1>1. ASSUME NEW j \in Jobs, SubmitRefused(j) PROVE Smooth'
  BY <1>1, <1>0 DEF TypeOK, DeviceInv, TableHolds, ClaimedOnce, EntriesAccepted, TakenOnce, SubmitRefused, memory, history, redis
<1>2. ASSUME NEW j \in Jobs, SubmitClaim(j) PROVE Smooth'
  BY <1>2, <1>0 DEF TypeOK, DeviceInv, TableHolds, ClaimedOnce, EntriesAccepted, TakenOnce, SubmitClaim, history, redis, TableHolds
<1>3. ASSUME NEW j \in Jobs, SubmitAdd(j) PROVE Smooth'
  <2>1. submit[j] = "claimed" /\ submit' = [submit EXCEPT ![j] = "added"] /\ redisUp' = redisUp
          /\ UNCHANGED <<memory, disp, work, ran, recorded>>
    BY Zenon, <1>3, <1>0 DEF SubmitAdd, Answered
  <2>2. QED
    BY <1>0, <1>3, <2>1 DEF TypeOK, DeviceInv, TableHolds, ClaimedOnce, EntriesAccepted, TakenOnce, memory
<1>4. ASSUME NEW j \in Jobs, SubmitDescribe(j) PROVE Smooth'
  BY <1>4, <1>0 DEF TypeOK, DeviceInv, TableHolds, ClaimedOnce, EntriesAccepted, TakenOnce, SubmitDescribe, memory, redis, Strikes, WritesGoThrough
<1>5. ASSUME NEW j \in Jobs, SubmitEnqueue(j) PROVE Smooth'
  <2>1. submit[j] = "described" /\ submit' = [submit EXCEPT ![j] = "accepted"] /\ redisUp' = redisUp
          /\ UNCHANGED <<memory, disp, work, ran, recorded>>
    BY Zenon, <1>5, <1>0 DEF SubmitEnqueue, Answered
  <2>2. QED
    BY <1>0, <1>5, <2>1 DEF TypeOK, DeviceInv, TableHolds, ClaimedOnce, EntriesAccepted, TakenOnce, memory
<1>6. ASSUME NEW j \in Jobs, Cancel(j) PROVE Smooth'
  <2>1. CASE Claimable(j)
    BY <1>6, <1>0, <2>1 DEF TypeOK, DeviceInv, TableHolds, ClaimedOnce, EntriesAccepted, TakenOnce, Cancel, Take, Claimable, Queued, redis, history
  <2>2. CASE ~Claimable(j)
    BY <1>6, <1>0, <2>2 DEF TypeOK, DeviceInv, TableHolds, ClaimedOnce, EntriesAccepted, TakenOnce, Cancel, Take, Claimable, Queued, redis, history
  <2>3. QED
    BY <2>1, <2>2
<1>7. ASSUME NEW j \in Jobs, EngineEnds(j) PROVE Smooth'
  BY <1>7, <1>0 DEF TypeOK, DeviceInv, TableHolds, ClaimedOnce, EntriesAccepted, TakenOnce, EngineEnds, memory, redis, history
<1>8. ASSUME NEW j \in Jobs, CancelQueued(j) PROVE Smooth'
  BY <1>8, <1>0 DEF TypeOK, DeviceInv, TableHolds, ClaimedOnce, EntriesAccepted, TakenOnce, CancelQueued, memory, StoreUnqueue
<1>9. ASSUME NEW j \in Jobs, Finalize(j) PROVE Smooth'
  BY <1>9, <1>0 DEF TypeOK, DeviceInv, TableHolds, ClaimedOnce, EntriesAccepted, TakenOnce, Finalize, Remove, redis, history
<1>10. ASSUME NEW j \in Jobs, SaveResults(j) PROVE Smooth'
  BY <1>10, <1>0 DEF TypeOK, DeviceInv, TableHolds, ClaimedOnce, EntriesAccepted, TakenOnce, SaveResults, redis
<1>11. ASSUME NEW j \in Jobs, Finish(j) PROVE Smooth'
  BY <1>11, <1>0 DEF TypeOK, DeviceInv, TableHolds, ClaimedOnce, EntriesAccepted, TakenOnce, Finish, StoreFinished
<1>12. ASSUME DispatchPop PROVE Smooth'
  <2>1. up /\ disp.at = "pop" /\ disp' = [at |-> "slot", job |-> Head(queue)] /\ redisUp' = redisUp
          /\ UNCHANGED <<memory, submit, work, ran, recorded>>
    BY Zenon, <1>12, <1>0 DEF DispatchPop, Answered
  <2>2. disp'.at = "slot"
    BY <2>1
  <2>3. up /\ disp.at = "pop" /\ redisUp' = redisUp /\ UNCHANGED <<up, jobs, claimed, submit, work, ran, recorded>>
    BY <2>1 DEF memory
  <2>4. QED
    BY <1>0, <2>2, <2>3
<1>13. ASSUME DispatchSlot PROVE Smooth'
  BY <1>13, <1>0 DEF TypeOK, DeviceInv, TableHolds, ClaimedOnce, EntriesAccepted, TakenOnce, DispatchSlot, redis, history
<1>14. ASSUME DispatchClaim PROVE Smooth'
  <2>1. CASE Claimable(disp.job) /\ ~draining
    BY <1>14, <1>0, <2>1 DEF TypeOK, DeviceInv, TableHolds, ClaimedOnce, EntriesAccepted, TakenOnce, DispatchClaim, Claimable, Queued, redis, history
  <2>2. CASE ~(Claimable(disp.job) /\ ~draining)
    BY <1>14, <1>0, <2>2 DEF TypeOK, DeviceInv, TableHolds, ClaimedOnce, EntriesAccepted, TakenOnce, DispatchClaim, Claimable, Queued, redis, history
  <2>3. QED
    BY <2>1, <2>2
<1>15. ASSUME DispatchMark PROVE Smooth'
  BY <1>15, <1>0 DEF TypeOK, DeviceInv, TableHolds, ClaimedOnce, EntriesAccepted, TakenOnce, DispatchMark, memory, StoreStarted
<1>16. ASSUME DispatchLaunch PROVE Smooth'
  <2>1. CASE work' = [work EXCEPT ![disp.job] = "running"] /\ ran' = ran \cup {disp.job} /\ disp'.at = "pop"
    BY <1>16, <1>0, <2>1 DEF TypeOK, DeviceInv, TableHolds, ClaimedOnce, EntriesAccepted, TakenOnce, DispatchLaunch, memory, redis
  <2>2. CASE disp' = [disp EXCEPT !.at = "dead"] /\ UNCHANGED <<work, ran>>
    BY <1>16, <1>0, <2>2 DEF TypeOK, DeviceInv, TableHolds, ClaimedOnce, EntriesAccepted, TakenOnce, DispatchLaunch, memory, redis
  <2>3. QED
    BY <1>16, <2>1, <2>2 DEF DispatchLaunch
<1>17. ASSUME DrainBegin PROVE Smooth'
  BY <1>17, <1>0 DEF TypeOK, DeviceInv, TableHolds, ClaimedOnce, EntriesAccepted, TakenOnce, DrainBegin, Queued, redis, history
<1>18. ASSUME ProcessStops PROVE Smooth'
  BY <1>18, <1>0 DEF TypeOK, DeviceInv, TableHolds, ClaimedOnce, EntriesAccepted, TakenOnce, ProcessStops, Fresh, redis
<1>19. ASSUME Start PROVE Smooth'
  BY <1>19, <1>0 DEF TypeOK, DeviceInv, TableHolds, ClaimedOnce, EntriesAccepted, TakenOnce, Start, threads, StoreResetStale
<1>20. CASE GaugesAside
  BY <1>20 DEF GaugesAside
<1>21. QED
  BY <1>1, <1>2, <1>3, <1>4, <1>5, <1>6, <1>7, <1>8, <1>9, <1>10, <1>11, <1>12, <1>13, <1>14, <1>15, <1>16, <1>17, <1>18, <1>19, <1>20, GaugeSteps

\* A step that touches neither the gauges nor what they count.
LEMMA GaugesFrame ==
  ASSUME GaugesCount, up' => up, UNCHANGED <<pending, active>>,
         Pending' = Pending, Owed' = Owed, Active' = Active
  PROVE  GaugesCount'
  BY DEF GaugesCount

\* What is counted follows from where the submits, the threads and the dispatcher are.
LEMMA CountedByPlaces ==
  ASSUME UNCHANGED <<jobs, submit, work, disp, ran>>
  PROVE  Pending' = Pending /\ Owed' = Owed /\ Active' = Active
  BY DEF Pending, Owed, Active, Listed, Started

\* Every step moves a gauge by as much as what it counts (JobStore.add, started, finished).
LEMMA GaugeCountStep ==
  ASSUME WritesGoThrough, TypeOK, DeviceInv, TakenOnce, Smooth, GaugesCount, [Next]_vars
  PROVE  GaugesCount'
<1>0. redisUp /\ ~Refused /\ ~Lost /\ (Executed => Answered /\ redisUp')
  BY CallAnswered DEF Smooth
<1> DEFINE SameSets == Pending' = Pending /\ Owed' = Owed /\ Active' = Active
<1>1. ASSUME NEW j \in Jobs, SubmitRefused(j) PROVE GaugesCount'
  <2>1. SameSets
    BY <1>1 DEF TypeOK, SubmitRefused, Pending, Owed, Active, Listed, Started, memory, history
  <2>2. QED
    BY <1>1, <2>1, GaugesFrame DEF SubmitRefused, memory, redis
<1>2. ASSUME NEW j \in Jobs, SubmitClaim(j) PROVE GaugesCount'
  <2>1. work[j] = "none"
    BY <1>2 DEF SubmitClaim, DeviceInv, ClaimedOnce
  <2>2. SameSets
    BY <1>2, <2>1 DEF TypeOK, SubmitClaim, Pending, Owed, Active, Listed, Started, history
  <2>3. QED
    BY <1>2, <2>2, GaugesFrame DEF SubmitClaim, redis
<1>3. ASSUME NEW j \in Jobs, SubmitAdd(j) PROVE GaugesCount'
  <2>1. /\ up /\ submit[j] = "claimed" /\ submit' = [submit EXCEPT ![j] = "added"]
        /\ StoreAdd(j) /\ UNCHANGED <<memory, disp, work, ran>>
    BY Zenon, <1>0, <1>3 DEF SubmitAdd
  <2>2. pending' = pending + 1 /\ active' = active /\ UNCHANGED <<up, jobs, disp, work, ran>>
    BY <2>1 DEF StoreAdd, memory
  <2>3. ~Started(j)
    BY <2>1 DEF Smooth, DeviceInv, EntriesAccepted, Started
  <2>4. Active' = Active
    BY <2>2 DEF Active, Started
  <2>5. CASE work[j] = "over"
    <3>1. j \in Owed /\ Owed' = Owed \ {j}
      BY <2>1, <2>2, <2>5 DEF TypeOK, Owed
    <3>2. Pending' = Pending
      BY <2>1, <2>2, <2>5 DEF TypeOK, Pending, Listed, Started, Smooth
    <3>3. IsFiniteSet(Owed') /\ Cardinality(Owed') = Cardinality(Owed) - 1 /\ Cardinality(Owed) \in Nat
      BY <2>1, <3>1, OneLess DEF GaugesCount
    <3>4. Cardinality(Pending) \in Nat
      BY <2>1, FS_CardinalityType DEF GaugesCount
    <3>5. QED
      BY <2>1, <2>2, <2>4, <3>2, <3>3, <3>4 DEF GaugesCount
  <2>6. CASE work[j] # "over"
    <3>1. j \notin Pending /\ Pending' = Pending \cup {j}
      BY <2>1, <2>2, <2>3, <2>6 DEF TypeOK, Pending, Listed, Started, Smooth, Standing
    <3>2. Owed' = Owed
      BY <2>1, <2>2, <2>6 DEF TypeOK, Owed
    <3>3. IsFiniteSet(Pending') /\ Cardinality(Pending') = Cardinality(Pending) + 1 /\ Cardinality(Pending) \in Nat
      BY <2>1, <3>1, OneMore DEF GaugesCount
    <3>4. Cardinality(Owed) \in Nat
      BY <2>1, FS_CardinalityType DEF GaugesCount
    <3>5. QED
      BY <2>1, <2>2, <2>4, <3>2, <3>3, <3>4 DEF GaugesCount
  <2>7. QED
    BY <2>5, <2>6
<1>4. ASSUME NEW j \in Jobs, SubmitDescribe(j) PROVE GaugesCount'
  <2>1. submit[j] = "added" /\ submit' = [submit EXCEPT ![j] = "described"]
    BY <1>4 DEF SubmitDescribe, Strikes, WritesGoThrough
  <2>2. SameSets
    BY <1>4, <2>1 DEF TypeOK, SubmitDescribe, Pending, Owed, Active, Listed, Started, memory
  <2>3. QED
    BY <1>4, <2>2, GaugesFrame DEF SubmitDescribe, memory, redis
<1>5. ASSUME NEW j \in Jobs, SubmitEnqueue(j) PROVE GaugesCount'
  <2>1. /\ submit[j] = "described" /\ submit' = [submit EXCEPT ![j] = "accepted"]
        /\ StoreEnqueue(j) /\ UNCHANGED <<memory, disp, work, ran>>
    BY Zenon, <1>0, <1>5 DEF SubmitEnqueue
  <2>2. SameSets
    BY <2>1 DEF TypeOK, Pending, Owed, Active, Listed, Started, memory
  <2>3. QED
    BY <2>1, <2>2, GaugesFrame DEF StoreEnqueue, memory
<1>6. ASSUME NEW j \in Jobs, Cancel(j) PROVE GaugesCount'
  <2>1. CASE Claimable(j)
    <3>1. j \in jobs /\ work[j] = "none" /\ work' = [work EXCEPT ![j] = "dropped"]
          /\ UNCHANGED <<jobs, submit, disp, ran>>
      BY <1>6, <2>1 DEF Cancel, Claimable, Queued, Take, DeviceInv, ClaimedOnce, history
    <3>2. SameSets
      BY <3>1 DEF TypeOK, Pending, Owed, Active, Listed, Started
    <3>3. QED
      BY <1>6, <3>2, GaugesFrame DEF Cancel, redis
  <2>2. CASE ~Claimable(j)
    BY <1>6, <2>2, GaugesFrame, CountedByPlaces DEF Cancel, redis, history
  <2>3. QED
    BY <2>1, <2>2
<1>7. ASSUME NEW j \in Jobs, EngineEnds(j) PROVE GaugesCount'
  <2>1. SameSets
    BY <1>7 DEF TypeOK, EngineEnds, Pending, Owed, Active, Listed, Started, memory, history
  <2>2. QED
    BY <1>7, <2>1, GaugesFrame DEF EngineEnds, memory, redis
<1>8. ASSUME NEW j \in Jobs, CancelQueued(j) PROVE GaugesCount'
  <2>1. work[j] = "dropped" /\ work' = [work EXCEPT ![j] = "unqueued"] /\ StoreUnqueue(j)
        /\ UNCHANGED <<memory, submit, disp, ran>>
    BY Zenon, <1>0, <1>8 DEF CancelQueued
  <2>2. SameSets
    BY <2>1 DEF TypeOK, Pending, Owed, Active, Listed, Started, memory
  <2>3. QED
    BY <2>1, <2>2, GaugesFrame DEF StoreUnqueue, memory
<1>9. ASSUME NEW j \in Jobs, Finalize(j) PROVE GaugesCount'
  <2>1. work[j] \in {"ended", "unqueued"} /\ j \in jobs
    BY <1>9 DEF Finalize, Smooth
  <2>2. jobs' = jobs \ {j} /\ work' = [work EXCEPT ![j] = "saving"] /\ UNCHANGED <<submit, disp, ran>>
    BY <1>9, <2>1 DEF Finalize, Remove, history
  <2>3. SameSets
    BY <2>1, <2>2 DEF TypeOK, Pending, Owed, Active, Listed, Started
  <2>4. QED
    BY <1>9, <2>3, GaugesFrame DEF Finalize, redis
<1>10. ASSUME NEW j \in Jobs, SaveResults(j) PROVE GaugesCount'
  <2>1. SameSets
    BY <1>10 DEF TypeOK, SaveResults, Pending, Owed, Active, Listed, Started
  <2>2. QED
    BY <1>10, <2>1, GaugesFrame DEF SaveResults, redis
<1>11. ASSUME NEW j \in Jobs, Finish(j) PROVE GaugesCount'
  <2>1. /\ up /\ work[j] = "saved" /\ work' = [work EXCEPT ![j] = "over"]
        /\ StoreFinished(j, j \in ran) /\ UNCHANGED <<up, jobs, submit, disp, ran>>
    BY Zenon, <1>0, <1>11 DEF Finish
  <2>2. Standing(j) /\ j \notin jobs
    BY <2>1 DEF Smooth
  <2>3. ~(disp.at \in {"launch", "dead"} /\ disp.job = j)
    BY <2>1 DEF Smooth, DeviceInv, ClaimedOnce, NobodyAtIt
  <2>4. CASE j \in ran
    <3>1. j \in Active /\ Active' = Active \ {j}
      BY <2>1, <2>4 DEF TypeOK, Active, Started
    <3>2. Pending' = Pending
      BY <2>1, <2>4 DEF TypeOK, Pending, Listed, Started
    <3>3. Owed' = Owed
      BY <2>1, <2>4 DEF TypeOK, Owed, Smooth
    <3>4. pending' = pending /\ active' = active - 1
      BY <2>1, <2>4 DEF StoreFinished
    <3>5. IsFiniteSet(Active') /\ Cardinality(Active') = Cardinality(Active) - 1 /\ Cardinality(Active) \in Nat
      BY <2>1, <3>1, OneLess DEF GaugesCount
    <3>6. QED
      BY <2>1, <3>2, <3>3, <3>4, <3>5 DEF GaugesCount
  <2>5. CASE j \notin ran
    <3>1. Active' = Active
      BY <2>1, <2>3, <2>5 DEF TypeOK, Active, Started
    <3>2. pending' = pending - 1 /\ active' = active
      BY <2>1, <2>5 DEF StoreFinished
    <3>3. CASE submit[j] = "claimed"
      <4>1. j \notin Owed /\ Owed' = Owed \cup {j}
        BY <2>1, <3>3 DEF TypeOK, Owed
      <4>2. Pending' = Pending
        BY <2>1, <3>3 DEF TypeOK, Pending, Listed, Started
      <4>3. IsFiniteSet(Owed') /\ Cardinality(Owed') = Cardinality(Owed) + 1 /\ Cardinality(Owed) \in Nat
        BY <2>1, <4>1, OneMore DEF GaugesCount
      <4>4. Cardinality(Pending) \in Nat
        BY <2>1, FS_CardinalityType DEF GaugesCount
      <4>5. QED
        BY <2>1, <3>1, <3>2, <4>2, <4>3, <4>4 DEF GaugesCount
    <3>4. CASE submit[j] # "claimed"
      <4>1. j \in Pending /\ Pending' = Pending \ {j}
        BY <2>1, <2>2, <2>3, <2>5, <3>4 DEF TypeOK, Pending, Listed, Started, Standing
      <4>2. Owed' = Owed
        BY <2>1, <3>4 DEF TypeOK, Owed
      <4>3. IsFiniteSet(Pending') /\ Cardinality(Pending') = Cardinality(Pending) - 1 /\ Cardinality(Pending) \in Nat
        BY <2>1, <4>1, OneLess DEF GaugesCount
      <4>4. Cardinality(Owed) \in Nat
        BY <2>1, FS_CardinalityType DEF GaugesCount
      <4>5. QED
        BY <2>1, <3>1, <3>2, <4>2, <4>3, <4>4 DEF GaugesCount
    <3>5. QED
      BY <3>3, <3>4
  <2>6. QED
    BY <2>4, <2>5
<1>12. ASSUME DispatchPop PROVE GaugesCount'
  <2>1. disp.at = "pop" /\ disp' = [at |-> "slot", job |-> Head(queue)] /\ StoreNextQueued
        /\ UNCHANGED <<memory, submit, work, ran>>
    BY Zenon, <1>12, <1>0 DEF DispatchPop
  <2>2. disp'.at = "slot"
    BY <2>1
  <2>3. SameSets
    BY <2>1, <2>2 DEF Pending, Owed, Active, Listed, Started, memory
  <2>4. QED
    BY <2>1, <2>3, GaugesFrame DEF StoreNextQueued, memory
<1>13. ASSUME DispatchSlot PROVE GaugesCount'
  <2>1. disp.at = "slot" /\ disp'.at = "claim" /\ UNCHANGED <<jobs, submit, work, ran>>
    BY <1>13 DEF TypeOK, DispatchSlot, history
  <2>2. SameSets
    BY <2>1 DEF Pending, Owed, Active, Listed, Started
  <2>3. QED
    BY <1>13, <2>2, GaugesFrame DEF DispatchSlot, redis
<1>14. ASSUME DispatchClaim PROVE GaugesCount'
  <2>1. disp.at = "claim" /\ disp'.at \in {"mark", "pop"} /\ UNCHANGED <<jobs, submit, work, ran>>
    BY <1>14 DEF TypeOK, DispatchClaim, history
  <2>2. SameSets
    BY <2>1 DEF Pending, Owed, Active, Listed, Started
  <2>3. QED
    BY <1>14, <2>2, GaugesFrame DEF DispatchClaim, redis
<1>15. ASSUME DispatchMark PROVE GaugesCount'
  <2> DEFINE j == disp.job
  <2>1. /\ up /\ disp.at = "mark" /\ disp' = [disp EXCEPT !.at = "launch"]
        /\ StoreStarted(j) /\ UNCHANGED <<memory, submit, work, ran>>
    BY Zenon, <1>0, <1>15 DEF DispatchMark
  <2>2. disp'.at = "launch" /\ disp'.job = j /\ j \in Jobs
    BY <2>1 DEF TypeOK
  <2>3. /\ j \in jobs /\ submit[j] = "accepted" /\ work[j] = "none" /\ j \notin ran
    BY <2>1 DEF DeviceInv, ClaimedOnce, EntriesAccepted, TakenOnce, NobodyAtIt
  <2>4. pending' = pending - 1 /\ active' = active + 1 /\ UNCHANGED <<up, jobs, submit, work, ran>>
    BY <2>1 DEF StoreStarted, memory
  <2> HIDE DEF j
  <2>5. Owed' = Owed
    BY <2>4 DEF Owed
  <2>6. j \in Pending /\ Pending' = Pending \ {j}
    BY <2>1, <2>2, <2>3, <2>4 DEF Pending, Listed, Started
  <2>7. j \notin Active /\ Active' = Active \cup {j}
    BY <2>1, <2>2, <2>3, <2>4 DEF Active, Started
  <2>8. IsFiniteSet(Pending') /\ Cardinality(Pending') = Cardinality(Pending) - 1 /\ Cardinality(Pending) \in Nat
    BY <2>1, <2>6, OneLess DEF GaugesCount
  <2>9. IsFiniteSet(Active') /\ Cardinality(Active') = Cardinality(Active) + 1 /\ Cardinality(Active) \in Nat
    BY <2>1, <2>7, OneMore DEF GaugesCount
  <2>10. Cardinality(Owed) \in Nat
    BY <2>1, FS_CardinalityType DEF GaugesCount
  <2>11. QED
    BY <2>1, <2>4, <2>5, <2>8, <2>9, <2>10 DEF GaugesCount
<1>16. ASSUME DispatchLaunch PROVE GaugesCount'
  <2> DEFINE j == disp.job
  <2>1. /\ disp.at = "launch" /\ j \in Jobs /\ work[j] = "none" /\ UNCHANGED <<up, jobs, submit, pending, active>>
    BY <1>16 DEF TypeOK, DispatchLaunch, DeviceInv, ClaimedOnce, memory, redis
  <2>2. CASE work' = [work EXCEPT ![j] = "running"] /\ ran' = ran \cup {j} /\ disp'.at = "pop"
    <3> HIDE DEF j
    <3>1. \A k \in Jobs : Started(k)' <=> Started(k)
      BY <2>1, <2>2 DEF Started, j
    <3>2. SameSets
      BY <2>1, <2>2, <3>1 DEF TypeOK, Pending, Owed, Active, Listed
    <3>3. QED
      BY <2>1, <3>2, GaugesFrame
  <2>3. CASE disp' = [disp EXCEPT !.at = "dead"] /\ UNCHANGED <<work, ran>>
    <3>1. disp'.at = "dead" /\ disp'.job = j
      BY <2>1, <2>3 DEF TypeOK
    <3>2. SameSets
      BY <2>1, <2>3, <3>1 DEF Pending, Owed, Active, Listed, Started
    <3>3. QED
      BY <2>1, <3>2, GaugesFrame
  <2>4. QED
    BY <1>16, <2>2, <2>3 DEF DispatchLaunch
<1>17. ASSUME DrainBegin PROVE GaugesCount'
  <2>1. \A k \in Jobs : work'[k] = work[k] \/ (k \in jobs /\ work[k] = "none" /\ work'[k] = "dropped")
    BY <1>17 DEF TypeOK, DrainBegin, Queued, DeviceInv, ClaimedOnce
  <2>2. SameSets
    BY <1>17, <2>1 DEF DrainBegin, Pending, Owed, Active, Listed, Started, history
  <2>3. QED
    BY <1>17, <2>2, GaugesFrame DEF DrainBegin, redis
<1>18. ASSUME ProcessStops PROVE GaugesCount'
  BY <1>18 DEF ProcessStops, GaugesCount
<1>19. ASSUME Start PROVE GaugesCount'
  <2>1. StoreResetStale /\ ~up /\ UNCHANGED <<jobs, threads, ran>>
    BY Zenon, <1>0, <1>19 DEF Start
  <2>2. pending' = 0 /\ active' = 0 /\ UNCHANGED <<jobs, submit, work, disp, ran>>
    BY <2>1 DEF StoreResetStale, threads
  <2>3. Pending = {} /\ Owed = {}
    BY <2>1 DEF Smooth, Pending, Owed, Listed, UnderWay
  <2>4. Active = {}
    BY <2>1 DEF TypeOK, Smooth, Active, Started, TakenOnce
  <2>5. Pending' = {} /\ Owed' = {} /\ Active' = {}
    BY <2>2, <2>3, <2>4, CountedByPlaces
  <2>6. QED
    BY <2>2, <2>5, FS_EmptySet DEF GaugesCount
<1>20. CASE GaugesAside
  BY <1>20, GaugesFrame, CountedByPlaces DEF GaugesAside
<1>21. QED
  BY <1>1, <1>2, <1>3, <1>4, <1>5, <1>6, <1>7, <1>8, <1>9, <1>10, <1>11, <1>12, <1>13, <1>14, <1>15,
    <1>16, <1>17, <1>18, <1>19, <1>20, GaugeSteps

\* Unless a write to Redis or Postgres fails, or a cancellation cannot be written down, the two gauges
\* count the queued and the running rollouts whenever no thread is in mid-step: on every way a rollout
\* can start and end, a restart that clears what a dead process left included.
THEOREM GaugesCorrect ==
  ASSUME WritesGoThrough
  PROVE  Spec => []GaugesAgree
<1>0. "reply_lost" \notin Faults
  BY DEF WritesGoThrough
<1>1. Init => Smooth /\ GaugesCount
  <2> SUFFICES ASSUME Init PROVE Smooth /\ GaugesCount
    OBVIOUS
  <2>1. Smooth
    BY DEF Init, Smooth, Standing, Listed
  <2>2. Pending = {} /\ Owed = {} /\ Active = {} /\ pending = 0 /\ active = 0
    BY DEF Init, Pending, Owed, Active, Listed, Started
  <2>3. QED
    BY <2>1, <2>2, FS_EmptySet DEF GaugesCount
<1>2. TypeOK /\ DeviceInv /\ TakenOnce /\ Smooth /\ GaugesCount /\ [Next]_vars => (Smooth /\ GaugesCount)'
  BY SmoothStep, GaugeCountStep
<1>3. TypeOK /\ DeviceInv /\ TakenOnce /\ Smooth /\ GaugesCount => GaugesAgree
  <2> SUFFICES ASSUME TypeOK, DeviceInv, TakenOnce, Smooth, GaugesCount, up, Quiet
               PROVE  pending = Cardinality(Queued) /\ active = Cardinality(Running)
    BY DEF GaugesAgree
  <2>1. ~(disp.at \in {"mark", "launch", "dead"})
    BY DEF Quiet
  <2>2. \A j \in jobs : submit[j] = "accepted" /\ work[j] \in {"none", "running"}
    BY DEF TypeOK, Quiet, UnderWay, Smooth, Standing
  <2>3. Owed = {}
    BY DEF Owed, Quiet, UnderWay
  <2>4. \A j \in jobs : j \in claimed <=> j \in ran
    BY <2>1, <2>2 DEF TypeOK, Smooth, TakenOnce, NobodyAtIt
  <2>5. Pending = Queued
    BY <2>1, <2>2, <2>4 DEF TypeOK, Quiet, Pending, Queued, Listed, Started
  <2>6. \A j \in ran : work[j] \notin {"over", "cut"} => j \in jobs
    BY DEF TypeOK, Quiet, Smooth, TakenOnce
  <2>7. Active = Running
    BY <2>1, <2>2, <2>4, <2>6 DEF TypeOK, Active, Running, Started
  <2>8. /\ pending = Cardinality(Pending) - Cardinality(Owed)
        /\ active = Cardinality(Active)
        /\ Cardinality(Pending) \in Nat
    BY FS_CardinalityType DEF GaugesCount
  <2>9. Cardinality(Owed) = 0
    BY <2>3, FS_EmptySet
  <2>10. pending = Cardinality(Pending)
    BY <2>8, <2>9
  <2>11. QED
    BY <2>5, <2>7, <2>8, <2>10
<1>4. QED
  BY <1>0, <1>1, <1>2, <1>3, TypeCorrect, DeviceInvariant, TakenAndRecordedOnce, PTL DEF Spec
=============================================================================
