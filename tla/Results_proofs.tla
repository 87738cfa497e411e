--------------------------- MODULE Results_proofs ---------------------------
(***************************************************************************)
(* Proofs about what a launch starts, whom a run trusts, how people decide *)
(* about rows, and how all of it is backed up (Results), for any launches, *)
(* runs, rows, reviewers, backups and bounds.                              *)
(***************************************************************************)
EXTENDS Results, FiniteSetTheorems, FunctionTheorems, SequenceTheorems, WellFoundedInduction, TLAPS

(***************************************************************************)
(* Launch: all of a launch's platforms or none, one rollout per device.    *)
(***************************************************************************)

\* A launch's own keys: every platform of it has a job, each another.
LEMMA LaunchKeys ==
  ASSUME NEW l \in Launches
  PROVE  /\ \A i \in Start!Order(l) : <<l, PlatformsOf[l][i]>> \in Start!JobKeys
         /\ \A p \in Start!Range(PlatformsOf[l]) : \E i \in Start!Order(l) : p = PlatformsOf[l][i]
         /\ Len(PlatformsOf[l]) \in Nat \ {0}
<1>1. PlatformsOf[l] \in Seq(STRING) /\ PlatformsOf[l] # <<>>
  BY PlatformsAssumption
<1>2. Start!Range(PlatformsOf[l]) = {PlatformsOf[l][i] : i \in Start!Order(l)}
  BY <1>1 DEF Start!Range, Start!Order
<1>3. Len(PlatformsOf[l]) \in Nat \ {0}
  BY <1>1
<1>4. \A i \in Start!Order(l) : <<l, PlatformsOf[l][i]>> \in Start!JobKeys
  BY <1>2 DEF Start!JobKeys
<1>5. QED
  BY <1>2, <1>3, <1>4

\* Two positions of a launch have the same job only when they are the same.
LEMMA OwnKeys ==
  ASSUME NEW l \in Launches, NEW h \in Launches, NEW i \in Start!Order(l), NEW k \in Start!Order(h),
         <<l, PlatformsOf[l][i]>> = <<h, PlatformsOf[h][k]>>
  PROVE  l = h /\ i = k
<1>1. l = h /\ PlatformsOf[l][i] = PlatformsOf[l][k]
  OBVIOUS
<1>2. QED
  BY <1>1, PlatformsAssumption DEF Start!Order

\* A step of one launch leaves the other launches alone.
LEMMA LaunchMoves ==
  ASSUME Start!LaunchTyped, NEW l \in Launches, NEW there \in Start!LaunchSteps, NEW next \in Start!Order(l),
         Start!Moves(l, there, next)
  PROVE  /\ launch' \in [Launches -> [at : Start!LaunchSteps, next : Nat, queued : Nat]]
         /\ launch'[l].at = there /\ launch'[l].next = next /\ launch'[l].queued = launch[l].queued
         /\ \A h \in Launches \ {l} : launch'[h] = launch[h]
<1>1. next \in Nat
  BY LaunchKeys DEF Start!Order
<1>2. launch \in [Launches -> [at : Start!LaunchSteps, next : Nat, queued : Nat]]
  BY DEF Start!LaunchTyped
<1>3. QED
  BY <1>1, <1>2 DEF Start!Moves

\* So does one that turns to cancelling what it has queued.
LEMMA LaunchBacksOut ==
  ASSUME Start!LaunchTyped, NEW l \in Launches, launch[l].next \in Start!Order(l), Start!BacksOut(l)
  PROVE  /\ launch' \in [Launches -> [at : Start!LaunchSteps, next : Nat, queued : Nat]]
         /\ launch'[l].at = IF launch[l].next = 1 THEN "refused" ELSE "cancelling"
         /\ launch'[l].next = 1 /\ launch'[l].queued = launch[l].next - 1
         /\ \A h \in Launches \ {l} : launch'[h] = launch[h]
<1>1. launch \in [Launches -> [at : Start!LaunchSteps, next : Nat, queued : Nat]]
  BY DEF Start!LaunchTyped
<1>2. PICK there \in Start!LaunchSteps : there = IF launch[l].next = 1 THEN "refused" ELSE "cancelling"
  BY DEF Start!LaunchSteps
<1>3. PICK n \in Nat : n = launch[l].next - 1
  BY LaunchKeys DEF Start!Order
<1>4. launch' = [launch EXCEPT ![l] = [at |-> there, next |-> 1, queued |-> n]]
  BY <1>2, <1>3 DEF Start!BacksOut
<1>5. QED
  BY <1>1, <1>2, <1>3, <1>4

\* A step of one job leaves the other jobs alone.
LEMMA JobsChange ==
  ASSUME Start!LaunchTyped, NEW k \in Start!JobKeys, NEW state \in Start!JobStates,
         jobs' = [jobs EXCEPT ![k] = state]
  PROVE  /\ jobs' \in [Start!JobKeys -> Start!JobStates]
         /\ jobs'[k] = state
         /\ \A j \in Start!JobKeys \ {k} : jobs'[j] = jobs[j]
<1>1. jobs \in [Start!JobKeys -> Start!JobStates]
  BY DEF Start!LaunchTyped
<1>2. QED
  BY <1>1

\* A launch's other jobs are left alone by a step of one of them.
LEMMA OtherJobs ==
  ASSUME NEW l \in Launches, NEW n \in Start!Order(l),
         \A j \in Start!JobKeys : j # <<l, PlatformsOf[l][n]>> => jobs'[j] = jobs[j]
  PROVE  \A i \in Start!Order(l) : i # n => Start!JobOf(l, i)' = Start!JobOf(l, i)
<1> SUFFICES ASSUME NEW i \in Start!Order(l), i # n PROVE Start!JobOf(l, i)' = Start!JobOf(l, i)
  OBVIOUS
<1>1. <<l, PlatformsOf[l][i]>> \in Start!JobKeys /\ <<l, PlatformsOf[l][n]>> \in Start!JobKeys
  BY LaunchKeys
<1>2. <<l, PlatformsOf[l][i]>> # <<l, PlatformsOf[l][n]>>
  BY OwnKeys
<1>3. QED
  BY <1>1, <1>2 DEF Start!JobOf

\* What the orchestrator makes of a job of its own accord.
Goes(old, new) ==
  \/ new = old
  \/ old = "queued" /\ new = "running"
  \/ old \in {"running", "stopping", "astray"} /\ new = "ended"

\* A launch that stands still stays in order, whatever the orchestrator makes of its jobs.
LEMMA KeepsOrder ==
  ASSUME NEW l \in Launches, Start!InOrder(l), launch'[l] = launch[l],
         \A i \in Start!Order(l) : Goes(Start!JobOf(l, i), Start!JobOf(l, i)')
  PROVE  Start!InOrder(l)'
<1>1. ASSUME NEW i \in Start!Order(l) PROVE Start!Placed(launch'[l], i, Start!JobOf(l, i)')
  <2>1. Start!Placed(launch[l], i, Start!JobOf(l, i)) /\ Goes(Start!JobOf(l, i), Start!JobOf(l, i)')
    BY DEF Start!InOrder
  <2>2. QED
    BY <2>1 DEF Start!Placed, Start!Left, Start!Over, Goes
<1>2. QED
  BY <1>1 DEF Start!InOrder, Start!Order

\* What a launch's step leaves to show: its own order, and that no device is in two rollouts.
LEMMA LaunchKept ==
  ASSUME Start!LaunchInv, NEW l \in Launches,
         launch' \in [Launches -> [at : Start!LaunchSteps, next : Nat, queued : Nat]],
         launch'[l].next \in Start!Order(l), \A h \in Launches \ {l} : launch'[h] = launch[h],
         jobs' \in [Start!JobKeys -> Start!JobStates],
         \A j \in Start!JobKeys : j # Start!Current(l) => jobs'[j] = jobs[j],
         launch'[l].queued <= Len(PlatformsOf[l]),
         \A i \in Start!Order(l) : Start!Placed(launch'[l], i, Start!JobOf(l, i)'),
         Start!OneRolloutPerTarget'
  PROVE  Start!LaunchInv'
<1>1. Start!LaunchTyped'
  BY DEF Start!LaunchTyped, Start!LaunchSteps, Start!JobStates, Start!Over, Start!JobKeys
<1>2. Start!TypeOK'
  <2> SUFFICES ASSUME NEW h \in Launches
               PROVE  launch'[h].at \in Start!LaunchSteps /\ launch'[h].next \in 1..Len(PlatformsOf[h])
    BY DEF Start!TypeOK, Start!LaunchSteps
  <2>1. CASE h = l
    BY <2>1 DEF Start!Order
  <2>2. CASE h # l
    BY <2>2 DEF Start!LaunchInv, Start!TypeOK
  <2>3. QED
    BY <2>1, <2>2
<1>3. ASSUME NEW h \in Launches PROVE Start!InOrder(h)'
  <2>1. CASE h # l
    <3>1. \A i \in Start!Order(h) : Goes(Start!JobOf(h, i), Start!JobOf(h, i)')
      <4> SUFFICES ASSUME NEW i \in Start!Order(h) PROVE Start!JobOf(h, i)' = Start!JobOf(h, i)
        BY DEF Goes
      <4>1. <<h, PlatformsOf[h][i]>> \in Start!JobKeys /\ <<h, PlatformsOf[h][i]>> # Start!Current(l)
        BY <2>1, LaunchKeys DEF Start!Current
      <4>2. QED
        BY <4>1 DEF Start!JobOf
    <3>2. launch'[h] = launch[h] /\ Start!InOrder(h)
      BY <2>1 DEF Start!LaunchInv
    <3>3. QED
      BY <3>1, <3>2, KeepsOrder
  <2>2. CASE h = l
    BY <2>2 DEF Start!InOrder, Start!Order
  <2>3. QED
    BY <2>1, <2>2
<1>4. QED
  BY <1>1, <1>2, <1>3 DEF Start!LaunchInv

\* A job that ends, or that stays as it is, takes no device.
LEMMA NoneTaken ==
  ASSUME Start!OneRolloutPerTarget,
         \A j \in Start!JobKeys : Start!Live(j)' => Start!Live(j)
  PROVE  Start!OneRolloutPerTarget'
  BY DEF Start!OneRolloutPerTarget

\* A launch at one of its steps, with a platform and its job to go on with.
LEMMA LaunchAsItIs ==
  ASSUME Start!LaunchInv, NEW l \in Launches
  PROVE  /\ Start!LaunchTyped /\ Start!OneRolloutPerTarget
         /\ launch[l].at \in Start!LaunchSteps /\ launch[l].next \in Start!Order(l)
         /\ launch[l].next \in Nat /\ launch[l].queued \in Nat
         /\ Len(PlatformsOf[l]) \in Nat /\ launch[l].queued <= Len(PlatformsOf[l])
         /\ \A i \in Start!Order(l) : Start!Placed(launch[l], i, Start!JobOf(l, i))
         /\ Start!Current(l) \in Start!JobKeys
         /\ Start!Current(l) = <<l, PlatformsOf[l][launch[l].next]>>
         /\ jobs[Start!Current(l)] = Start!JobOf(l, launch[l].next)
         /\ jobs \in [Start!JobKeys -> Start!JobStates]
<1>1. /\ Start!LaunchTyped /\ Start!OneRolloutPerTarget /\ Start!InOrder(l)
      /\ launch[l].at \in Start!LaunchSteps /\ launch[l].next \in Start!Order(l)
  BY DEF Start!LaunchInv, Start!TypeOK, Start!Order
<1>2. launch[l] \in [at : Start!LaunchSteps, next : Nat, queued : Nat] /\ jobs \in [Start!JobKeys -> Start!JobStates]
  BY <1>1 DEF Start!LaunchTyped
<1>3. Start!Current(l) \in Start!JobKeys /\ Start!Current(l) = <<l, PlatformsOf[l][launch[l].next]>>
      /\ jobs[Start!Current(l)] = Start!JobOf(l, launch[l].next)
  BY <1>1, LaunchKeys DEF Start!Current, Start!JobOf
<1>4. QED
  BY <1>1, <1>2, <1>3, LaunchKeys DEF Start!InOrder

\* check_not_running: one platform of a launch is checked, or the launch is refused.
LEMMA ChecksKeep ==
  ASSUME Start!LaunchInv, NEW l \in Launches, Start!Checks(l)
  PROVE  Start!LaunchInv'
<1>1. jobs' = jobs /\ launch[l].at = "checking"
  BY DEF Start!Checks
<1>2. PICK there \in {"refused", "queuing"} : Start!Moves(l, there, launch[l].next)
  BY DEF Start!Checks, Start!Goes
<1>3. there \in Start!LaunchSteps
  BY DEF Start!LaunchSteps
<1>4. /\ launch' \in [Launches -> [at : Start!LaunchSteps, next : Nat, queued : Nat]]
      /\ launch'[l].at = there /\ launch'[l].next = launch[l].next /\ launch'[l].queued = launch[l].queued
      /\ \A h \in Launches \ {l} : launch'[h] = launch[h]
  BY <1>2, <1>3, LaunchAsItIs, LaunchMoves
<1>5. ASSUME NEW i \in Start!Order(l) PROVE Start!Placed(launch'[l], i, Start!JobOf(l, i)')
  <2>1. Start!JobOf(l, i)' = Start!JobOf(l, i)
    BY <1>1 DEF Start!JobOf
  <2>2. Start!Placed(launch[l], i, Start!JobOf(l, i)) /\ i \in Nat /\ i >= 1
    BY LaunchAsItIs DEF Start!Order
  <2>3. QED
    BY <1>1, <1>4, <2>1, <2>2 DEF Start!Placed, Start!Left
<1>6. Start!OneRolloutPerTarget'
  BY <1>1, LaunchAsItIs, NoneTaken DEF Start!Live
<1>7. QED
  BY <1>1, <1>4, <1>5, <1>6, LaunchAsItIs, LaunchKept

\* A platform's submit fails, or is withdrawn after a lost answer: the launch turns to cancelling what it
\* queued.
LEMMA BacksOutKeeps ==
  ASSUME Start!LaunchInv, NEW l \in Launches, Start!QueueFails(l) \/ Start!Withdraws(l)
  PROVE  Start!LaunchInv'
<1> DEFINE next == launch[l].next
           k == Start!Current(l)
<1>1. Start!BacksOut(l) /\ launch[l].at \in {"queuing", "withdrawing"}
  BY DEF Start!QueueFails, Start!Withdraws
<1>2. PICK state \in Start!JobStates :
        /\ jobs' = [jobs EXCEPT ![k] = state]
        /\ state \in {"none", "ended", "astray"}
        /\ state \in {"none", "astray"} \/ state = jobs[k]
  <2>1. jobs[k] = Start!JobOf(l, next) /\ k \in Start!JobKeys /\ jobs \in [Start!JobKeys -> Start!JobStates]
        /\ Start!Placed(launch[l], next, Start!JobOf(l, next))
    BY LaunchAsItIs
  <2>2. CASE Start!QueueFails(l)
    <3>1. jobs[k] = "none" /\ jobs' = jobs
      BY <2>1, <2>2 DEF Start!QueueFails, Start!Placed
    <3>2. jobs' = [jobs EXCEPT ![k] = "none"]
      BY <2>1, <3>1
    <3>3. QED
      BY <3>2 DEF Start!JobStates
  <2>3. CASE Start!Withdraws(l)
    <3>1. jobs[k] \in {"queued", "running", "ended"} /\ jobs' = [jobs EXCEPT ![k] = Start!Withdrawn(k)]
      BY <2>1, <2>3 DEF Start!Withdraws, Start!Placed
    <3>2. Start!Withdrawn(k) \in {"none", "ended", "astray"}
          /\ (Start!Withdrawn(k) = "ended" => Start!Withdrawn(k) = jobs[k])
      BY <3>1 DEF Start!Withdrawn
    <3>3. QED
      BY <3>1, <3>2 DEF Start!JobStates, Start!Over
  <2>4. QED
    BY <2>2, <2>3
<1>3. /\ jobs' \in [Start!JobKeys -> Start!JobStates]
      /\ jobs'[k] = state
      /\ \A j \in Start!JobKeys \ {k} : jobs'[j] = jobs[j]
  BY <1>2, LaunchAsItIs, JobsChange
<1>4. /\ launch' \in [Launches -> [at : Start!LaunchSteps, next : Nat, queued : Nat]]
      /\ launch'[l].at = IF next = 1 THEN "refused" ELSE "cancelling"
      /\ launch'[l].next = 1 /\ launch'[l].queued = next - 1
      /\ \A h \in Launches \ {l} : launch'[h] = launch[h]
  BY <1>1, LaunchAsItIs, LaunchBacksOut
<1>5. next \in Start!Order(l) /\ next \in Nat /\ next >= 1 /\ next <= Len(PlatformsOf[l])
      /\ Len(PlatformsOf[l]) \in Nat /\ 1 \in Start!Order(l)
  BY LaunchAsItIs DEF Start!Order
<1>6. ASSUME NEW i \in Start!Order(l) PROVE Start!Placed(launch'[l], i, Start!JobOf(l, i)')
  <2>1. Start!Placed(launch[l], i, Start!JobOf(l, i)) /\ i \in Nat /\ i >= 1
    BY LaunchAsItIs DEF Start!Order
  <2>2. CASE i = next
    <3>1. Start!JobOf(l, i)' = state
      BY <1>3, <2>2, LaunchAsItIs DEF Start!JobOf
    <3>2. QED
      BY <1>2, <1>4, <1>5, <2>2, <3>1 DEF Start!Placed, Start!Left
  <2>3. CASE i # next
    <3>1. Start!JobOf(l, i)' = Start!JobOf(l, i)
      BY <1>3, <1>5, <2>3, LaunchAsItIs, OtherJobs
    <3>2. QED
      BY <1>1, <1>4, <1>5, <2>1, <2>3, <3>1 DEF Start!Placed, Start!Left
  <2>4. QED
    BY <2>2, <2>3
<1>7. Start!OneRolloutPerTarget'
  <2>1. \A j \in Start!JobKeys : Start!Live(j)' => Start!Live(j)
    BY <1>2, <1>3 DEF Start!Live
  <2>2. QED
    BY <2>1, LaunchAsItIs, NoneTaken
<1> HIDE DEF next
<1>8. QED
  BY <1>3, <1>4, <1>5, <1>6, <1>7, LaunchKept

\* A platform's job is queued, its answer lost or not: the launch's earlier ones are, and no later one.
LEMMA QueuesKeeps ==
  ASSUME Start!LaunchInv, NEW l \in Launches, Start!Queues(l) \/ Start!AnswerLost(l)
  PROVE  Start!LaunchInv'
<1> DEFINE last == Len(PlatformsOf[l])
<1>0. last \in Nat /\ launch[l].at = "queuing"
  BY LaunchKeys DEF Start!Queues, Start!AnswerLost
<1>1. PICK next \in Start!Order(l) : next = launch[l].next /\ next \in Nat /\ next >= 1
  BY LaunchAsItIs DEF Start!Order
<1>2. PICK k \in Start!JobKeys : k = <<l, PlatformsOf[l][next]>> /\ k = Start!Current(l)
  BY <1>1, LaunchAsItIs
<1>3. PICK there \in {"launched", "queuing", "withdrawing"}, then \in Start!Order(l) :
        /\ Start!Moves(l, there, then)
        /\ there = "launched" => next = last
        /\ there = "queuing" => then = next + 1
        /\ there = "withdrawing" => then = next
  <2>1. CASE Start!AnswerLost(l)
    BY <1>1, <2>1 DEF Start!AnswerLost, Start!Goes
  <2>2. CASE Start!Queues(l) /\ next = last
    BY <1>1, <2>2 DEF Start!Queues, Start!Goes
  <2>3. CASE Start!Queues(l) /\ next # last
    <3>1. next + 1 \in Start!Order(l)
      BY <1>0, <1>1, <2>3 DEF Start!Order
    <3>2. Start!Moves(l, "queuing", next + 1)
      BY <1>1, <2>3 DEF Start!Queues
    <3>3. QED
      BY <3>1, <3>2
  <2>4. QED
    BY <2>1, <2>2, <2>3
<1>4. there \in Start!LaunchSteps
  BY DEF Start!LaunchSteps
<1>5. /\ launch' \in [Launches -> [at : Start!LaunchSteps, next : Nat, queued : Nat]]
      /\ launch'[l].at = there /\ launch'[l].next = then /\ launch'[l].queued = launch[l].queued
      /\ \A h \in Launches \ {l} : launch'[h] = launch[h]
  BY <1>3, <1>4, LaunchAsItIs, LaunchMoves
<1>6. /\ jobs' \in [Start!JobKeys -> Start!JobStates]
      /\ jobs'[k] = "queued"
      /\ \A j \in Start!JobKeys \ {k} : jobs'[j] = jobs[j]
  <2>1. jobs' = [jobs EXCEPT ![k] = "queued"] /\ "queued" \in Start!JobStates
    BY <1>2 DEF Start!Queues, Start!AnswerLost, Start!JobStates
  <2>2. QED
    BY <2>1, LaunchAsItIs, JobsChange
<1>7. ASSUME NEW i \in Start!Order(l) PROVE Start!Placed(launch'[l], i, Start!JobOf(l, i)')
  <2>1. Start!Placed(launch[l], i, Start!JobOf(l, i)) /\ i \in Nat /\ i >= 1 /\ i <= last
    BY <1>0, LaunchAsItIs DEF Start!Order
  <2>2. CASE i = next
    <3>1. Start!JobOf(l, i)' = "queued"
      BY <1>2, <1>6, <2>2 DEF Start!JobOf
    <3>2. QED
      BY <1>0, <1>1, <1>3, <1>5, <2>1, <2>2, <3>1 DEF Start!Placed
  <2>3. CASE i # next
    <3>1. Start!JobOf(l, i)' = Start!JobOf(l, i)
      BY <1>2, <1>6, <2>3, OtherJobs
    <3>2. CASE there = "launched"
      BY <1>0, <1>1, <1>3, <1>5, <2>1, <2>3, <3>1, <3>2 DEF Start!Placed
    <3>3. CASE there # "launched"
      BY <1>0, <1>1, <1>3, <1>5, <2>1, <2>3, <3>1, <3>3 DEF Start!Placed
    <3>4. QED
      BY <3>2, <3>3
  <2>4. QED
    BY <2>2, <2>3
<1>8. Start!OneRolloutPerTarget'
  <2> SUFFICES ASSUME NEW i \in Start!JobKeys, NEW j \in Start!JobKeys, i # j, Start!Live(i)', Start!Live(j)'
               PROVE  TargetsOf[i] \cap TargetsOf[j] = {}
    BY DEF Start!OneRolloutPerTarget
  <2>1. \A h \in Start!JobKeys : h # k /\ Start!Live(h)' => Start!Live(h) /\ TargetsOf[k] \cap TargetsOf[h] = {}
    <3> SUFFICES ASSUME NEW h \in Start!JobKeys, h # k, Start!Live(h)'
                 PROVE  Start!Live(h) /\ TargetsOf[k] \cap TargetsOf[h] = {}
      OBVIOUS
    <3>1. Start!Live(h)
      BY <1>6 DEF Start!Live
    <3>2. TargetsOf[h] \subseteq Start!HeldTargets
      BY <3>1 DEF Start!HeldTargets
    <3>3. TargetsOf[k] \cap Start!HeldTargets = {}
      BY <1>2 DEF Start!Queues, Start!AnswerLost, Start!Submits
    <3>4. QED
      BY <3>1, <3>2, <3>3
  <2>2. CASE i = k
    BY <2>1, <2>2
  <2>3. CASE j = k
    BY <2>1, <2>3
  <2>4. CASE i # k /\ j # k
    BY <2>1, <2>4 DEF Start!LaunchInv, Start!OneRolloutPerTarget
  <2>5. QED
    BY <2>2, <2>3, <2>4
<1>9. QED
  BY <1>2, <1>5, <1>6, <1>7, <1>8, LaunchAsItIs, LaunchKept

\* One job of a failed launch is cancelled, unless the orchestrator took it already.
LEMMA CancelsNextKeeps ==
  ASSUME Start!LaunchInv, NEW l \in Launches, Start!CancelsNext(l)
  PROVE  Start!LaunchInv'
<1>1. PICK next \in Start!Order(l) : next = launch[l].next /\ next \in Nat /\ next >= 1
  BY LaunchAsItIs DEF Start!Order
<1>2. PICK k \in Start!JobKeys : k = <<l, PlatformsOf[l][next]>> /\ k = Start!Current(l)
  BY <1>1, LaunchAsItIs
<1>3. PICK m \in Nat : m = launch[l].queued /\ m <= Len(PlatformsOf[l]) /\ Len(PlatformsOf[l]) \in Nat
  BY LaunchAsItIs
<1>4. launch[l].at = "cancelling" /\ next <= m
  BY <1>1, <1>3, LaunchAsItIs DEF Start!CancelsNext, Start!Placed
<1>5. jobs[k] \in Start!JobStates \ {"none", "astray"}
  BY <1>1, <1>2, <1>3, <1>4, LaunchAsItIs DEF Start!Placed
<1>6. PICK state \in Start!Over : /\ jobs' = [jobs EXCEPT ![k] = state]
                                  /\ state = "stopping" => jobs[k] \in {"running", "stopping"}
  BY <1>2, <1>5 DEF Start!CancelsNext, Start!Cancelled, Start!JobStates, Start!Over
<1>7. /\ jobs' \in [Start!JobKeys -> Start!JobStates]
      /\ jobs'[k] = state
      /\ \A j \in Start!JobKeys \ {k} : jobs'[j] = jobs[j]
  BY <1>6, LaunchAsItIs, JobsChange DEF Start!JobStates
<1>8. PICK there \in {"refused", "cancelling", "broken"}, then \in Start!Order(l) :
        /\ Start!Moves(l, there, then)
        /\ there = "refused" => next = m
        /\ there = "cancelling" => next # m /\ then = next + 1
  <2>1. CASE Start!Goes(l, "broken")
    BY <1>1, <2>1 DEF Start!Goes
  <2>2. CASE next = m /\ Start!Goes(l, "refused")
    BY <1>1, <2>2 DEF Start!Goes
  <2>3. CASE next # m /\ Start!Moves(l, "cancelling", next + 1)
    <3>1. next + 1 \in Start!Order(l)
      BY <1>1, <1>3, <1>4, <2>3 DEF Start!Order
    <3>2. QED
      BY <2>3, <3>1
  <2>4. \/ IF next = m THEN Start!Goes(l, "refused") ELSE Start!Moves(l, "cancelling", next + 1)
        \/ Start!Goes(l, "broken")
    BY <1>1, <1>3, Zenon DEF Start!CancelsNext
  <2>5. QED
    BY <2>1, <2>2, <2>3, <2>4
<1>9. there \in Start!LaunchSteps
  BY DEF Start!LaunchSteps
<1>10. /\ launch' \in [Launches -> [at : Start!LaunchSteps, next : Nat, queued : Nat]]
       /\ launch'[l].at = there /\ launch'[l].next = then /\ launch'[l].queued = m
       /\ \A h \in Launches \ {l} : launch'[h] = launch[h]
  BY <1>3, <1>8, <1>9, LaunchAsItIs, LaunchMoves
<1>11. ASSUME NEW i \in Start!Order(l) PROVE Start!Placed(launch'[l], i, Start!JobOf(l, i)')
  <2>1. Start!Placed(launch[l], i, Start!JobOf(l, i)) /\ i \in Nat /\ i >= 1
    BY LaunchAsItIs DEF Start!Order
  <2>2. CASE i = next
    <3>1. Start!JobOf(l, i)' = state
      BY <1>2, <1>7, <2>2 DEF Start!JobOf
    <3>2. QED
      BY <1>1, <1>3, <1>4, <1>8, <1>10, <2>1, <2>2, <3>1 DEF Start!Placed, Start!Over
  <2>3. CASE i # next
    <3>1. Start!JobOf(l, i)' = Start!JobOf(l, i)
      BY <1>2, <1>7, <2>3, OtherJobs
    <3>2. /\ i < next => Start!JobOf(l, i) \in Start!Over
          /\ i <= m => Start!JobOf(l, i) \notin {"none", "astray"}
          /\ i > m => Start!Left(launch[l], i, Start!JobOf(l, i))
      BY <1>1, <1>3, <1>4, <2>1 DEF Start!Placed
    <3>3. i > m => Start!Left(launch'[l], i, Start!JobOf(l, i)')
      BY <1>3, <1>10, <3>1, <3>2 DEF Start!Left
    <3>4. QED
      BY <1>1, <1>3, <1>4, <1>8, <1>10, <2>1, <2>3, <3>1, <3>2, <3>3 DEF Start!Placed
  <2>4. QED
    BY <2>2, <2>3
<1>12. Start!OneRolloutPerTarget'
  <2>1. \A j \in Start!JobKeys : Start!Live(j)' => Start!Live(j)
    BY <1>6, <1>7 DEF Start!Live, Start!Over
  <2>2. QED
    BY <2>1, LaunchAsItIs, NoneTaken
<1>13. QED
  BY <1>2, <1>3, <1>7, <1>8, <1>10, <1>11, <1>12, LaunchKept

\* The orchestrator takes a queued job, or a running one ends.
LEMMA OrchestratorKeeps ==
  ASSUME Start!LaunchInv, NEW k \in Start!JobKeys, Start!Starts(k) \/ Start!Ends(k)
  PROVE  Start!LaunchInv'
<1>1. PICK state \in {"running", "ended"} :
        /\ jobs' = [jobs EXCEPT ![k] = state]
        /\ state = "running" => jobs[k] = "queued"
        /\ state = "ended" => jobs[k] \in {"running", "stopping", "astray"}
  BY DEF Start!Starts, Start!Ends
<1>2. launch' = launch
  BY DEF Start!Starts, Start!Ends
<1>3. /\ jobs' \in [Start!JobKeys -> Start!JobStates]
      /\ jobs'[k] = state
      /\ \A j \in Start!JobKeys \ {k} : jobs'[j] = jobs[j]
  BY <1>1, JobsChange DEF Start!LaunchInv, Start!JobStates, Start!Over
<1>4. Start!LaunchTyped' /\ Start!TypeOK'
  BY <1>2, <1>3 DEF Start!LaunchInv, Start!LaunchTyped, Start!TypeOK, Start!LaunchSteps, Start!JobStates,
                    Start!Over, Start!JobKeys
<1>5. ASSUME NEW l \in Launches PROVE Start!InOrder(l)'
  <2>1. \A i \in Start!Order(l) : Goes(Start!JobOf(l, i), Start!JobOf(l, i)')
    <3> SUFFICES ASSUME NEW i \in Start!Order(l) PROVE Goes(Start!JobOf(l, i), Start!JobOf(l, i)')
      OBVIOUS
    <3>1. <<l, PlatformsOf[l][i]>> \in Start!JobKeys
      BY LaunchKeys
    <3>2. CASE <<l, PlatformsOf[l][i]>> = k
      BY <1>1, <1>3, <3>2 DEF Start!JobOf, Goes
    <3>3. CASE <<l, PlatformsOf[l][i]>> # k
      BY <1>3, <3>1, <3>3 DEF Start!JobOf, Goes
    <3>4. QED
      BY <3>2, <3>3
  <2>2. QED
    BY <1>2, <2>1, KeepsOrder DEF Start!LaunchInv
<1>6. Start!OneRolloutPerTarget'
  <2>1. \A j \in Start!JobKeys : Start!Live(j)' => Start!Live(j) \/ jobs[j] = "astray"
    BY <1>1, <1>3 DEF Start!Live
  <2>2. \A j \in Start!JobKeys : Start!Live(j)' => Start!Live(j)
    BY <1>1, <1>3, <2>1 DEF Start!Live
  <2>3. QED
    BY <2>2, NoneTaken DEF Start!LaunchInv
<1>7. QED
  BY <1>4, <1>5, <1>6 DEF Start!LaunchInv

\* Every step of the launches keeps their invariant.
LEMMA LaunchNext ==
  ASSUME Start!LaunchInv, Start!Next \/ UNCHANGED startVars
  PROVE  Start!LaunchInv'
<1>1. CASE Start!Pauses \/ UNCHANGED startVars
  <2>1. launch' = launch /\ jobs' = jobs
    BY <1>1 DEF Start!Pauses, startVars
  <2>2. Start!LaunchTyped' /\ Start!TypeOK'
    BY <2>1 DEF Start!LaunchInv, Start!LaunchTyped, Start!TypeOK, Start!LaunchSteps, Start!JobStates,
                Start!Over, Start!JobKeys
  <2>3. \A l \in Launches : Start!InOrder(l)'
    BY <2>1, KeepsOrder DEF Start!LaunchInv, Start!JobOf, Goes
  <2>4. Start!OneRolloutPerTarget'
    BY <2>1, NoneTaken DEF Start!LaunchInv, Start!Live
  <2>5. QED
    BY <2>2, <2>3, <2>4 DEF Start!LaunchInv
<1>2. ASSUME NEW l \in Launches,
             \/ Start!Checks(l) \/ Start!Queues(l) \/ Start!QueueFails(l) \/ Start!AnswerLost(l)
             \/ Start!Withdraws(l) \/ Start!CancelsNext(l)
      PROVE  Start!LaunchInv'
  BY <1>2, ChecksKeep, QueuesKeeps, BacksOutKeeps, CancelsNextKeeps
<1>3. ASSUME NEW k \in Start!JobKeys, Start!Starts(k) \/ Start!Ends(k) PROVE Start!LaunchInv'
  BY <1>3, OrchestratorKeeps
<1>4. QED
  BY <1>1, <1>2, <1>3 DEF Start!Next

\* At first nothing is launched.
LEMMA LaunchFirst ==
  ASSUME Start!Init
  PROVE  Start!LaunchInv
<1>1. \A l \in Launches : launch[l] = [at |-> "checking", next |-> 1, queued |-> 0]
  BY DEF Start!Init
<1>2. Start!TypeOK
  BY <1>1, LaunchKeys DEF Start!TypeOK, Start!LaunchSteps
<1>3. Start!LaunchTyped
  BY DEF Start!Init, Start!LaunchTyped, Start!LaunchSteps, Start!JobStates
<1>4. \A l \in Launches : Start!InOrder(l)
  <2> SUFFICES ASSUME NEW l \in Launches PROVE Start!InOrder(l)
    OBVIOUS
  <2>1. \A i \in Start!Order(l) : Start!JobOf(l, i) = "none"
    BY LaunchKeys DEF Start!Init, Start!JobOf
  <2>2. QED
    BY <1>1, <2>1, LaunchKeys DEF Start!InOrder, Start!Order, Start!Placed
<1>5. Start!OneRolloutPerTarget
  BY DEF Start!Init, Start!OneRolloutPerTarget, Start!Live
<1>6. QED
  BY <1>2, <1>3, <1>4, <1>5 DEF Start!LaunchInv

\* Launch: whoever else launches or rolls back between its checks and its submits, a launch starts a
\* rollout for every platform or leaves none - but for the one whose submit lost Redis's answer when the
\* rollout was running already - and a device is in one rollout of the table at a time (start_rollout,
\* rollback, submit_jobs), for any number of launches, platforms and failures.
THEOREM LaunchesAllOrNone == Spec => []LaunchSafe
<1> DEFINE Inv == part = "launch" => Start!LaunchInv
<1>1. Init => Inv
  BY LaunchFirst DEF Init
<1>2. Inv /\ [Next]_vars => Inv'
  <2> SUFFICES ASSUME Inv, [Next]_vars, part' = "launch" PROVE Start!LaunchInv'
    OBVIOUS
  <2>1. part = "launch" /\ (Start!Next \/ UNCHANGED startVars)
    BY DEF Next, vars
  <2>2. QED
    BY <2>1, LaunchNext
<1>3. Inv => LaunchSafe
  <2> SUFFICES ASSUME Start!LaunchInv PROVE Start!AllOrNone
    BY DEF LaunchSafe, Start!LaunchInv
  <2> SUFFICES ASSUME NEW l \in Launches, NEW i \in Start!Order(l)
               PROVE  /\ launch[l].at = "launched" => Start!JobOf(l, i) \notin {"none", "astray"}
                      /\ launch[l].at = "refused" =>
                           \/ Start!JobOf(l, i) \in {"none"} \cup Start!Over
                           \/ Start!JobOf(l, i) = "astray" /\ i = launch[l].queued + 1
    BY DEF Start!AllOrNone
  <2>1. QED
    BY LaunchAsItIs DEF Start!Placed, Start!Left, Start!Over
<1>4. QED
  BY <1>1, <1>2, <1>3, PTL DEF Spec

(***************************************************************************)
(* Host keys: whom a run sends its password to, and what it leaves in the  *)
(* table.                                                                  *)
(***************************************************************************)

\* Cardinality of the HostKeyStore instance is FiniteSets' Cardinality.
LEMMA SameSizeOfKeys == \A S : Trust!Cardinality(S) = Cardinality(S)
  BY DEF Trust!Cardinality, Cardinality

\* A run's step leaves the other runs alone.
LEMMA RunMoves ==
  ASSUME Trust!StoreInv, NEW r \in Runs, NEW p, NEW signed \in SUBSET Keys,
         run' = [run EXCEPT ![r] = p],
         signedIn' = [signedIn EXCEPT ![r] = signed] \/ (signedIn' = signedIn /\ signed = signedIn[r]),
         Trust!RunInv(p, signed),
         stored' \in [Keys -> {"no", "accepted", "refused"}], on' = on, blocked' = blocked
  PROVE  Trust!StoreInv'
<1>1. /\ run \in [Runs -> Trust!Policies] /\ signedIn \in [Runs -> SUBSET Keys] /\ p \in Trust!Policies
      /\ \A q \in Runs : Trust!RunInv(run[q], signedIn[q])
  BY DEF Trust!StoreInv, Trust!TypeOK, Trust!RunInv
<1>2. run' \in [Runs -> Trust!Policies] /\ run'[r] = p /\ \A q \in Runs \ {r} : run'[q] = run[q]
  BY <1>1
<1>3. /\ signedIn' \in [Runs -> SUBSET Keys] /\ signedIn'[r] = signed
      /\ \A q \in Runs \ {r} : signedIn'[q] = signedIn[q]
  BY <1>1
<1>4. \A q \in Runs : Trust!RunInv(run'[q], signedIn'[q])
  <2> SUFFICES ASSUME NEW q \in Runs PROVE Trust!RunInv(run'[q], signedIn'[q])
    OBVIOUS
  <2>1. CASE q = r
    BY <1>2, <1>3, <2>1
  <2>2. CASE q # r
    BY <1>1, <1>2, <1>3, <2>2
  <2>3. QED
    BY <2>1, <2>2
<1>5. (\A q \in Runs : Trust!RunInv(run[q], signedIn[q]))'
  BY <1>4 DEF Trust!RunInv, Trust!LearnsOne, Trust!TriesAnew, Trust!SignedInKnown, Trust!Policies
<1>6. Trust!TypeOK'
  BY <1>2, <1>3 DEF Trust!StoreInv, Trust!TypeOK, Trust!Policies
<1>7. QED
  BY <1>5, <1>6 DEF Trust!StoreInv

\* A policy is a record of its fields.
LEMMA PolicyFields ==
  ASSUME NEW p \in Trust!Policies
  PROVE  /\ p.at \in Trust!Steps /\ p.known \in SUBSET Keys /\ p.learn \in BOOLEAN /\ p.learned \in BOOLEAN
         /\ p.loaded \in SUBSET Keys /\ p.tried \in SUBSET Keys /\ p.key \in SUBSET Keys
         /\ p.attempts \in 0..MaxAttempts /\ p.sessions \in Nat
  BY DEF Trust!Policies

\* A policy as it begins.
LEMMA PolicyBegins ==
  ASSUME NEW known \in SUBSET Keys, NEW learn \in BOOLEAN, NEW learned \in BOOLEAN, NEW there \in Trust!Steps
  PROVE  LET p == Trust!Policy(there, known, learn, learned)
         IN  /\ p \in Trust!Policies
             /\ p.at = there /\ p.known = known /\ p.learn = learn /\ p.learned = learned /\ p.attempts = 0
<1>1. 0 \in 0..MaxAttempts /\ 0 \in Nat /\ {} \in SUBSET Keys
  BY KeysAssumption
<1>2. QED
  BY <1>1 DEF Trust!Policy, Trust!Policies

\* Going somewhere else.
LEMMA PolicyGoes ==
  ASSUME NEW p \in Trust!Policies, NEW there \in Trust!Steps
  PROVE  LET q == Trust!At(p, there)
         IN  /\ q \in Trust!Policies /\ q.at = there
             /\ q.known = p.known /\ q.learn = p.learn /\ q.learned = p.learned /\ q.loaded = p.loaded
             /\ q.tried = p.tried /\ q.key = p.key /\ q.attempts = p.attempts
<1> DEFINE q == Trust!At(p, there)
<1>1. q \in Trust!Policies
  BY Zenon, PolicyFields DEF Trust!Policies, Trust!At
<1>2. QED
  BY Zenon, <1>1 DEF Trust!Policies, Trust!At

\* Connecting: the store's keys of the host are loaded.
LEMMA PolicyConnects ==
  ASSUME NEW p \in Trust!Policies, NEW loaded \in SUBSET Keys
  PROVE  LET q == Trust!Connecting(p, loaded)
         IN  /\ q \in Trust!Policies /\ q.at = "trying" /\ q.loaded = loaded /\ q.tried = loaded
             /\ q.attempts = 0
             /\ q.known = p.known /\ q.learn = p.learn /\ q.learned = p.learned /\ q.key = p.key
<1> DEFINE q == Trust!Connecting(p, loaded)
<1>1. 0 \in 0..MaxAttempts /\ p.sessions + 1 \in Nat /\ "trying" \in Trust!Steps
  BY PolicyFields, KeysAssumption DEF Trust!Steps
<1>2. q \in Trust!Policies
  BY Zenon, <1>1, PolicyFields DEF Trust!Policies, Trust!Connecting
<1>3. QED
  BY Zenon, <1>2 DEF Trust!Policies, Trust!Connecting

\* The server shows a key.
LEMMA PolicyTries ==
  ASSUME NEW p \in Trust!Policies, NEW k \in Keys, p.attempts < MaxAttempts
  PROVE  LET q == Trust!Shown(p, k)
         IN  /\ q \in Trust!Policies /\ q.attempts = p.attempts + 1 /\ q.key = {k}
             /\ q.at = p.at /\ q.known = p.known /\ q.learn = p.learn /\ q.learned = p.learned
             /\ q.loaded = p.loaded /\ q.tried = p.tried
<1> DEFINE q == Trust!Shown(p, k)
<1>1. p.attempts + 1 \in 0..MaxAttempts /\ {k} \in SUBSET Keys
  BY PolicyFields, KeysAssumption
<1>2. q \in Trust!Policies
  BY Zenon, <1>1, PolicyFields DEF Trust!Policies, Trust!Shown
<1>3. QED
  BY Zenon, <1>2 DEF Trust!Policies, Trust!Shown

\* Another key is tried beside the loaded ones, instead of those of its type.
LEMMA PolicyTriesAnother ==
  ASSUME NEW p \in Trust!Policies, NEW k \in Keys
  PROVE  LET q == Trust!TryingAlso(p, k)
         IN  /\ q \in Trust!Policies /\ q.tried = p.tried \cup {k}
             /\ q.loaded = (p.loaded \ Trust!SameType(p, k)) \cup {k}
             /\ q.at = p.at /\ q.known = p.known /\ q.learn = p.learn /\ q.learned = p.learned
             /\ q.key = p.key /\ q.attempts = p.attempts
<1> DEFINE q == Trust!TryingAlso(p, k)
<1>1. p.tried \cup {k} \in SUBSET Keys /\ (p.loaded \ Trust!SameType(p, k)) \cup {k} \in SUBSET Keys
  BY PolicyFields
<1>2. q \in Trust!Policies
  BY Zenon, <1>1, PolicyFields DEF Trust!Policies, Trust!TryingAlso
<1>3. QED
  BY Zenon, <1>2 DEF Trust!Policies, Trust!TryingAlso

\* A connection that worked: a key that was learned is the only one the run knows from now on.
LEMMA PolicyPins ==
  ASSUME NEW p \in Trust!Policies
  PROVE  LET q == Trust!After(p)
         IN  /\ q \in Trust!Policies
             /\ q.learn = FALSE
             /\ q.known = IF p.learn THEN p.key ELSE p.known
             /\ q.at = "ready" /\ q.key = p.key /\ q.attempts = p.attempts
<1> DEFINE o == Trust!Pins(p)
<1>1. o \in Trust!Policies /\ o.learn = FALSE /\ o.known = (IF p.learn THEN p.key ELSE p.known)
      /\ o.key = p.key /\ o.attempts = p.attempts
  <2>1. CASE p.learn
    <3>1. o = [p EXCEPT !.known = p.key, !.learn = FALSE]
      BY <2>1 DEF Trust!Pins
    <3>2. o \in Trust!Policies
      BY Zenon, <3>1, PolicyFields DEF Trust!Policies
    <3>3. QED
      BY Zenon, <2>1, <3>1, <3>2 DEF Trust!Policies
  <2>2. CASE ~p.learn
    <3>1. o = p
      BY <2>2 DEF Trust!Pins
    <3>2. QED
      BY <2>2, <3>1, PolicyFields
  <2>3. QED
    BY <2>1, <2>2
<1>2. "ready" \in Trust!Steps
  BY DEF Trust!Steps
<1> HIDE DEF o
<1>3. LET q == Trust!At(o, "ready")
      IN  /\ q \in Trust!Policies /\ q.at = "ready"
          /\ q.known = o.known /\ q.learn = o.learn /\ q.key = o.key /\ q.attempts = o.attempts
  BY <1>1, <1>2, PolicyGoes
<1>4. Trust!After(p) = Trust!At(o, "ready")
  BY DEF Trust!After, o
<1>5. QED
  BY <1>1, <1>3, <1>4

\* Discover's Add: the key its scan saw is the one to learn.
LEMMA PolicyAdds ==
  ASSUME NEW k \in Keys
  PROVE  LET q == Trust!Adding(k)
         IN  /\ q \in Trust!Policies /\ q.at = "learning" /\ q.key = {k}
             /\ q.known = {} /\ q.learn = FALSE /\ q.learned = TRUE /\ q.attempts = 0
<1> DEFINE q == Trust!Adding(k)
           p == Trust!Policy("learning", {}, FALSE, TRUE)
<1>1. {} \in SUBSET Keys /\ "learning" \in Trust!Steps
  BY DEF Trust!Steps
<1>2. /\ p \in Trust!Policies
      /\ p.at = "learning" /\ p.known = {} /\ p.learn = FALSE /\ p.learned = TRUE /\ p.attempts = 0
  BY <1>1, PolicyBegins
<1>3. q = [p EXCEPT !.key = {k}] /\ {k} \in SUBSET Keys
  BY DEF Trust!Adding
<1> HIDE DEF p, q
<1>4. q \in Trust!Policies
  BY Zenon, <1>2, <1>3, PolicyFields DEF Trust!Policies
<1>5. q.at = p.at /\ q.key = {k} /\ q.known = p.known /\ q.learn = p.learn /\ q.learned = p.learned
      /\ q.attempts = p.attempts
  BY Zenon, <1>2, <1>3 DEF Trust!Policies
<1>6. QED
  BY <1>2, <1>4, <1>5 DEF q

\* A policy that has just begun is in order, with no password sent.
LEMMA BegunInOrder ==
  ASSUME NEW known \in SUBSET Keys, NEW learn \in BOOLEAN, NEW learned \in BOOLEAN,
         NEW there \in {"rest", "asked", "ready"}, learn => known = {}
  PROVE  Trust!RunInv(Trust!Policy(there, known, learn, learned), {})
<1> DEFINE p == Trust!Policy(there, known, learn, learned)
<1>1. there \in Trust!Steps
  BY DEF Trust!Steps
<1>2. /\ p \in Trust!Policies
      /\ p.at = there /\ p.known = known /\ p.learn = learn /\ p.learned = learned /\ p.attempts = 0
  BY <1>1, PolicyBegins
<1> HIDE DEF p
<1>3. Trust!RunInv(p, {})
  BY <1>2 DEF Trust!RunInv, Trust!LearnsOne, Trust!TriesAnew, Trust!SignedInKnown
<1>4. QED
  BY <1>3 DEF p

\* Connecting, with loaded keys that are known.
LEMMA ConnectsInOrder ==
  ASSUME NEW p, NEW signed \in SUBSET Keys, Trust!RunInv(p, signed), p.at = "ready",
         NEW loaded \in SUBSET Keys, loaded \subseteq p.known
  PROVE  Trust!RunInv(Trust!Connecting(p, loaded), signed)
<1> DEFINE q == Trust!Connecting(p, loaded)
<1>1. p \in Trust!Policies
  BY DEF Trust!RunInv
<1>2. /\ q \in Trust!Policies /\ q.at = "trying" /\ q.loaded = loaded /\ q.tried = loaded /\ q.attempts = 0
      /\ q.known = p.known /\ q.learn = p.learn /\ q.learned = p.learned /\ q.key = p.key
  BY <1>1, PolicyConnects
<1> HIDE DEF q
<1>3. Trust!RunInv(q, signed)
  BY <1>2 DEF Trust!RunInv, Trust!LearnsOne, Trust!TriesAnew, Trust!SignedInKnown
<1>4. QED
  BY <1>3 DEF q

\* An accepted key that was not tried: there is one more that was.
LEMMA OneMoreTried ==
  ASSUME NEW tried \in SUBSET Keys, NEW k \in Keys \ tried
  PROVE  /\ Cardinality(tried \cup {k}) = Cardinality(tried) + 1
         /\ Cardinality(tried) \in Nat
         /\ tried # {} => Cardinality(tried) > 0
<1>1. IsFiniteSet(tried)
  BY FS_Subset, KeysAssumption
<1>2. QED
  BY <1>1, FS_AddElement, FS_CardinalityType, FS_EmptySet

\* As many keys as were tried are known.
LEMMA TriedAreKnown ==
  ASSUME NEW known \in SUBSET Keys, NEW tried \in SUBSET known
  PROVE  Cardinality(tried) <= Cardinality(known) /\ Cardinality(tried) \in Nat /\ Cardinality(known) \in Nat
  BY FS_Subset, FS_CardinalityType, KeysAssumption

\* One attempt, of a device that shows the key k.
LEMMA AttemptInOrder ==
  ASSUME NEW o, NEW signed \in SUBSET Keys, Trust!RunInv(o, signed), o.at = "trying", o.attempts < MaxAttempts,
         NEW k \in Keys, NEW p, p = Trust!Shown(o, k)
  PROVE  /\ Trust!LetsIn(p, k) =>
              Trust!RunInv(Trust!At(p, IF Trust!Checks(p) THEN "seen" ELSE "ready"),
                           signed \cup (IF Trust!Checks(p) THEN {k} ELSE {}))
         /\ Trust!SameType(p, k) # {} /\ Trust!Alternative(p, k) => Trust!RunInv(Trust!TryingAlso(p, k), signed)
         /\ \A there \in {"over", "refused"} : Trust!RunInv(Trust!At(p, there), signed)
<1>1. /\ p \in Trust!Policies /\ p.attempts = o.attempts + 1 /\ p.key = {k}
      /\ p.at = o.at /\ p.known = o.known /\ p.learn = o.learn /\ p.learned = o.learned
      /\ p.loaded = o.loaded /\ p.tried = o.tried
  BY PolicyTries DEF Trust!RunInv
<1>2. /\ p.learn => p.known = {}
      /\ p.loaded \subseteq p.tried /\ p.tried \subseteq p.known
      /\ o.attempts \in Nat /\ p.known \in SUBSET Keys /\ p.loaded \in SUBSET Keys /\ p.tried \in SUBSET Keys
      /\ p.learn \in BOOLEAN
      /\ o.attempts = 0 \/ o.attempts < Cardinality(p.tried)
      /\ \/ signed = {}
         \/ p.known # {} /\ signed \subseteq p.known
  BY <1>1, PolicyFields, SameSizeOfKeys
     DEF Trust!RunInv, Trust!LearnsOne, Trust!TriesAnew, Trust!SignedInKnown
<1>3. p.attempts <= 1 \/ p.attempts <= Cardinality(p.known)
  <2>1. Cardinality(p.tried) <= Cardinality(p.known) /\ Cardinality(p.tried) \in Nat /\ Cardinality(p.known) \in Nat
    BY <1>2, TriedAreKnown
  <2>2. QED
    BY <1>1, <1>2, <2>1
<1>4. ASSUME Trust!LetsIn(p, k),
             NEW there, there = (IF Trust!Checks(p) THEN "seen" ELSE "ready"),
             NEW sent, sent = signed \cup (IF Trust!Checks(p) THEN {k} ELSE {})
      PROVE  Trust!RunInv(Trust!At(p, there), sent)
  <2> DEFINE q == Trust!At(p, there)
  <2>1. there \in {"seen", "ready"} /\ there \in Trust!Steps
    BY <1>4 DEF Trust!Steps
  <2>2. /\ q \in Trust!Policies /\ q.at = there
        /\ q.known = p.known /\ q.learn = p.learn /\ q.learned = p.learned /\ q.loaded = p.loaded
        /\ q.tried = p.tried /\ q.key = p.key /\ q.attempts = p.attempts
    BY <1>1, <2>1, PolicyGoes
  <2> HIDE DEF q
  <2>3. Trust!LearnsOne(q)
    BY <1>1, <1>2, <2>1, <2>2 DEF Trust!LearnsOne
  <2>4. Trust!TriesAnew(q)
    BY <1>3, <2>1, <2>2, SameSizeOfKeys DEF Trust!TriesAnew
  <2>5. Trust!SignedInKnown(q, sent)
    <3>1. CASE Trust!Checks(p)
      <4>1. there = "seen" /\ sent = signed \cup {k}
        BY <1>4, <3>1
      <4>2. CASE p.known = {}
        BY <1>1, <1>2, <2>2, <3>1, <4>1, <4>2 DEF Trust!SignedInKnown, Trust!Checks
      <4>3. CASE p.known # {}
        <5>1. k \in p.known
          BY <1>2, <1>4, <4>3 DEF Trust!LetsIn
        <5>2. QED
          BY <1>2, <2>2, <4>1, <4>3, <5>1 DEF Trust!SignedInKnown
      <4>4. QED
        BY <4>2, <4>3
    <3>2. CASE ~Trust!Checks(p)
      BY <1>2, <1>4, <2>2, <3>2 DEF Trust!SignedInKnown, Trust!Checks
    <3>3. QED
      BY <3>1, <3>2
  <2>6. Trust!RunInv(q, sent)
    BY <2>2, <2>3, <2>4, <2>5 DEF Trust!RunInv
  <2>7. QED
    BY <2>6 DEF q
<1>5. ASSUME Trust!SameType(p, k) # {}, Trust!Alternative(p, k)
      PROVE  Trust!RunInv(Trust!TryingAlso(p, k), signed)
  <2> DEFINE q == Trust!TryingAlso(p, k)
  <2>1. /\ q \in Trust!Policies /\ q.tried = p.tried \cup {k}
        /\ q.loaded = (p.loaded \ Trust!SameType(p, k)) \cup {k}
        /\ q.at = p.at /\ q.known = p.known /\ q.learn = p.learn /\ q.learned = p.learned
        /\ q.key = p.key /\ q.attempts = p.attempts
    BY <1>1, PolicyTriesAnother
  <2> HIDE DEF q
  <2>2. k \in p.known /\ k \in Keys \ p.tried /\ p.tried # {}
    BY <1>2, <1>5 DEF Trust!Alternative, Trust!SameType
  <2>3. q.attempts < Cardinality(q.tried)
    <3>1. /\ Cardinality(q.tried) = Cardinality(p.tried) + 1
          /\ Cardinality(p.tried) \in Nat /\ Cardinality(p.tried) > 0
      BY <1>2, <2>1, <2>2, OneMoreTried
    <3>2. QED
      BY <1>1, <1>2, <2>1, <3>1
  <2>4. q.loaded \subseteq q.tried /\ q.tried \subseteq q.known
    BY <1>2, <2>1, <2>2
  <2>5. Trust!TriesAnew(q)
    BY <1>3, <2>1, <2>3, <2>4, SameSizeOfKeys DEF Trust!TriesAnew
  <2>6. Trust!LearnsOne(q) /\ Trust!SignedInKnown(q, signed)
    BY <1>1, <1>2, <2>1 DEF Trust!LearnsOne, Trust!SignedInKnown
  <2>7. Trust!RunInv(q, signed)
    BY <2>1, <2>5, <2>6 DEF Trust!RunInv
  <2>8. QED
    BY <2>7 DEF q
<1>6. ASSUME NEW there \in {"over", "refused"}
      PROVE  Trust!RunInv(Trust!At(p, there), signed)
  <2> DEFINE q == Trust!At(p, there)
  <2>1. there \in Trust!Steps
    BY DEF Trust!Steps
  <2>2. /\ q \in Trust!Policies /\ q.at = there
        /\ q.known = p.known /\ q.learn = p.learn /\ q.learned = p.learned /\ q.loaded = p.loaded
        /\ q.tried = p.tried /\ q.key = p.key /\ q.attempts = p.attempts
    BY <1>1, <2>1, PolicyGoes
  <2> HIDE DEF q
  <2>3. Trust!RunInv(q, signed)
    BY <1>1, <1>2, <1>3, <2>2, SameSizeOfKeys
       DEF Trust!RunInv, Trust!LearnsOne, Trust!TriesAnew, Trust!SignedInKnown
  <2>4. QED
    BY <2>3 DEF q
<1>7. QED
  BY <1>4, <1>5, <1>6

\* What was seen may be learned, and is over with.
LEMMA LearningInOrder ==
  ASSUME NEW p, NEW signed \in SUBSET Keys, Trust!RunInv(p, signed), p.at = "seen", p.learned
  PROVE  Trust!RunInv(Trust!At(p, "learning"), signed)
<1> DEFINE q == Trust!At(p, "learning")
<1>1. p \in Trust!Policies /\ "learning" \in Trust!Steps
  BY DEF Trust!RunInv, Trust!Steps
<1>2. /\ q \in Trust!Policies /\ q.at = "learning"
      /\ q.known = p.known /\ q.learn = p.learn /\ q.learned = p.learned /\ q.loaded = p.loaded
      /\ q.tried = p.tried /\ q.key = p.key /\ q.attempts = p.attempts
  BY <1>1, PolicyGoes
<1> HIDE DEF q
<1>3. Trust!RunInv(q, signed)
  BY <1>2 DEF Trust!RunInv, Trust!LearnsOne, Trust!TriesAnew, Trust!SignedInKnown
<1>4. QED
  BY <1>3 DEF q

\* The one key learned is then the only one known.
LEMMA AfterInOrder ==
  ASSUME NEW p, NEW signed \in SUBSET Keys, Trust!RunInv(p, signed), p.at \in {"seen", "learning"}
  PROVE  Trust!RunInv(Trust!After(p), signed)
<1> DEFINE q == Trust!After(p)
<1>1. p \in Trust!Policies
  BY DEF Trust!RunInv
<1>2. /\ q \in Trust!Policies
      /\ q.learn = FALSE /\ q.known = (IF p.learn THEN p.key ELSE p.known)
      /\ q.at = "ready" /\ q.key = p.key /\ q.attempts = p.attempts
  BY <1>1, PolicyPins
<1> HIDE DEF q
<1>3. Trust!LearnsOne(q)
  BY <1>2 DEF Trust!LearnsOne
<1>4. Trust!TriesAnew(q)
  <2>1. CASE p.learn
    <3>1. p.known = {} /\ Cardinality({}) = 0
      BY <2>1, FS_EmptySet DEF Trust!RunInv, Trust!LearnsOne
    <3>2. p.attempts <= 1
      BY <1>1, <3>1, PolicyFields, SameSizeOfKeys DEF Trust!RunInv, Trust!TriesAnew
    <3>3. QED
      BY <1>2, <3>2 DEF Trust!TriesAnew
  <2>2. CASE ~p.learn
    BY <1>2, <2>2 DEF Trust!RunInv, Trust!TriesAnew
  <2>3. QED
    BY <2>1, <2>2
<1>5. Trust!SignedInKnown(q, signed)
  BY <1>2 DEF Trust!RunInv, Trust!LearnsOne, Trust!SignedInKnown
<1>6. Trust!RunInv(q, signed)
  BY <1>2, <1>3, <1>4, <1>5 DEF Trust!RunInv
<1>7. QED
  BY <1>6 DEF q

\* Discover's Add is not a run: no password goes to its key.
LEMMA AddingInOrder ==
  ASSUME NEW k \in Keys
  PROVE  Trust!RunInv(Trust!Adding(k), {})
<1> DEFINE q == Trust!Adding(k)
<1>1. /\ q \in Trust!Policies /\ q.at = "learning" /\ q.key = {k}
      /\ q.known = {} /\ q.learn = FALSE /\ q.learned = TRUE /\ q.attempts = 0
  BY PolicyAdds
<1> HIDE DEF q
<1>2. Trust!RunInv(q, {})
  BY <1>1 DEF Trust!RunInv, Trust!LearnsOne, Trust!TriesAnew, Trust!SignedInKnown
<1>3. QED
  BY <1>2 DEF q

\* A refused connection is over: what the run knows stays.
LEMMA OverInOrder ==
  ASSUME NEW p, NEW signed \in SUBSET Keys, Trust!RunInv(p, signed), p.at = "refused"
  PROVE  Trust!RunInv(Trust!At(p, "over"), signed)
<1> DEFINE q == Trust!At(p, "over")
<1>1. p \in Trust!Policies /\ "over" \in Trust!Steps
  BY DEF Trust!RunInv, Trust!Steps
<1>2. /\ q \in Trust!Policies /\ q.at = "over"
      /\ q.known = p.known /\ q.learn = p.learn /\ q.learned = p.learned /\ q.loaded = p.loaded
      /\ q.tried = p.tried /\ q.key = p.key /\ q.attempts = p.attempts
  BY <1>1, PolicyGoes
<1> HIDE DEF q
<1>3. Trust!RunInv(q, signed)
  BY <1>2 DEF Trust!RunInv, Trust!LearnsOne, Trust!TriesAnew, Trust!SignedInKnown
<1>4. QED
  BY <1>3 DEF q

\* Every step of a run keeps the store's invariant.
LEMMA RunKeeps ==
  ASSUME Trust!StoreInv, NEW r \in Runs, Trust!Run(r)
  PROVE  Trust!StoreInv'
<1>1. /\ run \in [Runs -> Trust!Policies] /\ run[r] \in Trust!Policies /\ signedIn[r] \in SUBSET Keys
      /\ Trust!RunInv(run[r], signedIn[r])
      /\ stored \in [Keys -> {"no", "accepted", "refused"}] /\ on \in BOOLEAN
  BY DEF Trust!StoreInv, Trust!TypeOK
<1>2. run[r].at \in {"rest", "asked"} => signedIn[r] = {}
  BY <1>1 DEF Trust!RunInv, Trust!SignedInKnown
<1>3. {} \in SUBSET Keys /\ Trust!Accepted \in SUBSET Keys
  BY DEF Trust!Accepted
<1>4. CASE Trust!PolicyAsks(r)
  <2>1. PICK learn \in BOOLEAN, there \in {"asked", "ready"} :
          /\ run[r].at = "rest"
          /\ run' = [run EXCEPT ![r] = Trust!Policy(there, {}, learn, FALSE)]
    <3>1. PICK learn \in BOOLEAN :
            Trust!Is(r, "rest", Trust!Policy(IF on THEN "asked" ELSE "ready", {}, on /\ learn, FALSE))
      BY <1>4 DEF Trust!PolicyAsks
    <3>2. CASE on
      BY Zenon, <3>1, <3>2 DEF Trust!Is
    <3>3. CASE ~on
      BY Zenon, <3>1, <3>3 DEF Trust!Is
    <3>4. QED
      BY <3>2, <3>3
  <2>2. Trust!RunInv(Trust!Policy(there, {}, learn, FALSE), {})
    BY <1>3, BegunInOrder
  <2>3. QED
    BY <1>1, <1>2, <1>3, <1>4, <2>1, <2>2, RunMoves DEF Trust!PolicyAsks
<1>5. CASE Trust!PolicyKnown(r)
  <2>1. PICK known \in SUBSET Keys, learn \in BOOLEAN, learned \in BOOLEAN :
          /\ run[r].at = "asked" /\ (learn => known = {})
          /\ run' = [run EXCEPT ![r] = Trust!Policy("ready", known, learn, learned)]
    <3>1. PICK known \in SUBSET Keys :
            Trust!Is(r, "asked", Trust!Policy("ready", known, run[r].learn /\ known = {}, known = {}))
      BY <1>3, <1>5 DEF Trust!PolicyKnown
    <3>2. (run[r].learn /\ known = {}) \in BOOLEAN /\ (known = {}) \in BOOLEAN
      OBVIOUS
    <3>3. QED
      BY Zenon, <3>1, <3>2 DEF Trust!Is
  <2>2. Trust!RunInv(Trust!Policy("ready", known, learn, learned), {})
    BY <2>1, BegunInOrder
  <2>3. QED
    BY <1>1, <1>2, <1>3, <1>5, <2>1, <2>2, RunMoves DEF Trust!PolicyKnown
<1>6. CASE Trust!Connects(r)
  <2>1. PICK loaded \in SUBSET Keys :
          /\ run[r].at = "ready" /\ loaded \subseteq run[r].known
          /\ run' = [run EXCEPT ![r] = Trust!Connecting(run[r], loaded)]
    BY Zenon, <1>6 DEF Trust!Connects, Trust!Is, Trust!OnePerType
  <2>2. Trust!RunInv(Trust!Connecting(run[r], loaded), signedIn[r])
    BY <1>1, <2>1, ConnectsInOrder
  <2>3. QED
    BY <1>1, <1>6, <2>1, <2>2, RunMoves DEF Trust!Connects
<1>7. CASE Trust!Attempt(r)
  <2>1. run[r].at = "trying" /\ run[r].attempts < MaxAttempts /\ stored' = stored /\ on' = on /\ blocked' = blocked
    BY <1>7 DEF Trust!Attempt
  <2> DEFINE Tries(k, p) ==
        /\ p = Trust!Shown(run[r], k)
        /\ \/ /\ Trust!LetsIn(p, k)
              /\ run' = [run EXCEPT ![r] = Trust!At(p, IF Trust!Checks(p) THEN "seen" ELSE "ready")]
              /\ signedIn' = [signedIn EXCEPT ![r] =
                                signedIn[r] \cup (IF Trust!Checks(p) THEN {k} ELSE {})]
           \/ /\ Trust!SameType(p, k) # {} /\ Trust!Alternative(p, k)
              /\ run' = [run EXCEPT ![r] = Trust!TryingAlso(p, k)] /\ signedIn' = signedIn
           \/ \E there \in {"over", "refused"} :
                run' = [run EXCEPT ![r] = Trust!At(p, there)] /\ signedIn' = signedIn
  <2>0. PICK k \in Keys : \E p : Tries(k, p)
    BY Zenon, <1>7 DEF Trust!Attempt
  <2>2. PICK p : Tries(k, p)
    BY <2>0
  <2>3. /\ Trust!LetsIn(p, k) =>
             Trust!RunInv(Trust!At(p, IF Trust!Checks(p) THEN "seen" ELSE "ready"),
                          signedIn[r] \cup (IF Trust!Checks(p) THEN {k} ELSE {}))
        /\ Trust!SameType(p, k) # {} /\ Trust!Alternative(p, k) => Trust!RunInv(Trust!TryingAlso(p, k), signedIn[r])
        /\ \A there \in {"over", "refused"} : Trust!RunInv(Trust!At(p, there), signedIn[r])
    BY <1>1, <2>1, <2>2, AttemptInOrder
  <2>4. signedIn[r] \cup (IF Trust!Checks(p) THEN {k} ELSE {}) \in SUBSET Keys
    BY <1>1
  <2>5. CASE /\ Trust!LetsIn(p, k)
             /\ run' = [run EXCEPT ![r] = Trust!At(p, IF Trust!Checks(p) THEN "seen" ELSE "ready")]
             /\ signedIn' = [signedIn EXCEPT ![r] = signedIn[r] \cup (IF Trust!Checks(p) THEN {k} ELSE {})]
    BY <1>1, <2>1, <2>3, <2>4, <2>5, RunMoves
  <2>6. CASE /\ Trust!SameType(p, k) # {} /\ Trust!Alternative(p, k)
             /\ run' = [run EXCEPT ![r] = Trust!TryingAlso(p, k)] /\ signedIn' = signedIn
    BY <1>1, <2>1, <2>3, <2>6, RunMoves
  <2>7. ASSUME NEW there \in {"over", "refused"},
               run' = [run EXCEPT ![r] = Trust!At(p, there)] /\ signedIn' = signedIn
        PROVE  Trust!StoreInv'
    BY <1>1, <2>1, <2>3, <2>7, RunMoves
  <2>8. QED
    BY <2>2, <2>5, <2>6, <2>7
<1>8. CASE Trust!Seen(r)
  <2>1. PICK q : /\ run[r].at = "seen" /\ run' = [run EXCEPT ![r] = q]
                 /\ (Trust!MayLearn(run[r]) /\ q = Trust!At(run[r], "learning")) \/ q = Trust!After(run[r])
    BY Zenon, <1>8 DEF Trust!Seen, Trust!Is
  <2>2. Trust!RunInv(q, signedIn[r])
    <3>1. CASE Trust!MayLearn(run[r]) /\ q = Trust!At(run[r], "learning")
      BY <1>1, <2>1, <3>1, LearningInOrder DEF Trust!MayLearn
    <3>2. CASE q = Trust!After(run[r])
      BY <1>1, <2>1, <3>2, AfterInOrder
    <3>3. QED
      BY <2>1, <3>1, <3>2
  <2>3. QED
    BY <1>1, <1>8, <2>1, <2>2, RunMoves DEF Trust!Seen
<1>9. CASE Trust!Learns(r)
  <2>1. run[r].at = "learning" /\ run' = [run EXCEPT ![r] = Trust!After(run[r])]
        /\ on' = on /\ blocked' = blocked /\ signedIn' = signedIn
    BY <1>9 DEF Trust!Learns, Trust!Is
  <2>2. stored' \in [Keys -> {"no", "accepted", "refused"}]
    BY <1>1, <1>9 DEF Trust!Learns
  <2>3. Trust!RunInv(Trust!After(run[r]), signedIn[r])
    BY <1>1, <2>1, AfterInOrder
  <2>4. QED
    BY <1>1, <2>1, <2>2, <2>3, RunMoves
<1>10. CASE Trust!AddStores(r)
  <2>1. PICK k \in Keys : run[r].at = "rest" /\ run' = [run EXCEPT ![r] = Trust!Adding(k)]
    BY <1>10 DEF Trust!AddStores, Trust!Is
  <2>2. Trust!RunInv(Trust!Adding(k), {})
    BY AddingInOrder
  <2>3. QED
    BY <1>1, <1>2, <1>3, <1>10, <2>1, <2>2, RunMoves DEF Trust!AddStores
<1>11. CASE Trust!Refuses(r)
  <2>1. run[r].at = "refused" /\ run' = [run EXCEPT ![r] = Trust!At(run[r], "over")]
        /\ on' = on /\ blocked' = blocked /\ signedIn' = signedIn
    BY <1>11 DEF Trust!Refuses, Trust!Is
  <2>2. stored' \in [Keys -> {"no", "accepted", "refused"}]
    BY <1>1, <1>11 DEF Trust!Refuses, Trust!RefuseState
  <2>3. Trust!RunInv(Trust!At(run[r], "over"), signedIn[r])
    BY <1>1, <2>1, OverInOrder
  <2>4. QED
    BY <1>1, <2>1, <2>2, <2>3, RunMoves
<1>12. CASE Trust!Leaves(r)
  <2>1. Trust!RunInv(Trust!Policy("rest", {}, FALSE, FALSE), {})
    BY <1>3, BegunInOrder
  <2>2. QED
    BY <1>1, <1>3, <1>12, <2>1, RunMoves DEF Trust!Leaves
<1>13. QED
  BY <1>4, <1>5, <1>6, <1>7, <1>8, <1>9, <1>10, <1>11, <1>12 DEF Trust!Run

\* Every step of the store keeps its invariant.
LEMMA StoreNext ==
  ASSUME Trust!StoreInv, Trust!Next \/ UNCHANGED trustVars
  PROVE  Trust!StoreInv'
<1>1. CASE \E r \in Runs : Trust!Run(r)
  BY <1>1, RunKeeps
<1>2. CASE \/ \E k \in Keys : Trust!Accept(k) \/ Trust!Remove(k)
           \/ Trust!Reset \/ Trust!Switches \/ UNCHANGED trustVars
  <2>1. run' = run /\ signedIn' = signedIn
    BY <1>2 DEF Trust!Accept, Trust!Remove, Trust!Reset, Trust!Switches, trustVars
  <2>2. on' \in BOOLEAN /\ blocked' \in BOOLEAN
    BY <1>2 DEF Trust!Accept, Trust!Remove, Trust!Reset, Trust!Switches, trustVars, Trust!StoreInv, Trust!TypeOK
  <2>3. stored' \in [Keys -> {"no", "accepted", "refused"}]
    BY <1>2 DEF Trust!Accept, Trust!Remove, Trust!Reset, Trust!Switches, trustVars, Trust!StoreInv, Trust!TypeOK
  <2>4. Trust!TypeOK'
    BY <2>1, <2>2, <2>3 DEF Trust!StoreInv, Trust!TypeOK, Trust!Policies
  <2>5. (\A r \in Runs : Trust!RunInv(run[r], signedIn[r]))'
    BY <2>1 DEF Trust!StoreInv, Trust!RunInv, Trust!LearnsOne, Trust!TriesAnew, Trust!SignedInKnown, Trust!Policies
  <2>6. QED
    BY <2>4, <2>5 DEF Trust!StoreInv
<1>3. QED
  BY <1>1, <1>2 DEF Trust!Next

\* At first no run has begun.
LEMMA StoreFirst ==
  ASSUME Trust!Init
  PROVE  Trust!StoreInv
<1> DEFINE rest == Trust!Policy("rest", {}, FALSE, FALSE)
<1>1. Trust!RunInv(rest, {})
  BY BegunInOrder
<1> HIDE DEF rest
<1>2. run = [r \in Runs |-> rest] /\ signedIn = [r \in Runs |-> {}]
  BY Zenon DEF Trust!Init, rest
<1>3. \A r \in Runs : Trust!RunInv(run[r], signedIn[r])
  BY <1>1, <1>2
<1>4. Trust!TypeOK
  BY <1>1, <1>2 DEF Trust!Init, Trust!TypeOK, Trust!RunInv
<1>5. QED
  BY <1>3, <1>4 DEF Trust!StoreInv

\* A step of the table that makes no acceptance a refusal, and accepts for one of the two reasons.
LEMMA StoreSteps ==
  ASSUME Trust!StoreInv, Trust!Next \/ UNCHANGED trustVars
  PROVE  Trust!AcceptanceStays /\ Trust!AcceptedForAReason
<1>1. stored \in [Keys -> {"no", "accepted", "refused"}]
  BY DEF Trust!StoreInv, Trust!TypeOK
<1>2. CASE stored' = stored
  BY <1>2 DEF Trust!AcceptanceStays, Trust!AcceptedForAReason
<1>3. ASSUME NEW r \in Runs, Trust!Learns(r), stored' # stored
      PROVE  Trust!AcceptanceStays /\ Trust!AcceptedForAReason
  <2>1. run[r].at = "learning" /\ stored' = [k \in Keys |-> IF k \in run[r].key THEN "accepted" ELSE stored[k]]
    BY <1>3 DEF Trust!Learns, Trust!Is
  <2>2. run[r].learned /\ \E k \in Keys : run[r].key = {k}
    BY <2>1 DEF Trust!StoreInv, Trust!RunInv, Trust!LearnsOne
  <2>3. Trust!AcceptanceStays
    BY <2>1 DEF Trust!AcceptanceStays
  <2>4. Trust!AcceptedForAReason
    <3> SUFFICES ASSUME NEW k \in Keys, stored[k] # "accepted", stored'[k] = "accepted"
                 PROVE  run[r].at = "learning" /\ run[r].learned /\ run[r].key = {k}
      BY DEF Trust!AcceptedForAReason
    <3>1. k \in run[r].key
      BY <2>1
    <3>2. QED
      BY <2>1, <2>2, <3>1
  <2>5. QED
    BY <2>3, <2>4
<1>4. ASSUME NEW r \in Runs, Trust!Refuses(r), stored' # stored
      PROVE  Trust!AcceptanceStays /\ Trust!AcceptedForAReason
  <2>1. stored' = [k \in Keys |-> IF k \in run[r].key THEN Trust!RefuseState(k) ELSE stored[k]]
    BY <1>4 DEF Trust!Refuses
  <2>2. \A k \in Keys : stored'[k] = stored[k] \/ (stored[k] = "no" /\ stored'[k] = "refused")
    BY <2>1 DEF Trust!RefuseState
  <2>3. QED
    BY <2>2 DEF Trust!AcceptanceStays, Trust!AcceptedForAReason
<1>5. ASSUME NEW k \in Keys, Trust!Accept(k)
      PROVE  Trust!AcceptanceStays /\ Trust!AcceptedForAReason
  <2>1. stored[k] = "refused" /\ run' = run
    BY <1>5 DEF Trust!Accept
  <2>2. PICK gone : stored' = [l \in Keys |-> IF l = k THEN "accepted" ELSE IF l \in gone THEN "no" ELSE stored[l]]
    BY <1>5 DEF Trust!Accept
  <2>3. QED
    BY <2>1, <2>2 DEF Trust!AcceptanceStays, Trust!AcceptedForAReason
<1>6. CASE (\E k \in Keys : Trust!Remove(k)) \/ Trust!Reset
  <2>1. \A k \in Keys : stored'[k] \in {"no", stored[k]}
    BY <1>1, <1>6 DEF Trust!Remove, Trust!Reset
  <2>2. QED
    BY <2>1 DEF Trust!AcceptanceStays, Trust!AcceptedForAReason
<1>7. \A r \in Runs : Trust!Run(r) => stored' = stored \/ Trust!Learns(r) \/ Trust!Refuses(r)
  BY DEF Trust!Run, Trust!PolicyAsks, Trust!PolicyKnown, Trust!Connects, Trust!Attempt, Trust!Seen,
         Trust!AddStores, Trust!Leaves
<1>8. Trust!Switches \/ UNCHANGED trustVars => stored' = stored
  BY DEF Trust!Switches, trustVars
<1>9. QED
  BY <1>2, <1>3, <1>4, <1>5, <1>6, <1>7, <1>8 DEF Trust!Next

\* HostKeyStore: a run's password goes to devices with a key that it knew as accepted, or to the one whose
\* key it learned; the attempts of a connection end; a late refusal takes no acceptance back, and a key
\* is accepted by an admin or because a run found none accepted: for any keys, of any types, and any runs.
THEOREM HostKeysKept == Spec => HostKeysSafe
<1> DEFINE Inv == part = "host keys" => Trust!StoreInv
           Good == part = "host keys" => Trust!TypeOK /\ Trust!PasswordsKept /\ Trust!RetriesEnd
           Steady == part = "host keys" => Trust!AcceptanceStays /\ Trust!AcceptedForAReason
<1>1. Init => Inv
  BY StoreFirst DEF Init
<1>2. Inv /\ [Next]_vars => Inv'
  <2> SUFFICES ASSUME Inv, [Next]_vars, part' = "host keys" PROVE Trust!StoreInv'
    OBVIOUS
  <2>1. part = "host keys" /\ (Trust!Next \/ UNCHANGED trustVars)
    BY DEF Next, vars
  <2>2. QED
    BY <2>1, StoreNext
<1>3. Inv => Good
  <2> SUFFICES ASSUME Trust!StoreInv PROVE Trust!TypeOK /\ Trust!PasswordsKept /\ Trust!RetriesEnd
    OBVIOUS
  <2>1. Trust!RetriesEnd
    BY DEF Trust!StoreInv, Trust!RunInv, Trust!TriesAnew, Trust!RetriesEnd
  <2>2. Trust!PasswordsKept
    <3> SUFFICES ASSUME NEW r \in Runs
                 PROVE  signedIn[r] \subseteq run[r].known \/ Trust!Cardinality(signedIn[r]) <= 1
      BY DEF Trust!PasswordsKept
    <3>1. CASE signedIn[r] \subseteq run[r].known
      BY <3>1
    <3>2. CASE \E k \in Keys : signedIn[r] \subseteq {k}
      <4>1. PICK k \in Keys : signedIn[r] \subseteq {k}
        BY <3>2
      <4>2. signedIn[r] = {} \/ signedIn[r] = {k}
        BY <4>1
      <4>3. Cardinality({}) = 0 /\ Cardinality({k}) = 1
        BY FS_EmptySet, FS_Singleton
      <4>4. QED
        BY <4>2, <4>3, SameSizeOfKeys
    <3>3. QED
      BY <3>1, <3>2 DEF Trust!StoreInv, Trust!RunInv, Trust!LearnsOne, Trust!SignedInKnown
  <2>3. QED
    BY <2>1, <2>2 DEF Trust!StoreInv
<1>4. Inv /\ [Next]_vars => [Steady]_vars
  <2> SUFFICES ASSUME Inv, [Next]_vars, part = "host keys"
               PROVE  Trust!AcceptanceStays /\ Trust!AcceptedForAReason
    OBVIOUS
  <2>1. Trust!Next \/ UNCHANGED trustVars
    BY DEF Next, vars
  <2>2. QED
    BY <2>1, StoreSteps
<1>5. QED
  BY <1>1, <1>2, <1>3, <1>4, PTL DEF Spec, HostKeysSafe

(***************************************************************************)
(* Reviews: what several people's transactions do to the same devices.     *)
(***************************************************************************)

\* Cardinality of the Reviews instance is FiniteSets' Cardinality.
LEMMA SameSizeOfReviews == \A S : Review!Cardinality(S) = Cardinality(S)
  BY DEF Review!Cardinality, Cardinality

\* A reviewer's decision is a record of its fields.
LEMMA DecisionFields ==
  ASSUME NEW p \in Review!Decisions
  PROVE  /\ p.at \in {"idle", "writing", "writing_alike", "auditing"} /\ p.device \in SUBSET Devices
         /\ p.outcome \in Review!Outcomes /\ p.alike \in BOOLEAN
         /\ p.todo \in SUBSET Review!RowWrites /\ p.writes \in SUBSET Review!RowWrites
  BY DEF Review!Decisions

\* A row is a record of its fields.
LEMMA RowFields ==
  ASSUME NEW row \in Review!Rows
  PROVE  /\ row.status \in Review!Statuses /\ row.open \in BOOLEAN /\ row.proven \in Nat
         /\ row.signature \in Review!Signatures
         /\ row.outcome \in Review!Outcomes \cup {"none"} /\ row.by \in Reviewers \cup {"nobody"}
  BY DEF Review!Rows

\* The write of a decision that was read now.
LEMMA WriteFields ==
  ASSUME rows \in [Devices -> Review!Rows], NEW d \in Devices, NEW outcome \in Review!Outcomes
  PROVE  LET w == Review!Write(d, outcome)
         IN  /\ w \in Review!RowWrites /\ w.device = d
             /\ w.status = Review!Settled(rows[d], outcome)
             /\ w.writesStatus <=> w.status # rows[d].status
<1>1. Review!Settled(rows[d], outcome) \in Review!Statuses
  BY DEF Review!Settled, Review!Statuses
<1>2. (Review!Settled(rows[d], outcome) # rows[d].status) \in BOOLEAN
  OBVIOUS
<1>3. QED
  BY <1>1, <1>2 DEF Review!Write, Review!RowWrites

\* A decision that is begun.
LEMMA DecidingFields ==
  ASSUME rows \in [Devices -> Review!Rows], NEW d \in Devices, NEW outcome \in Review!Outcomes,
         NEW alike \in BOOLEAN
  PROVE  LET p == Review!Deciding(d, outcome, alike)
         IN  /\ p \in Review!Decisions /\ p.at = "writing" /\ p.device = {d} /\ p.outcome = outcome
             /\ p.todo = {Review!Write(d, outcome)} /\ p.writes = {}
<1>1. {Review!Write(d, outcome)} \in SUBSET Review!RowWrites
  BY WriteFields
<1>2. QED
  BY <1>1 DEF Review!Deciding, Review!Decisions

\* A reviewer with nothing to decide.
LEMMA IdleFields ==
  LET p == Review!Idle
  IN  p \in Review!Decisions /\ p.at = "idle" /\ p.device = {} /\ p.todo = {} /\ p.writes = {}
  BY DEF Review!Idle, Review!Decisions, Review!Outcomes

\* A decision that is sent.
LEMMA SentFields ==
  ASSUME NEW p \in Review!Decisions, NEW w \in p.todo
  PROVE  LET q == Review!Sent(p, w)
         IN  /\ q \in Review!Decisions /\ q.at = p.at /\ q.device = p.device /\ q.outcome = p.outcome
             /\ q.todo = p.todo \ {w} /\ q.writes = p.writes \cup {w}
<1> DEFINE q == Review!Sent(p, w)
<1>1. p.todo \ {w} \in SUBSET Review!RowWrites /\ p.writes \cup {w} \in SUBSET Review!RowWrites
  BY DecisionFields
<1>2. q \in Review!Decisions
  BY Zenon, <1>1, DecisionFields DEF Review!Decisions, Review!Sent
<1>3. QED
  BY Zenon, <1>2 DEF Review!Decisions, Review!Sent

\* A decision for all alike, with the rows that were read.
LEMMA AlikeFields ==
  ASSUME rows \in [Devices -> Review!Rows], NEW p \in Review!Decisions, NEW d \in Devices
  PROVE  LET q == Review!AlikeToo(p, d)
         IN  /\ q \in Review!Decisions /\ q.at = "writing_alike" /\ q.device = p.device /\ q.outcome = p.outcome
             /\ q.todo = {Review!Write(e, p.outcome) : e \in Review!Alike(d)} /\ q.writes = p.writes
<1> DEFINE q == Review!AlikeToo(p, d)
<1>1. {Review!Write(e, p.outcome) : e \in Review!Alike(d)} \in SUBSET Review!RowWrites
  <2>1. p.outcome \in Review!Outcomes
    BY DecisionFields
  <2>2. \A e \in Review!Alike(d) : Review!Write(e, p.outcome) \in Review!RowWrites
    BY <2>1, WriteFields DEF Review!Alike
  <2>3. QED
    BY <2>2
<1>2. "writing_alike" \in {"idle", "writing", "writing_alike", "auditing"}
  OBVIOUS
<1>3. q \in Review!Decisions
  BY Zenon, <1>1, <1>2, DecisionFields DEF Review!Decisions, Review!AlikeToo
<1>4. QED
  BY Zenon, <1>3 DEF Review!Decisions, Review!AlikeToo

\* A decision that is committed has what it wrote to note.
LEMMA CommittedFields ==
  ASSUME NEW p \in Review!Decisions
  PROVE  LET q == Review!Committed(p)
         IN  /\ q \in Review!Decisions /\ q.at = "auditing" /\ q.device = p.device /\ q.outcome = p.outcome
             /\ q.todo = p.writes /\ q.writes = {}
<1> DEFINE q == Review!Committed(p)
<1>1. {} \in SUBSET Review!RowWrites /\ "auditing" \in {"idle", "writing", "writing_alike", "auditing"}
  OBVIOUS
<1>2. q \in Review!Decisions
  BY Zenon, <1>1, DecisionFields DEF Review!Decisions, Review!Committed
<1>3. QED
  BY Zenon, <1>2 DEF Review!Decisions, Review!Committed

\* The row as the commit leaves it.
LEMMA AfterFields ==
  ASSUME NEW row \in Review!Rows, NEW w \in Review!RowWrites, NEW v \in Reviewers,
         review[v].outcome \in Review!Outcomes
  PROVE  LET q == Review!After(row, w, v)
         IN  /\ q \in Review!Rows /\ q.outcome = review[v].outcome /\ q.by = v
             /\ q.status = IF w.writesStatus THEN w.status ELSE row.status
             /\ q.open = row.open /\ q.proven = row.proven /\ q.signature = row.signature
<1> DEFINE q == Review!After(row, w, v)
<1>1. /\ review[v].outcome \in Review!Outcomes \cup {"none"} /\ v \in Reviewers \cup {"nobody"}
      /\ (IF w.writesStatus THEN w.status ELSE row.status) \in Review!Statuses
  BY RowFields DEF Review!RowWrites
<1>2. q \in Review!Rows
  BY Zenon, <1>1, RowFields DEF Review!Rows, Review!After
<1>3. QED
  BY Zenon, <1>2 DEF Review!Rows, Review!After

\* The kinds of values are the same in every state.
LEMMA SameKinds ==
  /\ Review!Rows' = Review!Rows /\ Review!Decisions' = Review!Decisions
  /\ Review!Outcomes' = Review!Outcomes
  BY DEF Review!Rows, Review!Decisions, Review!RowWrites, Review!Signatures, Review!Statuses, Review!Outcomes

\* A step of one person leaves the others' decisions alone.
LEMMA PersonMoves ==
  ASSUME Review!Typed, NEW v \in Reviewers, NEW p \in Review!Decisions, Review!Goes(v, p)
  PROVE  /\ review' \in [Reviewers -> Review!Decisions] /\ review'[v] = p
         /\ \A u \in Reviewers \ {v} : review'[u] = review[u]
<1>1. review \in [Reviewers -> Review!Decisions] /\ review' = [review EXCEPT ![v] = p]
  BY DEF Review!Typed, Review!Goes
<1>2. QED
  BY <1>1

\* A step before the commit: it leaves rows, audits and who decided what alone.
LEMMA BeforeCommit ==
  ASSUME Review!ReviewInv, NEW v \in Reviewers, NEW p \in Review!Decisions, Review!Goes(v, p),
         rows' = rows, audits' = audits, review[v].at # "auditing", p.at # "auditing",
         \A d \in p.device, w \in p.todo \cup p.writes : rows[w.device].signature = rows[d].signature,
         \A w \in p.todo \cup p.writes : Review!ReadBefore(v, p.outcome, w),
         \A w \in p.writes : w \in review[v].writes \/ Review!LockedBy(w.device) = {},
         p.at = "idle" => p.writes = {},
         \A d, e \in p.device : d = e
  PROVE  Review!ReviewInv'
<1>1. /\ review' \in [Reviewers -> Review!Decisions] /\ review'[v] = p
      /\ \A u \in Reviewers \ {v} : review'[u] = review[u]
  BY PersonMoves DEF Review!ReviewInv
<1>2. Review!Typed'
  BY <1>1, SameKinds DEF Review!ReviewInv, Review!Typed
<1>3. Review!AlikeIsAlike'
  BY <1>1 DEF Review!ReviewInv, Review!AlikeIsAlike
<1>4. \A d \in Devices : Review!Deciders(d)' = Review!Deciders(d)
  <2> SUFFICES ASSUME NEW d \in Devices PROVE Review!Deciders(d)' = Review!Deciders(d)
    OBVIOUS
  <2>1. \A u \in Reviewers : u \in Review!Deciders(d)' <=> u \in Review!Deciders(d)
    <3> SUFFICES ASSUME NEW u \in Reviewers PROVE u \in Review!Deciders(d)' <=> u \in Review!Deciders(d)
      OBVIOUS
    <3>1. CASE u = v
      BY <1>1, <3>1 DEF Review!Deciders
    <3>2. CASE u # v
      BY <1>1, <3>2 DEF Review!Deciders
    <3>3. QED
      BY <3>1, <3>2
  <2>2. Review!Deciders(d)' \subseteq Reviewers /\ Review!Deciders(d) \subseteq Reviewers
    BY DEF Review!Deciders
  <2>3. QED
    BY <2>1, <2>2
<1>5. \A d \in Devices : Review!AloneSettled(d)'
  BY <1>4 DEF Review!ReviewInv, Review!AloneSettled, Review!Decided, Review!Settled
<1>6. \A d \in Devices : Review!OneWriter(d)'
  <2> SUFFICES ASSUME NEW d \in Devices, NEW t \in Review!LockedBy(d)', NEW u \in Review!LockedBy(d)'
               PROVE  t = u
    BY DEF Review!OneWriter
  <2>1. \A x \in Review!LockedBy(d)' : x \in Review!LockedBy(d) \/ (x = v /\ Review!LockedBy(d) = {})
    <3> SUFFICES ASSUME NEW x \in Review!LockedBy(d)'
                 PROVE  x \in Review!LockedBy(d) \/ (x = v /\ Review!LockedBy(d) = {})
      OBVIOUS
    <3>1. x \in Reviewers /\ \E w \in review'[x].writes : w.device = d
      BY DEF Review!LockedBy, Review!Writing
    <3>2. CASE x = v
      BY <1>1, <3>1, <3>2 DEF Review!LockedBy, Review!Writing
    <3>3. CASE x # v
      BY <1>1, <3>1, <3>3 DEF Review!LockedBy, Review!Writing
    <3>4. QED
      BY <3>2, <3>3
  <2>2. QED
    BY <2>1 DEF Review!ReviewInv, Review!OneWriter
<1>7. ASSUME NEW u \in Reviewers, NEW w \in review'[u].todo \cup review'[u].writes, review'[u].at # "auditing"
      PROVE  Review!ReadBefore(u, review[u].outcome, w)'
  <2>1. w.device \in Devices
    BY <1>1, DecisionFields DEF Review!RowWrites
  <2>2. Review!ReadBefore(u, review'[u].outcome, w)
    <3>1. CASE u = v
      BY <1>1, <1>7, <3>1
    <3>2. CASE u # v
      BY <1>1, <1>7, <3>2 DEF Review!ReviewInv, Review!InHand
    <3>3. QED
      BY <3>1, <3>2
  <2>3. QED
    BY <1>4, <2>1, <2>2 DEF Review!ReadBefore, Review!Decided, Review!Settled
<1>8. \A u \in Reviewers : Review!InHand(u)'
  BY <1>1, <1>7 DEF Review!ReviewInv, Review!InHand
<1>9. QED
  BY <1>2, <1>3, <1>5, <1>6, <1>8 DEF Review!ReviewInv

\* Nobody has decided a device that awaits a decision.
LEMMA ReadUndecided ==
  ASSUME Review!ReviewInv, NEW v \in Reviewers, NEW d \in Devices, Review!AwaitingDecision(rows[d]),
         NEW outcome \in Review!Outcomes
  PROVE  Review!ReadBefore(v, outcome, Review!Write(d, outcome))
<1>1. LET w == Review!Write(d, outcome)
      IN  /\ w.device = d /\ w.status = Review!Settled(rows[d], outcome)
          /\ w.writesStatus <=> w.status # rows[d].status
  BY WriteFields DEF Review!ReviewInv, Review!Typed
<1>2. rows[d].open /\ ~Review!Decided(d)
  BY DEF Review!AwaitingDecision, Review!Decided
<1>3. Review!Deciders(d) = {}
  BY <1>2 DEF Review!ReviewInv, Review!AloneSettled
<1> HIDE DEF Review!Write
<1>4. QED
  BY <1>1, <1>2, <1>3 DEF Review!ReadBefore

\* A reviewer begins to decide about a device.
LEMMA DecidesKeeps ==
  ASSUME Review!ReviewInv, NEW v \in Reviewers, NEW d \in Devices, NEW outcome \in Review!Outcomes,
         NEW alike \in BOOLEAN, Review!Decides(v, d, outcome, alike)
  PROVE  Review!ReviewInv'
<1>1. PICK p : p = Review!Deciding(d, outcome, alike)
  OBVIOUS
<1>2. PICK w : w = Review!Write(d, outcome)
  OBVIOUS
<1>3. /\ p \in Review!Decisions /\ p.at = "writing" /\ p.device = {d} /\ p.outcome = outcome
      /\ p.todo = {w} /\ p.writes = {}
  BY <1>1, <1>2, DecidingFields DEF Review!ReviewInv, Review!Typed
<1>4. w.device = d
  BY <1>2, WriteFields DEF Review!ReviewInv, Review!Typed
<1>5. /\ review[v].at = "idle" /\ Review!AwaitingDecision(rows[d]) /\ Review!Goes(v, p)
      /\ rows' = rows /\ audits' = audits
  BY <1>1 DEF Review!Decides, Review!Decidable
<1>6. Review!ReadBefore(v, outcome, w)
  BY <1>2, <1>5, ReadUndecided
<1>7. QED
  BY <1>3, <1>4, <1>5, <1>6, BeforeCommit

\* A decision writes one of its rows, which nobody else has locked.
LEMMA WritesKeeps ==
  ASSUME Review!ReviewInv, NEW v \in Reviewers, Review!Writes(v)
  PROVE  Review!ReviewInv'
<1>1. PICK o \in Review!Decisions : o = review[v]
  BY DEF Review!ReviewInv, Review!Typed
<1>0. PICK w \in o.todo : Review!LockedBy(w.device) = {} /\ Review!Goes(v, Review!Sent(o, w))
  BY <1>1 DEF Review!Writes
<1>2. PICK p : Review!LockedBy(w.device) = {} /\ Review!Goes(v, p) /\ p = Review!Sent(o, w)
  BY <1>0
<1>3. /\ p \in Review!Decisions /\ p.at = o.at /\ p.device = o.device /\ p.outcome = o.outcome
      /\ p.todo = o.todo \ {w} /\ p.writes = o.writes \cup {w}
  BY <1>2, SentFields
<1>4. o.at \in {"writing", "writing_alike"} /\ rows' = rows /\ audits' = audits
  BY <1>1 DEF Review!Writes
<1>5. \A d \in p.device, x \in p.todo \cup p.writes : rows[x.device].signature = rows[d].signature
  BY <1>1, <1>2, <1>3 DEF Review!ReviewInv, Review!AlikeIsAlike
<1>6. \A x \in p.todo \cup p.writes : Review!ReadBefore(v, p.outcome, x)
  BY <1>1, <1>2, <1>3, <1>4 DEF Review!ReviewInv, Review!InHand
<1>7. \A x \in p.writes : x \in review[v].writes \/ Review!LockedBy(x.device) = {}
  BY <1>1, <1>2, <1>3
<1>8. \A d, e \in p.device : d = e
  BY <1>1, <1>3 DEF Review!ReviewInv, Review!InHand
<1>9. QED
  BY <1>1, <1>2, <1>3, <1>4, <1>5, <1>6, <1>7, <1>8, BeforeCommit

\* The rows that are alike are read before any of them is written.
LEMMA ReadsAlikeKeeps ==
  ASSUME Review!ReviewInv, NEW v \in Reviewers, Review!ReadsAlike(v)
  PROVE  Review!ReviewInv'
<1>1. PICK o \in Review!Decisions : o = review[v]
  BY DEF Review!ReviewInv, Review!Typed
<1>0. PICK d \in o.device : Review!Goes(v, Review!AlikeToo(o, d))
  BY <1>1 DEF Review!ReadsAlike
<1>2. PICK p : Review!Goes(v, p) /\ p = Review!AlikeToo(o, d)
  BY <1>0
<1>3. d \in Devices /\ o.device \in SUBSET Devices /\ o.outcome \in Review!Outcomes
  BY DecisionFields
<1>4. /\ p \in Review!Decisions /\ p.at = "writing_alike" /\ p.device = o.device /\ p.outcome = o.outcome
      /\ p.todo = {Review!Write(e, o.outcome) : e \in Review!Alike(d)} /\ p.writes = o.writes
  BY <1>2, <1>3, AlikeFields DEF Review!ReviewInv, Review!Typed
<1>5. o.at = "writing" /\ o.todo = {} /\ rows' = rows /\ audits' = audits
  BY <1>1 DEF Review!ReadsAlike
<1>6. \A e \in o.device : e = d
  BY <1>1 DEF Review!ReviewInv, Review!InHand
<1>7. \A e \in Review!Alike(d) : /\ e \in Devices /\ Review!AwaitingDecision(rows[e])
                                /\ rows[e].signature = rows[d].signature
                                /\ Review!Write(e, o.outcome).device = e
                                /\ Review!ReadBefore(v, o.outcome, Review!Write(e, o.outcome))
  <2> SUFFICES ASSUME NEW e \in Review!Alike(d)
               PROVE  /\ e \in Devices /\ Review!AwaitingDecision(rows[e])
                      /\ rows[e].signature = rows[d].signature
                      /\ Review!Write(e, o.outcome).device = e
                      /\ Review!ReadBefore(v, o.outcome, Review!Write(e, o.outcome))
    OBVIOUS
  <2>1. e \in Devices /\ Review!AwaitingDecision(rows[e]) /\ rows[e].signature = rows[d].signature
    BY DEF Review!Alike
  <2>2. QED
    BY <1>3, <2>1, ReadUndecided, WriteFields DEF Review!ReviewInv, Review!Typed
<1>8. \A e \in p.device, x \in p.todo \cup p.writes : rows[x.device].signature = rows[e].signature
  <2> SUFFICES ASSUME NEW e \in p.device, NEW x \in p.todo \cup p.writes
               PROVE  rows[x.device].signature = rows[e].signature
    OBVIOUS
  <2>1. CASE x \in p.writes
    BY <1>1, <1>4, <2>1 DEF Review!ReviewInv, Review!AlikeIsAlike
  <2>2. CASE x \in p.todo
    BY <1>4, <1>6, <1>7, <2>2
  <2>3. QED
    BY <2>1, <2>2
<1>9. \A x \in p.todo \cup p.writes : Review!ReadBefore(v, p.outcome, x)
  BY <1>1, <1>4, <1>5, <1>7 DEF Review!ReviewInv, Review!InHand
<1>10. QED
  BY <1>1, <1>2, <1>4, <1>5, <1>6, <1>8, <1>9, BeforeCommit

\* A decision that fails leaves nothing.
LEMMA FailsKeeps ==
  ASSUME Review!ReviewInv, NEW v \in Reviewers, Review!Fails(v)
  PROVE  Review!ReviewInv'
<1>1. PICK p : p = Review!Idle
  OBVIOUS
<1>2. p \in Review!Decisions /\ p.at = "idle" /\ p.device = {} /\ p.todo = {} /\ p.writes = {}
  BY <1>1, IdleFields
<1>3. Review!Goes(v, p) /\ rows' = rows /\ audits' = audits /\ review[v].at # "auditing"
  BY <1>1 DEF Review!Fails, Review!Deadlocked, Review!Waits
<1>4. QED
  BY <1>2, <1>3, BeforeCommit

\* A commit: each row written is now this person's decision.
LEMMA CommitsKeeps ==
  ASSUME Review!ReviewInv, NEW v \in Reviewers, Review!Commits(v)
  PROVE  Review!ReviewInv'
<1>1. PICK o \in Review!Decisions : o = review[v]
  BY DEF Review!ReviewInv, Review!Typed
<1>2. PICK p : p = Review!Committed(o)
  OBVIOUS
<1>3. /\ p \in Review!Decisions /\ p.at = "auditing" /\ p.device = o.device /\ p.outcome = o.outcome
      /\ p.todo = o.writes /\ p.writes = {}
  BY <1>2, CommittedFields
<1>4. Review!Goes(v, p) /\ audits' = audits /\ o.at \in {"writing", "writing_alike"} /\ o.todo = {}
  BY <1>1, <1>2 DEF Review!Commits, Review!Committable
<1>5. /\ review' \in [Reviewers -> Review!Decisions] /\ review'[v] = p
      /\ \A u \in Reviewers \ {v} : review'[u] = review[u]
  BY <1>3, <1>4, PersonMoves DEF Review!ReviewInv
<1>6. rows \in [Devices -> Review!Rows] /\ o.writes \in SUBSET Review!RowWrites /\ o.outcome \in Review!Outcomes
  BY DecisionFields DEF Review!ReviewInv, Review!Typed
<1>7. \A d \in Devices : IF d \in Review!Writing(v)
                         THEN \E w \in o.writes : w.device = d /\ rows'[d] = Review!After(rows[d], w, v)
                         ELSE rows'[d] = rows[d]
  <2> SUFFICES ASSUME NEW d \in Devices
               PROVE  IF d \in Review!Writing(v)
                      THEN \E w \in o.writes : w.device = d /\ rows'[d] = Review!After(rows[d], w, v)
                      ELSE rows'[d] = rows[d]
    OBVIOUS
  <2> DEFINE c == CHOOSE w \in o.writes : w.device = d
  <2>1. d \in Review!Writing(v) => c \in o.writes /\ c.device = d
    BY <1>1 DEF Review!Writing
  <2>2. rows'[d] = IF d \in Review!Writing(v) THEN Review!After(rows[d], c, v) ELSE rows[d]
    BY <1>1 DEF Review!Commits
  <2> HIDE DEF c
  <2>3. QED
    BY <2>1, <2>2
<1>8. /\ \A d \in Devices : /\ rows'[d] \in Review!Rows
                            /\ rows'[d].open = rows[d].open /\ rows'[d].proven = rows[d].proven
                            /\ rows'[d].signature = rows[d].signature
                            /\ d \notin Review!Writing(v) => rows'[d] = rows[d]
                            /\ d \in Review!Writing(v) =>
                                 /\ rows'[d].outcome = o.outcome /\ rows'[d].by = v
                                 /\ \E w \in o.writes :
                                      /\ w.device = d
                                      /\ rows'[d].status = IF w.writesStatus THEN w.status ELSE rows[d].status
  <2> SUFFICES ASSUME NEW d \in Devices
               PROVE  /\ rows'[d] \in Review!Rows
                      /\ rows'[d].open = rows[d].open /\ rows'[d].proven = rows[d].proven
                      /\ rows'[d].signature = rows[d].signature
                      /\ d \notin Review!Writing(v) => rows'[d] = rows[d]
                      /\ d \in Review!Writing(v) =>
                           /\ rows'[d].outcome = o.outcome /\ rows'[d].by = v
                           /\ \E w \in o.writes :
                                /\ w.device = d
                                /\ rows'[d].status = IF w.writesStatus THEN w.status ELSE rows[d].status
    OBVIOUS
  <2>1. CASE d \in Review!Writing(v)
    <3>1. PICK w \in o.writes : w.device = d /\ rows'[d] = Review!After(rows[d], w, v)
      BY <1>7, <2>1
    <3>2. rows[d] \in Review!Rows /\ w \in Review!RowWrites
      BY <1>6
    <3>3. LET q == Review!After(rows[d], w, v)
          IN  /\ q \in Review!Rows /\ q.outcome = o.outcome /\ q.by = v
              /\ q.status = IF w.writesStatus THEN w.status ELSE rows[d].status
              /\ q.open = rows[d].open /\ q.proven = rows[d].proven /\ q.signature = rows[d].signature
      BY <1>1, <1>6, <3>2, AfterFields
    <3>4. QED
      BY <2>1, <3>1, <3>3
  <2>2. CASE d \notin Review!Writing(v)
    BY <1>6, <1>7, <2>2
  <2>3. QED
    BY <2>1, <2>2
<1>9. rows' \in [Devices -> Review!Rows]
  <2>1. rows' = [d \in Devices |-> rows'[d]]
    BY DEF Review!Commits
  <2>2. QED
    BY <1>8, <2>1
<1>10. Review!Typed'
  BY <1>4, <1>5, <1>9, SameKinds DEF Review!ReviewInv, Review!Typed
<1>11. \A u \in Reviewers : \A w \in review'[u].todo \cup review'[u].writes :
         /\ w \in review[u].todo \cup review[u].writes /\ w.device \in Devices
         /\ review'[u].at # "auditing" => u # v
  <2> SUFFICES ASSUME NEW u \in Reviewers, NEW w \in review'[u].todo \cup review'[u].writes
               PROVE  /\ w \in review[u].todo \cup review[u].writes /\ w.device \in Devices
                      /\ review'[u].at # "auditing" => u # v
    OBVIOUS
  <2>1. w \in Review!RowWrites
    BY <1>5, DecisionFields
  <2>2. w.device \in Devices
    BY <2>1 DEF Review!RowWrites
  <2>3. QED
    BY <1>1, <1>3, <1>5, <2>2
<1>12. \A u \in Reviewers : review'[u].device = review[u].device /\ review'[u].device \subseteq Devices
  BY <1>1, <1>3, <1>5, DecisionFields
<1>13. Review!AlikeIsAlike'
  BY <1>8, <1>11, <1>12 DEF Review!ReviewInv, Review!AlikeIsAlike
<1>14. \A d \in Devices : Review!Deciders(d)' = IF d \in Review!Writing(v) THEN Review!Deciders(d) \cup {v}
                                                ELSE Review!Deciders(d)
  <2> SUFFICES ASSUME NEW d \in Devices
               PROVE  Review!Deciders(d)' = IF d \in Review!Writing(v) THEN Review!Deciders(d) \cup {v}
                                            ELSE Review!Deciders(d)
    OBVIOUS
  <2>1. \A u \in Reviewers \ {v} : u \in Review!Deciders(d)' <=> u \in Review!Deciders(d)
    BY <1>4, <1>5 DEF Review!Deciders
  <2>2. v \in Review!Deciders(d)' <=> v \in Review!Deciders(d) \/ d \in Review!Writing(v)
    BY <1>1, <1>3, <1>4, <1>5 DEF Review!Deciders, Review!Writing
  <2>3. Review!Deciders(d)' \subseteq Reviewers /\ Review!Deciders(d) \subseteq Reviewers
    BY DEF Review!Deciders
  <2>4. QED
    BY <2>1, <2>2, <2>3
<1>15. \A w \in o.writes : Review!ReadBefore(v, o.outcome, w)
  BY <1>1, <1>4 DEF Review!ReviewInv, Review!InHand
<1>16. \A d \in Devices : Review!AloneSettled(d)'
  <2> SUFFICES ASSUME NEW d \in Devices PROVE Review!AloneSettled(d)'
    OBVIOUS
  <2>1. Review!AloneSettled(d)
    BY DEF Review!ReviewInv
  <2>2. CASE d \notin Review!Writing(v)
    BY <1>8, <1>14, <2>1, <2>2 DEF Review!AloneSettled, Review!Decided, Review!Settled
  <2>3. CASE d \in Review!Writing(v)
    <3>1. /\ rows'[d].outcome = o.outcome /\ rows'[d].by = v /\ rows'[d].open = rows[d].open
          /\ rows'[d].proven = rows[d].proven
      BY <1>8, <2>3
    <3>2. PICK w \in o.writes : /\ w.device = d
                                /\ rows'[d].status = IF w.writesStatus THEN w.status ELSE rows[d].status
      BY <1>8, <2>3
    <3>3. Review!ReadBefore(v, o.outcome, w) /\ w \in Review!RowWrites
      BY <1>6, <1>15
    <3>4. rows[d].open /\ v \notin Review!Deciders(d) /\ w.status = Review!Settled(rows[d], o.outcome)
      BY <3>2, <3>3 DEF Review!ReadBefore
    <3>5. Review!Decided(d)'
      BY <1>6, <3>1 DEF Review!Decided, Review!Outcomes
    <3>6. ASSUME \A u \in Review!Deciders(d)' : u = rows'[d].by
          PROVE  rows'[d].status = Review!Settled(rows'[d], rows'[d].outcome)
      <4>1. Review!Deciders(d) = {}
        BY <1>14, <2>3, <3>1, <3>4, <3>6
      <4>2. ~Review!Decided(d)
        BY <2>1, <4>1 DEF Review!AloneSettled
      <4>3. w.writesStatus <=> w.status # rows[d].status
        BY <3>2, <3>3, <4>2 DEF Review!ReadBefore
      <4>4. rows'[d].status = w.status
        BY <3>2, <4>3
      <4>5. QED
        BY <3>1, <3>4, <4>4 DEF Review!Settled
    <3>7. rows'[d].open /\ rows'[d].by \in Review!Deciders(d)'
      BY <1>14, <2>3, <3>1, <3>4
    <3>8. QED
      BY <3>5, <3>6, <3>7 DEF Review!AloneSettled
  <2>4. QED
    BY <2>2, <2>3
<1>17. \A d \in Devices : Review!OneWriter(d)'
  <2>1. \A u \in Reviewers : review'[u].writes \subseteq review[u].writes
    BY <1>1, <1>3, <1>5
  <2>2. \A d \in Devices : Review!LockedBy(d)' \subseteq Review!LockedBy(d)
    BY <2>1 DEF Review!LockedBy, Review!Writing
  <2>3. QED
    BY <2>2 DEF Review!ReviewInv, Review!OneWriter
<1>18. (\A u \in Reviewers : \A w \in review[u].todo \cup review[u].writes :
          review[u].at # "auditing" => Review!ReadBefore(u, review[u].outcome, w))'
  <2> SUFFICES ASSUME NEW u \in Reviewers, NEW w \in review'[u].todo \cup review'[u].writes,
                      review'[u].at # "auditing"
               PROVE  Review!ReadBefore(u, review[u].outcome, w)'
    OBVIOUS
  <2>1. u # v /\ w.device \in Devices /\ review'[u] = review[u]
    BY <1>5, <1>11
  <2>2. Review!ReadBefore(u, review[u].outcome, w)
    BY <2>1 DEF Review!ReviewInv, Review!InHand
  <2>3. CASE w.device \notin Review!Writing(v)
    BY <1>8, <1>14, <2>1, <2>2, <2>3 DEF Review!ReadBefore, Review!Decided, Review!Settled
  <2>4. CASE w.device \in Review!Writing(v)
    <3>1. Review!Decided(w.device)'
      BY <1>6, <1>8, <2>1, <2>4 DEF Review!Decided, Review!Outcomes
    <3>2. QED
      BY <1>8, <1>14, <2>1, <2>2, <2>4, <3>1 DEF Review!ReadBefore, Review!Settled
  <2>5. QED
    BY <2>3, <2>4
<1>19. \A u \in Reviewers : Review!InHand(u)'
  BY <1>1, <1>3, <1>5, <1>18 DEF Review!ReviewInv, Review!InHand
<1>20. QED
  BY <1>10, <1>13, <1>16, <1>17, <1>19 DEF Review!ReviewInv

\* The audit rows say of each decision what the one who wrote it knew.
LEMMA AuditsKeeps ==
  ASSUME Review!ReviewInv, NEW v \in Reviewers, Review!Audits(v)
  PROVE  Review!ReviewInv'
<1>1. PICK o \in Review!Decisions : o = review[v]
  BY DEF Review!ReviewInv, Review!Typed
<1>2. PICK p : p = Review!Idle
  OBVIOUS
<1>3. p \in Review!Decisions /\ p.at = "idle" /\ p.device = {} /\ p.todo = {} /\ p.writes = {}
  BY <1>2, IdleFields
<1>4. /\ Review!Goes(v, p) /\ rows' = rows /\ o.at = "auditing" /\ o.writes = {}
      /\ audits' = audits \cup {[by |-> v, device |-> w.device, outcome |-> o.outcome] : w \in o.todo}
  BY <1>1, <1>2 DEF Review!Audits, Review!ReviewInv, Review!InHand
<1>5. /\ review' \in [Reviewers -> Review!Decisions] /\ review'[v] = p
      /\ \A u \in Reviewers \ {v} : review'[u] = review[u]
  BY <1>3, <1>4, PersonMoves DEF Review!ReviewInv
<1>6. \A w \in o.todo : w.device \in Devices
  BY DecisionFields DEF Review!RowWrites
<1>7. Review!Typed'
  <2>1. audits' \subseteq [by : Reviewers, device : Devices, outcome : Review!Outcomes]
    BY <1>4, <1>6, DecisionFields DEF Review!ReviewInv, Review!Typed
  <2>2. QED
    BY <1>4, <1>5, <2>1, SameKinds DEF Review!ReviewInv, Review!Typed
<1>8. Review!AlikeIsAlike'
  BY <1>3, <1>4, <1>5 DEF Review!ReviewInv, Review!AlikeIsAlike
<1>9. \A d \in Devices : Review!Deciders(d)' = Review!Deciders(d)
  <2> SUFFICES ASSUME NEW d \in Devices PROVE Review!Deciders(d)' = Review!Deciders(d)
    OBVIOUS
  <2>1. \A u \in Reviewers \ {v} : u \in Review!Deciders(d)' <=> u \in Review!Deciders(d)
    <3> SUFFICES ASSUME NEW u \in Reviewers \ {v}
                 PROVE  u \in Review!Deciders(d)' <=> u \in Review!Deciders(d)
      OBVIOUS
    <3>1. (\E a \in audits' : a.device = d /\ a.by = u) <=> (\E a \in audits : a.device = d /\ a.by = u)
      BY <1>4
    <3>2. QED
      BY <1>5, <3>1 DEF Review!Deciders
  <2>2. v \in Review!Deciders(d)' <=> v \in Review!Deciders(d)
    <3>1. (\E a \in audits' : a.device = d /\ a.by = v)
            <=> (\E a \in audits : a.device = d /\ a.by = v) \/ \E w \in o.todo : w.device = d
      <4>1. ASSUME NEW a \in audits', a.device = d
            PROVE  a \in audits \/ \E w \in o.todo : w.device = d
        BY <1>4, <4>1
      <4>2. ASSUME NEW w \in o.todo, w.device = d
            PROVE  \E a \in audits' : a.device = d /\ a.by = v
        <5>1. [by |-> v, device |-> w.device, outcome |-> o.outcome] \in audits'
          BY <1>4
        <5>2. QED
          BY <4>2, <5>1
      <4>3. audits \subseteq audits'
        BY <1>4
      <4>4. QED
        BY <4>1, <4>2, <4>3
    <3>2. QED
      BY <1>1, <1>3, <1>4, <1>5, <3>1 DEF Review!Deciders
  <2>3. Review!Deciders(d)' \subseteq Reviewers /\ Review!Deciders(d) \subseteq Reviewers
    BY DEF Review!Deciders
  <2>4. QED
    BY <2>1, <2>2, <2>3
<1>10. \A d \in Devices : Review!AloneSettled(d)'
  BY <1>4, <1>9 DEF Review!ReviewInv, Review!AloneSettled, Review!Decided, Review!Settled
<1>11. \A d \in Devices : Review!OneWriter(d)'
  <2>1. \A u \in Reviewers : review'[u].writes \subseteq review[u].writes
    BY <1>1, <1>3, <1>4, <1>5
  <2>2. \A d \in Devices : Review!LockedBy(d)' \subseteq Review!LockedBy(d)
    BY <2>1 DEF Review!LockedBy, Review!Writing
  <2>3. QED
    BY <2>2 DEF Review!ReviewInv, Review!OneWriter
<1>12. ASSUME NEW u \in Reviewers PROVE Review!InHand(u)'
  <2>1. CASE u = v
    BY <1>3, <1>5, <2>1 DEF Review!InHand
  <2>2. CASE u # v
    <3>1. review'[u] = review[u] /\ Review!InHand(u)
      BY <1>5, <2>2 DEF Review!ReviewInv
    <3>2. \A w \in review[u].todo \cup review[u].writes : w.device \in Devices
      BY DecisionFields DEF Review!ReviewInv, Review!Typed, Review!RowWrites
    <3>3. QED
      BY <1>4, <1>9, <3>1, <3>2 DEF Review!InHand, Review!ReadBefore, Review!Decided, Review!Settled
  <2>3. QED
    BY <2>1, <2>2
<1>13. QED
  BY <1>7, <1>8, <1>10, <1>11, <1>12 DEF Review!ReviewInv

\* Every step of the reviews keeps their invariant.
LEMMA ReviewNext ==
  ASSUME Review!ReviewInv, Review!Next \/ UNCHANGED reviewVars
  PROVE  Review!ReviewInv'
<1>1. ASSUME NEW v \in Reviewers, Review!Step(v) PROVE Review!ReviewInv'
  BY <1>1, WritesKeeps, ReadsAlikeKeeps, CommitsKeeps, AuditsKeeps, FailsKeeps DEF Review!Step
<1>2. ASSUME NEW v \in Reviewers, NEW d \in Devices, NEW outcome \in Review!Outcomes, NEW alike \in BOOLEAN,
             Review!Decides(v, d, outcome, alike)
      PROVE  Review!ReviewInv'
  BY <1>2, DecidesKeeps
<1>3. CASE UNCHANGED reviewVars
  <2>1. rows' = rows /\ review' = review /\ audits' = audits
    BY <1>3 DEF reviewVars
  <2>2. Review!Typed' /\ Review!AlikeIsAlike'
    BY <2>1, SameKinds DEF Review!ReviewInv, Review!Typed, Review!AlikeIsAlike
  <2>3. \A d \in Devices : Review!Deciders(d)' = Review!Deciders(d) /\ Review!LockedBy(d)' = Review!LockedBy(d)
    BY <2>1 DEF Review!Deciders, Review!LockedBy, Review!Writing
  <2>4. \A d \in Devices : Review!AloneSettled(d)' /\ Review!OneWriter(d)'
    BY <2>1, <2>3 DEF Review!ReviewInv, Review!AloneSettled, Review!OneWriter, Review!Decided, Review!Settled
  <2>5. \A v \in Reviewers : \A w \in review[v].todo \cup review[v].writes : w.device \in Devices
    BY DecisionFields DEF Review!ReviewInv, Review!Typed, Review!RowWrites
  <2>6. \A v \in Reviewers : Review!InHand(v)'
    BY <2>1, <2>3, <2>5 DEF Review!ReviewInv, Review!InHand, Review!ReadBefore, Review!Decided, Review!Settled
  <2>7. QED
    BY <2>2, <2>4, <2>6 DEF Review!ReviewInv
<1>4. QED
  BY <1>1, <1>2, <1>3 DEF Review!Next

\* At first nobody decides.
LEMMA ReviewFirst ==
  ASSUME Review!Init
  PROVE  Review!ReviewInv
<1>1. PICK job \in Jobs :
        rows = [d \in Devices |-> [status |-> job[d].status, open |-> job[d].open, proven |-> job[d].proven,
                                   signature |-> job[d].signature, outcome |-> "none", by |-> "nobody"]]
  BY DEF Review!Init
<1>2. \A d \in Devices : /\ job[d].status \in Review!Statuses /\ job[d].open \in BOOLEAN
                         /\ job[d].proven \in Nat /\ job[d].signature \in Review!Signatures
  BY JobsAssumption DEF Review!Signatures
<1>3. rows \in [Devices -> Review!Rows]
  BY <1>1, <1>2 DEF Review!Rows
<1>4. \A d \in Devices : ~Review!Decided(d)
  BY <1>1 DEF Review!Decided
<1>5. PICK p : p = Review!Idle
  OBVIOUS
<1>6. p \in Review!Decisions /\ p.at = "idle" /\ p.device = {} /\ p.todo = {} /\ p.writes = {}
  BY <1>5, IdleFields
<1>7. review = [v \in Reviewers |-> p] /\ audits = {}
  BY <1>5 DEF Review!Init
<1>8. Review!Typed /\ Review!AlikeIsAlike
  BY <1>3, <1>6, <1>7 DEF Review!Typed, Review!AlikeIsAlike
<1>9. \A d \in Devices : Review!Deciders(d) = {} /\ Review!LockedBy(d) = {}
  BY <1>6, <1>7 DEF Review!Deciders, Review!LockedBy, Review!Writing
<1>10. \A v \in Reviewers : Review!InHand(v)
  BY <1>6, <1>7 DEF Review!InHand
<1>11. QED
  BY <1>4, <1>8, <1>9, <1>10 DEF Review!ReviewInv, Review!AloneSettled, Review!OneWriter

\* A job's status in Python and as a condition in SQL (job_status, job_status_condition).
LEMMA StatusesAgree ==
  ASSUME rows \in [Devices -> Review!Rows]
  PROVE  Review!ListsAgree
<1>1. \A d \in Devices : rows[d].status \in {"success", "review", "partial", "failed", "not verified", "cancelled"}
  BY RowFields DEF Review!Statuses
<1>2. PICK e \in Devices : TRUE
  BY JobsAssumption
<1> DEFINE Cancelled == Review!Some({"cancelled"})
           Failed == Review!Some({"failed", "partial"})
           InReview == Review!Some({"review"})
           Unverified == Review!Some({"not verified"})
<1>3. /\ Review!Some({"cancelled", "failed", "partial"}) <=> Cancelled \/ Failed
      /\ Review!Some({"cancelled", "failed", "partial", "review"}) <=> Cancelled \/ Failed \/ InReview
      /\ Review!Some(Review!Statuses \ {"success"}) <=> Cancelled \/ Failed \/ InReview \/ Unverified
  BY DEF Review!Some, Review!Statuses
<1>4. Review!AllFailed => Failed /\ ~Cancelled /\ ~InReview /\ ~Unverified
  BY <1>2 DEF Review!AllFailed, Review!Some
<1> HIDE DEF Cancelled, Failed, InReview, Unverified
<1>5. ASSUME NEW given \in Review!Statuses
      PROVE  Review!JobStatusCondition(given) <=> Review!JobStatus = given
  <2>1. CASE given = "cancelled"
    BY <1>3, <1>4, <2>1 DEF Review!JobStatusCondition, Review!JobStatus, Cancelled, Failed, InReview, Unverified
  <2>2. CASE given = "failed"
    BY <1>3, <1>4, <2>2 DEF Review!JobStatusCondition, Review!JobStatus, Cancelled, Failed, InReview, Unverified
  <2>3. CASE given = "partial"
    BY <1>3, <1>4, <2>3 DEF Review!JobStatusCondition, Review!JobStatus, Cancelled, Failed, InReview, Unverified
  <2>4. CASE given = "review"
    BY <1>3, <1>4, <2>4 DEF Review!JobStatusCondition, Review!JobStatus, Cancelled, Failed, InReview, Unverified
  <2>5. CASE given = "not verified"
    BY <1>3, <1>4, <2>5 DEF Review!JobStatusCondition, Review!JobStatus, Cancelled, Failed, InReview, Unverified
  <2>6. CASE given = "success"
    BY <1>3, <1>4, <2>6 DEF Review!JobStatusCondition, Review!JobStatus, Cancelled, Failed, InReview, Unverified
  <2>7. QED
    BY <2>1, <2>2, <2>3, <2>4, <2>5, <2>6 DEF Review!Statuses
<1>6. QED
  BY <1>5 DEF Review!ListsAgree

\* Counting the elements of a set.
LEMMA AtMostOne ==
  ASSUME NEW S, \A x, y \in S : x = y
  PROVE  Cardinality(S) <= 1
<1>1. CASE S = {}
  BY <1>1, FS_EmptySet
<1>2. ASSUME NEW x \in S PROVE Cardinality(S) <= 1
  <2>1. S = {x}
    OBVIOUS
  <2>2. QED
    BY <2>1, FS_Singleton
<1>3. QED
  BY <1>1, <1>2

\* A set with a member has one at least; with another one, two.
LEMMA OneOrTwo ==
  ASSUME NEW S, IsFiniteSet(S), NEW x \in S
  PROVE  Cardinality(S) >= 1 /\ \A y \in S : y # x => Cardinality(S) >= 2
<1>1. Cardinality({x}) = 1 /\ IsFiniteSet({x})
  BY FS_Singleton
<1>2. Cardinality(S) >= 1
  BY <1>1, FS_Subset, FS_CardinalityType
<1>3. ASSUME NEW y \in S, y # x PROVE Cardinality(S) >= 2
  <2>1. Cardinality({x} \cup {y}) = 2 /\ {x} \cup {y} \in SUBSET S
    BY <1>1, <1>3, FS_AddElement
  <2>2. QED
    BY <2>1, FS_Subset, FS_CardinalityType
<1>4. QED
  BY <1>2, <1>3

\* A device has finitely many audit rows.
LEMMA AuditsFinite ==
  ASSUME Review!Typed, NEW d \in Devices
  PROVE  IsFiniteSet({a \in audits : a.device = d})
<1> DEFINE A == {a \in audits : a.device = d}
           f == [a \in A |-> <<a.by, a.outcome>>]
<1>1. IsFiniteSet(Review!Outcomes)
  <2>1. IsFiniteSet({"confirmed"} \cup {"rejected"})
    BY FS_Singleton, FS_AddElement
  <2>2. Review!Outcomes = {"confirmed"} \cup {"rejected"}
    BY DEF Review!Outcomes
  <2>3. QED
    BY <2>1, <2>2
<1>2. IsFiniteSet(Reviewers \X Review!Outcomes)
  BY <1>1, JobsAssumption, FS_Product
<1>3. f \in [A -> Reviewers \X Review!Outcomes]
  BY DEF Review!Typed
<1>4. \A a, b \in A : f[a] = f[b] => a = b
  BY DEF Review!Typed
<1>5. f \in Injection(A, Reviewers \X Review!Outcomes)
  BY <1>3, <1>4 DEF Injection, IsInjective
<1>6. QED
  BY <1>2, <1>5, FS_Injection

\* When one decision about a device is noted or to be noted, its row says that one.
LEMMA OneDecision ==
  ASSUME Review!ReviewInv
  PROVE  Review!OneDecisionStands
<1> SUFFICES ASSUME NEW d \in Devices
             PROVE  /\ rows[d].outcome # "none" => rows[d].open /\ rows[d].by \in Review!Deciders(d)
                    /\ Review!Cardinality({a \in audits : a.device = d})
                         + Review!Cardinality({v \in Review!Deciders(d) : review[v].at = "auditing"}) = 1
                         => rows[d].status = Review!Settled(rows[d], rows[d].outcome)
  BY DEF Review!OneDecisionStands
<1> DEFINE A == {a \in audits : a.device = d}
           B == {v \in Review!Deciders(d) : review[v].at = "auditing"}
<1>1. Review!AloneSettled(d) /\ Review!Typed
  BY DEF Review!ReviewInv
<1>2. IsFiniteSet(A) /\ IsFiniteSet(B)
  <2>1. B \in SUBSET Reviewers
    BY DEF Review!Deciders
  <2>2. QED
    BY <1>1, <2>1, AuditsFinite, FS_Subset, JobsAssumption
<1>3. Cardinality(A) \in Nat /\ Cardinality(B) \in Nat
  BY <1>2, FS_CardinalityType
<1>4. \A v \in Review!Deciders(d) : v \in B \/ \E a \in A : a.by = v
  BY DEF Review!Deciders
<1>5. ASSUME Cardinality(A) + Cardinality(B) = 1
      PROVE  rows[d].status = Review!Settled(rows[d], rows[d].outcome)
  <2>1. \A u, v \in Review!Deciders(d) : u = v
    <3> SUFFICES ASSUME NEW u \in Review!Deciders(d), NEW v \in Review!Deciders(d), u # v PROVE FALSE
      OBVIOUS
    <3>1. CASE u \in B /\ v \in B
      <4>1. Cardinality(B) >= 2
        BY <1>2, <3>1, OneOrTwo
      <4>2. QED
        BY <1>3, <1>5, <4>1
    <3>2. ASSUME NEW x \in B, NEW a \in A PROVE FALSE
      <4>1. Cardinality(A) >= 1 /\ Cardinality(B) >= 1
        BY <1>2, OneOrTwo
      <4>2. QED
        BY <1>3, <1>5, <4>1
    <3>3. ASSUME NEW a \in A, NEW b \in A, a.by = u, b.by = v PROVE FALSE
      <4>1. Cardinality(A) >= 2
        BY <1>2, <3>3, OneOrTwo
      <4>2. QED
        BY <1>3, <1>5, <4>1
    <3>4. QED
      BY <1>4, <3>1, <3>2, <3>3
  <2>2. Review!Deciders(d) # {}
    <3>1. A # {} \/ B # {}
      BY <1>5, FS_EmptySet
    <3>2. \A a \in A : a.by \in Review!Deciders(d)
      BY <1>1 DEF Review!Deciders, Review!Typed
    <3>3. QED
      BY <3>1, <3>2
  <2>3. QED
    BY <1>1, <2>1, <2>2 DEF Review!AloneSettled
<1>6. rows[d].outcome # "none" => rows[d].open /\ rows[d].by \in Review!Deciders(d)
  BY <1>1 DEF Review!AloneSettled, Review!Decided
<1>7. QED
  BY <1>5, <1>6, SameSizeOfReviews

\* Reviews: whoever decides a job's devices at the same time, of the decisions about a device that one
\* person made the status is that decision's, the lists agree with the job's status, and a decision for
\* all alike is about rows that are alike (ResultReviews, job_status_condition): for any job and any people.
THEOREM ReviewsKept == Spec => []ReviewsSafe
<1> DEFINE Inv == part = "reviews" => Review!ReviewInv
<1>1. Init => Inv
  BY ReviewFirst DEF Init
<1>2. Inv /\ [Next]_vars => Inv'
  <2> SUFFICES ASSUME Inv, [Next]_vars, part' = "reviews" PROVE Review!ReviewInv'
    OBVIOUS
  <2>1. part = "reviews" /\ (Review!Next \/ UNCHANGED reviewVars)
    BY DEF Next, vars
  <2>2. QED
    BY <2>1, ReviewNext
<1>3. Inv => ReviewsSafe
  <2> SUFFICES ASSUME Review!ReviewInv
               PROVE  Review!TypeOK /\ Review!OneDecisionStands /\ Review!ListsAgree /\ Review!AlikeIsAlike
    BY DEF ReviewsSafe
  <2>1. rows \in [Devices -> Review!Rows] /\ review \in [Reviewers -> Review!Decisions]
    BY DEF Review!ReviewInv, Review!Typed
  <2>2. Review!TypeOK
    <3>1. \A d \in Devices : rows[d].status \in Review!Statuses
      BY <2>1, RowFields
    <3>2. \A d \in Devices : Review!Cardinality(Review!LockedBy(d)) <= 1
      BY AtMostOne, SameSizeOfReviews DEF Review!ReviewInv, Review!OneWriter
    <3>3. \A v \in Reviewers : review[v].at \in {"idle", "writing", "writing_alike", "auditing"}
      BY <2>1, DecisionFields
    <3>4. QED
      BY <3>1, <3>2, <3>3 DEF Review!TypeOK
  <2>3. QED
    BY <2>1, <2>2, OneDecision, StatusesAgree DEF Review!ReviewInv
<1>4. QED
  BY <1>1, <1>2, <1>3, PTL DEF Spec

(***************************************************************************)
(* Backups: one for a scheduled time, what retention leaves, and the key.  *)
(***************************************************************************)

\* Cardinality of the Backups instance is FiniteSets' Cardinality.
LEMMA SameSizeOfBackups ==
  (\A S : Backup!Cardinality(S) = Cardinality(S)) /\ (\A S : Backup!IsFiniteSet(S) <=> IsFiniteSet(S))
  BY DEF Backup!Cardinality, Cardinality, Backup!IsFiniteSet, IsFiniteSet

\* Of finitely many stamps, one is the newest.
LEMMA NewestOf ==
  ASSUME NEW F, IsFiniteSet(F), \A c \in F : c.stamp \in Nat, NEW X \in SUBSET F, X # {}
  PROVE  \E c \in X : \A d \in X : ~(d.stamp > c.stamp)
<1> DEFINE Newer(c) == {d \in F : d.stamp > c.stamp}
           T == {Newer(c) : c \in X}
           R == StrictSubsetOrdering(F)
<1>1. IsWellFoundedOn(R, SUBSET F)
  BY FS_StrictSubsetOrderingWellFounded, FS_FiniteSubsetsOfFinite
<1>2. T \subseteq SUBSET F /\ T # {}
  OBVIOUS
<1>3. PICK t \in T : \A y \in T : ~(<<y, t>> \in R)
  <2> HIDE DEF R, T
  <2>1. QED
    BY <1>1, <1>2, WFMin
<1>4. PICK c \in X : t = Newer(c)
  BY <1>3
<1>5. \A d \in X : ~(d.stamp > c.stamp)
  <2> SUFFICES ASSUME NEW d \in X, d.stamp > c.stamp PROVE FALSE
    OBVIOUS
  <2>1. Newer(d) \subseteq Newer(c) /\ d \in Newer(c) /\ d \notin Newer(d)
    OBVIOUS
  <2>2. Newer(d) \in SUBSET F /\ Newer(c) \in SUBSET F /\ Newer(d) # Newer(c)
    BY <2>1
  <2>3. <<Newer(d), Newer(c)>> \in R
    <3> HIDE DEF Newer
    <3>1. QED
      BY <2>1, <2>2 DEF StrictSubsetOrdering
  <2>4. Newer(d) \in T
    OBVIOUS
  <2>5. QED
    BY <1>3, <1>4, <2>3, <2>4
<1>6. QED
  BY <1>5

\* Pruning leaves Keep newer ones of every stamp that had as many: the newest of those it would delete
\* has Keep newer ones, and none of them is deleted.
LEMMA PruneLeavesNewest ==
  ASSUME NEW S, IsFiniteSet(S), \A c \in S : c.stamp \in Nat, NEW s \in Nat,
         Cardinality({c \in S : c.stamp > s}) >= Keep
  PROVE  LET gone == {b \in S : Cardinality({c \in S : c.stamp > b.stamp}) >= Keep}
         IN  Cardinality({c \in S \ gone : c.stamp > s}) >= Keep
<1> DEFINE Newer(b) == {c \in S : c.stamp > b.stamp}
           gone == {b \in S : Cardinality(Newer(b)) >= Keep}
           X == {c \in S : c.stamp > s}
           left == {c \in S \ gone : c.stamp > s}
<1>1. Keep \in Nat
  BY BackupsAssumption
<1>2. CASE X \cap gone = {}
  <2>1. left = X
    BY <1>2
  <2>2. QED
    BY <2>1
<1>3. CASE X \cap gone # {}
  <2>1. PICK b \in X \cap gone : \A d \in X \cap gone : ~(d.stamp > b.stamp)
    <3>1. X \cap gone \in SUBSET S
      OBVIOUS
    <3> HIDE DEF X, gone
    <3>2. QED
      BY <3>1, <1>3, NewestOf
  <2>2. Cardinality(Newer(b)) >= Keep /\ b \in S /\ b.stamp > s
    BY <2>1
  <2>3. Newer(b) \subseteq left
    <3> SUFFICES ASSUME NEW d \in S, d.stamp > b.stamp PROVE d \in left
      OBVIOUS
    <3>1. d.stamp > s
      BY <2>2
    <3>2. d \notin gone
      BY <2>1, <3>1
    <3>3. QED
      BY <3>1, <3>2
  <2>4. IsFiniteSet(left) /\ Cardinality(left) \in Nat
    <3>1. left \in SUBSET S
      OBVIOUS
    <3> HIDE DEF left
    <3>2. QED
      BY <3>1, FS_Subset, FS_CardinalityType
  <2>5. Cardinality(Newer(b)) <= Cardinality(left) /\ Cardinality(Newer(b)) \in Nat
    <3> HIDE DEF left, Newer
    <3>1. Newer(b) \in SUBSET left
      BY <2>3
    <3>2. IsFiniteSet(Newer(b))
      BY <2>4, <3>1, FS_Subset
    <3>3. QED
      BY <2>4, <3>1, <3>2, FS_Subset, FS_CardinalityType
  <2> HIDE DEF Newer, left
  <2>6. Cardinality(left) >= Keep
    BY <1>1, <2>2, <2>4, <2>5
  <2>7. QED
    BY <2>6 DEF left, Newer
<1>4. QED
  BY <1>2, <1>3

\* Adding a set's elements lowers no count of newer ones.
LEMMA MoreAreNewer ==
  ASSUME NEW T, IsFiniteSet(T), NEW S \in SUBSET T, NEW s, Cardinality({c \in S : c.stamp > s}) >= Keep
  PROVE  Cardinality({c \in T : c.stamp > s}) >= Keep
<1> DEFINE A == {c \in S : c.stamp > s}  B == {c \in T : c.stamp > s}
<1>1. A \in SUBSET B /\ B \in SUBSET T
  OBVIOUS
<1> HIDE DEF A, B
<1>2. IsFiniteSet(B) /\ IsFiniteSet(A)
  BY <1>1, FS_Subset
<1>3. Cardinality(A) <= Cardinality(B) /\ Cardinality(A) \in Nat /\ Cardinality(B) \in Nat
  BY <1>1, <1>2, FS_Subset, FS_CardinalityType
<1>4. Cardinality(B) >= Keep
  BY <1>3, BackupsAssumption DEF A
<1>5. QED
  BY <1>4 DEF B

\* A time between a scheduled time and the next one is at or after its own.
LEMMA SlotOfTime ==
  ASSUME NEW s \in Nat, NEW t \in Nat
  PROVE  /\ Backup!Slot(s) \in Nat /\ Backup!Slot(s) <= s /\ s \div Period \in Nat
         /\ t < Backup!Slot(s) => t \div Period # s \div Period
<1>1. Period \in Nat /\ Period > 0
  BY BackupsAssumption
<1> DEFINE q == s \div Period  r == t \div Period
<1>2. q \in Int /\ r \in Int /\ s = q * Period + (s % Period) /\ s % Period >= 0
      /\ t = r * Period + (t % Period) /\ t % Period >= 0
  BY <1>1
<1>3. q >= 0 /\ q \in Nat
  BY <1>1
<1>4. q * Period \in Nat /\ q * Period <= s /\ r * Period <= t
  BY <1>1
<1>5. t < q * Period => r # q
  <2> HIDE DEF q, r
  <2>1. QED
    BY <1>1, <1>2, <1>4
<1>6. QED
  BY <1>3, <1>4, <1>5 DEF Backup!Slot

\* Where a worker may be.
Places == {"idle", "stat", "compare", "unlink", "open", "dump", "published", "prune", "pruned", "failed",
           "release", "key", "commit", "files", "restored"}

\* What a worker does is a record of its fields.
LEMMA WorkFields ==
  ASSUME NEW p \in Backup!Works
  PROVE  /\ p.at \in Places /\ p.does \in {"none", "scheduled", "manual", "restore"}
         /\ p.token \in Nat /\ p.sees \in Nat /\ p.stamp \in Nat
         /\ p.key \in AppKeys /\ p.good \in BOOLEAN /\ p.done \in BOOLEAN
  BY DEF Backup!Works, Places

\* A worker with nothing to do.
LEMMA WorkIdle ==
  /\ Backup!Idle \in Backup!Works
  /\ Backup!Idle.at = "idle" /\ Backup!Idle.does = "none" /\ Backup!Idle.done = FALSE
  /\ Backup!Idle.token = 0
<1> DEFINE from == [key |-> AppKey, good |-> TRUE]
<1>1. from.key \in AppKeys /\ from.good \in BOOLEAN /\ "idle" \in Places
      /\ "none" \in {"none", "scheduled", "manual", "restore"} /\ 0 \in Nat
  BY BackupsAssumption DEF Places
<1> HIDE DEF from
<1>2. LET p == Backup!Work("idle", "none", 0, 0, from)
      IN  p \in Backup!Works /\ p.at = "idle" /\ p.does = "none" /\ p.done = FALSE /\ p.token = 0
  BY <1>1 DEF Backup!Work, Backup!Works, Places
<1>3. QED
  BY <1>2 DEF Backup!Idle, from

\* Going somewhere else.
LEMMA WorkGoes ==
  ASSUME NEW p \in Backup!Works, NEW there \in Places
  PROVE  LET q == Backup!At(p, there)
         IN  /\ q \in Backup!Works
             /\ q.at = there /\ q.does = p.does /\ q.token = p.token /\ q.stamp = p.stamp /\ q.key = p.key
             /\ q.good = p.good /\ q.done = p.done
<1> DEFINE q == Backup!At(p, there)
<1>1. q \in Backup!Works
  BY Zenon DEF Backup!At, Backup!Works, Places
<1>2. q.at = there /\ q.does = p.does /\ q.token = p.token /\ q.stamp = p.stamp /\ q.key = p.key
      /\ q.good = p.good /\ q.done = p.done
  BY DEF Backup!At, Backup!Works, Places
<1>3. QED
  BY <1>1, <1>2

\* Having looked at the lock.
LEMMA WorkSaw ==
  ASSUME NEW p \in Backup!Works, lock \in [token : Nat, stale : BOOLEAN]
  PROVE  LET q == Backup!Saw(p)
         IN  /\ q \in Backup!Works
             /\ q.at \in {"compare", "open"} /\ q.does = p.does /\ q.token = p.token /\ q.stamp = p.stamp
             /\ q.key = p.key /\ q.good = p.good /\ q.done = p.done
<1> DEFINE q == Backup!Saw(p)
           there == IF lock.stale THEN "compare" ELSE "open"
<1>1. there \in {"compare", "open"} /\ there \in Places /\ lock.token \in Nat
  BY DEF Places
<1>2. q = [p EXCEPT !.at = there, !.sees = lock.token]
  BY DEF Backup!Saw
<1> HIDE DEF there, q
<1>3. q \in Backup!Works
  BY <1>1, <1>2, Zenon DEF Backup!Works, Places
<1>4. q.at = there /\ q.does = p.does /\ q.token = p.token /\ q.stamp = p.stamp /\ q.key = p.key
      /\ q.good = p.good /\ q.done = p.done
  BY <1>1, <1>2 DEF Backup!Works, Places
<1>5. QED
  BY <1>1, <1>3, <1>4 DEF q

\* Having restored the database.
LEMMA WorkRestored ==
  ASSUME NEW p \in Backup!Works
  PROVE  LET q == Backup!Restored(p)
         IN  /\ q \in Backup!Works
             /\ q.at = "files" /\ q.does = p.does /\ q.token = p.token /\ q.stamp = p.stamp /\ q.key = p.key
             /\ q.good = p.good /\ q.done = TRUE
<1> DEFINE q == Backup!Restored(p)
<1>1. "files" \in Places /\ TRUE \in BOOLEAN
  BY DEF Places
<1>2. q \in Backup!Works
  BY <1>1, Zenon DEF Backup!Restored, Backup!Works, Places
<1>3. q.at = "files" /\ q.does = p.does /\ q.token = p.token /\ q.stamp = p.stamp /\ q.key = p.key
      /\ q.good = p.good /\ q.done = TRUE
  BY DEF Backup!Restored, Backup!Works, Places
<1>4. QED
  BY <1>2, <1>3

\* A worker's step leaves the other workers alone.
LEMMA WorkerMoves ==
  ASSUME work \in [Backup!Workers -> Backup!Works], NEW w \in Backup!Workers, NEW p \in Backup!Works,
         Backup!Becomes(w, p)
  PROVE  /\ work' \in [Backup!Workers -> Backup!Works]
         /\ work'[w] = p /\ \A v \in Backup!Workers \ {w} : work'[v] = work[v]
  BY DEF Backup!Becomes

\* From here on a scheduled backup is under way.
Early == {"stat", "compare", "unlink", "open", "dump"}

\* What the scheduler does once its backup is made or has failed.
After == {"published", "prune", "pruned", "failed"}

\* The counts are numbers, but for whether a lock has gone stale.
LEMMA CountFields ==
  ASSUME NEW c \in Backup!Counts
  PROVE  /\ c.now \in Nat /\ c.kills \in Nat /\ c.faults \in Nat /\ c.works \in Nat /\ c.left \in Nat
         /\ c.staled \in BOOLEAN /\ c.cut \in Nat
         /\ c.kills + 1 \in Nat /\ c.faults + 1 \in Nat /\ c.left + 1 \in Nat /\ c.cut + 1 \in Nat
  BY DEF Backup!Counts

\* A fault more changes nothing else.
LEMMA FaultCounted ==
  ASSUME count \in Backup!Counts, count' = [count EXCEPT !.faults = @ + 1]
  PROVE  /\ count' \in Backup!Counts /\ count'.kills = count.kills /\ count'.works = count.works
         /\ count'.left = count.left /\ count'.staled = count.staled /\ count'.cut = count.cut
  BY DEF Backup!Counts

\* Two counts more, or a lock gone stale: they stay counts.
LEMMA CountsStay ==
  ASSUME NEW c \in Backup!Counts, NEW d,
         \/ d = [c EXCEPT !.faults = @ + 1, !.left = @ + 1]
         \/ d = [c EXCEPT !.faults = @ + 1, !.cut = @ + 1]
         \/ \E n \in Nat : d = [c EXCEPT !.kills = @ + 1, !.cut = n]
         \/ d = [c EXCEPT !.staled = TRUE]
         \/ d = [c EXCEPT !.staled = TRUE, !.faults = @ + 1, !.left = @ + 1]
  PROVE  d \in Backup!Counts
<1>1. c.kills + 1 \in Nat /\ c.faults + 1 \in Nat /\ c.left + 1 \in Nat /\ c.cut + 1 \in Nat
  BY CountFields, Zenon
<1>2. CASE d = [c EXCEPT !.faults = @ + 1, !.left = @ + 1]
  BY <1>1, <1>2, Zenon DEF Backup!Counts
<1>3. CASE d = [c EXCEPT !.faults = @ + 1, !.cut = @ + 1]
  BY <1>1, <1>3, Zenon DEF Backup!Counts
<1>4. ASSUME NEW n \in Nat, d = [c EXCEPT !.kills = @ + 1, !.cut = n]
      PROVE  d \in Backup!Counts
  BY <1>1, <1>4, Zenon DEF Backup!Counts
<1>5. CASE d = [c EXCEPT !.staled = TRUE]
  BY <1>1, <1>5, Zenon DEF Backup!Counts
<1>6. CASE d = [c EXCEPT !.staled = TRUE, !.faults = @ + 1, !.left = @ + 1]
  BY <1>1, <1>6, Zenon DEF Backup!Counts
<1>7. QED
  BY <1>2, <1>3, <1>4, <1>5, <1>6

\* A step of one worker that leaves the backups alone.
LEMMA WorkerKeeps ==
  ASSUME Backup!BackupInv, NEW w \in Backup!Workers, NEW p \in Backup!Works, Backup!Becomes(w, p),
         made' = made, folder' = folder, lock' \in [token : Nat, stale : BOOLEAN],
         count' \in Backup!Counts,
         db' \in AppKeys, keys' \in [env : AppKeys, out : SUBSET AppKeys],
         Backup!Busy(w)', Backup!KeyKept',
         w = Scheduler /\ p.at \in Early =>
           \/ work[w].at \in Early /\ p.stamp = work[w].stamp
           \/ \A b \in Backup!Scheduled(made) : b.stamp < Backup!Slot(p.stamp)
  PROVE  Backup!BackupInv'
<1>1. Backup!Typed /\ Backup!OncePerSlot /\ Backup!Retained /\ Backup!SlotOpen
      /\ \A v \in Backup!Workers : Backup!Busy(v)
  BY DEF Backup!BackupInv
<1>2. /\ work \in [Backup!Workers -> Backup!Works] /\ work' \in [Backup!Workers -> Backup!Works]
      /\ work'[w] = p /\ \A v \in Backup!Workers \ {w} : work'[v] = work[v]
  BY <1>1, WorkerMoves DEF Backup!Typed
<1>3. Backup!Typed'
  BY <1>1, <1>2 DEF Backup!Typed, Backup!Works
<1>4. Backup!OncePerSlot' /\ Backup!Retained'
  BY <1>1 DEF Backup!OncePerSlot, Backup!Retained, Backup!Scheduled
<1>5. Backup!SlotOpen'
  <2>1. Scheduler \in Backup!Workers
    BY DEF Backup!Workers
  <2>2. work[Scheduler].at \in Early => \A b \in Backup!Scheduled(made) : b.stamp < Backup!Slot(work[Scheduler].stamp)
    BY <1>1 DEF Backup!SlotOpen, Early
  <2>3. work'[Scheduler].at \in Early => \A b \in Backup!Scheduled(made) : b.stamp < Backup!Slot(work'[Scheduler].stamp)
    <3>1. CASE w = Scheduler
      BY <1>2, <2>1, <2>2, <3>1
    <3>2. CASE w # Scheduler
      BY <1>2, <2>1, <2>2, <3>2
    <3>3. QED
      BY <3>1, <3>2
  <2>4. QED
    BY <2>3 DEF Backup!SlotOpen, Backup!Scheduled, Backup!Slot, Early
<1>6. (\A v \in Backup!Workers : Backup!Busy(v))'
  <2> SUFFICES ASSUME NEW v \in Backup!Workers PROVE Backup!Busy(v)'
    BY DEF Backup!Workers
  <2>1. CASE v = w
    BY <2>1
  <2>2. CASE v # w
    BY <1>1, <1>2, <2>2 DEF Backup!Busy
  <2>3. QED
    BY <2>1, <2>2
<1>7. QED
  BY <1>3, <1>4, <1>5, <1>6 DEF Backup!BackupInv

\* A step that changes neither the keys nor what the worker restores.
LEMMA KeyStays ==
  ASSUME Backup!BackupInv, NEW w \in Backup!Workers, NEW p \in Backup!Works, Backup!Becomes(w, p),
         db' = db, keys' = keys, count'.cut = 0 => count.cut = 0,
         p.done = work[w].done, p.does = "restore" => work[w].does = "restore",
         p.at = "commit" => work[w].at = "commit", p.key = work[w].key \/ ~(p.done \/ p.at = "commit")
  PROVE  Backup!KeyKept'
<1>1. work \in [Backup!Workers -> Backup!Works] /\ Backup!KeyKept
  BY DEF Backup!BackupInv, Backup!Typed
<1>2. /\ work' \in [Backup!Workers -> Backup!Works]
      /\ work'[w] = p /\ \A v \in Backup!Workers \ {w} : work'[v] = work[v]
  BY <1>1, WorkerMoves
<1>3. /\ \A v \in Backup!Workers : /\ work'[v].done = work[v].done
                                   /\ work'[v].does = "restore" => work[v].does = "restore"
                                   /\ work'[v].at = "commit" => work[v].at = "commit"
      /\ \A v \in Backup!Workers : work'[v].key = work[v].key \/ ~(work'[v].done \/ work'[v].at = "commit")
  BY <1>2
<1>4. SUFFICES ASSUME count'.cut = 0 PROVE Backup!KeyKept'
  BY DEF Backup!KeyKept
<1>5. count.cut = 0
  BY <1>4
<1>6. \A v, u \in Backup!Workers : work'[v].does = "restore" /\ work'[u].does = "restore" => v = u
  BY <1>1, <1>3, <1>5 DEF Backup!KeyKept
<1>7. \A v \in Backup!Workers : /\ work'[v].at = "commit" \/ work'[v].done => keys'.out = {work'[v].key}
                                /\ work'[v].done => db' = work'[v].key
  BY <1>1, <1>3, <1>5 DEF Backup!KeyKept
<1>8. (\A v \in Backup!Workers : ~work'[v].done) => db' = keys'.env
  BY <1>1, <1>3, <1>5 DEF Backup!KeyKept
<1>9. QED
  BY <1>6, <1>7, <1>8 DEF Backup!KeyKept, Backup!Workers

\* A worker on its way through the lock, a backup or the files of a restore.
LEMMA PassesKeeps ==
  ASSUME Backup!BackupInv, NEW w \in Backup!Workers, NEW p \in Backup!Works, Backup!Becomes(w, p),
         made' = made, folder' = folder, lock' \in [token : Nat, stale : BOOLEAN], db' = db, keys' = keys,
         count' \in Backup!Counts, count'.cut = count.cut,
         p.does = work[w].does, p.stamp = work[w].stamp, p.key = work[w].key, p.done = work[w].done,
         p.at \in Early => work[w].at \in Early,
         p.at = "commit" => work[w].at = "commit",
         p.at # "idle", p.at \in After => w = Scheduler /\ ~p.done,
         p.does # "none", p.at = "dump" => p.does # "restore",
         p.at \in {"key", "files", "restored"} => p.does = "restore",
         p.at \in {"files", "restored"} => p.done,
         p.at \in Early \cup {"key", "commit"} => ~p.done
  PROVE  Backup!BackupInv'
<1>1. Backup!Typed /\ Backup!Busy(w) /\ work \in [Backup!Workers -> Backup!Works]
  BY DEF Backup!BackupInv, Backup!Typed
<1>2. Backup!KeyKept'
  BY KeyStays
<1>3. work'[w] = p
  BY <1>1, WorkerMoves
<1>4. p.does \in {"none", "scheduled", "manual", "restore"}
  BY WorkFields
<1>5. Backup!Busy(w)'
  BY <1>1, <1>3, <1>4 DEF Backup!Busy, Early, After
<1>6. db' \in AppKeys /\ keys' \in [env : AppKeys, out : SUBSET AppKeys]
  BY <1>1 DEF Backup!Typed
<1>7. QED
  BY <1>2, <1>5, <1>6, WorkerKeeps

\* A worker that leaves with nothing restored, or is killed.
LEMMA LeavesKeeps ==
  ASSUME Backup!BackupInv, NEW w \in Backup!Workers, Backup!Leaves(w),
         made' = made, folder' = folder, lock' \in [token : Nat, stale : BOOLEAN], db' = db, keys' = keys,
         count' \in Backup!Counts,
         (count'.cut = count.cut /\ ~work[w].done) \/ count'.cut # 0
  PROVE  Backup!BackupInv'
<1>1. Backup!Typed /\ work \in [Backup!Workers -> Backup!Works]
  BY DEF Backup!BackupInv, Backup!Typed
<1> DEFINE p == Backup!Idle
<1>2. p \in Backup!Works /\ p.at = "idle" /\ p.does = "none" /\ p.done = FALSE /\ Backup!Becomes(w, p)
  BY WorkIdle DEF Backup!Leaves
<1> HIDE DEF p
<1>3. work'[w] = p
  BY <1>1, <1>2, WorkerMoves
<1>4. Backup!Busy(w)'
  BY <1>2, <1>3 DEF Backup!Busy
<1>5. Backup!KeyKept'
  <2>1. CASE count'.cut # 0
    BY <2>1 DEF Backup!KeyKept
  <2>2. CASE count'.cut = count.cut /\ ~work[w].done
    <3>1. work[w].done \in BOOLEAN
      BY <1>1, WorkFields
    <3>2. p.done = work[w].done
      BY <1>2, <2>2, <3>1
    <3>3. QED
      BY <1>2, <2>2, <3>2, KeyStays
  <2>3. QED
    BY <2>1, <2>2
<1>6. db' \in AppKeys /\ keys' \in [env : AppKeys, out : SUBSET AppKeys] /\ p.at \notin Early
  BY <1>1, <1>2 DEF Backup!Typed, Early
<1>7. QED
  BY <1>2, <1>4, <1>5, <1>6, WorkerKeeps

\* A worker that gives up with nothing restored: the scheduler still notes it.
LEMMA GivesUpKeeps ==
  ASSUME Backup!BackupInv, NEW w \in Backup!Workers, Backup!GivesUp(w),
         made' = made, folder' = folder, lock' \in [token : Nat, stale : BOOLEAN], db' = db, keys' = keys,
         count' \in Backup!Counts, count'.cut = count.cut, ~work[w].done, work[w].at # "idle"
  PROVE  Backup!BackupInv'
<1>1. CASE w # Scheduler
  BY <1>1, LeavesKeeps DEF Backup!GivesUp
<1>2. CASE w = Scheduler
  <2> DEFINE q == Backup!At(work[w], "failed")
  <2>1. work[w] \in Backup!Works /\ Backup!Busy(w) /\ "failed" \in Places
    BY DEF Backup!BackupInv, Backup!Typed, Places
  <2>2. /\ q \in Backup!Works /\ q.at = "failed" /\ q.does = work[w].does
        /\ q.stamp = work[w].stamp /\ q.key = work[w].key /\ q.done = work[w].done
    BY <2>1, WorkGoes
  <2>3. Backup!Becomes(w, q)
    BY <1>2 DEF Backup!GivesUp, Backup!Goes
  <2> HIDE DEF q
  <2>4. q.does # "none" /\ ~q.done
    BY <2>1, <2>2 DEF Backup!Busy
  <2>5. /\ q.at \notin Early \cup {"idle", "key", "commit", "files", "restored", "dump"}
        /\ q.at \in After => w = Scheduler
    BY <1>2, <2>2 DEF Early, After
  <2>6. QED
    BY <2>2, <2>3, <2>4, <2>5, PassesKeeps
<1>3. QED
  BY <1>1, <1>2

\* Nobody restores but the worker that is restoring, as long as none was cut off from its commit.
LEMMA OnlyOneRestores ==
  ASSUME Backup!BackupInv, NEW w \in Backup!Workers, work[w].does = "restore", count.cut = 0,
         NEW v \in Backup!Workers \ {w}
  PROVE  ~work[v].done /\ work[v].at # "commit" /\ work[v].does # "restore"
<1>1. work[v].does # "restore"
  BY DEF Backup!BackupInv, Backup!KeyKept
<1>2. QED
  BY <1>1 DEF Backup!BackupInv, Backup!Busy

\* A step on the way through the lock, a backup or the files of a restore.
LEMMA LockStepsKeep ==
  ASSUME Backup!BackupInv, NEW w \in Backup!Workers,
         Backup!Stats(w) \/ Backup!Compares(w) \/ Backup!Unlinks(w) \/ Backup!RestoresFiles(w)
           \/ Backup!CreateFails(w) \/ Backup!Opens(w) \/ Backup!MakesNoLock(w) \/ Backup!Releases(w)
           \/ Backup!Killed(w)
  PROVE  Backup!BackupInv'
<1>1. Backup!Typed /\ Backup!Busy(w) /\ work[w] \in Backup!Works /\ lock \in [token : Nat, stale : BOOLEAN]
      /\ count \in Backup!Counts
  BY DEF Backup!BackupInv, Backup!Typed
<1>2. /\ work[w].at \in Places /\ work[w].does \in {"none", "scheduled", "manual", "restore"}
      /\ work[w].token \in Nat /\ work[w].done \in BOOLEAN
  BY <1>1, WorkFields
<1>3. [token |-> 0, stale |-> FALSE] \in [token : Nat, stale : BOOLEAN]
      /\ [token |-> work[w].token, stale |-> FALSE] \in [token : Nat, stale : BOOLEAN]
  BY <1>2
<1>4. CASE Backup!Stats(w)
  <2> DEFINE q == Backup!Saw(work[w])
  <2>1. /\ q \in Backup!Works /\ q.at \in {"compare", "open"} /\ q.does = work[w].does
        /\ q.stamp = work[w].stamp /\ q.key = work[w].key /\ q.done = work[w].done
    BY <1>1, WorkSaw
  <2>2. /\ work[w].at = "stat" /\ Backup!Becomes(w, q)
        /\ lock' = lock /\ made' = made /\ folder' = folder /\ db' = db /\ keys' = keys /\ count' = count
    BY <1>4 DEF Backup!Stats
  <2> HIDE DEF q
  <2>3. /\ ~q.done /\ q.does # "none" /\ work[w].at \in Early
        /\ q.at \notin {"commit", "idle", "dump", "key", "files", "restored"} \cup After
    BY <1>1, <2>1, <2>2 DEF Backup!Busy, Early, After
  <2>4. QED
    BY <1>1, <2>1, <2>2, <2>3, PassesKeeps
<1>5. ASSUME NEW there \in {"compare", "unlink", "open", "release", "key", "dump", "prune"},
             Backup!Goes(w, there),
             made' = made, folder' = folder, db' = db, keys' = keys, lock' \in [token : Nat, stale : BOOLEAN],
             count' \in Backup!Counts, count'.cut = count.cut,
             there \notin {"release", "prune"} => work[w].at \in Early,
             there = "prune" => w = Scheduler /\ ~work[w].done,
             there = "dump" => work[w].does # "restore", work[w].at # "idle",
             there = "key" => work[w].does = "restore"
      PROVE  Backup!BackupInv'
  <2> DEFINE q == Backup!At(work[w], there)
  <2>1. there \in Places
    BY <1>5 DEF Places
  <2>2. /\ q \in Backup!Works /\ q.at = there /\ q.does = work[w].does
        /\ q.stamp = work[w].stamp /\ q.key = work[w].key /\ q.done = work[w].done
    BY <1>1, <2>1, WorkGoes
  <2>3. Backup!Becomes(w, q)
    BY <1>5 DEF Backup!Goes
  <2> HIDE DEF q
  <2>4. q.at \in Early \cup {"key", "commit"} => ~q.done
    BY <1>1, <1>5, <2>2 DEF Backup!Busy, Early
  <2>5. /\ q.at \in Early => work[w].at \in Early
        /\ q.at \notin {"commit", "idle", "files", "restored"}
        /\ q.at \in After => w = Scheduler /\ ~q.done
        /\ q.at = "dump" => q.does # "restore"
        /\ q.at = "key" => q.does = "restore"
    BY <1>5, <2>2 DEF Early, After
  <2>6. q.does # "none"
    BY <1>1, <1>5, <2>2 DEF Backup!Busy
  <2>7. QED
    BY <1>1, <1>5, <2>2, <2>3, <2>4, <2>5, <2>6, PassesKeeps
<1>6. CASE Backup!Compares(w)
  <2>1. PICK there \in {"unlink", "open"} : Backup!Goes(w, there)
    BY <1>6 DEF Backup!Compares
  <2>2. /\ work[w].at \in Early /\ work[w].at # "idle" /\ lock' = lock /\ made' = made /\ folder' = folder /\ db' = db
        /\ keys' = keys /\ count' = count
    BY <1>6 DEF Backup!Compares, Early
  <2>3. QED
    BY <1>1, <1>5, <2>1, <2>2
<1>7. CASE Backup!Unlinks(w)
  <2>1. /\ Backup!Goes(w, "open") /\ work[w].at \in Early /\ work[w].at # "idle"
        /\ lock' = [token |-> 0, stale |-> FALSE]
        /\ made' = made /\ folder' = folder /\ db' = db /\ keys' = keys /\ count' = count
    BY <1>7 DEF Backup!Unlinks, Backup!NoLock, Early
  <2>2. QED
    BY <1>1, <1>3, <1>5, <2>1
<1>8. CASE Backup!RestoresFiles(w)
  <2>1. /\ Backup!Goes(w, "release") /\ lock' = lock /\ work[w].at # "idle"
        /\ made' = made /\ folder' = folder /\ db' = db /\ keys' = keys /\ count' = count
    BY <1>8 DEF Backup!RestoresFiles
  <2>2. QED
    BY <1>1, <1>5, <2>1
<1>9. CASE Backup!CreateFails(w)
  <2>1. /\ Backup!Goes(w, "release") /\ lock' = lock /\ work[w].at # "idle"
        /\ made' = made /\ folder' = folder /\ db' = db /\ keys' = keys
        /\ count' = [count EXCEPT !.faults = @ + 1]
    BY <1>9 DEF Backup!CreateFails
  <2>2. count' \in Backup!Counts /\ count'.cut = count.cut
    BY <1>1, <2>1, FaultCounted
  <2>3. QED
    BY <1>1, <1>5, <2>1, <2>2
<1>10. CASE Backup!Opens(w)
  <2>1. /\ work[w].at \in Early /\ work[w].at \notin {"idle", "dump"} /\ work[w].at = "open"
        /\ made' = made /\ folder' = folder /\ db' = db /\ keys' = keys /\ count' = count
    BY <1>10 DEF Backup!Opens, Early
  <2>2. CASE lock.token # 0
    <3>1. Backup!GivesUp(w) /\ lock' = lock /\ ~work[w].done
      BY <1>1, <1>10, <2>1, <2>2 DEF Backup!Opens, Backup!LockFree, Backup!Busy
    <3>2. QED
      BY <1>1, <2>1, <3>1, GivesUpKeeps
  <2>3. CASE lock.token = 0 /\ work[w].does = "restore"
    <3>1. Backup!Goes(w, "key") /\ lock' = [token |-> work[w].token, stale |-> FALSE]
      BY <1>10, <2>3 DEF Backup!Opens, Backup!LockFree
    <3>2. QED
      BY <1>1, <1>3, <1>5, <2>1, <2>3, <3>1
  <2>4. CASE lock.token = 0 /\ work[w].does # "restore"
    <3>1. Backup!Goes(w, "dump") /\ lock' = [token |-> work[w].token, stale |-> FALSE]
      BY <1>10, <2>4 DEF Backup!Opens, Backup!LockFree
    <3>2. QED
      BY <1>1, <1>3, <1>5, <2>1, <2>4, <3>1
  <2>5. QED
    BY <2>2, <2>3, <2>4
<1>11. CASE Backup!MakesNoLock(w)
  <2>1. /\ work[w].at = "open" /\ Backup!GivesUp(w) /\ lock' = [token |-> work[w].token, stale |-> FALSE]
        /\ made' = made /\ folder' = folder /\ db' = db /\ keys' = keys
        /\ count' = [count EXCEPT !.faults = @ + 1, !.left = @ + 1]
    BY <1>11 DEF Backup!MakesNoLock
  <2>2. count' \in Backup!Counts
    BY <1>1, <2>1, CountsStay
  <2>3. count'.cut = count.cut
    BY <1>1, <2>1 DEF Backup!Counts
  <2>4. ~work[w].done
    BY <1>1, <2>1 DEF Backup!Busy
  <2>5. QED
    BY <1>3, <2>1, <2>2, <2>3, <2>4, GivesUpKeeps
<1>12. CASE Backup!Releases(w)
  <2>1. /\ work[w].at \in {"published", "release"} /\ lock' \in [token : Nat, stale : BOOLEAN]
        /\ made' = made /\ folder' = folder /\ db' = db /\ keys' = keys /\ count' = count
    BY <1>1, <1>3, <1>12 DEF Backup!Releases, Backup!NoLock
  <2>2. CASE work[w].at = "published"
    <3>1. Backup!AfterRelease(w) = "prune"
      BY <1>1, <2>2 DEF Backup!AfterRelease, Backup!Busy
    <3>2. Backup!Goes(w, "prune")
      BY <1>12, <3>1 DEF Backup!Releases
    <3>3. w = Scheduler /\ ~work[w].done
      BY <1>1, <2>2 DEF Backup!Busy
    <3>4. QED
      BY <1>1, <1>5, <2>1, <3>2, <3>3
  <2>3. CASE work[w].at = "release" /\ ~work[w].done
    <3>1. Backup!AfterRelease(w) = "none"
      BY <2>3 DEF Backup!AfterRelease
    <3>2. Backup!GivesUp(w)
      BY <1>12, <3>1 DEF Backup!Releases
    <3>3. QED
      BY <1>1, <2>1, <2>3, <3>2, GivesUpKeeps
  <2>4. CASE work[w].at = "release" /\ work[w].done
    <3> DEFINE q == Backup!At(work[w], "restored")
    <3>1. Backup!AfterRelease(w) = "restored" /\ "restored" \in Places
      BY <2>4 DEF Backup!AfterRelease, Places
    <3>2. /\ q \in Backup!Works /\ q.at = "restored" /\ q.does = work[w].does
          /\ q.stamp = work[w].stamp /\ q.key = work[w].key /\ q.done = work[w].done
      BY <1>1, <3>1, WorkGoes
    <3>3. Backup!Becomes(w, q)
      BY <1>12, <3>1 DEF Backup!Goes, Backup!Releases
    <3> HIDE DEF q
    <3>4. q.at \notin Early \cup {"key", "commit", "idle"} \cup After /\ q.done /\ q.does = "restore"
      BY <1>1, <2>4, <3>2 DEF Backup!Busy, Early, After
    <3>5. QED
      BY <1>1, <2>1, <3>2, <3>3, <3>4, PassesKeeps DEF Early
  <2>5. QED
    BY <1>2, <2>1, <2>2, <2>3, <2>4
<1>13. CASE Backup!Killed(w)
  <2>1. /\ Backup!Leaves(w) /\ lock' = lock
        /\ count' = [count EXCEPT !.kills = @ + 1, !.cut = IF work[w].done THEN @ + 1 ELSE @]
        /\ made' = made /\ folder' = folder /\ db' = db /\ keys' = keys
    BY <1>13 DEF Backup!Killed
  <2>2. count' \in Backup!Counts /\ count'.cut = IF work[w].done THEN count.cut + 1 ELSE count.cut
    <3>1. PICK n \in Nat : n = IF work[w].done THEN count.cut + 1 ELSE count.cut
      BY <1>1, CountFields
    <3>2. count' = [count EXCEPT !.kills = @ + 1, !.cut = n]
      BY <2>1, <3>1
    <3>3. count' \in Backup!Counts
      BY <1>1, <3>2, CountsStay
    <3>4. count'.cut = n
      BY <1>1, <3>2 DEF Backup!Counts
    <3>5. QED
      BY <3>1, <3>3, <3>4
  <2>3. (count'.cut = count.cut /\ ~work[w].done) \/ count'.cut # 0
    <3>1. count.cut \in Nat
      BY <1>1, CountFields
    <3>2. QED
      BY <1>2, <2>2, <3>1
  <2>4. QED
    BY <1>1, <2>1, <2>2, <2>3, LeavesKeeps
<1>14. QED
  BY <1>4, <1>6, <1>7, <1>8, <1>9, <1>10, <1>11, <1>12, <1>13

\* The scheduler notes how it went.
LEMMA NotesKeeps ==
  ASSUME Backup!BackupInv, Backup!Notes
  PROVE  Backup!BackupInv'
<1>1. /\ Scheduler \in Backup!Workers /\ lock \in [token : Nat, stale : BOOLEAN] /\ count \in Backup!Counts
      /\ Backup!Busy(Scheduler)
  BY DEF Backup!BackupInv, Backup!Typed, Backup!Workers
<1>2. /\ work[Scheduler].at \in {"pruned", "failed"} /\ Backup!Leaves(Scheduler) /\ lock' = lock
      /\ folder' = folder /\ made' = made /\ db' = db /\ keys' = keys /\ count' = count
  BY DEF Backup!Notes
<1>3. ~work[Scheduler].done
  BY <1>1, <1>2 DEF Backup!Busy
<1>4. QED
  BY <1>1, <1>2, <1>3, LeavesKeeps

\* Work begins: a scheduled backup only when there is none since the scheduled time, in the folder or
\* deleted by retention; a restore only when there is no other.
LEMMA BeginsKeeps ==
  ASSUME Backup!BackupInv, NEW w \in Backup!Workers, NEW does \in {"scheduled", "manual", "restore"},
         NEW from, from.key \in AppKeys, from.good \in BOOLEAN, Backup!Begins(w, does, from),
         does = "scheduled" <=> w = Scheduler,
         does = "scheduled" => \A b \in Backup!Scheduled(made) : b.stamp < Backup!Slot(count.now),
         does = "restore" => \A v \in Backup!Workers : work[v].does # "restore"
  PROVE  Backup!BackupInv'
<1>1. Backup!Typed /\ Backup!Busy(w) /\ work[w] \in Backup!Works
      /\ count \in Backup!Counts
  BY DEF Backup!BackupInv, Backup!Typed
<1> DEFINE p == Backup!Work("stat", does, count.works + 1, count.now, from)
<1>2. /\ "stat" \in Places /\ does \in {"none", "scheduled", "manual", "restore"}
      /\ count.works + 1 \in Nat /\ count.now \in Nat
  BY <1>1 DEF Places, Backup!Counts
<1>3. /\ p \in Backup!Works /\ p.at = "stat" /\ p.does = does /\ p.stamp = count.now /\ p.key = from.key
      /\ p.done = FALSE
  <2>1. 0 \in Nat /\ FALSE \in BOOLEAN
    OBVIOUS
  <2>2. QED
    BY <1>2, <2>1 DEF Backup!Work, Backup!Works, Places
<1>4. /\ work[w].at = "idle" /\ Backup!Becomes(w, p) /\ lock' = lock /\ made' = made /\ folder' = folder
      /\ db' = db /\ keys' = keys /\ count' = [count EXCEPT !.works = @ + 1]
  BY DEF Backup!Begins
<1> HIDE DEF p
<1>5. count' \in Backup!Counts /\ count'.cut = count.cut
  BY <1>1, <1>4 DEF Backup!Counts
<1>6. work \in [Backup!Workers -> Backup!Works] /\ Backup!KeyKept
      /\ \A v \in Backup!Workers : Backup!Busy(v)
  BY DEF Backup!BackupInv, Backup!Typed
<1>7. /\ work' \in [Backup!Workers -> Backup!Works]
      /\ work'[w] = p /\ \A v \in Backup!Workers \ {w} : work'[v] = work[v]
  BY <1>3, <1>4, <1>6, WorkerMoves
<1>8. Backup!Busy(w)'
  BY <1>3, <1>7 DEF Backup!Busy
<1>9. Backup!KeyKept'
  <2>1. CASE does # "restore"
    <3>1. p.done = work[w].done
      BY <1>1, <1>3, <1>4, WorkFields DEF Backup!Busy
    <3>2. QED
      BY <1>3, <1>4, <1>5, <2>1, <3>1, KeyStays
  <2>2. CASE does = "restore"
    <3>1. \A v \in Backup!Workers : work[v].does # "restore" /\ ~work[v].done /\ work[v].at # "commit"
      BY <1>6, <2>2 DEF Backup!Busy
    <3>2. \A v \in Backup!Workers : ~work'[v].done /\ work'[v].at # "commit"
      BY <1>3, <1>7, <3>1
    <3>3. \A v, u \in Backup!Workers : work'[v].does = "restore" /\ work'[u].does = "restore" => v = u
      BY <1>7, <3>1
    <3>4. count'.cut = 0 => db' = keys'.env
      BY <1>4, <1>5, <1>6, <3>1 DEF Backup!KeyKept
    <3>5. QED
      BY <3>2, <3>3, <3>4 DEF Backup!KeyKept, Backup!Workers
  <2>3. QED
    BY <2>1, <2>2
<1>10. db' \in AppKeys /\ keys' \in [env : AppKeys, out : SUBSET AppKeys]
       /\ lock' \in [token : Nat, stale : BOOLEAN]
  BY <1>1, <1>4 DEF Backup!Typed
<1>11. QED
  BY <1>3, <1>4, <1>5, <1>8, <1>9, <1>10, WorkerKeeps

\* What retention deleted is older than a backup in the folder.
LEMMA NoneSince ==
  ASSUME Backup!BackupInv, Backup!Due
  PROVE  \A b \in Backup!Scheduled(made) : b.stamp < Backup!Slot(count.now)
<1>1. Backup!Typed /\ Backup!Retained /\ count.now \in Nat
  BY DEF Backup!BackupInv, Backup!Typed, Backup!Counts
<1>2. SUFFICES ASSUME NEW b \in Backup!Scheduled(made) PROVE b.stamp < Backup!Slot(count.now)
  OBVIOUS
<1>3. Backup!Slot(count.now) \in Nat /\ Backup!LastSlot = Backup!Slot(count.now)
  BY <1>1, SlotOfTime DEF Backup!Slot, Backup!LastSlot
<1>4. \A c \in Backup!Scheduled(folder) : c.stamp \in Nat /\ c.stamp < Backup!Slot(count.now)
  <2>1. \A c \in Backup!Scheduled(folder) : c.stamp \in Nat /\ ~(c.stamp >= Backup!Slot(count.now))
    BY <1>1, <1>3 DEF Backup!Typed, Backup!Scheduled, Backup!Due, Backup!MadeSince
  <2>2. QED
    BY <1>3, <2>1
<1>5. b \in made /\ b.kind = "scheduled" /\ b.stamp \in Nat
  BY <1>1 DEF Backup!Scheduled, Backup!Typed
<1>6. CASE b \in folder
  BY <1>4, <1>5, <1>6 DEF Backup!Scheduled
<1>7. CASE b \notin folder
  <2> DEFINE newer == {c \in Backup!Scheduled(folder) : c.stamp > b.stamp}
  <2>1. Cardinality(newer) >= Keep
    BY <1>1, <1>5, <1>7, SameSizeOfBackups DEF Backup!Retained
  <2>2. newer # {}
    <3> HIDE DEF newer
    <3>1. QED
      BY <2>1, FS_EmptySet, BackupsAssumption
  <2>3. PICK c \in Backup!Scheduled(folder) : c.stamp > b.stamp
    BY <2>2
  <2>4. QED
    BY <1>3, <1>4, <1>5, <2>3
<1>8. QED
  BY <1>6, <1>7

\* A backup or a restore begins.
LEMMA BeginningsKeep ==
  ASSUME Backup!BackupInv,
         Backup!Ticks \/ \E w \in Scripts : Backup!Creates(w) \/ Backup!Restores(w)
  PROVE  Backup!BackupInv'
<1>1. Backup!Typed /\ keys.env \in AppKeys
  BY DEF Backup!BackupInv, Backup!Typed
<1> DEFINE from == [key |-> keys.env, good |-> TRUE]
<1>2. from.key \in AppKeys /\ from.good \in BOOLEAN
  BY <1>1
<1>3. Scheduler \in Backup!Workers /\ \A w \in Scripts : w \in Backup!Workers /\ w # Scheduler
  BY BackupsAssumption DEF Backup!Workers
<1>4. CASE Backup!Ticks
  <2>1. Backup!Begins(Scheduler, "scheduled", from) /\ Backup!Due
    BY <1>4 DEF Backup!Ticks
  <2> HIDE DEF from
  <2>2. \A b \in Backup!Scheduled(made) : b.stamp < Backup!Slot(count.now)
    BY <2>1, NoneSince
  <2>3. QED
    BY <1>2, <1>3, <2>1, <2>2, BeginsKeeps
<1>5. ASSUME NEW w \in Scripts, Backup!Creates(w) PROVE Backup!BackupInv'
  <2>1. Backup!Begins(w, "manual", from)
    BY <1>5 DEF Backup!Creates
  <2> HIDE DEF from
  <2>2. QED
    BY <1>2, <1>3, <2>1, BeginsKeeps
<1>6. ASSUME NEW w \in Scripts, Backup!Restores(w) PROVE Backup!BackupInv'
  <2>1. PICK b \in Elsewhere \cup {[key |-> c.key, good |-> TRUE] : c \in folder} : Backup!Begins(w, "restore", b)
    BY <1>6 DEF Backup!Restores
  <2>2. b.key \in AppKeys /\ b.good \in BOOLEAN
    <3>1. CASE b \in Elsewhere
      BY <3>1, BackupsAssumption
    <3>2. CASE b \notin Elsewhere
      <4>1. PICK c \in folder : b = [key |-> c.key, good |-> TRUE]
        BY <2>1, <3>2
      <4>2. c.key \in AppKeys
        BY <1>1 DEF Backup!Typed
      <4>3. QED
        BY <4>1, <4>2
    <3>3. QED
      BY <3>1, <3>2
  <2>3. \A v \in Backup!Workers : work[v].does # "restore"
    BY <1>6 DEF Backup!Restores
  <2>4. QED
    BY <1>3, <2>1, <2>2, <2>3, BeginsKeeps
<1>7. QED
  BY <1>4, <1>5, <1>6

\* A backup is published: a scheduled one is the first since the scheduled time it was made for.
LEMMA PublishKeeps ==
  ASSUME Backup!BackupInv, NEW w \in Backup!Workers, Backup!Publishes(w)
  PROVE  Backup!BackupInv'
<1>1. /\ Backup!Typed /\ Backup!Busy(w) /\ work[w] \in Backup!Works
      /\ Backup!OncePerSlot /\ Backup!Retained /\ Backup!SlotOpen
      /\ work \in [Backup!Workers -> Backup!Works]
      /\ \A v \in Backup!Workers : Backup!Busy(v)
      /\ IsFiniteSet(made)
  BY SameSizeOfBackups DEF Backup!BackupInv, Backup!Typed
<1> DEFINE there == IF w = Scheduler THEN "published" ELSE "release"
           p == Backup!At(work[w], there)
           b == Backup!Backup(w)
<1>2. there \in Places /\ there \in {"published", "release"} /\ (there = "published" => w = Scheduler)
  BY DEF Places
<1>3. /\ p \in Backup!Works /\ p.at = there /\ p.does = work[w].does
      /\ p.stamp = work[w].stamp /\ p.key = work[w].key /\ p.done = work[w].done
  <2> HIDE DEF there
  <2>1. QED
    BY <1>1, <1>2, WorkGoes
<1>4. /\ work[w].at = "dump" /\ Backup!Becomes(w, p) /\ made' = made \cup {b} /\ folder' = folder \cup {b}
      /\ lock' = lock /\ db' = db /\ keys' = keys /\ count' = count
  BY DEF Backup!Publishes, Backup!Goes
<1>5. /\ work[w].does \in {"scheduled", "manual"} /\ (work[w].does = "scheduled" <=> w = Scheduler)
      /\ ~work[w].done /\ work[w].stamp \in Nat /\ work[w].key \in AppKeys
  BY <1>1, <1>4, WorkFields DEF Backup!Busy
<1>6. b \in [kind : {"none", "scheduled", "manual", "restore"}, stamp : Nat, key : AppKeys]
      /\ b.kind = work[w].does /\ b.stamp = work[w].stamp
  BY <1>5 DEF Backup!Backup
<1> HIDE DEF p, b, there
<1>7. /\ work' \in [Backup!Workers -> Backup!Works]
      /\ work'[w] = p /\ \A v \in Backup!Workers \ {w} : work'[v] = work[v]
  BY <1>1, <1>3, <1>4, WorkerMoves
<1>8. Backup!Typed'
  <2>1. IsFiniteSet(made')
    BY <1>1, <1>4, FS_AddElement
  <2>2. Backup!IsFiniteSet(made')
    BY <2>1, SameSizeOfBackups
  <2>3. QED
    BY <1>1, <1>4, <1>6, <1>7, <2>2 DEF Backup!Typed, Backup!Works
<1>9. b.kind = "scheduled" =>
        \A c \in Backup!Scheduled(made) : c.stamp \in Nat /\ c.stamp < Backup!Slot(b.stamp)
  BY <1>1, <1>4, <1>5, <1>6 DEF Backup!SlotOpen, Backup!Typed, Backup!Scheduled
<1>10. Backup!OncePerSlot'
  <2> SUFFICES ASSUME NEW c \in Backup!Scheduled(made'), NEW d \in Backup!Scheduled(made'),
                      c.stamp \div Period = d.stamp \div Period
               PROVE  c = d
    BY DEF Backup!OncePerSlot, Backup!Scheduled
  <2>1. /\ c \in Backup!Scheduled(made) \/ c = b
        /\ d \in Backup!Scheduled(made) \/ d = b
        /\ c.kind = "scheduled" /\ d.kind = "scheduled"
    BY <1>4 DEF Backup!Scheduled
  <2>2. ASSUME NEW e \in Backup!Scheduled(made), b.kind = "scheduled"
        PROVE  e.stamp \div Period # b.stamp \div Period
    BY <1>5, <1>6, <1>9, <2>2, SlotOfTime
  <2>3. CASE c \in Backup!Scheduled(made) /\ d \in Backup!Scheduled(made)
    BY <1>1, <2>3 DEF Backup!OncePerSlot
  <2>4. CASE c = b \/ d = b
    BY <2>1, <2>2, <2>4
  <2>5. QED
    BY <2>1, <2>3, <2>4
<1>11. Backup!Retained'
  <2>1. made' \ folder' \subseteq made \ folder
    BY <1>4
  <2>2. ASSUME NEW c \in made \ folder
        PROVE  Cardinality({d \in Backup!Scheduled(folder') : d.stamp > c.stamp}) >= Keep
    <3>1. Cardinality({d \in Backup!Scheduled(folder) : d.stamp > c.stamp}) >= Keep
      BY <1>1, SameSizeOfBackups DEF Backup!Retained
    <3>2. IsFiniteSet(folder')
      BY <1>1, <1>4, FS_Subset, FS_AddElement DEF Backup!Typed
    <3>3. Backup!Scheduled(folder') \in SUBSET folder'
      BY DEF Backup!Scheduled
    <3>4. IsFiniteSet(Backup!Scheduled(folder'))
      BY <3>2, <3>3, FS_Subset
    <3>5. Backup!Scheduled(folder) \in SUBSET Backup!Scheduled(folder')
      BY <1>4 DEF Backup!Scheduled
    <3>6. QED
      BY <3>1, <3>4, <3>5, MoreAreNewer
  <2>3. \A c \in made' \ folder' : /\ c.kind = "scheduled"
                                   /\ Cardinality({d \in Backup!Scheduled(folder') : d.stamp > c.stamp}) >= Keep
    BY <1>1, <2>1, <2>2 DEF Backup!Retained
  <2>4. QED
    BY <2>3, SameSizeOfBackups DEF Backup!Retained, Backup!Scheduled
<1>12. Backup!SlotOpen'
  <2>1. Scheduler \in Backup!Workers
    BY DEF Backup!Workers
  <2>2. CASE w = Scheduler
    <3>1. work'[Scheduler].at = "published"
      BY <1>3, <1>7, <2>2 DEF there
    <3>2. QED
      BY <3>1 DEF Backup!SlotOpen
  <2>3. CASE w # Scheduler
    <3>1. work'[Scheduler] = work[Scheduler] /\ Backup!Scheduled(made') = Backup!Scheduled(made)
      BY <1>4, <1>5, <1>6, <1>7, <2>1, <2>3 DEF Backup!Scheduled
    <3>2. QED
      BY <1>1, <3>1 DEF Backup!SlotOpen, Backup!Scheduled, Backup!Slot
  <2>4. QED
    BY <2>2, <2>3
<1>13. Backup!KeyKept'
  BY <1>2, <1>3, <1>4, KeyStays
<1>14. (\A v \in Backup!Workers : Backup!Busy(v))'
  <2> SUFFICES ASSUME NEW v \in Backup!Workers PROVE Backup!Busy(v)'
    BY DEF Backup!Workers
  <2>1. CASE v = w
    BY <1>2, <1>3, <1>5, <1>7, <2>1 DEF Backup!Busy
  <2>2. CASE v # w
    BY <1>1, <1>7, <2>2 DEF Backup!Busy
  <2>3. QED
    BY <2>1, <2>2
<1>15. QED
  BY <1>8, <1>10, <1>11, <1>12, <1>13, <1>14 DEF Backup!BackupInv

\* Pruning: what goes, some of it or all, and what went before, has Keep newer ones among what stays.
LEMMA PruneKeeps ==
  ASSUME Backup!BackupInv, Backup!Prunes
  PROVE  Backup!BackupInv'
<1>1. /\ Backup!Typed /\ Backup!Busy(Scheduler) /\ Backup!OncePerSlot /\ Backup!Retained /\ Backup!SlotOpen
      /\ work \in [Backup!Workers -> Backup!Works] /\ Scheduler \in Backup!Workers
      /\ \A v \in Backup!Workers : Backup!Busy(v)
      /\ IsFiniteSet(made)
  BY SameSizeOfBackups DEF Backup!BackupInv, Backup!Typed, Backup!Workers
<1> DEFINE S == Backup!Scheduled(folder)
           olds == {b \in S : Cardinality({c \in S : c.stamp > b.stamp}) >= Keep}
<1>2. PICK there \in {"pruned", "failed"}, gone \in SUBSET olds :
        /\ Backup!Goes(Scheduler, there) /\ folder' = folder \ gone
        /\ count' = count \/ count' = [count EXCEPT !.faults = @ + 1]
  <2>1. Backup!Pruned(folder) = olds
    BY SameSizeOfBackups DEF Backup!Pruned
  <2> HIDE DEF olds
  <2>2. \/ folder' = folder \ olds /\ Backup!Goes(Scheduler, "pruned") /\ count' = count
        \/ /\ count' = [count EXCEPT !.faults = @ + 1] /\ Backup!Goes(Scheduler, "failed")
           /\ \E gone \in SUBSET olds : folder' = folder \ gone
    BY <2>1 DEF Backup!Prunes
  <2>3. QED
    BY <2>2
<1> DEFINE p == Backup!At(work[Scheduler], there)
<1>3. /\ work[Scheduler].at = "prune" /\ made' = made /\ db' = db /\ keys' = keys /\ lock' = lock
      /\ count' \in Backup!Counts /\ count'.cut = count.cut
  <2>1. count \in Backup!Counts
    BY <1>1 DEF Backup!Typed
  <2>2. count' \in Backup!Counts /\ count'.cut = count.cut
    BY <1>2, <2>1, FaultCounted
  <2>3. QED
    BY <2>2 DEF Backup!Prunes
<1>4. /\ p \in Backup!Works /\ p.at = there /\ p.does = work[Scheduler].does /\ p.key = work[Scheduler].key
      /\ p.done = work[Scheduler].done /\ Backup!Becomes(Scheduler, p)
  <2>1. work[Scheduler] \in Backup!Works /\ there \in Places
    BY <1>1, <1>2 DEF Places
  <2>2. QED
    BY <1>2, <2>1, WorkGoes DEF Backup!Goes
<1> HIDE DEF p
<1>14. /\ work' \in [Backup!Workers -> Backup!Works]
       /\ work'[Scheduler] = p /\ \A v \in Backup!Workers \ {Scheduler} : work'[v] = work[v]
  BY <1>1, <1>4, WorkerMoves
<1>5. IsFiniteSet(S) /\ \A c \in S : c.stamp \in Nat
  <2>1. S \in SUBSET made
    BY <1>1 DEF Backup!Typed, Backup!Scheduled
  <2>2. \A c \in made : c.stamp \in Nat
    BY <1>1 DEF Backup!Typed
  <2> HIDE DEF S
  <2>3. QED
    BY <1>1, <2>1, <2>2, FS_Subset
<1>6. Backup!Scheduled(folder') = S \ gone
  BY <1>2 DEF Backup!Scheduled
<1>7. ASSUME NEW s \in Nat, Cardinality({c \in S : c.stamp > s}) >= Keep
      PROVE  Cardinality({c \in S \ gone : c.stamp > s}) >= Keep
  <2>1. Cardinality({c \in S \ olds : c.stamp > s}) >= Keep
    <3> HIDE DEF S
    <3>1. QED
      BY <1>5, <1>7, PruneLeavesNewest
  <2>2. S \ gone \in SUBSET S /\ S \ olds \in SUBSET (S \ gone)
    BY <1>2
  <2>3. IsFiniteSet(S \ gone)
    BY <1>5, <2>2, FS_Subset
  <2> HIDE DEF S, olds
  <2>4. QED
    BY <2>1, <2>2, <2>3, MoreAreNewer
<1>8. Backup!Retained'
  <2> SUFFICES ASSUME NEW b \in made' \ folder'
               PROVE  /\ b.kind = "scheduled"
                      /\ Cardinality({c \in Backup!Scheduled(folder') : c.stamp > b.stamp}) >= Keep
    BY SameSizeOfBackups DEF Backup!Retained, Backup!Scheduled
  <2>1. b \in made /\ b.stamp \in Nat
    BY <1>1, <1>3 DEF Backup!Typed
  <2>2. b.kind = "scheduled" /\ Cardinality({c \in S : c.stamp > b.stamp}) >= Keep
    <3>1. CASE b \in folder
      <4>1. b \in olds
        BY <1>2, <3>1
      <4>2. QED
        BY <4>1 DEF Backup!Scheduled
    <3>2. CASE b \notin folder
      BY <1>1, <2>1, <3>2, SameSizeOfBackups DEF Backup!Retained
    <3>3. QED
      BY <3>1, <3>2
  <2>3. Cardinality({c \in S \ gone : c.stamp > b.stamp}) >= Keep
    BY <1>7, <2>1, <2>2
  <2>4. QED
    BY <1>6, <2>2, <2>3
<1>9. Backup!Typed'
  <2>1. folder' \subseteq made' /\ Backup!IsFiniteSet(made')
    BY <1>1, <1>2, <1>3 DEF Backup!Typed
  <2>2. QED
    BY <1>1, <1>3, <1>14, <2>1 DEF Backup!Typed, Backup!Works
<1>10. Backup!OncePerSlot'
  BY <1>1, <1>3 DEF Backup!OncePerSlot, Backup!Scheduled
<1>11. Backup!SlotOpen'
  BY <1>2, <1>4, <1>14 DEF Backup!SlotOpen
<1>12. Backup!KeyKept'
  BY <1>1, <1>2, <1>3, <1>4, KeyStays
<1>13. (\A v \in Backup!Workers : Backup!Busy(v))'
  <2> SUFFICES ASSUME NEW v \in Backup!Workers PROVE Backup!Busy(v)'
    BY DEF Backup!Workers
  <2>1. CASE v = Scheduler
    <3>1. work'[Scheduler] = p /\ ~work[Scheduler].done /\ work[Scheduler].does # "none"
      BY <1>1, <1>3, <1>14 DEF Backup!Busy
    <3>2. QED
      BY <1>1, <1>2, <1>4, <2>1, <3>1 DEF Backup!Busy
  <2>2. CASE v # Scheduler
    BY <1>1, <1>14, <2>2 DEF Backup!Busy
  <2>3. QED
    BY <2>1, <2>2
<1>15. QED
  BY <1>8, <1>9, <1>10, <1>11, <1>12, <1>13 DEF Backup!BackupInv

\* A restore's steps: the key is handed over before the database is, and saved before it is forgotten.
LEMMA RestoreStepsKeep ==
  ASSUME Backup!BackupInv, NEW w \in Backup!Workers,
         \/ Backup!HandsOver(w) \/ Backup!Commits(w) \/ Backup!CommitAnswerLost(w)
         \/ Backup!RestoreFails(w) \/ Backup!SavesKey(w)
  PROVE  Backup!BackupInv'
<1>1. /\ Backup!Typed /\ Backup!Busy(w) /\ Backup!KeyKept /\ work[w] \in Backup!Works
      /\ work \in [Backup!Workers -> Backup!Works]
      /\ lock \in [token : Nat, stale : BOOLEAN] /\ db \in AppKeys
      /\ keys.env \in AppKeys /\ keys.out \in SUBSET AppKeys /\ keys \in [env : AppKeys, out : SUBSET AppKeys]
      /\ count \in Backup!Counts
  BY DEF Backup!BackupInv, Backup!Typed
<1>2. /\ work[w].at \in Places /\ work[w].does \in {"none", "scheduled", "manual", "restore"}
      /\ work[w].done \in BOOLEAN /\ work[w].key \in AppKeys
  BY <1>1, WorkFields
<1>3. /\ work[w].at \in {"key", "commit", "restored"} /\ work[w].does = "restore"
      /\ lock' = lock /\ made' = made /\ folder' = folder
  BY <1>1 DEF Backup!HandsOver, Backup!Commits, Backup!CommitAnswerLost, Backup!RestoreFails,
     Backup!SavesKey, Backup!Busy
<1>4. ASSUME count.cut = 0, NEW v \in Backup!Workers \ {w}
      PROVE  ~work[v].done /\ work[v].at # "commit" /\ work[v].does # "restore"
  BY <1>3, <1>4, OnlyOneRestores
<1>5. ASSUME NEW p \in Backup!Works, Backup!Becomes(w, p),
             p.at \in {"idle", "commit", "files", "release"},
             p.does # "none" \/ p.at = "idle", p.does \in {"none", "restore"},
             p.done => p.does = "restore", p.at \in {"idle", "commit"} => ~p.done, p.at = "files" => p.done,
             p.at = "commit" => p.does = "restore",
             count' \in Backup!Counts,
             db' \in AppKeys, keys' \in [env : AppKeys, out : SUBSET AppKeys],
             count'.cut = 0 =>
               /\ count.cut = 0
               /\ p.at = "commit" \/ p.done => keys'.out = {p.key}
               /\ p.done => db' = p.key
               /\ ~p.done => db' = keys'.env
      PROVE  Backup!BackupInv'
  <2>1. /\ work' \in [Backup!Workers -> Backup!Works]
        /\ work'[w] = p /\ \A v \in Backup!Workers \ {w} : work'[v] = work[v]
    BY <1>1, <1>5, WorkerMoves
  <2>2. w # Scheduler
    BY <1>1, <1>3 DEF Backup!Busy
  <2>3. Backup!Busy(w)'
    BY <1>5, <2>1, <2>2 DEF Backup!Busy
  <2>4. ASSUME count'.cut = 0 PROVE Backup!KeyKept'
    <3>1. \A v \in Backup!Workers \ {w} : ~work'[v].done /\ work'[v].at # "commit" /\ work'[v].does # "restore"
      BY <1>4, <1>5, <2>1, <2>4
    <3>2. \A v, u \in Backup!Workers : work'[v].does = "restore" /\ work'[u].does = "restore" => v = u
      BY <3>1
    <3>3. \A v \in Backup!Workers : /\ work'[v].at = "commit" \/ work'[v].done => keys'.out = {work'[v].key}
                                    /\ work'[v].done => db' = work'[v].key
      BY <1>5, <2>1, <2>4, <3>1
    <3>4. (\A v \in Backup!Workers : ~work'[v].done) => db' = keys'.env
      BY <1>5, <2>1, <2>4
    <3>5. QED
      BY <3>2, <3>3, <3>4 DEF Backup!KeyKept, Backup!Workers
  <2>5. Backup!KeyKept'
    BY <2>4 DEF Backup!KeyKept
  <2>6. lock' \in [token : Nat, stale : BOOLEAN]
    BY <1>1, <1>3
  <2>7. QED
    BY <1>3, <1>5, <2>2, <2>3, <2>5, <2>6, WorkerKeeps
<1>6. CASE Backup!HandsOver(w)
  <2> DEFINE p == Backup!At(work[w], "commit")
  <2>1. "commit" \in Places
    BY DEF Places
  <2>2. /\ p \in Backup!Works /\ p.at = "commit" /\ p.does = work[w].does
        /\ p.key = work[w].key /\ p.done = work[w].done
    BY <1>1, <2>1, WorkGoes
  <2>3. /\ work[w].at = "key" /\ Backup!Becomes(w, p) /\ db' = db /\ count' = count
        /\ keys' = [keys EXCEPT !.out = {work[w].key}]
    BY <1>6 DEF Backup!HandsOver, Backup!Goes, Backup!HandedOver
  <2> HIDE DEF p
  <2>4. keys' \in [env : AppKeys, out : SUBSET AppKeys] /\ keys'.out = {work[w].key} /\ keys'.env = keys.env
    BY <1>1, <1>2, <2>3
  <2>5. ~work[w].done
    BY <1>1, <2>3 DEF Backup!Busy
  <2>6. count.cut = 0 => db = keys.env
    BY <1>1, <1>4, <2>5 DEF Backup!KeyKept
  <2>7. QED
    BY <1>1, <1>3, <1>5, <2>2, <2>3, <2>4, <2>5, <2>6
<1>7. CASE Backup!Commits(w)
  <2> DEFINE p == Backup!Restored(work[w])
  <2>1. /\ p \in Backup!Works /\ p.at = "files" /\ p.does = work[w].does
        /\ p.key = work[w].key /\ p.done = TRUE
    BY <1>1, WorkRestored
  <2>2. /\ work[w].at = "commit" /\ Backup!Becomes(w, p) /\ db' = work[w].key /\ count' = count /\ keys' = keys
    BY <1>7 DEF Backup!Commits, Backup!KeyFits
  <2> HIDE DEF p
  <2>3. count.cut = 0 => keys.out = {work[w].key}
    BY <1>1, <2>2 DEF Backup!KeyKept
  <2>4. QED
    BY <1>1, <1>2, <1>3, <1>5, <2>1, <2>2, <2>3
<1>8. CASE Backup!RestoreFails(w)
  <2> DEFINE p == Backup!At(work[w], "release")
  <2>1. "release" \in Places
    BY DEF Places
  <2>2. /\ p \in Backup!Works /\ p.at = "release" /\ p.does = work[w].does
        /\ p.key = work[w].key /\ p.done = work[w].done
    BY <1>1, <2>1, WorkGoes
  <2>3. /\ work[w].at \in {"key", "commit"} /\ Backup!Becomes(w, p) /\ db' = db
        /\ count' \in {count, [count EXCEPT !.faults = @ + 1]}
        /\ keys' = [keys EXCEPT !.out = {}]
    BY <1>8 DEF Backup!RestoreFails, Backup!Goes
  <2> HIDE DEF p
  <2>4. keys' \in [env : AppKeys, out : SUBSET AppKeys] /\ keys'.env = keys.env
    BY <1>1, <2>3
  <2>5. count' \in Backup!Counts /\ count'.cut = count.cut
    BY <1>1, <2>3, FaultCounted
  <2>6. ~work[w].done
    BY <1>1, <2>3 DEF Backup!Busy
  <2>7. count.cut = 0 => db = keys.env
    BY <1>1, <1>4, <2>6 DEF Backup!KeyKept
  <2>8. QED
    BY <1>1, <1>3, <1>5, <2>2, <2>3, <2>4, <2>5, <2>6, <2>7
<1>9. CASE Backup!SavesKey(w)
  <2> DEFINE p == Backup!Idle
             saved == IF keys.out = {} THEN keys.env ELSE CHOOSE k \in keys.out : TRUE
  <2>1. p \in Backup!Works /\ p.at = "idle" /\ p.does = "none" /\ p.done = FALSE
    BY WorkIdle
  <2>2. /\ work[w].at = "restored" /\ Backup!Becomes(w, p) /\ db' = db /\ count' = count
        /\ keys' = [env |-> saved, out |-> {}]
    BY <1>9 DEF Backup!SavesKey, Backup!Leaves
  <2> HIDE DEF p
  <2>3. saved \in AppKeys
    BY <1>1
  <2>4. work[w].done
    BY <1>1, <2>2 DEF Backup!Busy
  <2>5. count.cut = 0 => db = work[w].key /\ keys.out = {work[w].key}
    BY <1>1, <2>4 DEF Backup!KeyKept
  <2>6. count.cut = 0 => saved = db
    BY <2>5
  <2> HIDE DEF saved
  <2>7. keys' \in [env : AppKeys, out : SUBSET AppKeys] /\ keys'.env = saved
    BY <2>2, <2>3
  <2>8. QED
    BY <1>1, <1>5, <2>1, <2>2, <2>6, <2>7
<1>10. CASE Backup!CommitAnswerLost(w)
  <2> DEFINE p == Backup!At(work[w], "release")
  <2>1. "release" \in Places
    BY DEF Places
  <2>2. p \in Backup!Works /\ p.at = "release" /\ p.does = work[w].does /\ p.done = work[w].done
    BY <1>1, <2>1, WorkGoes
  <2>3. /\ work[w].at = "commit" /\ Backup!Becomes(w, p) /\ db' = work[w].key
        /\ count' = [count EXCEPT !.faults = @ + 1, !.cut = @ + 1]
        /\ keys' = [keys EXCEPT !.out = {}]
    BY <1>10 DEF Backup!CommitAnswerLost, Backup!KeyFits, Backup!Goes
  <2> HIDE DEF p
  <2>4. keys' \in [env : AppKeys, out : SUBSET AppKeys]
    BY <1>1, <2>3
  <2>5. count' \in Backup!Counts /\ count'.cut # 0
    <3>1. count' \in Backup!Counts
      BY <1>1, <2>3, CountsStay
    <3>2. count'.cut = count.cut + 1
      BY <1>1, <2>3 DEF Backup!Counts
    <3>3. QED
      BY <1>1, <3>1, <3>2, CountFields
  <2>6. ~work[w].done
    BY <1>1, <2>3 DEF Backup!Busy
  <2>7. QED
    BY <1>2, <1>3, <1>5, <2>2, <2>3, <2>4, <2>5, <2>6
<1>11. QED
  BY <1>6, <1>7, <1>8, <1>9, <1>10

\* Every step of the backups keeps their invariant.
LEMMA BackupNext ==
  ASSUME Backup!BackupInv, Backup!Next \/ UNCHANGED backupVars
  PROVE  Backup!BackupInv'
<1>1. /\ Backup!Typed /\ lock \in [token : Nat, stale : BOOLEAN]
      /\ count \in Backup!Counts
  BY DEF Backup!BackupInv, Backup!Typed
<1>2. ASSUME folder' = folder, db' = db, keys' = keys, work' = work, made' = made,
             lock' \in [token : Nat, stale : BOOLEAN],
             count' \in Backup!Counts, count'.cut = count.cut
      PROVE  Backup!BackupInv'
  <2>1. Backup!Typed' /\ Backup!OncePerSlot' /\ Backup!Retained' /\ Backup!SlotOpen' /\ Backup!KeyKept'
    BY <1>1, <1>2 DEF Backup!BackupInv, Backup!Typed, Backup!OncePerSlot, Backup!Retained, Backup!SlotOpen,
       Backup!KeyKept, Backup!Scheduled, Backup!Slot, Backup!Works, Backup!Workers
  <2>2. (\A v \in Backup!Workers : Backup!Busy(v))'
    BY <1>2 DEF Backup!BackupInv, Backup!Busy, Backup!Workers
  <2>3. QED
    BY <2>1, <2>2 DEF Backup!BackupInv
<1>3. CASE UNCHANGED backupVars
  BY <1>1, <1>2, <1>3 DEF backupVars
<1>4. CASE Backup!GoesStale
  <2>1. /\ lock' = [lock EXCEPT !.stale = TRUE]
        /\ \/ count' = [count EXCEPT !.staled = TRUE]
           \/ count' = [count EXCEPT !.staled = TRUE, !.faults = @ + 1, !.left = @ + 1]
    BY <1>4 DEF Backup!GoesStale
  <2>2. lock' \in [token : Nat, stale : BOOLEAN]
    BY <1>1, <2>1
  <2>3. count' \in Backup!Counts
    BY <1>1, <2>1, CountsStay
  <2>4. count'.cut = count.cut
    BY <1>1, <2>1 DEF Backup!Counts
  <2>5. QED
    BY <1>1, <1>2, <1>4, <2>2, <2>3, <2>4 DEF Backup!GoesStale
<1>5. CASE Backup!Time
  <2>1. count' = [count EXCEPT !.now = @ + 1]
    BY <1>5 DEF Backup!Time
  <2>2. count' \in Backup!Counts /\ count'.cut = count.cut
    BY <1>1, <2>1 DEF Backup!Counts
  <2>3. QED
    BY <1>1, <1>2, <1>5, <2>2 DEF Backup!Time
<1>6. CASE Backup!Ticks \/ \E w \in Scripts : Backup!Creates(w) \/ Backup!Restores(w)
  BY <1>6, BeginningsKeep
<1>7. CASE Backup!Prunes \/ Backup!Notes
  BY <1>7, PruneKeeps, NotesKeeps
<1>8. CASE \E w \in Backup!Workers : Backup!Step(w)
  BY <1>8, LockStepsKeep, PublishKeeps, RestoreStepsKeep DEF Backup!Step
<1>9. QED
  BY <1>3, <1>4, <1>5, <1>6, <1>7, <1>8 DEF Backup!Next

\* At first there is no backup, and nobody works.
LEMMA BackupFirst == Backup!Init => Backup!BackupInv
<1> SUFFICES ASSUME Backup!Init PROVE Backup!BackupInv
  OBVIOUS
<1> DEFINE p == Backup!Idle
<1>1. p \in Backup!Works /\ p.at = "idle" /\ p.does = "none" /\ p.done = FALSE
  BY WorkIdle
<1>2. work = [w \in Backup!Workers |-> p]
  BY DEF Backup!Init
<1> HIDE DEF p
<1>3. Backup!IsFiniteSet({})
  BY SameSizeOfBackups, FS_EmptySet
<1>4. AppKey \in AppKeys
  BY BackupsAssumption
<1>5. Backup!Typed
  BY <1>1, <1>2, <1>3, <1>4 DEF Backup!Init, Backup!Typed, Backup!NoLock, Backup!Counts
<1>6. Backup!OncePerSlot /\ Backup!Retained
  BY DEF Backup!Init, Backup!OncePerSlot, Backup!Retained, Backup!Scheduled
<1>7. Backup!SlotOpen
  BY DEF Backup!Init, Backup!SlotOpen, Backup!Scheduled
<1>8. Backup!KeyKept
  BY <1>1, <1>2 DEF Backup!Init, Backup!KeyKept
<1>9. \A w \in Backup!Workers : Backup!Busy(w)
  BY <1>1, <1>2 DEF Backup!Busy
<1>10. QED
  BY <1>5, <1>6, <1>7, <1>8, <1>9 DEF Backup!BackupInv

\* Begun, a work has the next token; a worker that goes on keeps its own, and one that leaves has none.
LEMMA TokensKeep ==
  ASSUME Backup!Typed, Backup!TokensDiffer, NEW w \in Backup!Workers, NEW p \in Backup!Works,
         Backup!Becomes(w, p), count' \in Backup!Counts,
         p.at # "idle" => p.token > 0,
         \/ p.token \in {0, work[w].token} /\ count'.works = count.works
         \/ p.token = count.works + 1 /\ count'.works = count.works + 1
  PROVE  Backup!TokensDiffer'
<1>1. /\ work \in [Backup!Workers -> Backup!Works] /\ count.works \in Nat
      /\ work'[w] = p /\ \A v \in Backup!Workers \ {w} : work'[v] = work[v]
  BY WorkerMoves DEF Backup!Typed, Backup!Counts
<1>2. /\ \A v \in Backup!Workers : work[v].token \in Nat /\ work[v].token <= count.works
      /\ p.token \in Nat
  BY <1>1, WorkFields DEF Backup!TokensDiffer
<1>3. ASSUME NEW v \in Backup!Workers
      PROVE  (work'[v].at # "idle" => work'[v].token > 0) /\ work'[v].token <= count'.works
  <2>1. CASE v = w
    BY <1>1, <1>2, <2>1
  <2>2. CASE v # w
    BY <1>1, <1>2, <2>2 DEF Backup!TokensDiffer
  <2>3. QED
    BY <2>1, <2>2
<1>4. ASSUME NEW v \in Backup!Workers \ {w}, p.token > 0 PROVE work[v].token # p.token
  <2>1. v \in Backup!Workers /\ v # w
    OBVIOUS
  <2>2. CASE p.token = work[w].token
    BY <1>4, <2>1, <2>2 DEF Backup!TokensDiffer
  <2>3. CASE p.token = count.works + 1
    BY <1>1, <1>2, <2>1, <2>3
  <2>4. QED
    BY <1>4, <2>2, <2>3
<1>5. ASSUME NEW v \in Backup!Workers, NEW u \in Backup!Workers,
             work'[v].token = work'[u].token, work'[v].token > 0
      PROVE  v = u
  <2>1. CASE v # w /\ u # w
    BY <1>1, <1>5, <2>1 DEF Backup!TokensDiffer
  <2>2. CASE v = w /\ u # w
    BY <1>1, <1>4, <1>5, <2>2
  <2>3. CASE v # w /\ u = w
    BY <1>1, <1>4, <1>5, <2>3
  <2>4. QED
    BY <2>1, <2>2, <2>3
<1>6. QED
  BY <1>3, <1>5 DEF Backup!TokensDiffer, Backup!Workers

\* Until a lock goes stale, who is past it has its token: who is let in had none before, and nobody else
\* had it.
LEMMA LockStays ==
  ASSUME Backup!Typed, Backup!LockKept, NEW w \in Backup!Workers, NEW p \in Backup!Works,
         Backup!Becomes(w, p), lock' = lock, ~count'.staled => ~count.staled,
         ~count.staled => p.at \notin {"compare", "unlink"},
         p.at \in Backup!Past => work[w].at \in Backup!Past /\ p.token = work[w].token
  PROVE  Backup!LockKept'
<1>1. /\ work \in [Backup!Workers -> Backup!Works]
      /\ work'[w] = p /\ \A v \in Backup!Workers \ {w} : work'[v] = work[v]
  BY WorkerMoves DEF Backup!Typed
<1>2. SUFFICES ASSUME ~count'.staled PROVE Backup!LockKept'
  BY DEF Backup!LockKept
<1>3. ~count.staled
  BY <1>2
<1>4. \A v \in Backup!Workers :
        /\ work'[v].at \in Backup!Past => work[v].at \in Backup!Past /\ work'[v].token = work[v].token
        /\ work'[v].at \notin {"compare", "unlink"}
  BY <1>1, <1>3 DEF Backup!LockKept
<1>5. ~lock'.stale /\ \A v \in Backup!Workers : work'[v].at \in Backup!Past => lock'.token = work'[v].token
  BY <1>3, <1>4 DEF Backup!LockKept
<1>6. QED
  BY <1>4, <1>5 DEF Backup!LockKept, Backup!Workers, Backup!Past

\* A worker that finds no lock: nobody is past it, for they would have it.
LEMMA LockTaken ==
  ASSUME Backup!Typed, Backup!TokensDiffer, Backup!LockKept, NEW w \in Backup!Workers, NEW p \in Backup!Works,
         Backup!Becomes(w, p), ~count'.staled => ~count.staled,
         lock.token = 0, lock'.token = work[w].token, ~lock'.stale, p.at \notin {"compare", "unlink"},
         p.at \in Backup!Past => p.token = work[w].token
  PROVE  Backup!LockKept'
<1>1. /\ work \in [Backup!Workers -> Backup!Works]
      /\ work'[w] = p /\ \A v \in Backup!Workers \ {w} : work'[v] = work[v]
  BY WorkerMoves DEF Backup!Typed
<1>2. SUFFICES ASSUME ~count'.staled PROVE Backup!LockKept'
  BY DEF Backup!LockKept
<1>3. ~count.staled
  BY <1>2
<1>4. \A v \in Backup!Workers : work[v].at \notin Backup!Past
  <2> SUFFICES ASSUME NEW v \in Backup!Workers, work[v].at \in Backup!Past PROVE FALSE
    OBVIOUS
  <2>1. work[v].token = 0 /\ work[v].at # "idle"
    BY <1>3 DEF Backup!LockKept, Backup!Past
  <2>2. QED
    BY <2>1 DEF Backup!TokensDiffer
<1>5. \A v \in Backup!Workers : /\ work'[v].at \in Backup!Past => lock'.token = work'[v].token
                                /\ work'[v].at \notin {"compare", "unlink"}
  BY <1>1, <1>3, <1>4 DEF Backup!LockKept
<1>6. QED
  BY <1>1, <1>5 DEF Backup!LockKept, Backup!Workers, Backup!Past

\* A worker that gives the lock back: it was its own, and nobody else is past it.
LEMMA LockGiven ==
  ASSUME Backup!Typed, Backup!TokensDiffer, Backup!LockKept, NEW w \in Backup!Workers, NEW p \in Backup!Works,
         Backup!Becomes(w, p), ~count'.staled => ~count.staled,
         lock' = IF lock.token = work[w].token THEN Backup!NoLock ELSE lock,
         work[w].at \in Backup!Past, p.at \notin Backup!Past \cup {"compare", "unlink"}
  PROVE  Backup!LockKept'
<1>1. /\ work \in [Backup!Workers -> Backup!Works]
      /\ work'[w] = p /\ \A v \in Backup!Workers \ {w} : work'[v] = work[v]
  BY WorkerMoves DEF Backup!Typed
<1>2. SUFFICES ASSUME ~count'.staled PROVE Backup!LockKept'
  BY DEF Backup!LockKept
<1>3. ~count.staled
  BY <1>2
<1>4. lock' = Backup!NoLock
  BY <1>3 DEF Backup!LockKept
<1>5. lock'.token = 0 /\ ~lock'.stale
  BY <1>4 DEF Backup!NoLock
<1>6. ASSUME NEW v \in Backup!Workers \ {w} PROVE work[v].at \notin Backup!Past
  <2> SUFFICES ASSUME work[v].at \in Backup!Past PROVE FALSE
    OBVIOUS
  <2>1. work[v].token = work[w].token
    BY <1>3 DEF Backup!LockKept
  <2>2. work[v].token > 0
    BY DEF Backup!TokensDiffer, Backup!Past
  <2>3. QED
    BY <2>1, <2>2 DEF Backup!TokensDiffer
<1>7. \A v \in Backup!Workers : work'[v].at \notin Backup!Past /\ work'[v].at \notin {"compare", "unlink"}
  BY <1>1, <1>3, <1>6 DEF Backup!LockKept
<1>8. QED
  BY <1>5, <1>7 DEF Backup!LockKept, Backup!Workers, Backup!Past

\* The lock's heartbeat runs on while its worker stays past it.
LEMMA BeatsOn ==
  ASSUME Backup!Typed, Backup!Refreshed, NEW w \in Backup!Workers, NEW p \in Backup!Works,
         Backup!Becomes(w, p), lock'.token = lock.token, count'.staled = count.staled,
         count'.kills = 0 /\ count'.left = 0 => count.kills = 0 /\ count.left = 0,
         count'.kills = 0 /\ count'.left = 0 /\ work[w].at \in Backup!Past /\ work[w].token = lock.token =>
           p.at \in Backup!Past /\ p.token = work[w].token
  PROVE  Backup!Refreshed'
<1>1. /\ work \in [Backup!Workers -> Backup!Works]
      /\ work'[w] = p /\ \A v \in Backup!Workers \ {w} : work'[v] = work[v]
  BY WorkerMoves DEF Backup!Typed
<1>2. SUFFICES ASSUME count'.kills = 0, count'.left = 0
               PROVE  ~count'.staled /\ (lock'.token # 0 => Backup!Beating' # {})
  BY DEF Backup!Refreshed
<1>3. ~count.staled /\ (lock.token # 0 => Backup!Beating # {})
  BY <1>2 DEF Backup!Refreshed
<1>4. CASE lock'.token = 0
  BY <1>3, <1>4
<1>5. CASE lock'.token # 0
  <2>1. PICK v \in Backup!Workers : work[v].at \in Backup!Past /\ work[v].token = lock.token
    BY <1>3, <1>5 DEF Backup!Beating
  <2>2. work'[v].at \in Backup!Past /\ work'[v].token = lock'.token
    <3>1. CASE v = w
      BY <1>1, <1>2, <2>1, <3>1
    <3>2. CASE v # w
      BY <1>1, <2>1, <3>2
    <3>3. QED
      BY <3>1, <3>2
  <2>3. v \in Backup!Beating'
    BY <2>2 DEF Backup!Beating, Backup!Workers, Backup!Past
  <2>4. QED
    BY <1>3, <2>3
<1>6. QED
  BY <1>4, <1>5

\* A worker that goes on with its work or leaves it, and keeps the lock if it has it, unless it is killed.
LEMMA GoesOnKeeps ==
  ASSUME Backup!Typed, Backup!LockInv, NEW w \in Backup!Workers, NEW p \in Backup!Works, Backup!Becomes(w, p),
         lock' = lock, count' \in Backup!Counts, count'.staled = count.staled,
         count'.kills = 0 /\ count'.left = 0 => count.kills = 0 /\ count.left = 0,
         \/ p.token \in {0, work[w].token} /\ count'.works = count.works
         \/ p.token = count.works + 1 /\ count'.works = count.works + 1,
         p.at # "idle" => p.token > 0,
         ~count.staled => p.at \notin {"compare", "unlink"},
         p.at \in Backup!Past => work[w].at \in Backup!Past /\ p.token = work[w].token,
         count'.kills = 0 /\ work[w].at \in Backup!Past => p.at \in Backup!Past /\ p.token = work[w].token
  PROVE  Backup!LockInv'
<1>1. Backup!TokensDiffer'
  BY TokensKeep DEF Backup!LockInv
<1>2. Backup!LockKept'
  BY LockStays DEF Backup!LockInv
<1>3. Backup!Refreshed'
  BY BeatsOn DEF Backup!LockInv
<1>4. QED
  BY <1>1, <1>2, <1>3 DEF Backup!LockInv

\* A worker that goes somewhere else on its side of the lock.
LEMMA MovesKeeps ==
  ASSUME Backup!Typed, Backup!LockInv, NEW w \in Backup!Workers, NEW there \in Places, Backup!Goes(w, there),
         lock' = lock, work[w].at # "idle",
         count' \in Backup!Counts, count'.kills = count.kills, count'.works = count.works,
         count'.left = count.left, count'.staled = count.staled,
         there \notin {"compare", "unlink"} \/ count.staled,
         there \in Backup!Past <=> work[w].at \in Backup!Past
  PROVE  Backup!LockInv'
<1> DEFINE q == Backup!At(work[w], there)
<1>1. work[w] \in Backup!Works
  BY DEF Backup!Typed
<1>2. q \in Backup!Works /\ q.at = there /\ q.token = work[w].token /\ Backup!Becomes(w, q)
  BY <1>1, WorkGoes DEF Backup!Goes
<1> HIDE DEF q
<1>3. q.token > 0
  BY <1>2 DEF Backup!LockInv, Backup!TokensDiffer
<1>4. QED
  BY <1>2, <1>3, GoesOnKeeps

\* A worker that leaves without the lock, or is killed.
LEMMA GoneKeeps ==
  ASSUME Backup!Typed, Backup!LockInv, NEW w \in Backup!Workers, Backup!Leaves(w), lock' = lock,
         count' \in Backup!Counts, count'.works = count.works, count'.left = count.left,
         count'.staled = count.staled,
         count'.kills = 0 => count.kills = 0 /\ work[w].at \notin Backup!Past
  PROVE  Backup!LockInv'
<1> DEFINE p == Backup!Idle
<1>1. p \in Backup!Works /\ p.at = "idle" /\ p.token = 0 /\ Backup!Becomes(w, p)
  BY WorkIdle DEF Backup!Leaves
<1> HIDE DEF p
<1>2. p.at \notin Backup!Past /\ p.at \notin {"compare", "unlink"}
  BY <1>1 DEF Backup!Past
<1>3. QED
  BY <1>1, <1>2, GoesOnKeeps

\* Giving up, a worker leaves, and the scheduler is past the lock's part of its work.
LEMMA GaveUp ==
  ASSUME Backup!Typed, Backup!TokensDiffer, NEW w \in Backup!Workers, Backup!GivesUp(w), work[w].at # "idle"
  PROVE  \E p \in Backup!Works : /\ Backup!Becomes(w, p) /\ p.at \in {"idle", "failed"}
                                 /\ p.token \in {0, work[w].token} /\ (p.at # "idle" => p.token > 0)
<1>1. work[w] \in Backup!Works /\ "failed" \in Places
  BY DEF Backup!Typed, Places
<1>2. CASE w = Scheduler
  <2> DEFINE q == Backup!At(work[w], "failed")
  <2>1. q \in Backup!Works /\ q.at = "failed" /\ q.token = work[w].token /\ Backup!Becomes(w, q)
    BY <1>1, <1>2, WorkGoes DEF Backup!GivesUp, Backup!Goes
  <2> HIDE DEF q
  <2>2. q.token > 0
    BY <2>1 DEF Backup!TokensDiffer
  <2>3. QED
    BY <2>1, <2>2
<1>3. CASE w # Scheduler
  <2> DEFINE q == Backup!Idle
  <2>1. q \in Backup!Works /\ q.at = "idle" /\ q.token = 0 /\ Backup!Becomes(w, q)
    BY <1>3, WorkIdle DEF Backup!GivesUp, Backup!Leaves
  <2> HIDE DEF q
  <2>2. QED
    BY <2>1
<1>4. QED
  BY <1>2, <1>3

\* A work begins on this side of the lock, with a token of its own.
LEMMA BegunKeeps ==
  ASSUME Backup!Typed, Backup!LockInv, NEW w \in Backup!Workers,
         NEW does \in {"none", "scheduled", "manual", "restore"},
         NEW from, from.key \in AppKeys, from.good \in BOOLEAN, Backup!Begins(w, does, from)
  PROVE  Backup!LockInv'
<1> DEFINE p == Backup!Work("stat", does, count.works + 1, count.now, from)
<1>1. /\ work[w].at = "idle" /\ count' = [count EXCEPT !.works = @ + 1] /\ Backup!Becomes(w, p)
      /\ lock' = lock
  BY DEF Backup!Begins
<1>2. count \in Backup!Counts
  BY DEF Backup!Typed
<1>3. /\ count' \in Backup!Counts /\ count'.works = count.works + 1 /\ count'.kills = count.kills
      /\ count'.left = count.left /\ count'.staled = count.staled /\ count.works \in Nat
  BY <1>1, <1>2 DEF Backup!Counts
<1>4. p \in Backup!Works /\ p.at = "stat" /\ p.token = count.works + 1
  <2>1. "stat" \in Places /\ count.works + 1 \in Nat /\ count.now \in Nat /\ 0 \in Nat /\ FALSE \in BOOLEAN
    BY <1>2 DEF Places, Backup!Counts
  <2>2. QED
    BY <2>1 DEF Backup!Work, Backup!Works, Places
<1> HIDE DEF p
<1>5. p.at \notin Backup!Past /\ work[w].at \notin Backup!Past /\ p.at \notin {"compare", "unlink"}
  BY <1>1, <1>4 DEF Backup!Past
<1>6. p.token > 0
  BY <1>3, <1>4
<1>7. QED
  BY <1>1, <1>3, <1>4, <1>5, <1>6, GoesOnKeeps

\* A worker that gives the lock back, and goes on without it.
LEMMA GivenBackKeeps ==
  ASSUME Backup!Typed, Backup!LockInv, NEW w \in Backup!Workers, NEW p \in Backup!Works, Backup!Becomes(w, p),
         count' = count, p.token \in {0, work[w].token}, p.at # "idle" => p.token > 0,
         lock' = IF lock.token = work[w].token THEN Backup!NoLock ELSE lock,
         work[w].at \in Backup!Past, p.at \notin Backup!Past \cup {"compare", "unlink"}
  PROVE  Backup!LockInv'
<1>1. count \in Backup!Counts
  BY DEF Backup!Typed
<1>2. Backup!TokensDiffer'
  BY <1>1, TokensKeep DEF Backup!LockInv
<1>3. Backup!LockKept'
  BY LockGiven DEF Backup!LockInv
<1>4. Backup!Refreshed'
  <2>1. CASE lock.token = work[w].token
    <3>1. lock'.token = 0
      BY <2>1 DEF Backup!NoLock
    <3>2. QED
      BY <3>1 DEF Backup!LockInv, Backup!Refreshed
  <2>2. CASE lock.token # work[w].token
    BY <2>2, BeatsOn DEF Backup!LockInv
  <2>3. QED
    BY <2>1, <2>2
<1>5. QED
  BY <1>2, <1>3, <1>4 DEF Backup!LockInv

\* Who begins what: the scheduler and the scripts, with this install's key or a backup's.
LEMMA BackupBegins ==
  ASSUME Backup!Typed, Backup!Ticks \/ \E w \in Scripts : Backup!Creates(w) \/ Backup!Restores(w)
  PROVE  \E w \in Backup!Workers, does \in {"none", "scheduled", "manual", "restore"},
            from \in Elsewhere \cup {[key |-> k, good |-> TRUE] : k \in AppKeys} :
              Backup!Begins(w, does, from)
<1> DEFINE Froms == Elsewhere \cup {[key |-> k, good |-> TRUE] : k \in AppKeys}
<1>1. keys.env \in AppKeys /\ \A b \in folder : b.key \in AppKeys
  BY DEF Backup!Typed
<1>2. /\ [key |-> keys.env, good |-> TRUE] \in Froms /\ Elsewhere \subseteq Froms
      /\ \A b \in folder : [key |-> b.key, good |-> TRUE] \in Froms
  BY <1>1
<1>3. Scheduler \in Backup!Workers /\ Scripts \subseteq Backup!Workers
  BY DEF Backup!Workers
<1> HIDE DEF Froms
<1>4. \E w \in Backup!Workers, does \in {"none", "scheduled", "manual", "restore"}, from \in Froms :
        Backup!Begins(w, does, from)
  <2>1. CASE Backup!Ticks
    BY <1>2, <1>3, <2>1 DEF Backup!Ticks
  <2>2. ASSUME NEW w \in Scripts, Backup!Creates(w)
        PROVE  \E from \in Froms : Backup!Begins(w, "manual", from)
    BY <1>2, <2>2 DEF Backup!Creates
  <2>3. ASSUME NEW w \in Scripts, Backup!Restores(w)
        PROVE  \E from \in Froms : Backup!Begins(w, "restore", from)
    <3>1. PICK from \in Elsewhere \cup {[key |-> b.key, good |-> TRUE] : b \in folder} :
            Backup!Begins(w, "restore", from)
      BY <2>3 DEF Backup!Restores
    <3>2. from \in Froms
      <4>1. CASE from \in Elsewhere
        BY <1>2, <4>1
      <4>2. CASE from \notin Elsewhere
        <5>1. PICK b \in folder : from = [key |-> b.key, good |-> TRUE]
          BY <3>1, <4>2
        <5>2. QED
          BY <1>2, <5>1
      <4>3. QED
        BY <4>1, <4>2
    <3>3. QED
      BY <3>1, <3>2
  <2>4. QED
    BY <1>3, <2>1, <2>2, <2>3
<1>5. QED
  BY <1>4 DEF Froms

\* A worker's step keeps the lock's invariant.
LEMMA LockStep ==
  ASSUME Backup!Typed, Backup!LockInv, NEW w \in Backup!Workers, Backup!Step(w)
  PROVE  Backup!LockInv'
<1>1. /\ work[w] \in Backup!Works /\ lock \in [token : Nat, stale : BOOLEAN] /\ count \in Backup!Counts
      /\ Backup!TokensDiffer /\ Backup!LockKept /\ Backup!Refreshed
  BY DEF Backup!Typed, Backup!LockInv
<1>2. CASE Backup!Stats(w)
  <2> DEFINE q == Backup!Saw(work[w])
  <2>1. q \in Backup!Works /\ q.at \in {"compare", "open"} /\ q.token = work[w].token
    BY <1>1, WorkSaw
  <2>2. ~count.staled => q.at = "open"
    BY <1>1 DEF Backup!Saw, Backup!LockKept, Backup!Works
  <2>3. work[w].at = "stat" /\ Backup!Becomes(w, q) /\ lock' = lock /\ count' = count
    BY <1>2 DEF Backup!Stats
  <2> HIDE DEF q
  <2>4. q.at \notin Backup!Past /\ work[w].at \notin Backup!Past /\ q.token > 0
    BY <1>1, <2>1, <2>3 DEF Backup!Past, Backup!TokensDiffer
  <2>5. QED
    BY <1>1, <2>1, <2>2, <2>3, <2>4, GoesOnKeeps
<1>3. CASE Backup!Compares(w)
  <2>1. PICK there \in {"unlink", "open"} : Backup!Goes(w, there)
    BY <1>3 DEF Backup!Compares
  <2>2. work[w].at = "compare" /\ lock' = lock /\ count' = count /\ count.staled
    BY <1>1, <1>3 DEF Backup!Compares, Backup!LockKept
  <2>3. there \in Places /\ there \notin Backup!Past /\ work[w].at \notin Backup!Past
    BY <2>2 DEF Places, Backup!Past
  <2>4. QED
    BY <1>1, <2>1, <2>2, <2>3, MovesKeeps
<1>4. CASE Backup!Unlinks(w)
  <2> DEFINE q == Backup!At(work[w], "open")
  <2>1. "open" \in Places /\ work[w].at = "unlink" /\ count' = count /\ Backup!Becomes(w, q)
    BY <1>4 DEF Backup!Unlinks, Backup!Goes, Places
  <2>2. count'.staled /\ ~(count'.kills = 0 /\ count'.left = 0)
    BY <1>1, <2>1 DEF Backup!LockKept, Backup!Refreshed
  <2>3. q \in Backup!Works /\ q.token = work[w].token
    BY <1>1, <2>1, WorkGoes
  <2> HIDE DEF q
  <2>4. q.token > 0
    BY <1>1, <2>1, <2>3 DEF Backup!TokensDiffer
  <2>5. Backup!TokensDiffer'
    BY <1>1, <2>1, <2>3, <2>4, TokensKeep
  <2>6. QED
    BY <2>2, <2>5 DEF Backup!LockInv, Backup!LockKept, Backup!Refreshed
<1>5. CASE Backup!Opens(w)
  <2>1. work[w].at = "open" /\ work[w].at \notin Backup!Past /\ count' = count
    BY <1>5 DEF Backup!Opens, Backup!Past
  <2>2. CASE lock.token # 0
    <3>1. Backup!GivesUp(w) /\ lock' = lock
      BY <1>5, <2>2 DEF Backup!Opens, Backup!LockFree
    <3>2. PICK p \in Backup!Works : /\ Backup!Becomes(w, p) /\ p.at \in {"idle", "failed"}
                                    /\ p.token \in {0, work[w].token} /\ (p.at # "idle" => p.token > 0)
      BY <1>1, <2>1, <3>1, GaveUp
    <3>3. p.at \notin Backup!Past \cup {"compare", "unlink"}
      BY <3>2 DEF Backup!Past
    <3>4. QED
      BY <1>1, <2>1, <3>1, <3>2, <3>3, GoesOnKeeps
  <2>3. CASE lock.token = 0
    <3>1. PICK there \in {"key", "dump"} : Backup!Goes(w, there)
      BY <1>5, <2>3 DEF Backup!Opens, Backup!LockFree
    <3> DEFINE q == Backup!At(work[w], there)
    <3>2. there \in Places /\ there \in Backup!Past /\ there \notin {"compare", "unlink"}
      BY DEF Places, Backup!Past
    <3>3. q \in Backup!Works /\ q.at = there /\ q.token = work[w].token /\ Backup!Becomes(w, q)
      BY <1>1, <3>1, <3>2, WorkGoes DEF Backup!Goes
    <3> HIDE DEF q
    <3>4. lock'.token = work[w].token /\ ~lock'.stale
      <4>1. lock' = [token |-> work[w].token, stale |-> FALSE]
        BY <1>5, <2>3 DEF Backup!Opens, Backup!LockFree
      <4>2. QED
        BY <4>1
    <3>5. q.token > 0
      BY <1>1, <2>1, <3>3 DEF Backup!TokensDiffer
    <3>6. Backup!TokensDiffer'
      BY <1>1, <2>1, <3>3, <3>5, TokensKeep
    <3>7. Backup!LockKept'
      BY <1>1, <2>1, <2>3, <3>2, <3>3, <3>4, LockTaken
    <3>8. w \in Backup!Beating'
      <4>1. work'[w] = q
        BY <3>3, WorkerMoves DEF Backup!Typed
      <4>2. QED
        BY <3>2, <3>3, <3>4, <4>1 DEF Backup!Beating, Backup!Workers, Backup!Past
    <3>9. Backup!Refreshed'
      BY <1>1, <2>1, <3>8 DEF Backup!Refreshed
    <3>10. QED
      BY <3>6, <3>7, <3>9 DEF Backup!LockInv
  <2>4. QED
    BY <2>2, <2>3
<1>6. CASE Backup!MakesNoLock(w)
  <2>1. /\ work[w].at = "open" /\ lock.token = 0 /\ lock' = [token |-> work[w].token, stale |-> FALSE]
        /\ count' = [count EXCEPT !.faults = @ + 1, !.left = @ + 1] /\ Backup!GivesUp(w)
    BY <1>6 DEF Backup!MakesNoLock, Backup!LockFree
  <2>2. count' \in Backup!Counts
    BY <1>1, <2>1, CountsStay
  <2>3. count'.works = count.works /\ count'.staled = count.staled /\ count'.left # 0
    BY <1>1, <2>1 DEF Backup!Counts
  <2>4. PICK p \in Backup!Works : /\ Backup!Becomes(w, p) /\ p.at \in {"idle", "failed"}
                                  /\ p.token \in {0, work[w].token} /\ (p.at # "idle" => p.token > 0)
    BY <1>1, <2>1, GaveUp
  <2>5. p.at \notin Backup!Past \cup {"compare", "unlink"}
    BY <2>4 DEF Backup!Past
  <2>6. Backup!TokensDiffer'
    BY <1>1, <2>2, <2>3, <2>4, TokensKeep
  <2>7. Backup!LockKept'
    <3>1. lock'.token = work[w].token /\ ~lock'.stale
      BY <2>1
    <3>2. QED
      BY <1>1, <2>1, <2>3, <2>4, <2>5, <3>1, LockTaken
  <2>8. QED
    BY <2>3, <2>6, <2>7 DEF Backup!LockInv, Backup!Refreshed
<1>7. CASE Backup!Releases(w)
  <2>1. /\ work[w].at \in {"published", "release"} /\ work[w].at \in Backup!Past /\ count' = count
        /\ work[w].at # "idle"
        /\ lock' = IF lock.token = work[w].token THEN Backup!NoLock ELSE lock
    BY <1>7 DEF Backup!Releases, Backup!Past
  <2>2. ASSUME NEW there \in {"prune", "restored"}, Backup!Goes(w, there) PROVE Backup!LockInv'
    <3> DEFINE q == Backup!At(work[w], there)
    <3>1. there \in Places /\ there \notin Backup!Past \cup {"compare", "unlink"}
      BY DEF Places, Backup!Past
    <3>2. q \in Backup!Works /\ q.at = there /\ q.token = work[w].token /\ Backup!Becomes(w, q)
      BY <1>1, <2>2, <3>1, WorkGoes DEF Backup!Goes
    <3> HIDE DEF q
    <3>3. q.token > 0
      BY <1>1, <2>1, <3>2 DEF Backup!TokensDiffer
    <3>4. QED
      BY <2>1, <3>1, <3>2, <3>3, GivenBackKeeps
  <2>3. CASE Backup!GivesUp(w)
    <3>1. PICK p \in Backup!Works : /\ Backup!Becomes(w, p) /\ p.at \in {"idle", "failed"}
                                    /\ p.token \in {0, work[w].token} /\ (p.at # "idle" => p.token > 0)
      BY <1>1, <2>1, <2>3, GaveUp
    <3>2. p.at \notin Backup!Past \cup {"compare", "unlink"}
      BY <3>1 DEF Backup!Past
    <3>3. QED
      BY <2>1, <3>1, <3>2, GivenBackKeeps
  <2>4. Backup!AfterRelease(w) \in {"prune", "restored", "none"}
    BY DEF Backup!AfterRelease
  <2>5. QED
    BY <1>7, <2>2, <2>3, <2>4 DEF Backup!Releases
<1>8. CASE Backup!Publishes(w)
  <2>1. PICK there \in {"published", "release"} : Backup!Goes(w, there)
    BY <1>8 DEF Backup!Publishes
  <2>2. /\ work[w].at = "dump" /\ lock' = lock /\ count' = count
        /\ there \in Places /\ there \in Backup!Past /\ work[w].at \in Backup!Past
    BY <1>8 DEF Backup!Publishes, Places, Backup!Past
  <2>3. QED
    BY <1>1, <2>1, <2>2, MovesKeeps
<1>9. CASE Backup!CreateFails(w)
  <2>1. /\ Backup!Goes(w, "release") /\ work[w].at = "dump" /\ lock' = lock
        /\ count' = [count EXCEPT !.faults = @ + 1]
        /\ "release" \in Places /\ "release" \in Backup!Past /\ work[w].at \in Backup!Past
    BY <1>9 DEF Backup!CreateFails, Places, Backup!Past
  <2>2. QED
    BY <1>1, <2>1, FaultCounted, MovesKeeps
<1>10. CASE Backup!HandsOver(w)
  <2>1. /\ Backup!Goes(w, "commit") /\ work[w].at = "key" /\ lock' = lock /\ count' = count
        /\ "commit" \in Places /\ "commit" \in Backup!Past /\ work[w].at \in Backup!Past
    BY <1>10 DEF Backup!HandsOver, Places, Backup!Past
  <2>2. QED
    BY <1>1, <2>1, MovesKeeps
<1>11. CASE Backup!Commits(w)
  <2> DEFINE q == Backup!Restored(work[w])
  <2>1. q \in Backup!Works /\ q.at = "files" /\ q.token = work[w].token
    BY <1>1, WorkRestored
  <2>2. /\ Backup!Becomes(w, q) /\ work[w].at = "commit" /\ lock' = lock /\ count' = count
    BY <1>11 DEF Backup!Commits
  <2> HIDE DEF q
  <2>3. /\ q.at \in Backup!Past /\ work[w].at \in Backup!Past /\ q.at \notin {"compare", "unlink"}
        /\ q.token > 0
    BY <1>1, <2>1, <2>2 DEF Backup!Past, Backup!TokensDiffer
  <2>4. QED
    BY <1>1, <2>1, <2>2, <2>3, GoesOnKeeps
<1>12. CASE Backup!RestoreFails(w)
  <2>1. /\ Backup!Goes(w, "release") /\ work[w].at # "idle" /\ lock' = lock
        /\ count' = count \/ count' = [count EXCEPT !.faults = @ + 1]
        /\ "release" \in Places /\ "release" \in Backup!Past /\ work[w].at \in Backup!Past
    BY <1>12 DEF Backup!RestoreFails, Places, Backup!Past
  <2>2. /\ count' \in Backup!Counts /\ count'.kills = count.kills /\ count'.works = count.works
        /\ count'.left = count.left /\ count'.staled = count.staled
    BY <1>1, <2>1, FaultCounted
  <2>3. QED
    BY <2>1, <2>2, MovesKeeps
<1>13. CASE Backup!CommitAnswerLost(w)
  <2>1. /\ Backup!Goes(w, "release") /\ work[w].at = "commit" /\ lock' = lock
        /\ count' = [count EXCEPT !.faults = @ + 1, !.cut = @ + 1]
        /\ "release" \in Places /\ "release" \in Backup!Past /\ work[w].at \in Backup!Past
    BY <1>13 DEF Backup!CommitAnswerLost, Places, Backup!Past
  <2>2. count' \in Backup!Counts
    BY <1>1, <2>1, CountsStay
  <2>3. /\ count'.kills = count.kills /\ count'.works = count.works
        /\ count'.left = count.left /\ count'.staled = count.staled
    BY <1>1, <2>1 DEF Backup!Counts
  <2>4. QED
    BY <2>1, <2>2, <2>3, MovesKeeps
<1>14. CASE Backup!RestoresFiles(w)
  <2>1. /\ Backup!Goes(w, "release") /\ work[w].at = "files" /\ lock' = lock /\ count' = count
        /\ "release" \in Places /\ "release" \in Backup!Past /\ work[w].at \in Backup!Past
    BY <1>14 DEF Backup!RestoresFiles, Places, Backup!Past
  <2>2. QED
    BY <1>1, <2>1, MovesKeeps
<1>15. CASE Backup!SavesKey(w)
  <2>1. Backup!Leaves(w) /\ work[w].at \notin Backup!Past /\ lock' = lock /\ count' = count
    BY <1>15 DEF Backup!SavesKey, Backup!Past
  <2>2. QED
    BY <1>1, <2>1, GoneKeeps
<1>16. CASE Backup!Killed(w)
  <2> DEFINE n == IF work[w].done THEN count.cut + 1 ELSE count.cut
  <2>1. /\ Backup!Leaves(w) /\ lock' = lock /\ count' = [count EXCEPT !.kills = @ + 1, !.cut = n]
    BY <1>16 DEF Backup!Killed
  <2>2. n \in Nat
    BY <1>1, CountFields
  <2> HIDE DEF n
  <2>3. count' \in Backup!Counts
    BY <1>1, <2>1, <2>2, CountsStay
  <2>4. /\ count'.kills # 0 /\ count'.works = count.works /\ count'.left = count.left
        /\ count'.staled = count.staled
    BY <1>1, <2>1 DEF Backup!Counts
  <2>5. QED
    BY <2>1, <2>3, <2>4, GoneKeeps
<1>17. QED
  BY <1>2, <1>3, <1>4, <1>5, <1>6, <1>7, <1>8, <1>9, <1>10, <1>11, <1>12, <1>13, <1>14, <1>15, <1>16
  DEF Backup!Step

\* Every step of the backups keeps it.
LEMMA LockNext ==
  ASSUME Backup!Typed, Backup!LockInv, Backup!Next \/ UNCHANGED backupVars
  PROVE  Backup!LockInv'
<1>1. /\ lock \in [token : Nat, stale : BOOLEAN] /\ keys.env \in AppKeys /\ count \in Backup!Counts
      /\ Backup!TokensDiffer /\ Backup!LockKept /\ Backup!Refreshed
      /\ work \in [Backup!Workers -> Backup!Works] /\ Scheduler \in Backup!Workers
  BY DEF Backup!Typed, Backup!LockInv, Backup!Workers
<1>2. ASSUME work' = work, lock' = lock, count'.kills = count.kills, count'.works = count.works,
             count'.left = count.left, count'.staled = count.staled
      PROVE  Backup!LockInv'
  BY <1>1, <1>2 DEF Backup!LockInv, Backup!TokensDiffer, Backup!LockKept, Backup!Refreshed, Backup!Beating,
     Backup!Workers, Backup!Past
<1>3. CASE UNCHANGED backupVars
  BY <1>2, <1>3 DEF backupVars
<1>4. CASE Backup!Time
  <2>1. work' = work /\ lock' = lock /\ count' = [count EXCEPT !.now = @ + 1]
    BY <1>4 DEF Backup!Time
  <2>2. /\ count'.kills = count.kills /\ count'.works = count.works /\ count'.left = count.left
        /\ count'.staled = count.staled
    BY <1>1, <2>1 DEF Backup!Counts
  <2>3. QED
    BY <1>2, <2>1, <2>2
<1>5. CASE Backup!GoesStale
  <2>1. /\ lock.token # 0 /\ work' = work
        /\ \/ Backup!Beating = {} /\ count' = [count EXCEPT !.staled = TRUE]
           \/ count' = [count EXCEPT !.staled = TRUE, !.faults = @ + 1, !.left = @ + 1]
    BY <1>5 DEF Backup!GoesStale
  <2>2. count'.works = count.works /\ count'.staled /\ ~(count'.kills = 0 /\ count'.left = 0)
    <3>1. CASE Backup!Beating = {} /\ count' = [count EXCEPT !.staled = TRUE]
      <4>1. ~(count.kills = 0 /\ count.left = 0)
        BY <1>1, <2>1, <3>1 DEF Backup!Refreshed
      <4>2. QED
        BY <1>1, <3>1, <4>1 DEF Backup!Counts
    <3>2. CASE count' = [count EXCEPT !.staled = TRUE, !.faults = @ + 1, !.left = @ + 1]
      BY <1>1, <3>2 DEF Backup!Counts
    <3>3. QED
      BY <2>1, <3>1, <3>2
  <2>3. Backup!TokensDiffer'
    BY <1>1, <2>1, <2>2 DEF Backup!TokensDiffer, Backup!Workers
  <2>4. QED
    BY <2>2, <2>3 DEF Backup!LockInv, Backup!LockKept, Backup!Refreshed
<1>6. CASE Backup!Prunes
  <2>1. PICK there \in {"pruned", "failed"} :
          /\ Backup!Goes(Scheduler, there) /\ work[Scheduler].at = "prune" /\ lock' = lock
          /\ count' = count \/ count' = [count EXCEPT !.faults = @ + 1]
    BY <1>6 DEF Backup!Prunes
  <2>2. there \in Places /\ there \notin Backup!Past /\ work[Scheduler].at \notin Backup!Past
    BY <2>1 DEF Places, Backup!Past
  <2>3. QED
    BY <1>1, <2>1, <2>2, FaultCounted, MovesKeeps
<1>7. CASE Backup!Notes
  <2>1. Backup!Leaves(Scheduler) /\ lock' = lock /\ count' = count /\ work[Scheduler].at \notin Backup!Past
    BY <1>7 DEF Backup!Notes, Backup!Past
  <2>2. QED
    BY <1>1, <2>1, GoneKeeps
<1>8. CASE Backup!Ticks \/ \E w \in Scripts : Backup!Creates(w) \/ Backup!Restores(w)
  <2>1. PICK w \in Backup!Workers, does \in {"none", "scheduled", "manual", "restore"},
             from \in Elsewhere \cup {[key |-> k, good |-> TRUE] : k \in AppKeys} :
               Backup!Begins(w, does, from)
    BY <1>1, <1>8, BackupBegins
  <2>2. from.key \in AppKeys /\ from.good \in BOOLEAN
    <3>1. CASE from \in Elsewhere
      BY <3>1, BackupsAssumption
    <3>2. CASE from \notin Elsewhere
      <4>1. PICK k \in AppKeys : from = [key |-> k, good |-> TRUE]
        BY <2>1, <3>2
      <4>2. QED
        BY <4>1
    <3>3. QED
      BY <3>1, <3>2
  <2>3. QED
    BY <2>1, <2>2, BegunKeeps
<1>9. CASE \E w \in Backup!Workers : Backup!Step(w)
  BY <1>9, LockStep
<1>10. QED
  BY <1>3, <1>4, <1>5, <1>6, <1>7, <1>8, <1>9 DEF Backup!Next

\* Two workers past the lock would have its token both.
LEMMA OneHolder == Backup!LockInv => Backup!OneWorks
<1> SUFFICES ASSUME Backup!LockInv
             PROVE  /\ ~count.staled => Cardinality(Backup!Inside) <= 1
                    /\ count.kills = 0 /\ count.left = 0 => ~count.staled
  BY SameSizeOfBackups DEF Backup!OneWorks, Backup!OneAtATime
<1>1. ASSUME ~count.staled PROVE \A v, w \in Backup!Inside : v = w
  <2> SUFFICES ASSUME NEW v \in Backup!Inside, NEW w \in Backup!Inside PROVE v = w
    OBVIOUS
  <2>1. /\ v \in Backup!Workers /\ work[v].at \in Backup!Past /\ work[v].at # "idle"
        /\ w \in Backup!Workers /\ work[w].at \in Backup!Past
    BY DEF Backup!Inside, Backup!Past
  <2>2. work[v].token = lock.token /\ work[w].token = lock.token /\ work[v].token > 0
    BY <1>1, <2>1 DEF Backup!LockInv, Backup!LockKept, Backup!TokensDiffer
  <2>3. QED
    BY <2>1, <2>2 DEF Backup!LockInv, Backup!TokensDiffer
<1>2. QED
  BY <1>1, AtMostOne DEF Backup!LockInv, Backup!Refreshed

\* At first there is no lock, and nobody works.
LEMMA LockFirst == Backup!Init => Backup!LockInv
<1> SUFFICES ASSUME Backup!Init PROVE Backup!LockInv
  OBVIOUS
<1> DEFINE p == Backup!Idle
<1>1. p.at = "idle" /\ p.token = 0
  BY WorkIdle
<1>2. work = [w \in Backup!Workers |-> p]
  BY DEF Backup!Init
<1> HIDE DEF p
<1>3. lock = [token |-> 0, stale |-> FALSE] /\ count.works = 0
  BY DEF Backup!Init, Backup!NoLock
<1>4. \A w \in Backup!Workers : work[w].at = "idle" /\ work[w].token = 0
  BY <1>1, <1>2
<1>5. Backup!TokensDiffer
  BY <1>3, <1>4 DEF Backup!TokensDiffer
<1>6. Backup!LockKept /\ Backup!Refreshed
  BY <1>3, <1>4 DEF Backup!Init, Backup!LockKept, Backup!Refreshed, Backup!Past
<1>7. QED
  BY <1>5, <1>6 DEF Backup!LockInv

\* BackupsSafe: a scheduled time has one scheduled backup however often the app was stopped or a backup
\* failed, retention only deletes scheduled backups with Keep newer ones in the folder, a key at hand
\* decrypts the database through every restore until one is cut off from its commit, and one worker at
\* a time is past the lock until a lock goes stale, which none does before a process was killed or left
\* its lock (tick and prune of schedule.py, restore, restore_key and BackupLock of archive.py).
THEOREM BackupsKept == Spec => []BackupsSafe
<1> DEFINE Inv == part = "backups" => Backup!BackupInv /\ Backup!LockInv
<1>1. Init => Inv
  BY BackupFirst, LockFirst DEF Init
<1>2. Inv /\ [Next]_vars => Inv'
  <2> SUFFICES ASSUME Inv, [Next]_vars, part' = "backups" PROVE Backup!BackupInv' /\ Backup!LockInv'
    OBVIOUS
  <2>1. part = "backups" /\ (Backup!Next \/ UNCHANGED backupVars)
    BY DEF Next, vars
  <2>2. Backup!Typed
    BY <2>1 DEF Backup!BackupInv
  <2>3. QED
    BY <2>1, <2>2, BackupNext, LockNext
<1>3. Inv => BackupsSafe
  <2> SUFFICES ASSUME part = "backups", Backup!BackupInv, Backup!LockInv
               PROVE  /\ Backup!TypeOK /\ Backup!OncePerSlot /\ Backup!Retained /\ Backup!KeyAtHand
                      /\ Backup!OneWorks
    BY DEF BackupsSafe
  <2>1. Backup!TypeOK
    BY DEF Backup!BackupInv, Backup!Typed, Backup!TypeOK
  <2>2. Backup!KeyAtHand
    BY DEF Backup!BackupInv, Backup!KeyKept, Backup!KeyAtHand
  <2>3. QED
    BY <2>1, <2>2, OneHolder DEF Backup!BackupInv
<1>4. QED
  BY <1>1, <1>2, <1>3, PTL DEF Spec
=============================================================================
