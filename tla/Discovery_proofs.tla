--------------------------- MODULE Discovery_proofs --------------------------
(***************************************************************************)
(* Proofs about discoveries (Discovery), for any people's discoveries,     *)
(* addresses, sign-in threads, limit, create requests and bounds.          *)
(***************************************************************************)
EXTENDS Discovery, FiniteSetTheorems, WellFoundedInduction, TLAPS

\* The least of some addresses is one of them.
LEMMA LeastIsOne ==
  ASSUME NEW X \in SUBSET Addresses, X # {}
  PROVE  Min(X) \in X
<1> DEFINE Below(a) == {b \in Addresses : b < a}
           T == {Below(a) : a \in X}
           R == StrictSubsetOrdering(Addresses)
<1>1. IsWellFoundedOn(R, SUBSET Addresses)
  BY AddressesAssumption, FS_StrictSubsetOrderingWellFounded, FS_FiniteSubsetsOfFinite
<1>2. T \subseteq SUBSET Addresses /\ T # {}
  OBVIOUS
<1>3. PICK t \in T : \A y \in T : ~(<<y, t>> \in R)
  <2> HIDE DEF R, T
  <2>1. QED
    BY <1>1, <1>2, WFMin
<1>4. PICK a \in X : t = Below(a)
  BY <1>3
<1>5. \A b \in X : a <= b
  <2> SUFFICES ASSUME NEW b \in X, ~(a <= b) PROVE FALSE
    OBVIOUS
  <2>1. a \in Nat /\ b \in Nat /\ b < a
    BY AddressesAssumption
  <2>2. Below(b) \subseteq Below(a) /\ b \in Below(a) /\ b \notin Below(b)
    <3>1. ASSUME NEW c \in Addresses, c < b PROVE c < a
      <4>1. c \in Nat
        BY AddressesAssumption
      <4>2. QED
        BY <2>1, <3>1, <4>1
    <3>2. a \in Addresses /\ b \in Addresses /\ ~(b < b)
      BY <2>1
    <3>3. QED
      BY <2>1, <3>1, <3>2
  <2>3. <<Below(b), Below(a)>> \in R
    BY <2>2 DEF StrictSubsetOrdering
  <2>4. QED
    BY <1>3, <1>4, <2>3
<1>6. QED
  BY <1>4, <1>5 DEF Min

\* A thread of the pool and what it holds.
LEMMA ThreadFields ==
  ASSUME NEW t \in Threads
  PROVE  /\ t.at \in {"gone", "unborn", "idle", "queueing", "waiting", "signing"}
         /\ t.at \in {"queueing", "waiting", "signing"} => t.address \in Addresses
         /\ t.at = "signing" => t.generation \in Nat
BY DEF Threads

\* What a thread may be.
LEMMA ThreadsAre ==
  /\ \A at \in {"gone", "unborn", "idle"} : [at |-> at] \in Threads
  /\ \A a \in Addresses : [at |-> "queueing", address |-> a] \in Threads
                          /\ [at |-> "waiting", address |-> a] \in Threads
  /\ \A a \in Addresses, n \in Nat : [at |-> "signing", address |-> a, generation |-> n] \in Threads
BY DEF Threads

\* The scan as the invariant has it.
LEMMA ScanAsItIs ==
  ASSUME Typed
  PROVE  /\ server.serial \in {0} \cup Scans /\ server.kept \in BOOLEAN /\ server.stopping \in BOOLEAN
         /\ scan.phase \in Phases /\ scan.login \in BOOLEAN /\ scan.continues \in 0..MaxContinues
         /\ scan.failures \in Nat /\ scan.signingIn \in Nat /\ scan.early \in BOOLEAN
         /\ scan.turn \in SUBSET Workers /\ scan.ends \in Nat /\ scan.continues \in Nat
         /\ scan.main \in {"begin", "checking", "joining", "over"}
         /\ place \in [Addresses -> Open \cup {"todo", "knocking", "unchecked", "closed"}]
         /\ worker \in [Workers -> Threads] /\ request \in [Requests -> Answers]
         /\ since.begun \in SUBSET Workers /\ since.failed \in SUBSET Addresses
         /\ devices \in [Findings -> Nat] /\ cards \subseteq Findings /\ created \subseteq Findings
BY BoundsAssumption DEF Typed, TypeOK

\* A sign-in thread as the invariant has it.
LEMMA WorkerAsItIs ==
  ASSUME Typed, NEW w \in Workers
  PROVE  /\ worker[w].at \in {"gone", "unborn", "idle", "queueing", "waiting", "signing"}
         /\ Busy(w) => worker[w].address \in Addresses
         /\ worker[w].at = "signing" => Busy(w) /\ worker[w].generation \in Nat
BY ScanAsItIs, ThreadFields DEF Busy

\* Sets of threads and of addresses are finite.
LEMMA FinitelyMany ==
  /\ \A W \in SUBSET Workers : IsFiniteSet(W) /\ Cardinality(W) \in Nat
                               /\ Cardinality(W) <= Cardinality(Workers)
  /\ \A A \in SUBSET Addresses : IsFiniteSet(A) /\ Cardinality(A) \in Nat
  /\ Cardinality(Workers) \in Nat /\ Cardinality({}) = 0
BY WorkersAssumption, AddressesAssumption, FS_Subset, FS_CardinalityType, FS_EmptySet

\* What people made of the findings is left alone by the scan.
LEMMA MadeStays ==
  ASSUME Made, UNCHANGED <<created, devices, request>>
  PROVE  Made'
BY DEF Made

\* Neither the sign-ins nor the failures change.
LEMMA CountedStays ==
  ASSUME Typed, Counted, since' = since,
         scan'.signingIn = scan.signingIn, scan'.continues = scan.continues, scan'.failures = scan.failures,
         \A w \in Workers : /\ worker'[w].at = "signing" <=> worker[w].at = "signing"
                            /\ worker[w].at = "signing" => worker'[w] = worker[w],
         \A a \in Addresses : place[a] = "line" => place'[a] = "line",
         scan'.phase \in {"running", "paused"} => scan'.phase = scan.phase
  PROVE  Counted'
<1>1. SigningIn' = SigningIn /\ SigningIn \subseteq Workers /\ since.failed \subseteq Addresses
  BY ScanAsItIs DEF SigningIn
<1>2. \A w \in SigningIn : worker'[w] = worker[w]
  BY DEF SigningIn
<1>3. QED
  BY <1>1, <1>2 DEF Counted

\* No address is taken or answered.
LEMMA TakenStays ==
  ASSUME Taken,
         \A w \in Workers : /\ Busy(w)' <=> Busy(w)
                            /\ Busy(w) => worker'[w].address = worker[w].address,
         \A a \in Addresses : place'[a] = "taken" <=> place[a] = "taken",
         Typed
  PROVE  Taken'
<1>1. \A w \in Workers : Busy(w) => worker[w].address \in Addresses
  BY WorkerAsItIs
<1>2. QED
  BY <1>1 DEF Taken

\* A discovery is started: nothing of the last one is left but its findings.
LEMMA StartKeeps == ASSUME ScanInv, Start PROVE ScanInv'
<1>1. Typed /\ Staged /\ Made
  BY DEF ScanInv
<1>2. server' = [server EXCEPT !.serial = @ + 1, !.kept = TRUE] /\ server.serial + 1 \in Scans
      /\ scan' = Fresh("running", "begin") /\ place' = [a \in Addresses |-> "todo"]
      /\ worker' = [w \in Workers |-> [at |-> "unborn"]]
      /\ since' = [begun |-> {}, failed |-> {}] /\ UNCHANGED <<cards, created, devices, request>>
  BY DEF Start
<1>3. /\ server' \in [serial : {0} \cup Scans, kept : BOOLEAN, stopping : BOOLEAN] /\ server'.kept
      /\ server'.serial \in Scans
  BY <1>1, <1>2 DEF Typed, TypeOK
<1>4. /\ scan' \in [phase : Phases, login : BOOLEAN, continues : 0..MaxContinues, failures : Nat,
                    signingIn : Nat, early : BOOLEAN, turn : SUBSET Workers, ends : Nat,
                    main : {"begin", "checking", "joining", "over"}]
      /\ scan'.phase = "running" /\ scan'.main = "begin" /\ scan'.ends = 0 /\ scan'.failures = 0
      /\ scan'.signingIn = 0 /\ scan'.continues = 0
  BY <1>2, BoundsAssumption DEF Fresh, Phases
<1>5. /\ worker' \in [Workers -> Threads] /\ \A w \in Workers : worker'[w].at = "unborn"
      /\ place' \in [Addresses -> Open \cup {"todo", "knocking", "unchecked", "closed"}]
      /\ \A a \in Addresses : place'[a] = "todo"
  BY <1>2, ThreadsAre
<1>6. Typed'
  BY <1>1, <1>2, <1>3, <1>4, <1>5 DEF Typed, TypeOK
<1>7. Staged'
  BY <1>3, <1>4, <1>5 DEF Staged, Ended
<1>8. Taken'
  BY <1>5 DEF Taken, Busy
<1>9. Counted'
  <2>1. SigningIn' = {}
    BY <1>5 DEF SigningIn
  <2>2. since'.begun = {} /\ since'.failed = {}
    BY <1>2
  <2>3. 0 <= Limit - 1 + Cardinality(Workers) /\ 0 < Limit
    BY LimitAssumption, FinitelyMany
  <2>4. QED
    BY <1>4, <2>1, <2>2, <2>3, FinitelyMany DEF Counted
<1>10. QED
  BY <1>1, <1>2, <1>6, <1>7, <1>8, <1>9, MadeStays DEF ScanInv

\* The server forgets a discovery that has ended, or begins to stop.
LEMMA ServerKeeps == ASSUME ScanInv, Expires \/ StopChanges PROVE ScanInv'
<1>1. Typed /\ Staged /\ Taken /\ Counted /\ Made
  BY DEF ScanInv
<1>2. /\ UNCHANGED <<scan, place, worker, cards, created, devices, request, since>>
      /\ server' \in [serial : {0} \cup Scans, kept : BOOLEAN, stopping : BOOLEAN]
      /\ server'.kept = server.kept \/ (scan.phase \in Ended /\ ~server'.kept)
      /\ server'.serial = server.serial
  BY <1>1 DEF Expires, StopChanges, Typed, TypeOK
<1>3. Typed'
  BY <1>1, <1>2 DEF Typed, TypeOK
<1>4. Staged'
  BY <1>1, <1>2 DEF Staged, Queued
<1>5. Taken' /\ Counted'
  BY <1>1, <1>2, TakenStays, CountedStays DEF Busy
<1>6. QED
  BY <1>1, <1>2, <1>3, <1>4, <1>5, MadeStays DEF ScanInv

\* The phase, the clock and the checks' end change, but no thread and no address.
LEMMA ScanTyped ==
  ASSUME Typed, UNCHANGED <<server, place, worker, cards, created, devices, request>>,
         since' \in [begun : SUBSET Workers, failed : SUBSET Addresses],
         scan' \in [phase : Phases, login : BOOLEAN, continues : 0..MaxContinues, failures : Nat,
                    signingIn : Nat, early : BOOLEAN, turn : SUBSET Workers, ends : Nat,
                    main : {"begin", "checking", "joining", "over"}]
  PROVE  Typed'
BY DEF Typed, TypeOK

\* Continue: the failures and those begun count from here.
LEMMA ProceedKeeps == ASSUME ScanInv, Proceed PROVE ScanInv'
<1>1. Typed /\ Staged /\ Taken /\ Counted /\ Made
  BY DEF ScanInv
<1>2. /\ UNCHANGED <<server, place, worker, cards, created, devices, request>> /\ scan.phase = "paused"
      /\ server.kept /\ scan.continues < MaxContinues
      /\ scan' = [scan EXCEPT !.continues = @ + 1, !.failures = 0, !.phase = "running"]
      /\ since' = [begun |-> {}, failed |-> {}]
  BY DEF Proceed
<1>3. /\ scan' \in [phase : Phases, login : BOOLEAN, continues : 0..MaxContinues, failures : Nat,
                    signingIn : Nat, early : BOOLEAN, turn : SUBSET Workers, ends : Nat,
                    main : {"begin", "checking", "joining", "over"}]
      /\ scan'.phase = "running" /\ scan'.main = scan.main /\ scan'.ends = scan.ends /\ scan'.failures = 0
      /\ scan'.signingIn = scan.signingIn /\ scan'.continues = scan.continues + 1
      /\ scan'.login = scan.login
  <2>1. scan.continues + 1 \in 0..MaxContinues
    BY <1>1, <1>2, ScanAsItIs, BoundsAssumption
  <2>2. QED
    BY <1>1, <1>2, <2>1 DEF Typed, TypeOK, Phases
<1>4. since'.begun = {} /\ since'.failed = {}
      /\ since' \in [begun : SUBSET Workers, failed : SUBSET Addresses]
  BY <1>2
<1>5. Typed'
  BY <1>1, <1>2, <1>3, <1>4, ScanTyped
<1>6. Staged'
  BY <1>1, <1>2, <1>3 DEF Staged, Queued, Ended
<1>7. Taken'
  BY <1>1, <1>2, TakenStays DEF Busy
<1>8. Counted'
  <2>1. SigningIn' = SigningIn
    BY <1>2 DEF SigningIn
  <2>2. \A w \in SigningIn : worker[w].generation \in Nat /\ worker[w].generation <= scan.continues
    BY <1>1, WorkerAsItIs DEF Counted, SigningIn
  <2>3. scan.continues \in Nat
    BY <1>1, ScanAsItIs
  <2>4. \A w \in SigningIn : worker[w].generation <= scan.continues + 1
                             /\ worker[w].generation # scan.continues + 1
    BY <2>2, <2>3
  <2>5. 0 + 0 <= Limit - 1 + Cardinality(Workers) /\ 0 < Limit
    BY LimitAssumption, FinitelyMany
  <2>6. QED
    BY <1>1, <1>2, <1>3, <1>4, <2>1, <2>4, <2>5, FinitelyMany DEF Counted
<1>9. QED
  BY <1>1, <1>2, <1>5, <1>6, <1>7, <1>8, MadeStays DEF ScanInv

\* A cancel, the clock.
LEMMA ClockKeeps == ASSUME ScanInv, Cancel \/ GapPasses PROVE ScanInv'
<1>1. Typed /\ Staged /\ Taken /\ Counted /\ Made
  BY DEF ScanInv
<1>2. UNCHANGED <<server, place, worker, cards, created, devices, request, since>>
  BY DEF Cancel, GapPasses
<1>3. /\ scan' \in [phase : Phases, login : BOOLEAN, continues : 0..MaxContinues, failures : Nat,
                    signingIn : Nat, early : BOOLEAN, turn : SUBSET Workers, ends : Nat,
                    main : {"begin", "checking", "joining", "over"}]
      /\ scan'.main = scan.main /\ scan'.ends = scan.ends /\ scan'.failures = scan.failures
      /\ scan'.signingIn = scan.signingIn /\ scan'.continues = scan.continues
      /\ scan'.login = scan.login
      /\ scan'.phase = scan.phase \/ (scan.phase \in {"running", "paused"} /\ scan'.phase = "cancelling")
  BY <1>1 DEF Cancel, GapPasses, CancelledPhase, Typed, TypeOK, Phases
<1>4. Typed'
  BY <1>1, <1>2, <1>3, ScanTyped, ScanAsItIs DEF Typed
<1>5. Staged'
  BY <1>1, <1>2, <1>3 DEF Staged, Queued, Ended
<1>6. Taken' /\ Counted'
  BY <1>1, <1>2, <1>3, TakenStays, CountedStays DEF Busy
<1>7. QED
  BY <1>1, <1>2, <1>4, <1>5, <1>6, MadeStays DEF ScanInv

\* The scan's thread: its workers start, the checks are over, the workers have ended.
LEMMA MainKeeps == ASSUME ScanInv, Main PROVE ScanInv'
<1>1. Typed /\ Staged /\ Taken /\ Counted /\ Made
  BY DEF ScanInv
<1>2. CASE RunBegins
  <2>1. /\ scan' \in [phase : Phases, login : BOOLEAN, continues : 0..MaxContinues, failures : Nat,
                      signingIn : Nat, early : BOOLEAN, turn : SUBSET Workers, ends : Nat,
                      main : {"begin", "checking", "joining", "over"}]
        /\ scan.main = "begin" /\ scan'.main = "checking" /\ scan'.ends = scan.ends
        /\ scan'.failures = scan.failures /\ scan'.phase = scan.phase
        /\ scan'.signingIn = scan.signingIn /\ scan'.continues = scan.continues
    BY <1>1, <1>2 DEF RunBegins, Typed, TypeOK
  <2>2. worker' \in [Workers -> Threads] /\ \A w \in Workers : worker'[w].at = "idle"
    BY <1>2, ThreadsAre DEF RunBegins
  <2>3. \A w \in Workers : worker[w].at = "unborn"
    BY <1>1, <2>1 DEF Staged
  <2>4. UNCHANGED <<server, place, cards, created, devices, request, since>>
    BY <1>2 DEF RunBegins
  <2>5. Typed'
    BY <1>1, <2>1, <2>2, <2>4 DEF Typed, TypeOK
  <2>6. Staged'
    BY <1>1, <2>1, <2>2, <2>4 DEF Staged, Ended
  <2>7. Taken'
    BY <1>1, <2>2, <2>3, <2>4 DEF Taken, Busy
  <2>8. Counted'
    BY <1>1, <2>1, <2>2, <2>3, <2>4, CountedStays
  <2>9. QED
    BY <1>1, <2>4, <2>5, <2>6, <2>7, <2>8, MadeStays DEF ScanInv
<1>3. CASE ChecksOver
  <2>1. /\ scan' \in [phase : Phases, login : BOOLEAN, continues : 0..MaxContinues, failures : Nat,
                      signingIn : Nat, early : BOOLEAN, turn : SUBSET Workers, ends : Nat,
                      main : {"begin", "checking", "joining", "over"}]
        /\ scan.main = "checking" /\ scan'.main = "joining"
        /\ scan'.failures = scan.failures /\ scan'.phase = scan.phase
        /\ scan'.signingIn = scan.signingIn /\ scan'.continues = scan.continues
    BY <1>1, <1>3, FinitelyMany DEF ChecksOver, Ends, Typed, TypeOK
  <2>2. UNCHANGED <<server, place, worker, cards, created, devices, request, since>>
        /\ \A a \in Addresses : place[a] \notin {"todo", "knocking"}
    BY <1>3 DEF ChecksOver
  <2>3. Typed'
    BY <1>1, <2>1, <2>2, ScanTyped, ScanAsItIs DEF Typed
  <2>4. Staged'
    BY <1>1, <2>1, <2>2 DEF Staged, Ended
  <2>5. Taken' /\ Counted'
    BY <1>1, <2>1, <2>2, TakenStays, CountedStays DEF Busy
  <2>6. QED
    BY <1>1, <2>2, <2>3, <2>4, <2>5, MadeStays DEF ScanInv
<1>4. CASE RunEnds
  <2>1. /\ scan' \in [phase : Phases, login : BOOLEAN, continues : 0..MaxContinues, failures : Nat,
                      signingIn : Nat, early : BOOLEAN, turn : SUBSET Workers, ends : Nat,
                      main : {"begin", "checking", "joining", "over"}]
        /\ scan.main = "joining" /\ scan'.main = "over" /\ ~scan'.login /\ scan'.phase \in Ended
        /\ scan'.failures = scan.failures
        /\ scan'.signingIn = scan.signingIn /\ scan'.continues = scan.continues
    BY <1>1, <1>4 DEF RunEnds, Typed, TypeOK, Phases, Ended
  <2>2. UNCHANGED <<server, place, worker, cards, created, devices, request, since>>
        /\ \A w \in Workers : worker[w].at = "gone"
    BY <1>4 DEF RunEnds, Joined
  <2>3. Typed'
    BY <1>1, <2>1, <2>2, ScanTyped, ScanAsItIs DEF Typed
  <2>4. Staged'
    BY <1>1, <2>1, <2>2 DEF Staged, Queued
  <2>5. scan'.phase \notin {"running", "paused"}
    BY <2>1 DEF Ended
  <2>6. Taken' /\ Counted'
    BY <1>1, <2>1, <2>2, <2>5, TakenStays, CountedStays DEF Busy
  <2>7. QED
    BY <1>1, <2>2, <2>3, <2>4, <2>6, MadeStays DEF ScanInv
<1>5. QED
  BY <1>2, <1>3, <1>4 DEF Main

\* An address's port is asked, and answers.
LEMMA ChecksKeep == ASSUME ScanInv, NEW a \in Addresses, Checks(a) PROVE ScanInv'
<1>1. Typed /\ Staged /\ Taken /\ Counted /\ Made
  BY DEF ScanInv
<1>2. UNCHANGED <<server, scan, worker, cards, created, devices, request, since>>
  BY DEF Checks, Knocks, Knocked
<1>3. /\ place' \in [Addresses -> Open \cup {"todo", "knocking", "unchecked", "closed"}]
      /\ \A b \in Addresses \ {a} : place'[b] = place[b]
      /\ place[a] \in {"todo", "knocking"} /\ place'[a] \in {"knocking", "unchecked", "queued", "closed"}
      /\ place'[a] = "knocking" => scan.main = "checking"
      /\ place[a] = "todo" => scan.main = "checking"
  <2>1. CASE Knocks(a)
    BY <1>1, <2>1, ScanAsItIs DEF Knocks
  <2>2. CASE Knocked(a)
    BY <1>1, <2>2, ScanAsItIs DEF Knocked, Open
  <2>3. QED
    BY <2>1, <2>2 DEF Checks
<1>4. scan.main = "checking"
  BY <1>1, <1>3, ScanAsItIs DEF Staged
<1>5. Typed'
  BY <1>1, <1>2, <1>3 DEF Typed, TypeOK
<1>6. Staged'
  BY <1>1, <1>2, <1>3, <1>4 DEF Staged
<1>7. Taken' /\ Counted'
  BY <1>1, <1>2, <1>3, TakenStays, CountedStays DEF Busy
<1>8. QED
  BY <1>1, <1>2, <1>5, <1>6, <1>7, MadeStays DEF ScanInv

\* A thread that goes somewhere else, and nobody else.
LEMMA WorkerGoes ==
  ASSUME Typed, NEW w \in Workers, NEW there \in Threads, Goes(w, there)
  PROVE  /\ worker' \in [Workers -> Threads] /\ worker'[w] = there
         /\ \A v \in Workers \ {w} : worker'[v] = worker[v]
BY ScanAsItIs DEF Goes

\* A thread takes the end of the queue: every address before it was taken, and none can follow.
LEMMA TakesEndKeeps == ASSUME ScanInv, NEW w \in Workers, TakesEnd(w) PROVE ScanInv'
<1>1. Typed /\ Staged /\ Taken /\ Counted /\ Made
  BY DEF ScanInv
<1>2. /\ UNCHANGED <<server, place, cards, created, devices, request, since>>
      /\ worker[w].at = "idle" /\ scan.ends > 0 /\ Queued = {}
      /\ scan' = [scan EXCEPT !.ends = @ - 1]
  BY DEF TakesEnd, EndNext
<1>3. /\ worker' \in [Workers -> Threads] /\ worker'[w].at = "gone"
      /\ \A v \in Workers \ {w} : worker'[v] = worker[v]
  BY <1>1, WorkerGoes, ThreadsAre DEF TakesEnd
<1>4. /\ scan' \in [phase : Phases, login : BOOLEAN, continues : 0..MaxContinues, failures : Nat,
                    signingIn : Nat, early : BOOLEAN, turn : SUBSET Workers, ends : Nat,
                    main : {"begin", "checking", "joining", "over"}]
      /\ scan'.main = scan.main /\ scan'.failures = scan.failures /\ scan'.phase = scan.phase
      /\ scan'.signingIn = scan.signingIn /\ scan'.continues = scan.continues
      /\ scan'.login = scan.login
  <2>1. scan.ends - 1 \in Nat
    BY <1>1, <1>2, ScanAsItIs
  <2>2. QED
    BY <1>1, <1>2, <2>1 DEF Typed, TypeOK
<1>5. scan.main = "joining"
  <2>1. scan.main \notin {"begin", "checking"}
    BY <1>1, <1>2 DEF Staged
  <2>2. scan.main # "over"
    BY <1>1, <1>2 DEF Staged
  <2>3. QED
    BY <1>1, <2>1, <2>2, ScanAsItIs
<1>6. Typed'
  BY <1>1, <1>2, <1>3, <1>4 DEF Typed, TypeOK
<1>7. Staged'
  <2>1. Queued' = Queued
    BY <1>2 DEF Queued
  <2>2. QED
    BY <1>1, <1>2, <1>3, <1>4, <1>5, <2>1 DEF Staged
<1>8. Taken' /\ Counted'
  BY <1>1, <1>2, <1>3, <1>4, TakenStays, CountedStays DEF Busy
<1>9. QED
  BY <1>1, <1>2, <1>6, <1>7, <1>8, MadeStays DEF ScanInv

\* A thread takes the lowest address: it is skipped, or it waits for its turn with it.
LEMMA TakesKeeps == ASSUME ScanInv, NEW w \in Workers, Takes(w) PROVE ScanInv'
<1>1. Typed /\ Staged /\ Taken /\ Counted /\ Made
  BY DEF ScanInv
<1>2. UNCHANGED <<server, scan, cards, created, devices, request, since>>
      /\ worker[w].at = "idle" /\ Queued # {}
  BY DEF Takes
<1>3. PICK a \in Addresses : a = Min(Queued) /\ place[a] = "queued"
  BY <1>2, LeastIsOne DEF Queued
<1>4. /\ worker' \in [Workers -> Threads] /\ \A v \in Workers \ {w} : worker'[v] = worker[v]
      /\ place' \in [Addresses -> Open \cup {"todo", "knocking", "unchecked", "closed"}]
      /\ \A b \in Addresses \ {a} : place'[b] = place[b]
      /\ \/ worker'[w] = [at |-> "idle"] /\ place'[a] = "line"
         \/ worker'[w] = [at |-> "queueing", address |-> a] /\ place'[a] = "taken"
  <2>1. CASE Goes(w, [at |-> "idle"]) /\ place' = [place EXCEPT ![a] = "line"]
    BY <1>1, <1>3, <2>1, WorkerGoes, ThreadsAre, ScanAsItIs DEF Open
  <2>2. CASE Goes(w, [at |-> "queueing", address |-> a]) /\ place' = [place EXCEPT ![a] = "taken"]
    BY <1>1, <1>3, <2>2, WorkerGoes, ThreadsAre, ScanAsItIs DEF Open
  <2>3. QED
    BY <1>3, <2>1, <2>2 DEF Takes
<1>5. Typed'
  BY <1>1, <1>2, <1>4 DEF Typed, TypeOK
<1>6. worker'[w].at \in {"idle", "queueing"} /\ (worker'[w].at = "queueing" <=> place'[a] = "taken")
      /\ (worker'[w].at = "queueing" => worker'[w].address = a)
      /\ place'[a] \in {"line", "taken"}
  BY <1>4
<1>7. Staged'
  <2>1. \A v \in Workers : worker[v].at = "gone" => FALSE
    BY <1>1, <1>2 DEF Staged
  <2>2. QED
    BY <1>1, <1>2, <1>3, <1>4, <1>6, <2>1 DEF Staged
<1>8. Taken'
  <2>1. \A v \in Workers : Busy(v) => v # w /\ worker[v].address # a /\ worker'[v] = worker[v]
                                     /\ worker[v].address \in Addresses
    BY <1>1, <1>2, <1>3, <1>4, WorkerAsItIs DEF Taken, Busy
  <2>2. \A v \in Workers \ {w} : Busy(v)' <=> Busy(v)
    BY <1>4 DEF Busy
  <2>3. Busy(w)' <=> worker'[w].at = "queueing"
    BY <1>6 DEF Busy
  <2>4. (\A v \in Workers : Busy(v) => place[worker[v].address] = "taken")'
    BY <1>1, <1>4, <1>6, <2>1, <2>2, <2>3 DEF Taken
  <2>5. (\A v, u \in Workers : Busy(v) /\ Busy(u) /\ worker[v].address = worker[u].address => v = u)'
    BY <1>1, <1>6, <2>1, <2>2, <2>3 DEF Taken
  <2>6. (\A b \in Addresses : place[b] = "taken" => \E v \in Workers : Busy(v) /\ worker[v].address = b)'
    <3>1. CASE place'[a] = "taken"
      BY <1>1, <1>4, <1>6, <2>1, <2>2, <2>3, <3>1 DEF Taken
    <3>2. CASE place'[a] # "taken"
      BY <1>1, <1>4, <1>6, <2>1, <2>2, <2>3, <3>2 DEF Taken
    <3>3. QED
      BY <3>1, <3>2
  <2>7. QED
    BY <2>4, <2>5, <2>6 DEF Taken
<1>9. Counted'
  BY <1>1, <1>2, <1>3, <1>4, <1>6, CountedStays
<1>10. QED
  BY <1>1, <1>2, <1>5, <1>7, <1>8, <1>9, MadeStays DEF ScanInv

\* A thread keeps its address and goes from one wait to the next.
LEMMA WaitsKeep ==
  ASSUME ScanInv, NEW w \in Workers, UNCHANGED <<server, place, cards, created, devices, request, since>>,
         scan' \in [phase : Phases, login : BOOLEAN, continues : 0..MaxContinues, failures : Nat,
                    signingIn : Nat, early : BOOLEAN, turn : SUBSET Workers, ends : Nat,
                    main : {"begin", "checking", "joining", "over"}],
         scan'.main = scan.main, scan'.ends = scan.ends, scan'.failures = scan.failures,
         scan'.signingIn = scan.signingIn, scan'.continues = scan.continues, scan'.login = scan.login,
         scan'.phase = scan.phase \/ (scan.phase \in {"running", "paused"} /\ scan'.phase = "cancelling"),
         worker' \in [Workers -> Threads], \A v \in Workers \ {w} : worker'[v] = worker[v],
         \/ worker'[w] = worker[w]
         \/ /\ worker[w].at = "queueing" /\ worker'[w].at = "waiting"
            /\ worker'[w].address = worker[w].address
  PROVE  ScanInv'
<1>1. Typed /\ Staged /\ Taken /\ Counted /\ Made
  BY DEF ScanInv
<1>2. Typed'
  BY <1>1 DEF Typed, TypeOK
<1>3. \A v \in Workers : /\ worker'[v].at \in {"gone", "unborn"} <=> worker[v].at \in {"gone", "unborn"}
                         /\ worker'[v].at = "gone" <=> worker[v].at = "gone"
                         /\ worker'[v].at = "unborn" <=> worker[v].at = "unborn"
  OBVIOUS
<1>4. Staged'
  BY <1>1, <1>3 DEF Staged, Queued, Ended
<1>5. Taken'
  BY <1>1, TakenStays DEF Busy
<1>6. Counted'
  BY <1>1, CountedStays
<1>7. QED
  BY <1>1, <1>2, <1>4, <1>5, <1>6, MadeStays DEF ScanInv

\* Its turn comes: nobody else has it.
LEMMA GetsTurnKeeps == ASSUME ScanInv, NEW w \in Workers, GetsTurn(w) PROVE ScanInv'
<1>1. Typed
  BY DEF ScanInv
<1>2. worker[w].at = "queueing" /\ worker[w].address \in Addresses
  BY <1>1, WorkerAsItIs DEF GetsTurn, Busy
<1>3. /\ worker' \in [Workers -> Threads] /\ worker'[w] = [at |-> "waiting", address |-> worker[w].address]
      /\ \A v \in Workers \ {w} : worker'[v] = worker[v]
  BY <1>1, <1>2, WorkerGoes, ThreadsAre DEF GetsTurn
<1>4. worker'[w].at = "waiting" /\ worker'[w].address = worker[w].address
  BY <1>3
<1>5. UNCHANGED <<server, place, cards, created, devices, request, since>>
      /\ scan' = [scan EXCEPT !.turn = {w}, !.phase = AskedPhase]
  BY DEF GetsTurn
<1>6. AskedPhase = scan.phase \/ (scan.phase \in {"running", "paused"} /\ AskedPhase = "cancelling")
  BY DEF AskedPhase, CancelledPhase
<1>7. /\ scan' \in [phase : Phases, login : BOOLEAN, continues : 0..MaxContinues, failures : Nat,
                    signingIn : Nat, early : BOOLEAN, turn : SUBSET Workers, ends : Nat,
                    main : {"begin", "checking", "joining", "over"}]
      /\ scan'.main = scan.main /\ scan'.ends = scan.ends /\ scan'.failures = scan.failures
      /\ scan'.signingIn = scan.signingIn /\ scan'.continues = scan.continues
      /\ scan'.login = scan.login /\ scan'.phase = AskedPhase
  <2>1. AskedPhase \in Phases
    BY <1>1, <1>6, ScanAsItIs DEF Phases
  <2>2. PICK asked \in Phases : asked = AskedPhase
    BY <2>1
  <2>3. {w} \in SUBSET Workers /\ scan' = [scan EXCEPT !.turn = {w}, !.phase = asked]
    BY <1>5, <2>2
  <2>4. /\ scan' \in [phase : Phases, login : BOOLEAN, continues : 0..MaxContinues, failures : Nat,
                      signingIn : Nat, early : BOOLEAN, turn : SUBSET Workers, ends : Nat,
                      main : {"begin", "checking", "joining", "over"}]
        /\ scan'.main = scan.main /\ scan'.ends = scan.ends /\ scan'.failures = scan.failures
        /\ scan'.signingIn = scan.signingIn /\ scan'.continues = scan.continues
        /\ scan'.login = scan.login /\ scan'.phase = asked
    BY <1>1, <2>3 DEF Typed, TypeOK
  <2>5. QED
    BY <2>2, <2>4
<1>8. QED
  BY <1>2, <1>3, <1>4, <1>5, <1>6, <1>7, WaitsKeep

\* An address has its answer, a line or a card: its thread goes on to the next one.
LEMMA AnsweredStays ==
  ASSUME Typed, Staged, Taken, NEW w \in Workers, NEW a \in Addresses, Busy(w), a = worker[w].address,
         worker' \in [Workers -> Threads], \A v \in Workers \ {w} : worker'[v] = worker[v],
         worker'[w].at = "idle",
         \A b \in Addresses \ {a} : place'[b] = place[b], place'[a] \in {"line", "card"},
         server' = server, scan'.main = scan.main, scan'.ends = scan.ends, scan'.login = scan.login,
         scan'.phase = scan.phase \/ (scan.phase = "running" /\ scan'.phase = "paused")
  PROVE  Staged' /\ Taken'
<1>1. place[a] = "taken"
  BY DEF Taken
<1>2. worker[w].at \notin {"gone", "unborn"}
  BY DEF Busy
<1>3. Queued' = Queued
  BY <1>1 DEF Queued
<1>4. Staged'
  BY <1>1, <1>2, <1>3 DEF Staged, Ended
<1>5. \A v \in Workers \ {w} : (Busy(v)' <=> Busy(v)) /\ (Busy(v) => worker[v].address # a)
  BY DEF Busy, Taken
<1>6. ~Busy(w)'
  BY DEF Busy
<1>7. \A v \in Workers : Busy(v) => worker[v].address \in Addresses
  BY WorkerAsItIs
<1>8. Taken'
  BY <1>1, <1>5, <1>6, <1>7 DEF Taken
<1>9. QED
  BY <1>4, <1>8

\* The turn is asked for: given up, too early, or the sign-in begins.
LEMMA TurnComesKeeps == ASSUME ScanInv, NEW w \in Workers, TurnComes(w) PROVE ScanInv'
<1>1. Typed /\ Staged /\ Taken /\ Counted /\ Made
  BY DEF ScanInv
<1>2. /\ UNCHANGED <<server, cards, created, devices, request>>
      /\ worker[w].at = "waiting" /\ Busy(w)
  BY DEF TurnComes, Busy
<1>3. PICK a \in Addresses : a = worker[w].address
  BY <1>1, <1>2, WorkerAsItIs
<1>4. ASSUME scan' = [scan EXCEPT !.turn = {}], Goes(w, [at |-> "idle"]),
             place' = [place EXCEPT ![a] = "line"], UNCHANGED since
      PROVE  ScanInv'
  <2>1. /\ worker' \in [Workers -> Threads] /\ \A v \in Workers \ {w} : worker'[v] = worker[v]
        /\ worker'[w].at = "idle"
    BY <1>1, <1>4, WorkerGoes, ThreadsAre
  <2>2. /\ place' \in [Addresses -> Open \cup {"todo", "knocking", "unchecked", "closed"}]
        /\ place'[a] = "line" /\ \A b \in Addresses \ {a} : place'[b] = place[b]
    BY <1>1, <1>3, <1>4, ScanAsItIs DEF Open
  <2>3. /\ scan' \in [phase : Phases, login : BOOLEAN, continues : 0..MaxContinues, failures : Nat,
                      signingIn : Nat, early : BOOLEAN, turn : SUBSET Workers, ends : Nat,
                      main : {"begin", "checking", "joining", "over"}]
        /\ scan'.main = scan.main /\ scan'.ends = scan.ends /\ scan'.failures = scan.failures
        /\ scan'.signingIn = scan.signingIn /\ scan'.continues = scan.continues
        /\ scan'.login = scan.login /\ scan'.phase = scan.phase
    BY <1>1, <1>4 DEF Typed, TypeOK
  <2>4. Typed'
    BY <1>1, <1>2, <1>4, <2>1, <2>2, <2>3 DEF Typed, TypeOK
  <2>5. Staged' /\ Taken'
    BY <1>1, <1>2, <1>3, <2>1, <2>2, <2>3, AnsweredStays
  <2>6. Counted'
    BY <1>1, <1>2, <1>4, <2>1, <2>2, <2>3, CountedStays
  <2>7. QED
    BY <1>1, <1>2, <2>4, <2>5, <2>6, MadeStays DEF ScanInv
<1>5. ASSUME scan' = [scan EXCEPT !.phase = AskedPhase], UNCHANGED <<worker, place, since>>
      PROVE  ScanInv'
  <2>1. AskedPhase = scan.phase \/ (scan.phase \in {"running", "paused"} /\ AskedPhase = "cancelling")
    BY DEF AskedPhase, CancelledPhase
  <2>2. AskedPhase \in Phases
    BY <1>1, <2>1, ScanAsItIs DEF Phases
  <2>3. /\ scan' \in [phase : Phases, login : BOOLEAN, continues : 0..MaxContinues, failures : Nat,
                      signingIn : Nat, early : BOOLEAN, turn : SUBSET Workers, ends : Nat,
                      main : {"begin", "checking", "joining", "over"}]
        /\ scan'.main = scan.main /\ scan'.ends = scan.ends /\ scan'.failures = scan.failures
        /\ scan'.signingIn = scan.signingIn /\ scan'.continues = scan.continues
        /\ scan'.login = scan.login /\ scan'.phase = AskedPhase
    <3> HIDE DEF AskedPhase
    <3>1. QED
      BY <1>1, <1>5, <2>2 DEF Typed, TypeOK
  <2>4. worker' \in [Workers -> Threads]
    BY <1>1, <1>5, ScanAsItIs
  <2>5. QED
    BY <1>2, <1>5, <2>1, <2>3, <2>4, WaitsKeep
<1>6. ASSUME MayStart, scan' = [scan EXCEPT !.turn = {}, !.early = TRUE, !.signingIn = @ + 1],
             Goes(w, [at |-> "signing", address |-> a, generation |-> scan.continues]),
             since' = [since EXCEPT !.begun = @ \cup {w}], place' = place
      PROVE  ScanInv'
  <2>1. /\ worker' \in [Workers -> Threads] /\ \A v \in Workers \ {w} : worker'[v] = worker[v]
        /\ worker'[w].at = "signing" /\ worker'[w].address = a /\ worker'[w].generation = scan.continues
    BY <1>1, <1>6, WorkerGoes, ThreadsAre, ScanAsItIs
  <2>2. /\ scan' \in [phase : Phases, login : BOOLEAN, continues : 0..MaxContinues, failures : Nat,
                      signingIn : Nat, early : BOOLEAN, turn : SUBSET Workers, ends : Nat,
                      main : {"begin", "checking", "joining", "over"}]
        /\ scan'.main = scan.main /\ scan'.ends = scan.ends /\ scan'.failures = scan.failures
        /\ scan'.signingIn = scan.signingIn + 1 /\ scan'.continues = scan.continues
        /\ scan'.login = scan.login /\ scan'.phase = scan.phase
    <3>1. scan.signingIn + 1 \in Nat /\ {} \in SUBSET Workers
      BY <1>1, ScanAsItIs
    <3>2. QED
      BY <1>1, <1>6, <3>1 DEF Typed, TypeOK
  <2>3. /\ since' \in [begun : SUBSET Workers, failed : SUBSET Addresses]
        /\ since'.begun = since.begun \cup {w} /\ since'.failed = since.failed
    BY <1>1, <1>6 DEF Typed
  <2>4. Typed'
    BY <1>1, <1>2, <1>6, <2>1, <2>2, <2>3 DEF Typed, TypeOK
  <2>5. Staged'
    BY <1>1, <1>2, <1>6, <2>1, <2>2 DEF Staged, Queued
  <2>6. Taken'
    BY <1>1, <1>2, <1>3, <1>6, <2>1, TakenStays DEF Busy
  <2>7. SigningIn' = SigningIn \cup {w} /\ w \notin SigningIn /\ SigningIn \in SUBSET Workers
    BY <1>2, <2>1 DEF SigningIn
  <2>8. Cardinality(SigningIn') = Cardinality(SigningIn) + 1
    <3>1. IsFiniteSet(SigningIn)
      BY <2>7, FinitelyMany
    <3>2. QED
      BY <2>7, <3>1, FS_AddElement
  <2>9. \A v \in SigningIn : worker'[v] = worker[v] /\ v \in Workers
    BY <2>1, <2>7 DEF SigningIn
  <2>10. since'.begun = {v \in SigningIn' : worker'[v].generation = scan.continues}
    BY <1>1, <2>1, <2>3, <2>7, <2>9 DEF Counted
  <2>11. \A v \in SigningIn' : worker'[v].generation <= scan.continues
    BY <1>1, <2>1, <2>7, <2>9, ScanAsItIs DEF Counted
  <2>12. Cardinality(since'.failed) + Cardinality(since'.begun) <= Limit - 1 + Cardinality(Workers)
    <3>1. Cardinality(since.failed) < Limit /\ Cardinality(since.failed) \in Nat
      BY <1>1, <1>6, ScanAsItIs DEF Counted, MayStart
    <3>2. Cardinality(since'.begun) \in Nat /\ Cardinality(since'.begun) <= Cardinality(Workers)
      <4>1. since'.begun \in SUBSET Workers
        BY <1>1, <2>3, ScanAsItIs
      <4>2. QED
        BY <4>1, FinitelyMany
    <3>3. Cardinality(Workers) \in Nat /\ Limit \in Nat
      BY FinitelyMany, LimitAssumption
    <3>4. QED
      BY <2>3, <3>1, <3>2, <3>3
  <2>13. Counted'
    BY <1>1, <1>6, <2>2, <2>3, <2>8, <2>10, <2>11, <2>12 DEF Counted
  <2>14. QED
    BY <1>1, <1>2, <2>4, <2>5, <2>6, <2>13, MadeStays DEF ScanInv
<1>7. QED
  BY <1>3, <1>4, <1>5, <1>6 DEF TurnComes

\* A sign-in is over: it isn't under way any more, and isn't counted among those begun.
LEMMA OneLess ==
  ASSUME Typed, Staged, Taken, Counted, NEW w \in Workers, worker[w].at = "signing",
         worker' \in [Workers -> Threads], \A v \in Workers \ {w} : worker'[v] = worker[v],
         worker'[w].at = "idle"
  PROVE  /\ Cardinality(SigningIn') = scan.signingIn - 1 /\ scan.signingIn - 1 \in Nat
         /\ since.begun \ {w} = {v \in SigningIn' : worker'[v].generation = scan.continues}
         /\ \A v \in SigningIn' : worker'[v].generation <= scan.continues
         /\ since.begun \ {w} \in SUBSET Workers
         /\ Cardinality(since.begun) \in Nat
         /\ Cardinality(since.begun \ {w}) = IF w \in since.begun THEN Cardinality(since.begun) - 1
                                            ELSE Cardinality(since.begun)
<1>1. /\ SigningIn' = SigningIn \ {w} /\ w \in SigningIn /\ SigningIn \in SUBSET Workers
  BY DEF SigningIn
<1>2. Cardinality(SigningIn') = Cardinality(SigningIn) - 1 /\ Cardinality(SigningIn) \in Nat
      /\ Cardinality(SigningIn') \in Nat
  <2>1. IsFiniteSet(SigningIn)
    BY <1>1, FinitelyMany
  <2>2. Cardinality(SigningIn \ {w}) = Cardinality(SigningIn) - 1
    BY <1>1, <2>1, FS_RemoveElement
  <2>3. SigningIn \ {w} \in SUBSET Workers
    BY <1>1
  <2>4. QED
    BY <1>1, <2>2, <2>3, FinitelyMany
<1>3. \A v \in SigningIn \ {w} : worker'[v] = worker[v]
  BY <1>1
<1>4. since.begun \ {w} = {v \in SigningIn' : worker'[v].generation = scan.continues}
      /\ \A v \in SigningIn' : worker'[v].generation <= scan.continues
  BY <1>1, <1>3 DEF Counted
<1>5. since.begun \in SUBSET Workers
  BY ScanAsItIs
<1>6. IsFiniteSet(since.begun) /\ Cardinality(since.begun) \in Nat
  BY <1>5, FinitelyMany
<1>7. Cardinality(since.begun \ {w}) = IF w \in since.begun THEN Cardinality(since.begun) - 1
                                       ELSE Cardinality(since.begun)
  BY <1>6, FS_RemoveElement
<1>8. QED
  BY <1>2, <1>4, <1>5, <1>6, <1>7 DEF Counted

\* A sign-in ends with a card, or a line that isn't a wrong password.
LEMMA SignInEndsKeeps == ASSUME ScanInv, NEW w \in Workers, SignInEnds(w) PROVE ScanInv'
<1>1. Typed /\ Staged /\ Taken /\ Counted /\ Made
  BY DEF ScanInv
<1>2. /\ UNCHANGED <<server, created, devices, request>>
      /\ worker[w].at = "signing" /\ Busy(w) /\ scan' = [scan EXCEPT !.signingIn = @ - 1]
      /\ since' = [since EXCEPT !.begun = @ \ {w}]
  BY DEF SignInEnds, Busy
<1>3. PICK a \in Addresses : a = worker[w].address
  BY <1>1, <1>2, WorkerAsItIs
<1>4. /\ worker' \in [Workers -> Threads] /\ \A v \in Workers \ {w} : worker'[v] = worker[v]
      /\ worker'[w].at = "idle"
  BY <1>1, WorkerGoes, ThreadsAre DEF SignInEnds
<1>5. PICK begun : begun = since.begun \ {w}
  OBVIOUS
<1>6. /\ Cardinality(SigningIn') = scan.signingIn - 1 /\ scan.signingIn - 1 \in Nat
      /\ begun = {v \in SigningIn' : worker'[v].generation = scan.continues}
      /\ \A v \in SigningIn' : worker'[v].generation <= scan.continues
      /\ begun \in SUBSET Workers /\ Cardinality(since.begun) \in Nat
      /\ Cardinality(begun) = IF w \in since.begun THEN Cardinality(since.begun) - 1
                              ELSE Cardinality(since.begun)
  BY <1>1, <1>2, <1>4, <1>5, OneLess
<1>7. /\ place' \in [Addresses -> Open \cup {"todo", "knocking", "unchecked", "closed"}]
      /\ place'[a] \in {"line", "card"} /\ \A b \in Addresses \ {a} : place'[b] = place[b]
      /\ cards' \subseteq Findings
  <2>1. CASE place' = [place EXCEPT ![a] = "card"] /\ cards' = cards \cup {<<server.serial, a>>}
    <3>1. server.serial \in Scans
      <4>1. scan.phase \notin Ended
        BY <1>1, <1>2 DEF Staged
      <4>2. QED
        BY <1>1, <4>1 DEF Staged
    <3>2. QED
      BY <1>1, <1>3, <2>1, <3>1, ScanAsItIs DEF Open, Findings
  <2>2. CASE place' = [place EXCEPT ![a] = "line"] /\ UNCHANGED cards
    BY <1>1, <1>3, <2>2, ScanAsItIs DEF Open
  <2>3. QED
    BY <1>3, <2>1, <2>2 DEF SignInEnds
<1>8. /\ scan' \in [phase : Phases, login : BOOLEAN, continues : 0..MaxContinues, failures : Nat,
                    signingIn : Nat, early : BOOLEAN, turn : SUBSET Workers, ends : Nat,
                    main : {"begin", "checking", "joining", "over"}]
      /\ scan'.main = scan.main /\ scan'.ends = scan.ends /\ scan'.failures = scan.failures
      /\ scan'.signingIn = scan.signingIn - 1 /\ scan'.continues = scan.continues
      /\ scan'.login = scan.login /\ scan'.phase = scan.phase
  BY <1>1, <1>2, <1>6 DEF Typed, TypeOK
<1>9. /\ since' \in [begun : SUBSET Workers, failed : SUBSET Addresses]
      /\ since'.begun = begun /\ since'.failed = since.failed
  BY <1>1, <1>2, <1>5, <1>6 DEF Typed
<1>10. Typed'
  BY <1>1, <1>2, <1>4, <1>7, <1>8, <1>9 DEF Typed, TypeOK
<1>11. Staged' /\ Taken'
  BY <1>1, <1>2, <1>3, <1>4, <1>7, <1>8, AnsweredStays
<1>12. Counted'
  <2>1. \A b \in since.failed : place'[b] = "line"
    BY <1>1, <1>2, <1>3, <1>7, ScanAsItIs DEF Counted, Taken
  <2>2. Cardinality(since.failed) + Cardinality(begun) <= Limit - 1 + Cardinality(Workers)
    <3>1. /\ Cardinality(since.failed) + Cardinality(since.begun) <= Limit - 1 + Cardinality(Workers)
          /\ Cardinality(since.failed) \in Nat
      BY <1>1, FinitelyMany, ScanAsItIs DEF Counted
    <3>2. Cardinality(Workers) \in Nat /\ Limit \in Nat
      BY FinitelyMany, LimitAssumption
    <3>3. QED
      BY <1>6, <3>1, <3>2
  <2>3. QED
    BY <1>1, <1>6, <1>8, <1>9, <2>1, <2>2 DEF Counted
<1>13. QED
  BY <1>1, <1>2, <1>10, <1>11, <1>12, MadeStays DEF ScanInv

\* A wrong password: counted with those begun since the last Continue, and enough of them pause the scan.
LEMMA FailedKeeps == ASSUME ScanInv, NEW w \in Workers, Failed(w) PROVE ScanInv'
<1>1. Typed /\ Staged /\ Taken /\ Counted /\ Made
  BY DEF ScanInv
<1>2. UNCHANGED <<server, cards, created, devices, request>> /\ worker[w].at = "signing" /\ Busy(w)
  BY DEF Failed, Busy
<1>3. PICK a \in Addresses : a = worker[w].address
  BY <1>1, <1>2, WorkerAsItIs
<1>4. /\ worker' \in [Workers -> Threads] /\ \A v \in Workers \ {w} : worker'[v] = worker[v]
      /\ worker'[w].at = "idle"
  BY <1>1, WorkerGoes, ThreadsAre DEF Failed
<1>5. PICK begun : begun = since.begun \ {w}
  OBVIOUS
<1>6. /\ Cardinality(SigningIn') = scan.signingIn - 1 /\ scan.signingIn - 1 \in Nat
      /\ begun = {v \in SigningIn' : worker'[v].generation = scan.continues}
      /\ \A v \in SigningIn' : worker'[v].generation <= scan.continues
      /\ begun \in SUBSET Workers /\ Cardinality(since.begun) \in Nat
      /\ Cardinality(begun) = IF w \in since.begun THEN Cardinality(since.begun) - 1
                              ELSE Cardinality(since.begun)
  BY <1>1, <1>2, <1>4, <1>5, OneLess
<1>7. /\ place' \in [Addresses -> Open \cup {"todo", "knocking", "unchecked", "closed"}]
      /\ place'[a] = "line" /\ \A b \in Addresses \ {a} : place'[b] = place[b]
  BY <1>1, <1>3, ScanAsItIs DEF Failed, Open
<1>8. Counts(w) <=> w \in since.begun
  BY <1>1, <1>2 DEF Counts, Counted, SigningIn
<1>9. PICK failures \in Nat, phase \in Phases :
        /\ failures = IF Counts(w) THEN scan.failures + 1 ELSE scan.failures
        /\ phase = IF Counts(w) /\ failures >= Limit /\ scan.phase = "running" THEN "paused" ELSE scan.phase
        /\ scan' = [scan EXCEPT !.signingIn = @ - 1, !.failures = failures, !.phase = phase]
  <2> DEFINE failures == IF Counts(w) THEN scan.failures + 1 ELSE scan.failures
             phase == IF Counts(w) /\ failures >= Limit /\ scan.phase = "running" THEN "paused"
                      ELSE scan.phase
  <2>1. failures \in Nat
    BY <1>1, ScanAsItIs
  <2>2. phase \in Phases
    BY <1>1, ScanAsItIs DEF Phases
  <2>3. scan' = [scan EXCEPT !.signingIn = @ - 1, !.failures = failures, !.phase = phase]
    BY DEF Failed
  <2>4. QED
    BY <2>1, <2>2, <2>3
<1>10. /\ scan' \in [phase : Phases, login : BOOLEAN, continues : 0..MaxContinues, failures : Nat,
                     signingIn : Nat, early : BOOLEAN, turn : SUBSET Workers, ends : Nat,
                     main : {"begin", "checking", "joining", "over"}]
       /\ scan'.main = scan.main /\ scan'.ends = scan.ends /\ scan'.failures = failures
       /\ scan'.signingIn = scan.signingIn - 1 /\ scan'.continues = scan.continues
       /\ scan'.login = scan.login /\ scan'.phase = phase
  <2>1. scan' = [scan EXCEPT !.signingIn = @ - 1, !.failures = failures, !.phase = phase]
    BY <1>9
  <2>2. QED
    BY <1>1, <1>6, <2>1 DEF Typed, TypeOK
<1>11. PICK failed : failed = since.failed \cup (IF w \in since.begun THEN {a} ELSE {})
  OBVIOUS
<1>12. /\ since' \in [begun : SUBSET Workers, failed : SUBSET Addresses]
       /\ since'.begun = begun /\ since'.failed = failed /\ failed \in SUBSET Addresses
  <2>1. failed \in SUBSET Addresses
    BY <1>1, <1>11, ScanAsItIs
  <2>2. since' = [begun |-> begun, failed |-> failed]
    BY <1>3, <1>5, <1>11 DEF Failed
  <2>3. QED
    BY <1>6, <2>1, <2>2
<1>13. Typed'
  BY <1>1, <1>2, <1>4, <1>7, <1>10, <1>12 DEF Typed, TypeOK
<1>14. Staged' /\ Taken'
  BY <1>1, <1>2, <1>3, <1>4, <1>7, <1>9, <1>10, AnsweredStays
<1>15. a \notin since.failed /\ \A b \in failed : place'[b] = "line"
  BY <1>1, <1>2, <1>3, <1>7, <1>11, ScanAsItIs DEF Counted, Taken
<1>16. /\ Cardinality(failed) = failures /\ Cardinality(since.failed) = scan.failures
       /\ Cardinality(since.failed) \in Nat
  <2>1. since.failed \in SUBSET Addresses
    BY <1>1, ScanAsItIs
  <2>2. IsFiniteSet(since.failed) /\ Cardinality(since.failed) = scan.failures
        /\ Cardinality(since.failed) \in Nat
    BY <1>1, <2>1, FinitelyMany DEF Counted
  <2>3. CASE w \in since.begun
    <3>1. Cardinality(since.failed \cup {a}) = Cardinality(since.failed) + 1
      BY <1>15, <2>2, FS_AddElement
    <3>2. QED
      BY <1>8, <1>9, <1>11, <2>2, <2>3, <3>1
  <2>4. CASE w \notin since.begun
    BY <1>8, <1>9, <1>11, <2>2, <2>4
  <2>5. QED
    BY <2>3, <2>4
<1>17. Cardinality(failed) + Cardinality(begun) <= Limit - 1 + Cardinality(Workers)
  <2>1. /\ Cardinality(since.failed) + Cardinality(since.begun) <= Limit - 1 + Cardinality(Workers)
        /\ Cardinality(Workers) \in Nat /\ Limit \in Nat
    BY <1>1, FinitelyMany, LimitAssumption DEF Counted
  <2>2. CASE w \in since.begun
    BY <1>6, <1>8, <1>9, <1>16, <2>1, <2>2
  <2>3. CASE w \notin since.begun
    BY <1>6, <1>8, <1>9, <1>16, <2>1, <2>3
  <2>4. QED
    BY <2>2, <2>3
<1>18. /\ phase = "running" => failures < Limit
       /\ phase = "paused" => failures >= Limit
  <2>1. /\ scan.phase = "running" => scan.failures < Limit
        /\ scan.phase = "paused" => scan.failures >= Limit
        /\ scan.failures \in Nat /\ Limit \in Nat
    BY <1>1, ScanAsItIs, LimitAssumption DEF Counted
  <2>2. CASE Counts(w)
    <3>1. failures = scan.failures + 1
      BY <1>9, <2>2
    <3>2. CASE scan.phase = "running"
      <4>1. phase = IF failures >= Limit THEN "paused" ELSE scan.phase
        BY <1>9, <2>2, <3>2
      <4>2. QED
        BY <2>1, <3>1, <3>2, <4>1
    <3>3. CASE scan.phase # "running"
      <4>1. phase = scan.phase
        BY <1>9, <3>3
      <4>2. QED
        BY <2>1, <3>1, <3>3, <4>1
    <3>4. QED
      BY <3>2, <3>3
  <2>3. CASE ~Counts(w)
    <3>1. failures = scan.failures /\ phase = scan.phase
      BY <1>9, <2>3
    <3>2. QED
      BY <2>1, <3>1
  <2>4. QED
    BY <2>2, <2>3
<1>19. Counted'
  BY <1>1, <1>6, <1>10, <1>12, <1>15, <1>16, <1>17, <1>18 DEF Counted
<1>20. QED
  BY <1>1, <1>2, <1>13, <1>14, <1>19, MadeStays DEF ScanInv

\* What a create request may be.
LEMMA AnswersAre ==
  /\ [at |-> "rest"] \in Answers
  /\ \A n \in Nat : [at |-> "creating", scan |-> n] \in Answers
  /\ \A f \in Findings : [at |-> "saving", finding |-> f] \in Answers
BY DEF Answers

\* A request that is saving says so.
LEMMA SavingOne ==
  ASSUME NEW x \in Answers
  PROVE  /\ x.at = "saving" => x.finding \in Findings /\ x = [at |-> "saving", finding |-> x.finding]
         /\ \A f \in Findings : x = [at |-> "saving", finding |-> f] => x.at = "saving" /\ x.finding = f
BY DEF Answers

\* A create request begins, claims a finding, saves it or gives it back.
LEMMA CreatesKeep == ASSUME ScanInv, NEW r \in Requests, Creates(r) PROVE ScanInv'
<1>1. Typed /\ Staged /\ Taken /\ Counted /\ Made
  BY DEF ScanInv
<1>2. UNCHANGED <<server, scan, place, worker, cards, since>>
  BY DEF Creates, CreateBegins, Claims, Saves
<1>3. Staged' /\ Taken' /\ Counted'
  <2>1. Staged'
    BY <1>1, <1>2 DEF Staged, Queued
  <2>2. Taken' /\ Counted'
    BY <1>1, <1>2, TakenStays, CountedStays DEF Busy
  <2>3. QED
    BY <2>1, <2>2
<1>4. /\ devices \in [Findings -> Nat] /\ created \subseteq Findings /\ request \in [Requests -> Answers]
      /\ \A q \in Requests : /\ request[q].at = "saving" => request[q].finding \in Findings
                             /\ request[q].at = "saving" => request[q] = [at |-> "saving",
                                                                          finding |-> request[q].finding]
                             /\ \A f \in Findings : request[q] = [at |-> "saving", finding |-> f] =>
                                  request[q].at = "saving" /\ request[q].finding = f
  BY <1>1, SavingOne, ScanAsItIs
<1>5. ASSUME created' \subseteq Findings, devices' \in [Findings -> Nat], request' \in [Requests -> Answers],
             Made'
      PROVE  ScanInv'
  <2>1. Typed'
    BY <1>1, <1>2, <1>5 DEF Typed, TypeOK
  <2>2. QED
    BY <1>3, <1>5, <2>1 DEF ScanInv
<1>6. \A there \in Answers : Asks(r, there) =>
        /\ request' \in [Requests -> Answers] /\ request'[r] = there
        /\ \A q \in Requests \ {r} : request'[q] = request[q]
  BY <1>4 DEF Asks
<1>7. ASSUME UNCHANGED <<created, devices>>, request[r].at # "saving",
             request' \in [Requests -> Answers], request'[r].at # "saving",
             \A q \in Requests \ {r} : request'[q] = request[q]
      PROVE  Made'
  <2>1. \A f \in created : devices[f] = 1 \/ \E q \in Requests \ {r} : request[q] = [at |-> "saving", finding |-> f]
    BY <1>1, <1>4, <1>7 DEF Made
  <2>2. QED
    BY <1>1, <1>7, <2>1 DEF Made
<1>8. CASE CreateBegins(r)
  <2>1. server.serial \in Nat
    <3>1. server.serial \in {0} \cup Scans
      BY <1>1, ScanAsItIs
    <3>2. \A n \in Scans : n \in Nat
      BY BoundsAssumption
    <3>3. QED
      BY <3>1, <3>2
  <2>2. UNCHANGED <<created, devices>> /\ request[r].at = "rest"
        /\ Asks(r, [at |-> "creating", scan |-> server.serial])
    BY <1>8 DEF CreateBegins
  <2>3. [at |-> "creating", scan |-> server.serial] \in Answers
    BY <2>1, AnswersAre
  <2>4. request' \in [Requests -> Answers] /\ request'[r].at = "creating"
        /\ \A q \in Requests \ {r} : request'[q] = request[q]
    BY <1>6, <2>2, <2>3
  <2>5. QED
    BY <1>4, <1>5, <1>7, <2>2, <2>4
<1>9. ASSUME NEW f \in Findings, request[r].at = "creating", Claimable(f), created' = created \cup {f},
             Asks(r, [at |-> "saving", finding |-> f]), devices' = devices
      PROVE  ScanInv'
  <2>1. /\ request' \in [Requests -> Answers] /\ request'[r] = [at |-> "saving", finding |-> f]
        /\ \A q \in Requests \ {r} : request'[q] = request[q]
    BY <1>6, <1>9, AnswersAre
  <2>2. f \notin created /\ devices[f] = 0 /\ request'[r].at = "saving" /\ request'[r].finding = f
    BY <1>1, <1>9, <2>1 DEF Made, Claimable
  <2>3. \A q \in Requests : request[q].at = "saving" => request[q].finding # f
    BY <1>1, <2>2 DEF Made
  <2>4. (\A g \in Findings : devices[g] \in {0, 1} /\ (devices[g] = 1 => g \in created))'
    BY <1>1, <1>9 DEF Made
  <2>5. (\A q \in Requests : request[q].at = "saving" =>
           request[q].finding \in created /\ devices[request[q].finding] = 0)'
    BY <1>1, <1>9, <2>1, <2>2 DEF Made
  <2>6. \A q, p \in Requests :
          request'[q].at = "saving" /\ request'[p].at = "saving" /\ request'[q].finding = request'[p].finding
            => q = p
    <3>1. ASSUME NEW q \in Requests, NEW p \in Requests, request'[q].at = "saving", request'[p].at = "saving",
                 request'[q].finding = request'[p].finding
          PROVE  q = p
      <4>1. CASE q # r /\ p # r
        BY <1>1, <2>1, <3>1, <4>1 DEF Made
      <4>2. CASE q = r /\ p # r
        BY <2>1, <2>2, <2>3, <3>1, <4>2
      <4>3. CASE q # r /\ p = r
        BY <2>1, <2>2, <2>3, <3>1, <4>3
      <4>4. QED
        BY <4>1, <4>2, <4>3
    <3>2. QED
      BY <3>1
  <2>7. (\A g \in created : devices[g] = 1 \/ \E q \in Requests : request[q] = [at |-> "saving", finding |-> g])'
    <3>1. SUFFICES ASSUME NEW g \in created, devices[g] # 1
                   PROVE  \E q \in Requests : request'[q] = [at |-> "saving", finding |-> g]
      BY <1>9, <2>1
    <3>2. PICK q \in Requests : request[q] = [at |-> "saving", finding |-> g]
      BY <1>1, <3>1 DEF Made
    <3>3. q # r
      BY <1>4, <1>9, <3>1, <3>2
    <3>4. QED
      BY <2>1, <3>2, <3>3
  <2>8. Made'
    BY <2>4, <2>5, <2>6, <2>7 DEF Made
  <2>9. created' \subseteq Findings /\ devices' \in [Findings -> Nat]
    BY <1>4, <1>9
  <2>10. QED
    BY <1>5, <2>1, <2>8, <2>9
<1>10. CASE Claims(r)
  <2>1. ASSUME Asks(r, [at |-> "rest"]), UNCHANGED <<created, devices>>
        PROVE  ScanInv'
    <3>1. request' \in [Requests -> Answers] /\ request'[r].at = "rest" /\ request[r].at = "creating"
          /\ \A q \in Requests \ {r} : request'[q] = request[q]
      BY <1>6, <1>10, <2>1, AnswersAre DEF Claims
    <3>2. QED
      BY <1>4, <1>5, <1>7, <2>1, <3>1
  <2>2. QED
    BY <1>9, <1>10, <2>1 DEF Claims
<1>11. CASE Saves(r)
  <2>1. PICK f \in Findings : f = request[r].finding /\ request[r].at = "saving" /\ f \in created
                              /\ devices[f] = 0
    BY <1>1, <1>4, <1>11 DEF Saves, Made
  <2>2. \A q \in Requests \ {r} : request[q].at = "saving" => request[q].finding # f
    BY <1>1, <2>1 DEF Made
  <2>3. ASSUME NEW there \in Answers, there.at # "saving", Asks(r, there)
        PROVE  /\ request' \in [Requests -> Answers] /\ request'[r] = there
               /\ \A q \in Requests \ {r} : request'[q] = request[q]
    BY <1>6, <2>3
  <2>4. /\ [at |-> "creating", scan |-> f[1]] \in Answers /\ [at |-> "rest"] \in Answers
        /\ [at |-> "creating", scan |-> f[1]].at # "saving" /\ [at |-> "rest"].at # "saving"
    BY AnswersAre, BoundsAssumption DEF Findings
  <2>5. ASSUME NEW there \in Answers, there.at # "saving", Asks(r, there),
               created' \in {created, created \ {f}}, created' = created => devices' = [devices EXCEPT ![f] = 1],
               created' # created => devices' = devices
        PROVE  ScanInv'
    <3>1. /\ request' \in [Requests -> Answers] /\ request'[r] = there
          /\ \A q \in Requests \ {r} : request'[q] = request[q]
      BY <2>3, <2>5
    <3>2. /\ devices' \in [Findings -> Nat] /\ created' \subseteq Findings
          /\ \A g \in Findings \ {f} : devices'[g] = devices[g]
          /\ devices'[f] \in {0, 1} /\ (devices'[f] = 1 <=> f \in created')
      BY <1>4, <2>1, <2>5
    <3>3. (\A g \in Findings : devices[g] \in {0, 1} /\ (devices[g] = 1 => g \in created))'
      BY <1>1, <2>5, <3>2 DEF Made
    <3>4. (\A q \in Requests : request[q].at = "saving" =>
             request[q].finding \in created /\ devices[request[q].finding] = 0)'
      BY <1>1, <1>4, <2>2, <2>5, <3>1, <3>2 DEF Made
    <3>5. \A q, p \in Requests :
            request'[q].at = "saving" /\ request'[p].at = "saving" /\ request'[q].finding = request'[p].finding
              => q = p
      <4>1. ASSUME NEW q \in Requests, NEW p \in Requests, request'[q].at = "saving",
                   request'[p].at = "saving", request'[q].finding = request'[p].finding
            PROVE  q = p
        <5>1. q # r /\ p # r
          BY <2>5, <3>1, <4>1
        <5>2. QED
          BY <1>1, <3>1, <4>1, <5>1 DEF Made
      <4>2. QED
        BY <4>1
    <3>6. (\A g \in created : devices[g] = 1 \/ \E q \in Requests : request[q] = [at |-> "saving", finding |-> g])'
      <4>1. SUFFICES ASSUME NEW g \in created', devices'[g] # 1
                     PROVE  \E q \in Requests : request'[q] = [at |-> "saving", finding |-> g]
        BY <3>1
      <4>2. g \in created /\ g # f /\ devices[g] # 1 /\ g \in Findings
        BY <1>4, <2>5, <3>2, <4>1
      <4>3. PICK q \in Requests : request[q] = [at |-> "saving", finding |-> g]
        BY <1>1, <4>2 DEF Made
      <4>4. q # r
        BY <1>4, <2>1, <4>2, <4>3
      <4>5. QED
        BY <3>1, <4>3, <4>4
    <3>7. Made'
      BY <3>3, <3>4, <3>5, <3>6 DEF Made
    <3>8. QED
      BY <1>5, <3>1, <3>2, <3>7
  <2>6. \/ /\ devices' = [devices EXCEPT ![f] = @ + 1] /\ created' = created
           /\ Asks(r, [at |-> "creating", scan |-> f[1]])
        \/ /\ created' = created \ {f} /\ devices' = devices
           /\ Asks(r, [at |-> "creating", scan |-> f[1]]) \/ Asks(r, [at |-> "rest"])
    BY <1>11, <2>1 DEF Saves, Released
  <2>7. [devices EXCEPT ![f] = @ + 1] = [devices EXCEPT ![f] = 1] /\ created \ {f} # created
    BY <2>1
  <2>8. QED
    BY <2>4, <2>5, <2>6, <2>7
<1>12. QED
  BY <1>8, <1>10, <1>11 DEF Creates

\* At first nobody has started a discovery.
LEMMA ScanFirst == Init => ScanInv
<1> SUFFICES ASSUME Init PROVE ScanInv
  OBVIOUS
<1>1. /\ scan \in [phase : Phases, login : BOOLEAN, continues : 0..MaxContinues, failures : Nat,
                   signingIn : Nat, early : BOOLEAN, turn : SUBSET Workers, ends : Nat,
                   main : {"begin", "checking", "joining", "over"}]
      /\ scan.phase = "done" /\ scan.main = "over" /\ scan.ends = 0 /\ scan.failures = 0 /\ ~scan.login
      /\ scan.signingIn = 0 /\ scan.continues = 0
  <2>1. scan = [phase |-> "done", login |-> "done" = "running", continues |-> 0, failures |-> 0,
                signingIn |-> 0, early |-> FALSE, turn |-> {}, ends |-> 0, main |-> "over"]
    BY DEF Init, Fresh
  <2>2. scan = [phase |-> "done", login |-> FALSE, continues |-> 0, failures |-> 0,
                signingIn |-> 0, early |-> FALSE, turn |-> {}, ends |-> 0, main |-> "over"]
    BY <2>1
  <2>3. 0 \in 0..MaxContinues /\ "done" \in Phases
    BY BoundsAssumption DEF Phases, Ended
  <2>4. QED
    BY <2>2, <2>3
<1>2. /\ worker \in [Workers -> Threads] /\ \A w \in Workers : worker[w].at = "gone"
      /\ place \in [Addresses -> Open \cup {"todo", "knocking", "unchecked", "closed"}]
      /\ \A a \in Addresses : place[a] = "unchecked"
      /\ request \in [Requests -> Answers] /\ \A r \in Requests : request[r].at = "rest"
  BY ThreadsAre, AnswersAre DEF Init
<1>3. since.begun = {} /\ since.failed = {} /\ since \in [begun : SUBSET Workers, failed : SUBSET Addresses]
  BY DEF Init
<1>4. Typed
  BY <1>1, <1>2, <1>3 DEF Init, Typed, TypeOK
<1>5. Staged
  BY <1>1, <1>2 DEF Init, Staged, Ended, Queued
<1>6. Taken /\ Made
  BY <1>2 DEF Init, Taken, Busy, Made
<1>7. Counted
  <2>1. SigningIn = {}
    BY <1>2 DEF SigningIn
  <2>2. 0 <= Limit - 1 + Cardinality(Workers)
    BY LimitAssumption, FinitelyMany
  <2>3. QED
    BY <1>1, <1>3, <2>1, <2>2, FinitelyMany DEF Counted
<1>8. QED
  BY <1>4, <1>5, <1>6, <1>7 DEF ScanInv

\* The invariant of the discovery.
LEMMA DiscoveryInvariant == Spec => []ScanInv
<1>1. ScanInv /\ UNCHANGED vars => ScanInv'
  <2> SUFFICES ASSUME ScanInv, UNCHANGED vars PROVE ScanInv'
    OBVIOUS
  <2>1. UNCHANGED <<server, scan, place, worker, cards, created, devices, request, since>>
    BY DEF vars
  <2>2. Typed'
    BY <2>1 DEF ScanInv, Typed, TypeOK
  <2>3. Staged'
    BY <2>1 DEF ScanInv, Staged, Queued
  <2>4. Taken' /\ Counted' /\ Made'
    BY <2>1, TakenStays, CountedStays, MadeStays DEF ScanInv, Busy
  <2>5. QED
    BY <2>2, <2>3, <2>4 DEF ScanInv
<1>2. ScanInv /\ Next => ScanInv'
  BY StartKeeps, ServerKeeps, ProceedKeeps, ClockKeeps, MainKeeps, ChecksKeep, TakesEndKeeps, TakesKeeps,
     GetsTurnKeeps, TurnComesKeeps, FailedKeeps, SignInEndsKeeps, CreatesKeep DEF Next, Worker
<1>3. QED
  BY <1>1, <1>2, ScanFirst, PTL DEF Spec

\* PauseEarned: a scan is paused only after Limit wrong passwords since the last Continue, and between
\* two Continues at most Limit - 1 more of them can come than there are workers (_failed, may_start and
\* proceed of discovery/scan.py).
THEOREM PausesEarned == Spec => []PauseEarned
<1>1. ScanInv => PauseEarned
  BY DEF ScanInv, Counted, PauseEarned
<1>2. QED
  BY <1>1, DiscoveryInvariant, PTL

\* DiscoverySafe: a scan that says it has ended has answered every open address and its sign-ins are over;
\* a finding becomes one device at most; a scan isn't replaced before its thread has ended (run and the
\* workers of discovery/scan.py, start of webapp/discoveries.py, create of the discovery pages).
THEOREM DiscoveriesKept == Spec => DiscoverySafe
<1>1. ScanInv => TypeOK /\ EndedAnswersAll /\ CreatedOnce
  <2> SUFFICES ASSUME ScanInv PROVE TypeOK /\ EndedAnswersAll /\ CreatedOnce
    OBVIOUS
  <2>1. Typed /\ Staged /\ Taken /\ Counted /\ Made
    BY DEF ScanInv
  <2>2. ASSUME scan.phase \in Ended
        PROVE  /\ \A a \in Addresses : place[a] \notin {"todo", "knocking", "queued", "taken"}
               /\ SigningIn = {} /\ scan.signingIn = 0 /\ ~scan.login
    <3>1. scan.main = "over" /\ ~scan.login /\ \A w \in Workers : worker[w].at = "gone"
      BY <2>1, <2>2 DEF Staged
    <3>2. Queued = {} /\ \A a \in Addresses : place[a] \notin {"todo", "knocking"}
      BY <2>1, <3>1, WorkersAssumption DEF Staged
    <3>3. \A a \in Addresses : place[a] # "taken"
      BY <2>1, <3>1 DEF Taken, Busy
    <3>4. SigningIn = {}
      BY <3>1 DEF SigningIn
    <3>5. scan.signingIn = 0
      BY <2>1, <3>4, FinitelyMany DEF Counted
    <3>6. QED
      BY <3>1, <3>2, <3>3, <3>4, <3>5 DEF Queued
  <2>3. \A f \in Findings : devices[f] <= 1
    BY <2>1 DEF Made
  <2>4. QED
    BY <2>1, <2>2, <2>3 DEF EndedAnswersAll, CreatedOnce, Typed, Made
<1>2. ScanInv /\ [Next]_vars => [server'.serial # server.serial => scan.main = "over"]_vars
  <2> SUFFICES ASSUME ScanInv, Next, server'.serial # server.serial PROVE scan.main = "over"
    BY DEF vars
  <2>1. Staged /\ server \in [serial : {0} \cup Scans, kept : BOOLEAN, stopping : BOOLEAN]
    BY DEF ScanInv, Typed, TypeOK
  <2>2. CASE Start
    BY <2>1, <2>2 DEF Start, NoneRunning, Staged
  <2>3. CASE ~Start
    <3>1. Expires \/ StopChanges \/ UNCHANGED server
      BY <2>3 DEF Next, Proceed, Cancel, GapPasses, Main, RunBegins, ChecksOver, RunEnds, Checks, Knocks,
                  Knocked, Worker, TakesEnd, Takes, GetsTurn, TurnComes, Failed, SignInEnds, Creates,
                  CreateBegins, Claims, Saves
    <3>2. server'.serial = server.serial
      BY <2>1, <3>1 DEF Expires, StopChanges
    <3>3. QED
      BY <3>2
  <2>4. QED
    BY <2>2, <2>3
<1>3. QED
  BY <1>1, <1>2, DiscoveryInvariant, PTL DEF Spec, DiscoverySafe, OneScan
=============================================================================
