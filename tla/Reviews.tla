------------------------------ MODULE Reviews ------------------------------
(***************************************************************************)
(* People decide the devices of a finished job whose commands are in       *)
(* review or rejected (ResultReviews in src/src/results.py, the review     *)
(* route in src/src/webapp/blueprints/jobs.py).                            *)
(*                                                                         *)
(* A decision is one transaction (READ COMMITTED): the row is read and     *)
(* checked, its changed columns are written, the devices alike are read    *)
(* and written, then it is committed and audited.  An UPDATE waits for     *)
(* another transaction's row; the database breaks a circle of waits by     *)
(* failing one of them.                                                    *)
(***************************************************************************)
EXTENDS Naturals, FiniteSets

CONSTANTS Devices, Reviewers,
          Jobs   \* jobs as recorded: device -> [status, open, proven, signature]

VARIABLES
  rows,    \* device -> its row, as committed
  review,  \* reviewer -> where the decision is, and what it has written
  audits   \* the audit rows: [by, device, outcome]

vars == <<rows, review, audits>>

Outcomes == {"confirmed", "rejected"}
Statuses == {"success", "review", "partial", "failed", "not verified", "cancelled"}
Idle == [at |-> "idle", device |-> {}, outcome |-> "confirmed", alike |-> FALSE, todo |-> {}, writes |-> {}]

Init ==
  /\ \E job \in Jobs :
       rows = [d \in Devices |-> [status |-> job[d].status, open |-> job[d].open, proven |-> job[d].proven,
                                  signature |-> job[d].signature, outcome |-> "none", by |-> "nobody"]]
  /\ review = [v \in Reviewers |-> Idle]
  /\ audits = {}

\* awaiting_decision
AwaitingDecision(row) == row.outcome = "none" /\ row.open

-----------------------------------------------------------------------------
(* One decision *)

\* (a plausible bug: the outcome is kept as the status)
SettledAsOutcome(row, outcome) == outcome
\* _settle, on the row as this transaction read it.  The session writes what differs from it: a status
\* that stays what it was is not among the columns.
Settled(row, outcome) ==
  IF outcome = "confirmed" THEN "success" ELSE IF row.proven > 0 THEN "partial" ELSE "failed"
Write(d, outcome) ==
  [device |-> d, status |-> Settled(rows[d], outcome),
   writesStatus |-> Settled(rows[d], outcome) # rows[d].status]

\* (a plausible bug: any device without a decision can be decided)
DecidableUndecided(row) == row.outcome = "none"
Decidable(row) == AwaitingDecision(row)

Deciding(d, outcome, alike) ==
  [at |-> "writing", device |-> {d}, outcome |-> outcome, alike |-> alike,
   todo |-> {Write(d, outcome)}, writes |-> {}]

Goes(v, next) == review' = [review EXCEPT ![v] = next]

\* decide: read and checked (a refusal changes nothing)
Decides(v, d, outcome, alike) ==
  /\ review[v].at = "idle" /\ Decidable(rows[d])
  /\ Goes(v, Deciding(d, outcome, alike))
  /\ UNCHANGED <<rows, audits>>

Writing(v) == {w.device : w \in review[v].writes}
LockedBy(d) == {v \in Reviewers : d \in Writing(v)}

Sent(p, w) == [p EXCEPT !.todo = @ \ {w}, !.writes = @ \cup {w}]

\* One UPDATE: it waits while another transaction holds the row.
Writes(v) ==
  /\ review[v].at \in {"writing", "writing_alike"}
  /\ \E w \in review[v].todo :
       /\ LockedBy(w.device) = {}
       /\ Goes(v, Sent(review[v], w))
  /\ UNCHANGED <<rows, audits>>

\* (a plausible bug: every other device that awaits a decision is alike)
AlikeAny(d) == {e \in Devices \ {d} : AwaitingDecision(rows[e])}
\* alike: the job's other devices that await a decision on the same commands, verdicts and replies
Alike(d) == {e \in Devices \ {d} : AwaitingDecision(rows[e]) /\ rows[e].signature = rows[d].signature}

AlikeToo(p, d) == [p EXCEPT !.at = "writing_alike", !.todo = {Write(e, p.outcome) : e \in Alike(d)}]

\* decide_alike: the query sends the first row's UPDATE, then reads the others.
ReadsAlike(v) ==
  /\ review[v].at = "writing" /\ review[v].alike /\ review[v].todo = {}
  /\ \E d \in review[v].device : Goes(v, AlikeToo(review[v], d))
  /\ UNCHANGED <<rows, audits>>

Committable(v) ==
  /\ review[v].todo = {}
  /\ review[v].at = IF review[v].alike THEN "writing_alike" ELSE "writing"

After(row, w, v) ==
  [row EXCEPT !.outcome = review[v].outcome, !.by = v, !.status = IF w.writesStatus THEN w.status ELSE @]
Committed(p) == [p EXCEPT !.at = "auditing", !.writes = {}, !.todo = p.writes]

Commits(v) ==
  /\ Committable(v)
  /\ rows' = [d \in Devices |-> IF d \in Writing(v)
                                THEN After(rows[d], CHOOSE w \in review[v].writes : w.device = d, v)
                                ELSE rows[d]]
  /\ Goes(v, Committed(review[v]))
  /\ UNCHANGED audits

\* An audit row for each device decided.
Audits(v) ==
  /\ review[v].at = "auditing"
  /\ audits' = audits \cup {[by |-> v, device |-> w.device, outcome |-> review[v].outcome] : w \in review[v].todo}
  /\ Goes(v, Idle)
  /\ UNCHANGED rows

\* A wait in a circle: the database fails this transaction, nothing of it is kept.
Waits(v, u) == \E w \in review[v].todo : review[v].at # "auditing" /\ u \in LockedBy(w.device) /\ u # v
Deadlocked(v) == \E u \in Reviewers : Waits(v, u) /\ Waits(u, v)
Fails(v) ==
  /\ Deadlocked(v)
  /\ Goes(v, Idle)
  /\ UNCHANGED <<rows, audits>>

-----------------------------------------------------------------------------
(* A job's status: in Python, and as a condition in SQL *)

Some(statuses) == \E d \in Devices : rows[d].status \in statuses
AllFailed == \A d \in Devices : rows[d].status = "failed"

JobStatus ==
  IF Some({"cancelled"}) THEN "cancelled"
  ELSE IF AllFailed THEN "failed"
  ELSE IF Some({"failed", "partial"}) THEN "partial"
  ELSE IF Some({"review"}) THEN "review"
  ELSE IF Some({"not verified"}) THEN "not verified"
  ELSE "success"

\* (a plausible bug: a job whose devices all failed is listed as partial too)
JobStatusConditionLoose(status) ==
  /\ status = "cancelled" => Some({"cancelled"})
  /\ status = "failed" => ~Some({"cancelled"}) /\ AllFailed
  /\ status = "partial" => ~Some({"cancelled"}) /\ Some({"failed", "partial"})
  /\ status = "review" => ~Some({"cancelled", "failed", "partial"}) /\ Some({"review"})
  /\ status = "not verified" => ~Some({"cancelled", "failed", "partial", "review"}) /\ Some({"not verified"})
  /\ status = "success" => ~Some(Statuses \ {"success"})
JobStatusCondition(status) ==
  /\ status = "cancelled" => Some({"cancelled"})
  /\ status = "failed" => ~Some({"cancelled"}) /\ AllFailed
  /\ status = "partial" => ~Some({"cancelled"}) /\ ~AllFailed /\ Some({"failed", "partial"})
  /\ status = "review" => ~Some({"cancelled", "failed", "partial"}) /\ Some({"review"})
  /\ status = "not verified" => ~Some({"cancelled", "failed", "partial", "review"}) /\ Some({"not verified"})
  /\ status = "success" => ~Some(Statuses \ {"success"})

-----------------------------------------------------------------------------

Step(v) == Writes(v) \/ ReadsAlike(v) \/ Commits(v) \/ Audits(v) \/ Fails(v)
Next ==
  \/ \E v \in Reviewers, d \in Devices, outcome \in Outcomes, alike \in BOOLEAN : Decides(v, d, outcome, alike)
  \/ \E v \in Reviewers : Step(v)

Spec == Init /\ [][Next]_vars

-----------------------------------------------------------------------------
(* Properties *)

\* The decisions' state is well formed, and no row is being written by two transactions.
TypeOK ==
  /\ \A d \in Devices : rows[d].status \in Statuses /\ Cardinality(LockedBy(d)) <= 1
  /\ \A v \in Reviewers : review[v].at \in {"idle", "writing", "writing_alike", "auditing"}

Deciders(d) == {v \in Reviewers : \/ \E a \in audits : a.device = d /\ a.by = v
                                  \/ review[v].at = "auditing" /\ d \in {w.device : w \in review[v].todo}}

\* A device that one person decided has the status of that decision, whatever was decided of the
\* others at the same time; the row names that person, and only a device that awaited a decision has one.
OneDecisionStands ==
  \A d \in Devices :
    /\ rows[d].outcome # "none" => rows[d].open /\ rows[d].by \in Deciders(d)
    /\ Cardinality({a \in audits : a.device = d}) + Cardinality({v \in Deciders(d) : review[v].at = "auditing"}) = 1
         => rows[d].status = Settled(rows[d], rows[d].outcome)

\* A person who decides a device is followed, in the same request, only on devices with the same
\* signature: every decision of a request that audits several is on one signature.
AlikeIsAlike ==
  \A v \in Reviewers : \A d \in review[v].device, w \in review[v].todo \cup review[v].writes :
    rows[w.device].signature = rows[d].signature

\* job_status_condition(): "true exactly for the jobs job_status calls status", as the devices of a
\* job are decided.
ListsAgree == \A status \in Statuses : JobStatusCondition(status) <=> JobStatus = status

\* What ResultReviews says of a decided device: "confirmed -> success; rejected -> partial when other
\* commands were proven, else failed".
StatusIsOutcome == \A d \in Devices : rows[d].outcome # "none" => rows[d].status = Settled(rows[d], rows[d].outcome)

-----------------------------------------------------------------------------
(***************************************************************************)
(* Why they hold: a transaction that is not committed was read before      *)
(* anybody's decision of its rows was, or somebody else has decided since; *)
(* a person whose decision of a row is committed decides it no more.       *)
(***************************************************************************)
Signatures == {job[d].signature : job \in Jobs, d \in Devices}
Rows == [status : Statuses, open : BOOLEAN, proven : Nat, signature : Signatures,
         outcome : Outcomes \cup {"none"}, by : Reviewers \cup {"nobody"}]
RowWrites == [device : Devices, status : Statuses, writesStatus : BOOLEAN]
Decisions == [at : {"idle", "writing", "writing_alike", "auditing"}, device : SUBSET Devices,
              outcome : Outcomes, alike : BOOLEAN, todo : SUBSET RowWrites, writes : SUBSET RowWrites]
Typed ==
  /\ rows \in [Devices -> Rows] /\ review \in [Reviewers -> Decisions]
  /\ audits \subseteq [by : Reviewers, device : Devices, outcome : Outcomes]

Decided(d) == rows[d].outcome # "none"

\* What v is about to write, of the outcome, to a row it has read.
ReadBefore(v, outcome, w) ==
  LET d == w.device IN
  /\ rows[d].open /\ v \notin Deciders(d)
  /\ w.status = Settled(rows[d], outcome)
  /\ ~Decided(d) => (w.writesStatus <=> w.status # rows[d].status)

\* A row decided by one person alone has the status of that decision.
AloneSettled(d) ==
  /\ Decided(d) => /\ rows[d].open /\ rows[d].by \in Deciders(d)
                   /\ (\A v \in Deciders(d) : v = rows[d].by) => rows[d].status = Settled(rows[d], rows[d].outcome)
  /\ ~Decided(d) => Deciders(d) = {}

OneWriter(d) == \A u, v \in LockedBy(d) : u = v

\* A person decides one device, and those alike; what is read and not committed is as it was read.
InHand(v) ==
  /\ \A w \in review[v].todo \cup review[v].writes :
       review[v].at # "auditing" => ReadBefore(v, review[v].outcome, w)
  /\ review[v].at \in {"idle", "auditing"} => review[v].writes = {}
  /\ \A d, e \in review[v].device : d = e

ReviewInv ==
  /\ Typed /\ AlikeIsAlike
  /\ \A d \in Devices : OneWriter(d) /\ AloneSettled(d)
  /\ \A v \in Reviewers : InHand(v)
=============================================================================
