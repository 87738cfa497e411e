---------------------------- MODULE Push_proofs ----------------------------
(***************************************************************************)
(* Proofs about what a run reports of its devices, and what the followers  *)
(* of its log are shown (Push), for any devices, rollouts, commands,       *)
(* workers, writers, readers and bounds.                                   *)
(***************************************************************************)
EXTENDS Push, FiniteSetTheorems, SequenceTheorems, TLAPS

(***************************************************************************)
(* The engine: what is reported of a device.                               *)
(***************************************************************************)

\* A worker's progress is a record of its fields, and so are a device and a result.
LEMMA PushFields ==
  ASSUME NEW p \in Engine!Pushes
  PROVE  /\ p.at \in Engine!Steps /\ p.finish \in {"save", "command", "auto", "manual", "commit"}
         /\ p.verify \in BOOLEAN /\ p.anew \in BOOLEAN /\ p.compared \in BOOLEAN
         /\ p.sent \in Nat /\ p.before \in SUBSET Engine!Readings /\ p.checks \in Nat
         /\ p.result \in Engine!PushResults
  BY DEF Engine!Pushes

\* A device itself is a record of its fields.
LEMMA BoxFields ==
  ASSUME NEW b \in Engine!Boxes
  PROVE  /\ b.live \in Nat /\ b.saved \in Nat /\ b.candidate \in Nat
         /\ b.committing \in BOOLEAN /\ b.others \in BOOLEAN
  BY DEF Engine!Boxes

\* A push's result is a record of its fields.
LEMMA ResultFields ==
  ASSUME NEW r \in Engine!PushResults
  PROVE  /\ r.applied \in BOOLEAN /\ r.sent \in Nat /\ r.interrupted \in BOOLEAN /\ r.judged \in BOOLEAN
         /\ r.proven \in Nat /\ r.rejected \in BOOLEAN
  BY DEF Engine!PushResults

\* A worker that goes somewhere else.
LEMMA PushGoes ==
  ASSUME push \in [Devices -> Engine!Pushes], NEW d \in Devices, NEW there \in Engine!Steps,
         Engine!Goes(d, there)
  PROVE  /\ push' \in [Devices -> Engine!Pushes] /\ \A e \in Devices \ {d} : push'[e] = push[e]
         /\ LET p == push[d]  q == push'[d]
            IN  /\ q.at = there /\ q.finish = p.finish /\ q.sent = p.sent /\ q.before = p.before
                /\ q.checks = p.checks /\ q.result = p.result /\ q.anew = p.anew /\ q.compared = p.compared
  BY DEF Engine!Goes, Engine!Pushes

\* A worker that is over with a result.
LEMMA PushReturns ==
  ASSUME push \in [Devices -> Engine!Pushes], NEW d \in Devices, NEW r \in Engine!PushResults,
         Engine!Returns(d, r)
  PROVE  /\ push' \in [Devices -> Engine!Pushes] /\ \A e \in Devices \ {d} : push'[e] = push[e]
         /\ LET p == push[d]  q == push'[d]
            IN  /\ q.at = "done" /\ q.finish = p.finish /\ q.sent = p.sent /\ q.before = p.before
                /\ q.checks = p.checks /\ q.result = r /\ q.anew = p.anew /\ q.compared = p.compared
  BY DEF Engine!Returns, Engine!Pushes, Engine!Steps

\* What a failed push returns, an applied one and one that was stopped.
LEMMA NoPushFields ==
  /\ Engine!NoPush \in Engine!PushResults
  /\ Engine!NoPush.applied = FALSE /\ Engine!NoPush.interrupted = FALSE /\ Engine!NoPush.judged = FALSE
  BY DEF Engine!NoPush, Engine!PushResults

\* An applied result and that of a stopped push are results.
LEMMA ResultsOf ==
  ASSUME push \in [Devices -> Engine!Pushes], NEW d \in Devices
  PROVE  /\ LET r == [Engine!NoPush EXCEPT !.sent = push[d].sent]
            IN  r \in Engine!PushResults /\ ~r.applied
         /\ LET r == Engine!Applied(d)
            IN  r \in Engine!PushResults /\ r.applied /\ ~r.interrupted /\ ~r.judged /\ r.sent = push[d].sent
         /\ LET r == Engine!Stopped(d)
            IN  r \in Engine!PushResults /\ r.interrupted
<1>1. push[d].sent \in Nat /\ push[d].sent + 1 \in Nat /\ (push[d].sent > 0) \in BOOLEAN
  BY PushFields
<1>2. QED
  BY <1>1 DEF Engine!NoPush, Engine!PushResults, Engine!Applied, Engine!Stopped

\* What a judgement returns.
LEMMA JudgedFields ==
  ASSUME push \in [Devices -> Engine!Pushes], box \in [Devices -> Engine!Boxes], NEW d \in Devices,
         NEW r \in Engine!Judged(d)
  PROVE  /\ r \in Engine!PushResults /\ r.judged /\ r.sent = push[d].sent /\ r.proven = box[d].live
<1> DEFINE a == Engine!Applied(d)
<1>1. a \in Engine!PushResults /\ a.sent = push[d].sent
  BY ResultsOf
<1>2. box[d].live \in Nat /\ box[d].others \in BOOLEAN /\ push[d].sent \in Nat
  BY BoxFields, PushFields
<1>3. Engine!Proven(d) = box[d].live
  BY DEF Engine!Proven, Engine!Reads
<1> HIDE DEF a
<1>4. PICK rejected \in BOOLEAN :
        r = [a EXCEPT !.judged = TRUE, !.proven = box[d].live,
                      !.rejected = rejected /\ box[d].live < push[d].sent]
  BY <1>3 DEF Engine!Judged, a
<1>5. (rejected /\ box[d].live < push[d].sent) \in BOOLEAN
  OBVIOUS
<1>6. PICK refused \in BOOLEAN : refused = (rejected /\ box[d].live < push[d].sent)
  BY <1>5
<1>7. r = [a EXCEPT !.judged = TRUE, !.proven = box[d].live, !.rejected = refused]
  BY <1>4, <1>6
<1>8. r \in Engine!PushResults
  BY <1>1, <1>2, <1>7, Zenon DEF Engine!PushResults
<1>9. r.judged /\ r.sent = a.sent /\ r.proven = box[d].live
  BY <1>1, <1>2, <1>7 DEF Engine!PushResults
<1>10. QED
  BY <1>1, <1>8, <1>9

\* What a device does with a command: nothing, takes it into its candidate, or has it live (and saved,
\* where that is the same).
LEMMA BoxTakes ==
  ASSUME box \in [Devices -> Engine!Boxes], NEW d \in Devices, Engine!TakesCommand(d)
  PROVE  /\ box' \in [Devices -> Engine!Boxes] /\ \A e \in Devices \ {d} : box'[e] = box[e]
         /\ LET b == box[d]  c == box'[d]
            IN  /\ c.committing = b.committing
                /\ \/ c.live = b.live /\ c.saved = b.saved /\ c.candidate = b.candidate
                   \/ /\ push[d].finish = "commit"
                      /\ c.live = b.live /\ c.saved = b.saved /\ c.candidate = b.candidate + 1
                   \/ /\ push[d].finish # "commit"
                      /\ c.live = b.live + 1 /\ c.candidate = b.candidate
                      /\ c.saved = IF push[d].finish = "auto" THEN b.saved + 1 ELSE b.saved
<1>1. box[d].live + 1 \in Nat /\ box[d].saved + 1 \in Nat /\ box[d].candidate + 1 \in Nat /\ box[d].saved \in Nat
  BY BoxFields
<1>2. CASE box' = box
  BY <1>2
<1>3. CASE push[d].finish = "commit" /\ box' = [box EXCEPT ![d].candidate = @ + 1]
  <2>1. box' \in [Devices -> Engine!Boxes] /\ \A e \in Devices \ {d} : box'[e] = box[e]
    BY <1>1, <1>3, Zenon DEF Engine!Boxes
  <2>2. LET b == box[d]  c == box'[d]
        IN  c.committing = b.committing /\ c.live = b.live /\ c.saved = b.saved /\ c.candidate = b.candidate + 1
    BY <1>3, Zenon DEF Engine!Boxes
  <2>3. QED
    BY <1>3, <2>1, <2>2
<1>4. CASE push[d].finish # "commit"
           /\ box' = [box EXCEPT ![d].live = @ + 1, ![d].saved = IF push[d].finish = "auto" THEN @ + 1 ELSE @]
  <2>1. PICK n \in Nat : n = IF push[d].finish = "auto" THEN box[d].saved + 1 ELSE box[d].saved
    BY <1>1
  <2>2. box' = [box EXCEPT ![d].live = box[d].live + 1, ![d].saved = n]
    BY <1>4, <2>1, Zenon
  <2>3. box' \in [Devices -> Engine!Boxes] /\ \A e \in Devices \ {d} : box'[e] = box[e]
    BY <1>1, <2>2, Zenon DEF Engine!Boxes
  <2>4. LET b == box[d]  c == box'[d]
        IN  c.committing = b.committing /\ c.live = b.live + 1 /\ c.saved = n /\ c.candidate = b.candidate
    BY <2>2, Zenon DEF Engine!Boxes
  <2>5. QED
    BY <1>4, <2>1, <2>3, <2>4
<1>5. QED
  BY <1>2, <1>3, <1>4 DEF Engine!TakesCommand

\* A candidate that is dropped, alone or with the commit that was under way.
LEMMA BoxDrops ==
  ASSUME box \in [Devices -> Engine!Boxes], NEW d \in Devices, Engine!Drops(d)
  PROVE  /\ box' \in [Devices -> Engine!Boxes] /\ \A e \in Devices \ {d} : box'[e] = box[e]
         /\ LET b == box[d]  c == box'[d]
            IN  c.live = b.live /\ c.saved = b.saved /\ c.candidate = 0 /\ c.committing = b.committing
<1>1. box' \in [Devices -> Engine!Boxes] /\ \A e \in Devices \ {d} : box'[e] = box[e]
  <2>1. 0 \in Nat
    OBVIOUS
  <2>2. QED
    BY <2>1, Zenon DEF Engine!Boxes, Engine!Drops
<1>2. QED
  BY <1>1, Zenon DEF Engine!Boxes, Engine!Drops

\* A commit that comes to nothing, and its candidate with it.
LEMMA BoxGivesUp ==
  ASSUME box \in [Devices -> Engine!Boxes], NEW d \in Devices,
         box' = [box EXCEPT ![d].committing = FALSE, ![d].candidate = 0]
  PROVE  /\ box' \in [Devices -> Engine!Boxes] /\ \A e \in Devices \ {d} : box'[e] = box[e]
         /\ LET b == box[d]  c == box'[d]
            IN  c.live = b.live /\ c.saved = b.saved /\ c.candidate = 0 /\ c.committing = FALSE
<1>1. 0 \in Nat /\ FALSE \in BOOLEAN
  OBVIOUS
<1>2. box' \in [Devices -> Engine!Boxes] /\ \A e \in Devices \ {d} : box'[e] = box[e]
  BY <1>1 DEF Engine!Boxes
<1>3. QED
  BY <1>1, <1>2, Zenon DEF Engine!Boxes

\* A commit that goes through.
LEMMA BoxCommitted ==
  ASSUME box \in [Devices -> Engine!Boxes], NEW d \in Devices, box' = [box EXCEPT ![d] = Engine!Committed(@)]
  PROVE  /\ box' \in [Devices -> Engine!Boxes] /\ \A e \in Devices \ {d} : box'[e] = box[e]
         /\ LET b == box[d]  c == box'[d]
            IN  c.live = b.candidate /\ c.saved = b.candidate /\ c.candidate = 0 /\ c.committing = FALSE
<1> DEFINE c == Engine!Committed(box[d])
<1>1. box[d] \in Engine!Boxes /\ box[d].candidate \in Nat /\ 0 \in Nat /\ FALSE \in BOOLEAN
  BY BoxFields
<1>2. c \in Engine!Boxes
  BY <1>1, Zenon DEF Engine!Boxes, Engine!Committed
<1>3. c.live = box[d].candidate /\ c.saved = box[d].candidate /\ c.candidate = 0 /\ c.committing = FALSE
  BY <1>1, Zenon DEF Engine!Boxes, Engine!Committed
<1>4. box' = [box EXCEPT ![d] = c]
  OBVIOUS
<1> HIDE DEF c
<1>5. QED
  BY <1>2, <1>3, <1>4

\* A configuration that is saved, a commit that begins, and somebody else's change.
LEMMA BoxSaved ==
  ASSUME box \in [Devices -> Engine!Boxes], NEW d \in Devices, box' = [box EXCEPT ![d].saved = box[d].live]
  PROVE  /\ box' \in [Devices -> Engine!Boxes] /\ \A e \in Devices \ {d} : box'[e] = box[e]
         /\ LET b == box[d]  c == box'[d]
            IN  c.live = b.live /\ c.saved = b.live /\ c.candidate = b.candidate /\ c.committing = b.committing
<1>1. box[d].live \in Nat
  BY BoxFields
<1>2. box' \in [Devices -> Engine!Boxes] /\ \A e \in Devices \ {d} : box'[e] = box[e]
  BY <1>1, Zenon DEF Engine!Boxes
<1>3. QED
  BY <1>1, <1>2, Zenon DEF Engine!Boxes

\* A save that is made or refused, and the save that a finish may make.
LEMMA BoxMaySave ==
  ASSUME box \in [Devices -> Engine!Boxes], NEW d \in Devices,
         Engine!MaySave(d) \/ box' = box \/ Engine!AfterLeave(d)
  PROVE  /\ box' \in [Devices -> Engine!Boxes] /\ \A e \in Devices \ {d} : box'[e] = box[e]
         /\ LET b == box[d]  c == box'[d]
            IN  /\ c.live = b.live /\ c.saved \in {b.saved, b.live} /\ c.candidate = b.candidate
                /\ c.committing = b.committing
<1>1. CASE box' = [box EXCEPT ![d].saved = box[d].live]
  BY <1>1, BoxSaved
<1>2. CASE box' = box
  BY <1>2
<1>3. QED
  BY <1>1, <1>2 DEF Engine!MaySave, Engine!AfterLeave

\* A commit that begins and isn't answered.
LEMMA BoxSlow ==
  ASSUME box \in [Devices -> Engine!Boxes], NEW d \in Devices, box' = [box EXCEPT ![d].committing = TRUE]
  PROVE  /\ box' \in [Devices -> Engine!Boxes] /\ \A e \in Devices \ {d} : box'[e] = box[e]
         /\ LET b == box[d]  c == box'[d]
            IN  c.live = b.live /\ c.saved = b.saved /\ c.candidate = b.candidate /\ c.committing = TRUE
<1>1. box' \in [Devices -> Engine!Boxes] /\ \A e \in Devices \ {d} : box'[e] = box[e]
  BY Zenon DEF Engine!Boxes
<1>2. QED
  BY <1>1, Zenon DEF Engine!Boxes

\* Somebody else's change.
LEMMA BoxOthers ==
  ASSUME box \in [Devices -> Engine!Boxes], NEW d \in Devices, box' = [box EXCEPT ![d].others = TRUE]
  PROVE  /\ box' \in [Devices -> Engine!Boxes] /\ \A e \in Devices \ {d} : box'[e] = box[e]
         /\ LET b == box[d]  c == box'[d]
            IN  c.live = b.live /\ c.saved = b.saved /\ c.candidate = b.candidate /\ c.committing = b.committing
<1>1. box' \in [Devices -> Engine!Boxes] /\ \A e \in Devices \ {d} : box'[e] = box[e]
  BY Zenon DEF Engine!Boxes
<1>2. QED
  BY <1>1, Zenon DEF Engine!Boxes

\* A worker that read the configuration, sent a command, finished the change, or reads it again.
LEMMA PushReads ==
  ASSUME push \in [Devices -> Engine!Pushes], NEW d \in Devices, NEW before \in SUBSET Engine!Readings,
         push' = [push EXCEPT ![d].at = "entering", ![d].before = before]
  PROVE  /\ push' \in [Devices -> Engine!Pushes] /\ \A e \in Devices \ {d} : push'[e] = push[e]
         /\ LET p == push[d]  q == push'[d]
            IN  /\ q.at = "entering" /\ q.finish = p.finish /\ q.sent = p.sent /\ q.checks = p.checks
                /\ q.result = p.result /\ q.anew = p.anew /\ q.compared = p.compared
<1>1. "entering" \in Engine!Steps
  BY DEF Engine!Steps
<1>2. push' \in [Devices -> Engine!Pushes] /\ \A e \in Devices \ {d} : push'[e] = push[e]
  <2>1. PICK q \in Engine!Pushes : q = [push[d] EXCEPT !.at = "entering", !.before = before]
    BY <1>1, PushFields DEF Engine!Pushes
  <2>2. push' = [push EXCEPT ![d] = q]
    BY <1>1, <2>1
  <2>3. QED
    BY <2>1, <2>2
<1>3. QED
  BY <1>1, <1>2, SMT DEF Engine!Pushes

\* A worker that sent a command.
LEMMA PushSends ==
  ASSUME push \in [Devices -> Engine!Pushes], NEW d \in Devices, NEW there \in Engine!Steps,
         push' = [push EXCEPT ![d].sent = push[d].sent + 1, ![d].at = there]
  PROVE  /\ push' \in [Devices -> Engine!Pushes] /\ \A e \in Devices \ {d} : push'[e] = push[e]
         /\ LET p == push[d]  q == push'[d]
            IN  /\ q.at = there /\ q.finish = p.finish /\ q.sent = p.sent + 1 /\ q.checks = p.checks
                /\ q.result = p.result /\ q.anew = p.anew /\ q.compared = p.compared
<1>1. push[d].sent + 1 \in Nat
  BY PushFields
<1>2. push' \in [Devices -> Engine!Pushes] /\ \A e \in Devices \ {d} : push'[e] = push[e]
  <2>1. PICK q \in Engine!Pushes : q = [push[d] EXCEPT !.sent = push[d].sent + 1, !.at = there]
    BY <1>1, PushFields DEF Engine!Pushes
  <2>2. push' = [push EXCEPT ![d] = q]
    BY <1>1, <2>1
  <2>3. QED
    BY <2>1, <2>2
<1>3. QED
  BY <1>1, <1>2, SMT DEF Engine!Pushes

\* A worker that finished the change goes on to be judged, or is over.
LEMMA PushApplies ==
  ASSUME push \in [Devices -> Engine!Pushes], NEW d \in Devices, NEW judging \in {"judging", "judging_anew"},
         Engine!Applies(d, judging)
  PROVE  /\ push' \in [Devices -> Engine!Pushes] /\ \A e \in Devices \ {d} : push'[e] = push[e]
         /\ LET p == push[d]  q == push'[d]
            IN  /\ q.at \in {judging, "done"} /\ q.finish = p.finish /\ q.sent = p.sent
                /\ q.checks = p.checks /\ q.compared = p.compared
                /\ q.anew <=> judging = "judging_anew"
                /\ q.result \in Engine!PushResults
                /\ q.result.applied /\ ~q.result.interrupted /\ ~q.result.judged
<1>1. PICK there \in {judging, "done"} : there \in Engine!Steps /\ there = Engine!AfterFinish(d, judging)
  BY DEF Engine!AfterFinish, Engine!Steps
<1>2. PICK r \in Engine!PushResults : r.applied /\ ~r.interrupted /\ ~r.judged /\ r = Engine!Applied(d)
  BY ResultsOf
<1>3. PICK anew \in BOOLEAN : anew = (judging = "judging_anew")
  OBVIOUS
<1>4. push' = [push EXCEPT ![d].at = there, ![d].result = r, ![d].anew = anew]
  BY <1>1, <1>2, <1>3, Zenon DEF Engine!Applies
<1>5. there \in Engine!Steps /\ r \in Engine!PushResults /\ anew \in BOOLEAN
  BY <1>1, <1>2, <1>3
<1>6. push' \in [Devices -> Engine!Pushes] /\ \A e \in Devices \ {d} : push'[e] = push[e]
  <2>1. PICK q \in Engine!Pushes : q = [push[d] EXCEPT !.at = there, !.result = r, !.anew = anew]
    BY <1>4, <1>5, PushFields DEF Engine!Pushes
  <2>2. push' = [push EXCEPT ![d] = q]
    BY <1>4, <1>5, <2>1
  <2>3. QED
    BY <2>1, <2>2
<1>7. LET p == push[d]  q == push'[d]
      IN  /\ q.at = there /\ q.finish = p.finish /\ q.sent = p.sent /\ q.checks = p.checks
          /\ q.compared = p.compared /\ q.result = r /\ q.anew = anew
  BY <1>4, <1>5, SMT DEF Engine!Pushes
<1>8. QED
  BY <1>1, <1>2, <1>3, <1>6, <1>7

\* A worker that is over once it has compared the saved configuration.
LEMMA PushCompares ==
  ASSUME push \in [Devices -> Engine!Pushes], NEW d \in Devices, NEW r \in Engine!PushResults,
         push' = [push EXCEPT ![d].at = "done", ![d].result = r, ![d].compared = TRUE]
  PROVE  /\ push' \in [Devices -> Engine!Pushes] /\ \A e \in Devices \ {d} : push'[e] = push[e]
         /\ LET p == push[d]  q == push'[d]
            IN  /\ q.at = "done" /\ q.finish = p.finish /\ q.sent = p.sent
                /\ q.checks = p.checks /\ q.result = r
<1>1. "done" \in Engine!Steps /\ TRUE \in BOOLEAN
  BY DEF Engine!Steps
<1>2. push' \in [Devices -> Engine!Pushes] /\ \A e \in Devices \ {d} : push'[e] = push[e]
  <2>1. PICK q \in Engine!Pushes : q = [push[d] EXCEPT !.at = "done", !.result = r, !.compared = TRUE]
    BY <1>1, PushFields DEF Engine!Pushes
  <2>2. push' = [push EXCEPT ![d] = q]
    BY <1>1, <2>1
  <2>3. QED
    BY <2>1, <2>2
<1>3. QED
  BY <1>1, <1>2, SMT DEF Engine!Pushes

\* A worker that will read the configuration once more.
LEMMA PushChecks ==
  ASSUME push \in [Devices -> Engine!Pushes], NEW d \in Devices,
         push' = [push EXCEPT ![d].checks = push[d].checks + 1]
  PROVE  /\ push' \in [Devices -> Engine!Pushes] /\ \A e \in Devices \ {d} : push'[e] = push[e]
         /\ LET p == push[d]  q == push'[d]
            IN  /\ q.at = p.at /\ q.finish = p.finish /\ q.sent = p.sent /\ q.checks = p.checks + 1
                /\ q.result = p.result /\ q.anew = p.anew /\ q.compared = p.compared
<1>1. push[d].checks + 1 \in Nat
  BY PushFields
<1>2. push' \in [Devices -> Engine!Pushes] /\ \A e \in Devices \ {d} : push'[e] = push[e]
  BY <1>1, Zenon DEF Engine!Pushes
<1>3. QED
  BY <1>1, <1>2, Zenon DEF Engine!Pushes

\* A step of one device leaves the others alone, and the results once they are there.
LEMMA DeviceMoves ==
  ASSUME Engine!RunInv, NEW d \in Devices,
         push' \in [Devices -> Engine!Pushes], \A e \in Devices \ {d} : push'[e] = push[e],
         box' \in [Devices -> Engine!Boxes], \A e \in Devices \ {d} : box'[e] = box[e],
         told \subseteq told', told' \subseteq Devices, cancelFlag' = cancelFlag, collected' = collected,
         results' = results, push' = push \/ push[d].at \notin Engine!Over,
         Engine!Held(push'[d], box'[d]), Engine!Told(d)'
  PROVE  Engine!RunInv'
<1>1. /\ Engine!Typed /\ Engine!Recorded
      /\ \A e \in Devices : Engine!Held(push[e], box[e]) /\ Engine!Told(e)
      /\ push \in [Devices -> Engine!Pushes] /\ box \in [Devices -> Engine!Boxes]
  BY DEF Engine!RunInv, Engine!Typed
<1>2. Engine!Typed'
  BY <1>1 DEF Engine!Typed, Engine!Pushes, Engine!Boxes, Engine!Steps, Engine!PushResults, Engine!Readings
<1>3. Engine!Recorded'
  <2>1. CASE push' = push
    <3>1. \A e \in Devices : Engine!Status(e)' = Engine!Status(e)
      BY <2>1, Zenon DEF Engine!Status
    <3>2. {[device |-> e, status |-> Engine!Status(e)] : e \in Devices}'
            = {[device |-> e, status |-> Engine!Status(e)] : e \in Devices}
      BY <3>1
    <3>3. QED
      BY <1>1, <2>1, <3>2, Zenon DEF Engine!Recorded, Engine!Over
  <2>2. CASE push[d].at \notin Engine!Over
    <3>1. d \notin collected /\ results = {}
      BY <1>1, <2>2 DEF Engine!Recorded
    <3>2. \A e \in collected : push'[e].at \in Engine!Over
      BY <1>1, <3>1 DEF Engine!Recorded, Engine!Typed
    <3>3. QED
      BY <3>1, <3>2 DEF Engine!Recorded, Engine!Over
  <2>3. QED
    BY <2>1, <2>2
<1>4. ASSUME NEW e \in Devices PROVE Engine!Held(push'[e], box'[e]) /\ Engine!Told(e)'
  <2>1. CASE e = d
    BY <2>1
  <2>2. CASE e # d
    BY <1>1, <2>2 DEF Engine!Told, Engine!SaveLookedAt
  <2>3. QED
    BY <2>1, <2>2
<1>5. (\A e \in Devices : Engine!Held(push[e], box[e]) /\ Engine!Told(e))'
  BY <1>4
<1>6. QED
  BY <1>2, <1>3, <1>5 DEF Engine!RunInv

\* A device's state as the invariant has it.
LEMMA DeviceAsItIs ==
  ASSUME Engine!RunInv, NEW d \in Devices
  PROVE  /\ push \in [Devices -> Engine!Pushes] /\ box \in [Devices -> Engine!Boxes]
         /\ push[d].at \in Engine!Steps /\ push[d].finish \in {"save", "command", "auto", "manual", "commit"} /\ push[d].sent \in Nat
         /\ push[d].anew \in BOOLEAN /\ push[d].compared \in BOOLEAN /\ push[d].checks \in Nat
         /\ box[d].live \in Nat /\ box[d].saved \in Nat /\ box[d].candidate \in Nat
         /\ box[d].committing \in BOOLEAN
         /\ Engine!Held(push[d], box[d]) /\ Engine!Told(d) /\ told \subseteq Devices
<1>1. /\ push \in [Devices -> Engine!Pushes] /\ box \in [Devices -> Engine!Boxes]
      /\ Engine!Held(push[d], box[d]) /\ Engine!Told(d) /\ told \subseteq Devices
  BY DEF Engine!RunInv, Engine!Typed
<1>2. push[d] \in Engine!Pushes /\ box[d] \in Engine!Boxes
  BY <1>1
<1>3. QED
  BY <1>1, <1>2, PushFields, BoxFields

\* A worker on its way: the device is as it was, a save apart, and nothing is reported yet.
LEMMA GoesOn ==
  ASSUME Engine!RunInv, NEW d \in Devices, push[d].at \notin Engine!Over,
         push' \in [Devices -> Engine!Pushes], \A e \in Devices \ {d} : push'[e] = push[e],
         push'[d].finish = push[d].finish, push'[d].sent = push[d].sent, push'[d].checks = push[d].checks,
         push'[d].compared = push[d].compared,
         box' \in [Devices -> Engine!Boxes], \A e \in Devices \ {d} : box'[e] = box[e],
         box'[d].live = box[d].live, box'[d].saved \in {box[d].saved, box[d].live},
         box'[d].candidate = box[d].candidate, box'[d].committing = box[d].committing, told' = told, cancelFlag' = cancelFlag, collected' = collected, results' = results,
         push'[d].at \in {"cancelled", "resolving", "connecting", "open", "entering"} =>
           push[d].at \in {"pooled", "resolving", "connecting", "open", "entering"},
         push'[d].at \in {"pushing"} => push[d].at = "entering",
         push'[d].at \in {"leaving", "new_session"} =>
           push[d].finish # "commit" /\ push[d].at \in {"finishing", "leaving"},
         push'[d].at \in {"cancelled", "resolving", "connecting", "open", "entering", "pushing", "leaving",
                          "new_session"},
         box[d].committing => push[d].at # "leaving"
  PROVE  Engine!RunInv'
<1>1. /\ push[d].at \in Engine!Steps /\ push[d].sent \in Nat /\ box \in [Devices -> Engine!Boxes]
      /\ Engine!Held(push[d], box[d]) /\ told \subseteq Devices
      /\ box[d].live \in Nat /\ box[d].saved \in Nat /\ box[d].candidate \in Nat
  BY DeviceAsItIs
<1>2. Commands \in Nat /\ Commands > 0
  BY RunAssumption
<1>3. Engine!Held(push'[d], box'[d])
  BY <1>1, <1>2 DEF Engine!Held, Engine!Over
<1>4. Engine!Told(d)'
  BY DEF Engine!Told
<1>5. QED
  BY <1>1, <1>3, <1>4, DeviceMoves

\* A push that failed: nothing more is live than before.
LEMMA FailsKeep ==
  ASSUME Engine!RunInv, NEW d \in Devices, push[d].at \notin Engine!Over, Engine!Fails(d),
         box' \in [Devices -> Engine!Boxes], \A e \in Devices \ {d} : box'[e] = box[e],
         box'[d].live = box[d].live, box'[d].saved = box[d].saved,
         box'[d].candidate \in {0, box[d].candidate}, box'[d].committing = box[d].committing,
         told \subseteq told', told' \subseteq Devices,
         cancelFlag' = cancelFlag, collected' = collected, results' = results
  PROVE  Engine!RunInv'
<1>1. /\ push \in [Devices -> Engine!Pushes] /\ push[d].sent \in Nat
      /\ Engine!Held(push[d], box[d]) /\ box[d].live \in Nat /\ box[d].candidate \in Nat
  BY DeviceAsItIs
<1> DEFINE r == [Engine!NoPush EXCEPT !.sent = push[d].sent]
<1>2. r \in Engine!PushResults /\ ~r.applied
  BY <1>1, ResultsOf
<1>3. Engine!Returns(d, r)
  BY DEF Engine!Fails
<1> HIDE DEF r
<1>4. /\ push' \in [Devices -> Engine!Pushes] /\ \A e \in Devices \ {d} : push'[e] = push[e]
      /\ push'[d].at = "done" /\ push'[d].finish = push[d].finish /\ push'[d].sent = push[d].sent
      /\ push'[d].checks = push[d].checks /\ push'[d].result = r
  BY <1>1, <1>2, <1>3, PushReturns
<1>5. Commands \in Nat
  BY RunAssumption
<1>6. Engine!Held(push'[d], box'[d])
  BY <1>1, <1>4, <1>5 DEF Engine!Held
<1>7. Engine!Told(d)'
  BY <1>2, <1>4 DEF Engine!Told, Engine!Good
<1>8. QED
  BY <1>4, <1>6, <1>7, DeviceMoves

\* Up to the first command, and from the last one to the save.
LEMMA FirstStepsKeep ==
  ASSUME Engine!RunInv, NEW d \in Devices,
         \/ Engine!Begins(d) \/ Engine!Resolves(d) \/ Engine!Connects(d) \/ Engine!ReadsBefore(d)
         \/ Engine!EntersConfig(d) \/ Engine!Leaves(d) \/ Engine!FinishNoAnswer(d)
  PROVE  Engine!RunInv'
<1>1. /\ push \in [Devices -> Engine!Pushes] /\ box \in [Devices -> Engine!Boxes]
      /\ Engine!Held(push[d], box[d]) /\ told \subseteq Devices /\ told \cup {d} \subseteq Devices
  BY DeviceAsItIs
<1>2. ASSUME Engine!Fails(d), push[d].at \notin Engine!Over, box' = box, told' \in {told, told \cup {d}},
             cancelFlag' = cancelFlag, collected' = collected, results' = results
      PROVE  Engine!RunInv'
  BY <1>1, <1>2, FailsKeep
<1>3. ASSUME NEW there \in {"cancelled", "resolving", "connecting", "open", "entering", "pushing", "leaving",
                            "new_session"},
             Engine!Goes(d, there), box' = box \/ Engine!MaySave(d) \/ Engine!AfterLeave(d), told' = told,
             cancelFlag' = cancelFlag, collected' = collected, results' = results,
             \/ /\ there \in {"cancelled", "resolving", "connecting", "open", "entering"}
                /\ push[d].at \in {"pooled", "resolving", "connecting", "open"}
             \/ there = "pushing" /\ push[d].at = "entering"
             \/ /\ there \in {"leaving", "new_session"} /\ push[d].at \in {"finishing", "leaving"}
                /\ push[d].finish # "commit"
      PROVE  Engine!RunInv'
  <2>1. there \in Engine!Steps
    BY DEF Engine!Steps
  <2>2. /\ push' \in [Devices -> Engine!Pushes] /\ \A e \in Devices \ {d} : push'[e] = push[e]
        /\ push'[d].at = there /\ push'[d].finish = push[d].finish /\ push'[d].sent = push[d].sent
        /\ push'[d].checks = push[d].checks /\ push'[d].compared = push[d].compared
    BY <1>1, <1>3, <2>1, PushGoes
  <2>5. /\ box' \in [Devices -> Engine!Boxes] /\ \A e \in Devices \ {d} : box'[e] = box[e]
        /\ box'[d].live = box[d].live /\ box'[d].saved \in {box[d].saved, box[d].live}
        /\ box'[d].candidate = box[d].candidate /\ box'[d].committing = box[d].committing
    BY <1>1, <1>3, BoxMaySave
  <2>3. box[d].committing => push[d].at # "leaving"
    BY <1>1 DEF Engine!Held
  <2>4. push[d].at \notin Engine!Over
    BY <1>3 DEF Engine!Over
  <2>6. QED
    BY <1>3, <2>2, <2>3, <2>4, <2>5, GoesOn
<1>4. CASE Engine!Begins(d)
  <2>1. PICK there \in {"cancelled", "resolving"} : Engine!Goes(d, there)
    BY <1>4 DEF Engine!Begins
  <2>2. QED
    BY <1>3, <1>4, <2>1 DEF Engine!Begins
<1>5. CASE Engine!Resolves(d)
  BY <1>2, <1>3, <1>5 DEF Engine!Resolves, Engine!Over
<1>6. CASE Engine!Connects(d)
  <2>1. CASE Engine!Fails(d)
    BY <1>2, <1>6, <2>1 DEF Engine!Connects, Engine!Tells, Engine!Over
  <2>2. CASE ~Engine!Fails(d)
    <3>1. PICK there \in {"open", "entering"} : Engine!Goes(d, there)
      BY <1>6, <2>2 DEF Engine!Connects
    <3>2. QED
      BY <1>3, <1>6, <2>2, <3>1 DEF Engine!Connects
  <2>3. QED
    BY <2>1, <2>2
<1>7. CASE Engine!ReadsBefore(d)
  <2>1. Engine!Reads(d) \in Engine!Readings
    BY <1>1, BoxFields DEF Engine!Reads, Engine!Readings
  <2>2. PICK before \in SUBSET Engine!Readings :
          push' = [push EXCEPT ![d].at = "entering", ![d].before = before]
    BY <1>7, <2>1 DEF Engine!ReadsBefore
  <2>3. /\ push' \in [Devices -> Engine!Pushes] /\ \A e \in Devices \ {d} : push'[e] = push[e]
        /\ push'[d].at = "entering" /\ push'[d].finish = push[d].finish /\ push'[d].sent = push[d].sent
        /\ push'[d].checks = push[d].checks /\ push'[d].compared = push[d].compared
    BY <1>1, <2>2, PushReads
  <2>4. /\ push[d].at = "open" /\ box' = box /\ told' = told /\ cancelFlag' = cancelFlag
        /\ collected' = collected /\ results' = results
    BY <1>7 DEF Engine!ReadsBefore
  <2>5. QED
    BY <1>1, <2>3, <2>4, GoesOn DEF Engine!Over
<1>8. CASE Engine!EntersConfig(d)
  BY <1>2, <1>3, <1>8 DEF Engine!EntersConfig, Engine!Tells, Engine!Over
<1>9. CASE Engine!Leaves(d)
  BY <1>3, <1>9 DEF Engine!Leaves
<1>10. CASE Engine!FinishNoAnswer(d)
  <2>1. CASE Engine!Interruptible(d)
    BY <1>3, <1>10, <2>1 DEF Engine!FinishNoAnswer, Engine!Interruptible
  <2>2. CASE ~Engine!Interruptible(d)
    BY <1>2, <1>10, <2>2 DEF Engine!FinishNoAnswer, Engine!Interruptible, Engine!AfterLeave, Engine!Over
  <2>3. QED
    BY <2>1, <2>2
<1>11. QED
  BY <1>4, <1>5, <1>6, <1>7, <1>8, <1>9, <1>10

\* The commands: one is answered, the device stops answering, or the session breaks.
LEMMA CommandsKeep ==
  ASSUME Engine!RunInv, NEW d \in Devices,
         Engine!Sends(d) \/ Engine!NoAnswer(d) \/ Engine!Breaks(d)
  PROVE  Engine!RunInv'
<1>1. /\ push \in [Devices -> Engine!Pushes] /\ box \in [Devices -> Engine!Boxes]
      /\ push[d].finish \in {"save", "command", "auto", "manual", "commit"} /\ push[d].sent \in Nat
      /\ Engine!Held(push[d], box[d]) /\ told \subseteq Devices /\ told \cup {d} \subseteq Devices
      /\ box[d].live \in Nat /\ box[d].saved \in Nat /\ box[d].candidate \in Nat
  BY DeviceAsItIs
<1>2. Commands \in Nat /\ Commands > 0
  BY RunAssumption
<1>3. ASSUME push[d].at = "pushing", Engine!TakesCommand(d), NEW there \in {"pushing", "finishing", "new_session"},
             push' = [push EXCEPT ![d].sent = push[d].sent + 1, ![d].at = there],
             (there = "pushing") <=> push[d].sent + 1 # Commands,
             there = "new_session" => push[d].finish # "commit",
             told' = told, cancelFlag' = cancelFlag, collected' = collected, results' = results
      PROVE  Engine!RunInv'
  <2>1. there \in Engine!Steps
    BY DEF Engine!Steps
  <2>2. /\ push' \in [Devices -> Engine!Pushes] /\ \A e \in Devices \ {d} : push'[e] = push[e]
        /\ push'[d].at = there /\ push'[d].finish = push[d].finish /\ push'[d].sent = push[d].sent + 1
        /\ push'[d].checks = push[d].checks /\ push'[d].compared = push[d].compared
    BY <1>1, <1>3, <2>1, PushSends
  <2>3. /\ box' \in [Devices -> Engine!Boxes] /\ \A e \in Devices \ {d} : box'[e] = box[e]
        /\ LET b == box[d]  c == box'[d]
           IN  /\ c.committing = b.committing
               /\ \/ c.live = b.live /\ c.saved = b.saved /\ c.candidate = b.candidate
                  \/ /\ push[d].finish = "commit"
                     /\ c.live = b.live /\ c.saved = b.saved /\ c.candidate = b.candidate + 1
                  \/ /\ push[d].finish # "commit"
                     /\ c.live = b.live + 1 /\ c.candidate = b.candidate
                     /\ c.saved = IF push[d].finish = "auto" THEN b.saved + 1 ELSE b.saved
    BY <1>1, <1>3, BoxTakes
  <2>4. push[d].sent < Commands /\ push[d].at \notin Engine!Over
    BY <1>1, <1>3 DEF Engine!Held, Engine!Over
  <2>5. Engine!Held(push'[d], box'[d])
    BY <1>1, <1>2, <1>3, <2>2, <2>3, <2>4 DEF Engine!Held
  <2>6. Engine!Told(d)'
    BY <1>3, <2>2 DEF Engine!Told
  <2>7. QED
    BY <1>1, <1>3, <2>2, <2>3, <2>4, <2>5, <2>6, DeviceMoves
<1>4. CASE Engine!Sends(d)
  <2>1. PICK there \in {"pushing", "finishing"} :
          there = IF push[d].sent + 1 = Commands THEN "finishing" ELSE "pushing"
    OBVIOUS
  <2>2. push[d].at = "pushing" /\ push' = [push EXCEPT ![d].sent = push[d].sent + 1, ![d].at = there]
    BY <1>4, <2>1 DEF Engine!Sends
  <2>3. QED
    BY <1>3, <1>4, <2>1, <2>2 DEF Engine!Sends
<1>5. CASE Engine!NoAnswer(d)
  <2>1. push[d].at = "pushing" /\ push[d].at \notin Engine!Over
        /\ cancelFlag' = cancelFlag /\ collected' = collected /\ results' = results
    BY <1>5 DEF Engine!NoAnswer, Engine!Over
  <2>2. CASE push[d].finish = "commit"
    <3>1. Engine!Fails(d) /\ Engine!Drops(d) /\ told' = told
      BY <1>5, <2>2 DEF Engine!NoAnswer, Engine!Interruptible
    <3>2. /\ box' \in [Devices -> Engine!Boxes] /\ \A e \in Devices \ {d} : box'[e] = box[e]
          /\ box'[d].live = box[d].live /\ box'[d].saved = box[d].saved /\ box'[d].candidate = 0
          /\ box'[d].committing = box[d].committing
      BY <1>1, <3>1, BoxDrops
    <3>3. QED
      BY <1>1, <2>1, <3>1, <3>2, FailsKeep
  <2>3. CASE push[d].finish # "commit" /\ push[d].sent + 1 = Commands
    <3>1. /\ Engine!TakesCommand(d) /\ told' = told
          /\ push' = [push EXCEPT ![d].sent = push[d].sent + 1, ![d].at = "new_session"]
      BY <1>5, <2>3 DEF Engine!NoAnswer, Engine!Interruptible
    <3>2. QED
      BY <1>3, <2>1, <2>3, <3>1
  <2>4. CASE push[d].finish # "commit" /\ push[d].sent + 1 # Commands
    <3> DEFINE r == Engine!Stopped(d)
    <3>1. /\ Engine!TakesCommand(d) /\ told' = told \cup {d} /\ Engine!Returns(d, r)
      BY <1>5, <2>4 DEF Engine!NoAnswer, Engine!Interruptible, Engine!Tells
    <3>2. r \in Engine!PushResults /\ r.interrupted
      BY <1>1, ResultsOf
    <3> HIDE DEF r
    <3>3. /\ push' \in [Devices -> Engine!Pushes] /\ \A e \in Devices \ {d} : push'[e] = push[e]
          /\ push'[d].at = "done" /\ push'[d].finish = push[d].finish /\ push'[d].sent = push[d].sent
          /\ push'[d].checks = push[d].checks /\ push'[d].result = r
      BY <1>1, <3>1, <3>2, PushReturns
    <3>4. /\ box' \in [Devices -> Engine!Boxes] /\ \A e \in Devices \ {d} : box'[e] = box[e]
          /\ LET b == box[d]  c == box'[d]
             IN  /\ c.committing = b.committing
                 /\ \/ c.live = b.live /\ c.saved = b.saved /\ c.candidate = b.candidate
                    \/ /\ c.live = b.live + 1 /\ c.candidate = b.candidate
                       /\ c.saved = IF push[d].finish = "auto" THEN b.saved + 1 ELSE b.saved
      BY <1>1, <2>4, <3>1, BoxTakes
    <3>5. push[d].sent < Commands /\ box[d].live <= push[d].sent
      BY <1>1, <2>1 DEF Engine!Held
    <3>6. Engine!Held(push'[d], box'[d])
      BY <1>1, <1>2, <2>1, <2>4, <3>3, <3>4, <3>5 DEF Engine!Held
    <3>7. Engine!Told(d)'
      BY <3>2, <3>3 DEF Engine!Told, Engine!Good
    <3>8. QED
      BY <1>1, <2>1, <3>1, <3>3, <3>4, <3>6, <3>7, DeviceMoves
  <2>5. QED
    BY <2>2, <2>3, <2>4
<1>6. CASE Engine!Breaks(d)
  <2>1. /\ Engine!Fails(d) /\ Engine!Drops(d) /\ told' = told /\ push[d].at \notin Engine!Over
        /\ cancelFlag' = cancelFlag /\ collected' = collected /\ results' = results
    BY <1>6 DEF Engine!Breaks, Engine!Over
  <2>2. /\ box' \in [Devices -> Engine!Boxes] /\ \A e \in Devices \ {d} : box'[e] = box[e]
        /\ box'[d].live = box[d].live /\ box'[d].saved = box[d].saved /\ box'[d].candidate = 0
        /\ box'[d].committing = box[d].committing
    BY <1>1, <2>1, BoxDrops
  <2>3. QED
    BY <1>1, <2>1, <2>2, FailsKeep
<1>7. QED
  BY <1>4, <1>5, <1>6

\* A commit: made, come to nothing, failed, or not answered in time.
LEMMA CommitKeeps ==
  ASSUME Engine!RunInv, NEW d \in Devices, Engine!Commits(d)
  PROVE  Engine!RunInv'
<1>1. /\ push \in [Devices -> Engine!Pushes] /\ box \in [Devices -> Engine!Boxes]
      /\ push[d].sent \in Nat
      /\ Engine!Held(push[d], box[d]) /\ told \subseteq Devices /\ told \cup {d} \subseteq Devices
      /\ box[d].live \in Nat /\ box[d].saved \in Nat /\ box[d].candidate \in Nat
  BY DeviceAsItIs
<1>2. Commands \in Nat /\ Commands > 0
  BY RunAssumption
<1>3. /\ push[d].at = "finishing" /\ push[d].finish = "commit" /\ push[d].at \notin Engine!Over
      /\ cancelFlag' = cancelFlag /\ collected' = collected /\ results' = results
  BY DEF Engine!Commits, Engine!Over
<1>4. push[d].sent = Commands /\ box[d].live = 0 /\ box[d].saved = 0 /\ ~box[d].committing
      /\ box[d].candidate <= Commands
  BY <1>1, <1>3 DEF Engine!Held
<1>5. ASSUME NEW there \in {"leaving", "slow"}, Engine!Goes(d, there), told' = told,
             box' \in [Devices -> Engine!Boxes], \A e \in Devices \ {d} : box'[e] = box[e],
             box'[d].live = box'[d].saved, box'[d].live <= Commands, box'[d].candidate <= Commands,
             box'[d].live \in Nat, box'[d].candidate \in Nat,
             box'[d].committing => there = "slow" /\ box'[d].live = 0
      PROVE  Engine!RunInv'
  <2>1. there \in Engine!Steps
    BY DEF Engine!Steps
  <2>2. /\ push' \in [Devices -> Engine!Pushes] /\ \A e \in Devices \ {d} : push'[e] = push[e]
        /\ push'[d].at = there /\ push'[d].finish = push[d].finish /\ push'[d].sent = push[d].sent
        /\ push'[d].checks = push[d].checks /\ push'[d].compared = push[d].compared
    BY <1>1, <1>5, <2>1, PushGoes
  <2>3. Engine!Held(push'[d], box'[d])
    BY <1>1, <1>2, <1>3, <1>4, <1>5, <2>2 DEF Engine!Held
  <2>4. Engine!Told(d)'
    BY <1>5, <2>2 DEF Engine!Told
  <2>5. QED
    BY <1>1, <1>3, <1>5, <2>2, <2>3, <2>4, DeviceMoves
<1>6. CASE box[d].candidate = 0 /\ Engine!Goes(d, "leaving") /\ box' = box /\ told' = told
  BY <1>1, <1>4, <1>5, <1>6
<1>7. CASE box' = [box EXCEPT ![d] = Engine!Committed(@)] /\ Engine!Goes(d, "leaving") /\ told' = told
  <2>1. /\ box' \in [Devices -> Engine!Boxes] /\ \A e \in Devices \ {d} : box'[e] = box[e]
        /\ box'[d].live = box[d].candidate /\ box'[d].saved = box[d].candidate /\ box'[d].candidate = 0
        /\ box'[d].committing = FALSE
    BY <1>1, <1>7, BoxCommitted
  <2>2. QED
    BY <1>1, <1>2, <1>4, <1>5, <1>7, <2>1
<1>8. CASE Engine!Drops(d) /\ Engine!Fails(d) /\ told' = told
  <2>1. /\ box' \in [Devices -> Engine!Boxes] /\ \A e \in Devices \ {d} : box'[e] = box[e]
        /\ box'[d].live = box[d].live /\ box'[d].saved = box[d].saved /\ box'[d].candidate = 0
        /\ box'[d].committing = box[d].committing
    BY <1>1, <1>8, BoxDrops
  <2>2. QED
    BY <1>1, <1>3, <1>8, <2>1, FailsKeep
<1>9. CASE Engine!Fails(d) /\ Engine!Tells(d) /\ box' = box
  BY <1>1, <1>3, <1>9, FailsKeep DEF Engine!Tells
<1>10. CASE box' = [box EXCEPT ![d].committing = TRUE] /\ Engine!Goes(d, "slow") /\ told' = told
  <2>1. /\ box' \in [Devices -> Engine!Boxes] /\ \A e \in Devices \ {d} : box'[e] = box[e]
        /\ box'[d].live = box[d].live /\ box'[d].saved = box[d].saved
        /\ box'[d].candidate = box[d].candidate /\ box'[d].committing = TRUE
    BY <1>1, <1>10, BoxSlow
  <2>2. QED
    BY <1>1, <1>2, <1>4, <1>5, <1>10, <2>1
<1>11. QED
  BY <1>6, <1>7, <1>8, <1>9, <1>10 DEF Engine!Commits

\* The change is finished, in this session or in a new one: a save that the platform tells was refused
\* is told.
LEMMA FinishKeeps ==
  ASSUME Engine!RunInv, NEW d \in Devices, Engine!Finishes(d) \/ Engine!SavesAnew(d)
  PROVE  Engine!RunInv'
<1>1. /\ push \in [Devices -> Engine!Pushes] /\ box \in [Devices -> Engine!Boxes]
      /\ push[d].sent \in Nat /\ push[d].finish \in {"save", "command", "auto", "manual", "commit"}
      /\ Engine!Held(push[d], box[d]) /\ told \subseteq Devices /\ told \cup {d} \subseteq Devices
      /\ box[d].live \in Nat /\ box[d].saved \in Nat /\ box[d].candidate \in Nat
  BY DeviceAsItIs
<1>2. Commands \in Nat /\ Commands > 0
  BY RunAssumption
<1>3. /\ push[d].at \in {"leaving", "new_session"} /\ push[d].at \notin Engine!Over
      /\ cancelFlag' = cancelFlag /\ collected' = collected /\ results' = results
  BY DEF Engine!Finishes, Engine!SavesAnew, Engine!Over
<1>4. /\ box' \in [Devices -> Engine!Boxes] /\ \A e \in Devices \ {d} : box'[e] = box[e]
      /\ box'[d].live = box[d].live /\ box'[d].candidate = box[d].candidate
      /\ box'[d].committing = box[d].committing /\ box'[d].saved \in {box[d].saved, box[d].live}
  BY <1>1, BoxMaySave DEF Engine!Finishes, Engine!SavesAnew
<1>5. told \subseteq told' /\ told' \subseteq Devices
  BY <1>1 DEF Engine!Finishes, Engine!SavesAnew, Engine!ToldAfter, Engine!Tells
<1>6. ASSUME NEW judging \in {"judging", "judging_anew"}, Engine!Applies(d, judging),
             judging = "judging" /\ push[d].finish = "command" => d \in told' \/ box'[d].live <= box'[d].saved
      PROVE  Engine!RunInv'
  <2>1. /\ push' \in [Devices -> Engine!Pushes] /\ \A e \in Devices \ {d} : push'[e] = push[e]
        /\ push'[d].at \in {judging, "done"} /\ push'[d].finish = push[d].finish
        /\ push'[d].sent = push[d].sent /\ push'[d].checks = push[d].checks
        /\ push'[d].compared = push[d].compared /\ (push'[d].anew <=> judging = "judging_anew")
        /\ push'[d].result.applied /\ ~push'[d].result.interrupted /\ ~push'[d].result.judged
    BY <1>1, <1>6, PushApplies
  <2>2. ~push[d].compared
    BY <1>1, <1>3 DEF Engine!Held, Engine!Over
  <2>3. Engine!Held(push'[d], box'[d])
    BY <1>1, <1>2, <1>3, <1>4, <2>1, <2>2 DEF Engine!Held
  <2>4. ~box'[d].committing
    BY <1>1, <1>3, <1>4 DEF Engine!Held
  <2>5. Engine!SaveLookedAt(d)' => judging = "judging" /\ push[d].finish = "command"
    BY <2>1, <2>2 DEF Engine!SaveLookedAt
  <2>6. Engine!Told(d)'
    BY <1>6, <2>1, <2>4, <2>5 DEF Engine!Told
  <2>7. QED
    BY <1>3, <1>4, <1>5, <2>1, <2>3, <2>6, DeviceMoves
<1>7. CASE Engine!Finishes(d)
  <2>1. Engine!Applies(d, "judging") /\ told' = Engine!ToldAfter(d)
    BY <1>7 DEF Engine!Finishes
  <2>2. push[d].finish = "command" => d \in told' \/ box'[d].live <= box'[d].saved
    BY <1>1, <1>4, <2>1 DEF Engine!ToldAfter
  <2>3. QED
    BY <1>6, <2>1, <2>2
<1>8. CASE Engine!SavesAnew(d)
  BY <1>6, <1>8 DEF Engine!SavesAnew
<1>9. QED
  BY <1>7, <1>8

\* The judgement, of the configuration now or of what a slow commit has changed.
LEMMA JudgeKeeps ==
  ASSUME Engine!RunInv, NEW d \in Devices,
         Engine!Judges(d) \/ Engine!ComparesSaved(d) \/ Engine!SlowCommit(d)
  PROVE  Engine!RunInv'
<1>1. /\ push \in [Devices -> Engine!Pushes] /\ box \in [Devices -> Engine!Boxes]
      /\ push[d].sent \in Nat /\ push[d].checks \in Nat
      /\ Engine!Held(push[d], box[d]) /\ Engine!Told(d)
      /\ told \subseteq Devices /\ told \cup {d} \subseteq Devices
      /\ box[d].live \in Nat /\ box[d].saved \in Nat /\ box[d].candidate \in Nat
  BY DeviceAsItIs
<1>2. Commands \in Nat /\ Commands > 0
  BY RunAssumption
<1>3. /\ push[d].at \in {"judging", "judging_anew", "slow"} /\ push[d].at \notin Engine!Over /\ box' = box
      /\ cancelFlag' = cancelFlag /\ collected' = collected /\ results' = results
  BY DEF Engine!Judges, Engine!ComparesSaved, Engine!SlowCommit, Engine!Over
<1>4. push[d].sent = Commands /\ box[d].live <= Commands /\ (box[d].committing => push[d].at = "slow" /\ box[d].live = 0)
      /\ ~push[d].compared /\ (push[d].at = "judging_anew" => push[d].anew)
      /\ (push[d].at = "slow" => push[d].finish = "commit")
  BY <1>1, <1>3 DEF Engine!Held, Engine!Over
<1>5. ASSUME NEW r \in Engine!PushResults, Engine!Returns(d, r), told \subseteq told', told' \subseteq Devices,
             Engine!Good(r) => ~box[d].committing /\ (r.judged => box[d].live = Commands)
      PROVE  Engine!RunInv'
  <2>1. /\ push' \in [Devices -> Engine!Pushes] /\ \A e \in Devices \ {d} : push'[e] = push[e]
        /\ push'[d].at = "done" /\ push'[d].finish = push[d].finish /\ push'[d].sent = push[d].sent
        /\ push'[d].checks = push[d].checks /\ push'[d].result = r
        /\ push'[d].anew = push[d].anew /\ push'[d].compared = push[d].compared
    BY <1>1, <1>5, PushReturns
  <2>2. Engine!Held(push'[d], box'[d])
    BY <1>1, <1>2, <1>3, <2>1 DEF Engine!Held
  <2>3. Engine!SaveLookedAt(d)' => push[d].at = "judging" /\ Engine!SaveLookedAt(d)
    BY <1>3, <1>4, <2>1 DEF Engine!SaveLookedAt
  <2>4. Engine!Told(d)'
    BY <1>1, <1>3, <1>5, <2>1, <2>3 DEF Engine!Told
  <2>5. QED
    BY <1>1, <1>3, <1>5, <2>1, <2>2, <2>4, DeviceMoves
<1>6. ASSUME NEW r \in Engine!Judged(d), Engine!Good(r)
      PROVE  box[d].live = Commands /\ ~box[d].committing
  <2>1. r.judged /\ r.sent = push[d].sent /\ r.proven = box[d].live
    BY <1>1, JudgedFields
  <2>2. r.proven >= r.sent
    BY <1>6, <2>1 DEF Engine!Good
  <2>3. QED
    BY <1>1, <1>2, <1>4, <2>1, <2>2
<1>7. CASE Engine!Judges(d)
  <2>1. PICK r \in Engine!Judged(d) \cup {Engine!Applied(d)} : Engine!Returns(d, r)
    BY <1>7 DEF Engine!Judges
  <2>2. r \in Engine!PushResults /\ (r = Engine!Applied(d) => ~r.judged)
    BY <1>1, <2>1, JudgedFields, ResultsOf
  <2>3. told \subseteq told' /\ told' \subseteq Devices
    BY <1>1, <1>7 DEF Engine!Judges
  <2>4. ~box[d].committing
    BY <1>4, <1>7 DEF Engine!Judges
  <2>5. QED
    BY <1>5, <1>6, <2>1, <2>2, <2>3, <2>4
<1>8. CASE Engine!SlowCommit(d)
  <2>0. push[d].at = "slow"
    BY <1>8 DEF Engine!SlowCommit
  <2>1. CASE \E r \in Engine!Judged(d) : Engine!Returns(d, r) /\ told' = told
    <3>1. PICK r \in Engine!Judged(d) : Engine!Returns(d, r)
      BY <2>1
    <3>2. r \in Engine!PushResults
      BY <1>1, <3>1, JudgedFields
    <3>3. QED
      BY <1>1, <1>4, <1>5, <1>6, <2>0, <2>1, <3>1, <3>2
  <2>2. CASE Engine!ChecksLeft(d) /\ push' = [push EXCEPT ![d].checks = @ + 1] /\ told' = told
    <3>1. push' = [push EXCEPT ![d].checks = push[d].checks + 1] /\ push[d].checks + 1 < CommitChecks
      BY <2>2 DEF Engine!ChecksLeft
    <3>2. /\ push' \in [Devices -> Engine!Pushes] /\ \A e \in Devices \ {d} : push'[e] = push[e]
          /\ push'[d].at = push[d].at /\ push'[d].finish = push[d].finish /\ push'[d].sent = push[d].sent
          /\ push'[d].checks = push[d].checks + 1
      BY <1>1, <3>1, PushChecks
    <3>3. Engine!Held(push'[d], box'[d])
      BY <1>1, <1>3, <2>0, <3>1, <3>2 DEF Engine!Held
    <3>4. Engine!Told(d)'
      BY <2>0, <3>2 DEF Engine!Told
    <3>5. QED
      BY <1>1, <1>3, <2>2, <3>2, <3>3, <3>4, DeviceMoves
  <2>3. CASE Engine!Fails(d) /\ Engine!Tells(d)
    BY <1>1, <1>3, <2>3, FailsKeep DEF Engine!Tells
  <2>4. QED
    BY <1>8, <2>1, <2>2, <2>3 DEF Engine!SlowCommit
<1>9. CASE Engine!ComparesSaved(d)
  <2>1. PICK r \in Engine!Judged(d) :
          push' = [push EXCEPT ![d].at = "done", ![d].result = r, ![d].compared = TRUE]
    BY <1>9 DEF Engine!ComparesSaved
  <2>2. r \in Engine!PushResults
    BY <1>1, JudgedFields
  <2>3. /\ push' \in [Devices -> Engine!Pushes] /\ \A e \in Devices \ {d} : push'[e] = push[e]
        /\ push'[d].at = "done" /\ push'[d].finish = push[d].finish /\ push'[d].sent = push[d].sent
        /\ push'[d].checks = push[d].checks /\ push'[d].result = r
    BY <1>1, <2>1, <2>2, PushCompares
  <2>4. told \subseteq told' /\ told' \subseteq Devices /\ (d \in told' \/ box[d].live <= box[d].saved)
    <3>1. told' = IF box[d].saved < box[d].live THEN told \cup {d} ELSE told
      BY <1>9 DEF Engine!ComparesSaved, Engine!ToldUnsaved
    <3>2. box[d].saved < box[d].live \/ box[d].live <= box[d].saved
      BY <1>1
    <3>3. QED
      BY <1>1, <3>1, <3>2
  <2>5. Engine!Held(push'[d], box'[d])
    BY <1>1, <1>2, <1>3, <2>3 DEF Engine!Held
  <2>6. ~box[d].committing
    BY <1>4, <1>9 DEF Engine!ComparesSaved
  <2>7. Engine!Told(d)'
    BY <1>3, <1>6, <2>3, <2>4, <2>6 DEF Engine!Told
  <2>8. QED
    BY <1>1, <1>3, <2>3, <2>4, <2>5, <2>7, DeviceMoves
<1>10. QED
  BY <1>7, <1>8, <1>9

\* The device goes on by itself: a commit that goes through or comes to nothing, somebody else's change.
LEMMA BoxStepsKeep ==
  ASSUME Engine!RunInv, NEW d \in Devices,
         Engine!CommitGoesThrough(d) \/ Engine!CommitComesToNothing(d) \/ Engine!SomebodyChanges(d)
  PROVE  Engine!RunInv'
<1>1. /\ push \in [Devices -> Engine!Pushes] /\ box \in [Devices -> Engine!Boxes]
      /\ push[d].at \in Engine!Steps /\ push[d].sent \in Nat
      /\ Engine!Held(push[d], box[d]) /\ Engine!Told(d) /\ told \subseteq Devices
      /\ box[d].live \in Nat /\ box[d].saved \in Nat /\ box[d].candidate \in Nat
  BY DeviceAsItIs
<1>2. push' = push /\ told' = told /\ cancelFlag' = cancelFlag /\ collected' = collected /\ results' = results
  BY DEF Engine!CommitGoesThrough, Engine!CommitComesToNothing, Engine!SomebodyChanges
<1>3. ASSUME box' \in [Devices -> Engine!Boxes], \A e \in Devices \ {d} : box'[e] = box[e],
             \/ /\ box'[d].live = box[d].live /\ box'[d].saved = box[d].saved
                /\ box'[d].candidate \in {0, box[d].candidate}
                /\ box'[d].committing => box[d].committing
             \/ /\ box[d].committing /\ ~box'[d].committing
                /\ box'[d].live = box[d].candidate /\ box'[d].saved = box[d].candidate
                /\ box'[d].candidate = 0
      PROVE  Engine!RunInv'
  <2>1. push[d].at = "slow" => push[d].finish = "commit" /\ push[d].sent = Commands
    BY <1>1 DEF Engine!Held
  <2>2. box[d].committing => push[d].at \in {"slow", "done"} /\ push[d].finish = "commit"
    BY <1>1 DEF Engine!Held
  <2>3. Commands \in Nat
    BY RunAssumption
  <2>4. Engine!Held(push'[d], box'[d])
    BY <1>1, <1>2, <1>3, <2>1, <2>2, <2>3 DEF Engine!Held
  <2>5. Engine!Told(d)'
    BY <1>1, <1>2, <1>3, <2>2 DEF Engine!Told, Engine!SaveLookedAt
  <2>6. QED
    BY <1>1, <1>2, <1>3, <2>4, <2>5, DeviceMoves
<1>4. CASE Engine!CommitGoesThrough(d)
  <2>1. box[d].committing /\ box' = [box EXCEPT ![d] = Engine!Committed(@)]
    BY <1>4 DEF Engine!CommitGoesThrough
  <2>2. QED
    BY <1>1, <1>3, <2>1, BoxCommitted
<1>5. CASE Engine!CommitComesToNothing(d)
  <2>1. box' = [box EXCEPT ![d].committing = FALSE, ![d].candidate = 0]
    BY <1>5 DEF Engine!CommitComesToNothing
  <2>2. QED
    BY <1>1, <1>3, <2>1, BoxGivesUp
<1>6. CASE Engine!SomebodyChanges(d)
  <2>1. box' = [box EXCEPT ![d].others = TRUE]
    BY <1>6 DEF Engine!SomebodyChanges
  <2>2. QED
    BY <1>1, <1>3, <2>1, BoxOthers
<1>7. QED
  BY <1>4, <1>5, <1>6

\* The run: a cancel, a result collected, the end.
LEMMA RunStepsKeep ==
  ASSUME Engine!RunInv,
         Engine!Cancel \/ Engine!Ends \/ (\E d \in Devices : Engine!Collects(d)) \/ UNCHANGED engineVars
  PROVE  Engine!RunInv'
<1>1. /\ push' = push /\ box' = box /\ told' = told /\ cancelFlag' \in {cancelFlag, TRUE}
      /\ collected' \subseteq collected \cup {d \in Devices : push[d].at \in Engine!Over}
      /\ collected \subseteq collected'
  BY DEF Engine!Cancel, Engine!Ends, Engine!Collects, Engine!Collectable, engineVars
<1>2. /\ Engine!Typed /\ Engine!Recorded
      /\ \A d \in Devices : Engine!Held(push[d], box[d]) /\ Engine!Told(d)
  BY DEF Engine!RunInv
<1>3. Engine!Typed'
  BY <1>1, <1>2 DEF Engine!Typed, Engine!Pushes, Engine!Boxes, Engine!Steps, Engine!PushResults,
                    Engine!Readings
<1>4. (\A d \in Devices : Engine!Held(push[d], box[d]) /\ Engine!Told(d))'
  <2>1. \A d \in Devices : Engine!Held(push'[d], box'[d])
    BY <1>1, <1>2
  <2>2. (\A d \in Devices : Engine!Told(d))'
    BY <1>1, <1>2 DEF Engine!Told, Engine!SaveLookedAt
  <2>3. QED
    BY <2>1, <2>2
<1>5. (\A d \in collected : push[d].at \in Engine!Over)'
  BY <1>1, <1>2 DEF Engine!Recorded, Engine!Over
<1>6. ASSUME results' # {}
      PROVE  /\ collected' = Devices
             /\ results' = {[device |-> d, status |-> Engine!Status(d)] : d \in Devices}'
  <2>1. ASSUME collected' = collected
        PROVE  {[device |-> d, status |-> Engine!Status(d)] : d \in Devices}'
                 = {[device |-> d, status |-> Engine!Status(d)] : d \in Devices}
    <3>1. \A d \in Devices : Engine!Status(d)' = Engine!Status(d)
      BY <1>1, <2>1, Zenon DEF Engine!Status
    <3>2. QED
      BY <3>1
  <2>2. CASE Engine!Ends
    <3>1. collected' = collected /\ collected = Devices
          /\ results' = {[device |-> d, status |-> Engine!Status(d)] : d \in Devices}
      BY <2>2 DEF Engine!Ends, Engine!AllIn
    <3>2. QED
      BY <2>1, <3>1, Zenon
  <2>3. CASE results' = results
    <3>1. collected = Devices /\ results = {[device |-> d, status |-> Engine!Status(d)] : d \in Devices}
      BY <1>2, <1>6, <2>3 DEF Engine!Recorded
    <3>2. collected' = collected
      BY <1>1, <3>1
    <3>3. QED
      BY <2>1, <2>3, <3>1, <3>2, Zenon
  <2>4. QED
    BY <2>2, <2>3 DEF Engine!Cancel, Engine!Collects, engineVars
<1>7. Engine!Recorded'
  BY <1>5, <1>6, Zenon DEF Engine!Recorded, Engine!Over
<1>8. QED
  BY <1>3, <1>4, <1>7 DEF Engine!RunInv

\* Every step of the engine keeps its invariant.
LEMMA EngineNext ==
  ASSUME Engine!RunInv, Engine!Next \/ UNCHANGED engineVars
  PROVE  Engine!RunInv'
<1>1. ASSUME NEW d \in Devices, Engine!Worker(d) PROVE Engine!RunInv'
  BY <1>1, FirstStepsKeep, CommandsKeep, CommitKeeps, FinishKeeps, JudgeKeeps DEF Engine!Worker
<1>2. QED
  BY <1>1, BoxStepsKeep, RunStepsKeep DEF Engine!Next

\* At first no worker has begun, and nothing is on the devices.
LEMMA EngineFirst == Engine!Init => Engine!RunInv
<1> SUFFICES ASSUME Engine!Init PROVE Engine!RunInv
  OBVIOUS
<1>1. PICK plan \in Plans :
        push = [d \in Devices |->
                  [at |-> "pooled", finish |-> plan.finish[d], verify |-> plan.verify, sent |-> 0,
                   before |-> {}, checks |-> 0, anew |-> FALSE, compared |-> FALSE, result |-> Engine!NoPush]]
  BY DEF Engine!Init
<1>2. \A d \in Devices : plan.finish[d] \in {"save", "command", "auto", "manual", "commit"} /\ plan.verify \in BOOLEAN
  BY RunAssumption
<1>3. Engine!NoPush \in Engine!PushResults
  BY NoPushFields
<1>4. push \in [Devices -> Engine!Pushes]
      /\ \A d \in Devices : push[d].at = "pooled" /\ push[d].sent = 0 /\ push[d].checks = 0
                            /\ ~push[d].compared
  BY <1>1, <1>2, <1>3 DEF Engine!Pushes, Engine!Steps
<1>5. box \in [Devices -> Engine!Boxes]
      /\ \A d \in Devices : /\ box[d].live = 0 /\ box[d].saved = 0 /\ box[d].candidate = 0
                            /\ ~box[d].committing
  BY DEF Engine!Init, Engine!Boxes
<1>6. \A d \in Devices : Engine!Held(push[d], box[d]) /\ Engine!Told(d)
  BY <1>4, <1>5, RunAssumption DEF Engine!Held, Engine!Told
<1>7. Engine!Typed /\ Engine!Recorded
  BY <1>4, <1>5 DEF Engine!Init, Engine!Typed, Engine!Recorded
<1>8. QED
  BY <1>6, <1>7 DEF Engine!RunInv

\* What a device's recorded status says of it.
LEMMA ReportedIs ==
  ASSUME Engine!RunInv, NEW d \in Devices, NEW statuses, Engine!Reported(d, statuses)
  PROVE  /\ Engine!Status(d) \in statuses /\ d \in collected /\ push[d].at \in {"done", "cancelled"}
<1>1. PICK r \in results : r.device = d /\ r.status \in statuses
  BY DEF Engine!Reported
<1>2. collected = Devices /\ results = {[device |-> e, status |-> Engine!Status(e)] : e \in Devices}
      /\ \A e \in collected : push[e].at \in Engine!Over
  BY <1>1 DEF Engine!RunInv, Engine!Recorded
<1>3. PICK e \in Devices : r = [device |-> e, status |-> Engine!Status(e)]
  BY <1>1, <1>2
<1>4. e = d /\ r.status = Engine!Status(d)
  BY <1>1, <1>3
<1>5. QED
  BY <1>1, <1>2, <1>4 DEF Engine!Over

\* What a device's status says of its worker: a success was judged with every command proven, and
\* one that is not verified was applied all the same.
LEMMA StatusMeans ==
  ASSUME Engine!RunInv, NEW d \in Devices, d \in collected, push[d].at \in {"done", "cancelled"}
  PROVE  /\ Engine!Status(d) = "cancelled" => push[d].at = "cancelled"
         /\ Engine!Status(d) \in {"success", "not verified"} =>
              push[d].at = "done" /\ Engine!Good(push[d].result)
         /\ Engine!Status(d) = "success" => push[d].result.judged
<1>1. push[d].result \in Engine!PushResults
  BY DeviceAsItIs, PushFields
<1> DEFINE r == push[d].result
<1>2. Engine!Status(d) =
        IF push[d].at = "cancelled" THEN "cancelled"
        ELSE IF ~r.applied THEN "failed"
        ELSE IF r.interrupted THEN "partial"
        ELSE IF ~r.judged THEN "not verified"
        ELSE IF r.rejected THEN (IF r.proven > 0 THEN "partial" ELSE "failed")
        ELSE IF r.proven < r.sent THEN "review"
        ELSE "success"
  BY DEF Engine!Status
<1>3. r.proven \in Nat /\ r.sent \in Nat
  BY <1>1, ResultFields
<1> HIDE DEF r
<1>4. Engine!Status(d) \in {"success", "not verified"} => ~(r.judged /\ r.proven < r.sent)
  BY <1>2
<1>5. ~(r.proven < r.sent) => r.proven >= r.sent
  BY <1>3
<1>6. Engine!Status(d) \in {"success", "not verified"} =>
        push[d].at # "cancelled" /\ r.applied /\ ~r.interrupted /\ (r.judged => ~r.rejected)
  BY <1>2
<1>7. Engine!Status(d) \in {"success", "not verified"} => Engine!Good(r)
  BY <1>4, <1>5, <1>6, Zenon DEF Engine!Good
<1>8. /\ Engine!Status(d) = "cancelled" => push[d].at = "cancelled"
      /\ Engine!Status(d) = "success" => r.judged
  BY <1>2
<1>9. QED
  BY <1>6, <1>7, <1>8 DEF r

\* The invariant of the engine's part, whichever part a behaviour is of.
LEMMA EngineInvariant == Spec => []Engine!RunInv
<1>1. Init => Engine!RunInv
  BY EngineFirst DEF Init
<1>2. Engine!RunInv /\ [Next]_vars => Engine!RunInv'
  BY EngineNext DEF Next, vars
<1>3. QED
  BY <1>1, <1>2, PTL DEF Spec

\* SuccessIsReal: a device that is recorded as a success has every command live, whatever its commands,
\* its saves, its slow commit and the other changes went through (push, _after_slow_commit and _judge of
\* session.py, classify of engine.py).
THEOREM SuccessesAreReal == Spec => []SuccessIsReal
<1>1. Engine!RunInv => SuccessIsReal
  <2> SUFFICES ASSUME Engine!RunInv, NEW d \in Devices, Engine!Reported(d, {"success"})
               PROVE  box[d].live = Commands
    BY DEF SuccessIsReal, Engine!SuccessIsReal
  <2>1. Engine!Status(d) = "success" /\ d \in collected /\ push[d].at \in {"done", "cancelled"}
    BY ReportedIs
  <2>2. push[d].at = "done" /\ Engine!Good(push[d].result) /\ push[d].result.judged
    BY <2>1, StatusMeans
  <2>3. QED
    BY <2>2 DEF Engine!RunInv, Engine!Told
<1>2. QED
  BY <1>1, EngineInvariant, PTL

\* PushSafe: a device reported as a success or as not verified has no commit that may still run; a change
\* of it that isn't saved is told wherever the code looks at the save (Gaia's save state, the comparison
\* with the saved configuration), and is none where the commit or the device itself saves; one recorded as
\* cancelled was never connected to (_finish and _check_saved of session.py, the finishes of platforms.py,
\* _push_device and cancelled_results of engine.py).
THEOREM PushIsSafe == Spec => []PushSafe
<1>1. Engine!RunInv => PushSafe
  <2> SUFFICES ASSUME Engine!RunInv
               PROVE  Engine!TypeOK /\ Engine!NothingSilent /\ Engine!CancelledUntouched
    BY DEF PushSafe
  <2>1. Engine!TypeOK
    <3>1. ASSUME NEW d \in Devices
          PROVE  /\ push[d].at \in Engine!Steps /\ push[d].sent \in 0..Commands
                 /\ push[d].checks < CommitChecks
                 /\ box[d].live \in 0..Commands /\ box[d].saved \in 0..Commands
      BY DeviceAsItIs, RunAssumption DEF Engine!Held
    <3>2. QED
      BY <3>1 DEF Engine!TypeOK, Engine!RunInv, Engine!Typed
  <2>2. ASSUME NEW d \in Devices, Engine!Reported(d, {"success", "not verified"})
        PROVE  /\ ~box[d].committing
               /\ box[d].live > box[d].saved =>
                    /\ push[d].finish \notin {"commit", "auto"}
                    /\ Engine!SaveLookedAt(d) => d \in told
    <3>1. Engine!Status(d) \in {"success", "not verified"} /\ d \in collected
          /\ push[d].at \in {"done", "cancelled"}
      BY <2>2, ReportedIs
    <3>2. push[d].at = "done" /\ Engine!Good(push[d].result)
      BY <3>1, StatusMeans
    <3>3. /\ box[d].live \in Nat /\ box[d].saved \in Nat /\ Engine!Told(d)
          /\ Engine!Held(push[d], box[d])
      BY DeviceAsItIs
    <3>4. /\ ~box[d].committing
          /\ Engine!SaveLookedAt(d) => d \in told \/ box[d].live <= box[d].saved
      BY <3>2, <3>3, Zenon DEF Engine!Told
    <3>5. push[d].finish \in {"commit", "auto"} => box[d].live = box[d].saved
      BY <3>3, Zenon DEF Engine!Held
    <3>6. box[d].live > box[d].saved => ~(box[d].live <= box[d].saved) /\ box[d].live # box[d].saved
      BY <3>3
    <3>7. QED
      BY <3>4, <3>5, <3>6, Zenon
  <2>3. ASSUME NEW d \in Devices, Engine!Reported(d, {"cancelled"})
        PROVE  push[d].at = "cancelled" /\ box[d].live = 0
    <3>1. Engine!Status(d) = "cancelled" /\ d \in collected /\ push[d].at \in {"done", "cancelled"}
      BY <2>3, ReportedIs
    <3>2. push[d].at = "cancelled"
      BY <3>1, StatusMeans
    <3>3. QED
      BY <3>2, DeviceAsItIs DEF Engine!Held
  <2>4. QED
    BY <2>1, <2>2, <2>3 DEF Engine!NothingSilent, Engine!CancelledUntouched
<1>2. QED
  BY <1>1, EngineInvariant, PTL

-----------------------------------------------------------------------------
(* The live log *)

\* What a sequence holds once a message is appended.
LEMMA AppendHolds ==
  ASSUME NEW s \in Seq(Nat), NEW n \in Nat
  PROVE  /\ Append(s, n) \in Seq(Nat) /\ Log!Range(Append(s, n)) = Log!Range(s) \cup {n}
         /\ Len(Append(s, n)) = Len(s) + 1 /\ Len(s) \in Nat
         /\ Append(s, n)[Len(s) + 1] = n /\ \A i \in 1..Len(s) : Append(s, n)[i] = s[i]
<1>1. /\ Append(s, n) \in Seq(Nat) /\ Len(Append(s, n)) = Len(s) + 1 /\ Len(s) \in Nat
      /\ Append(s, n)[Len(s) + 1] = n /\ \A i \in 1..Len(s) : Append(s, n)[i] = s[i]
      /\ DOMAIN s = 1..Len(s) /\ DOMAIN Append(s, n) = 1..Len(s) + 1
  OBVIOUS
<1>2. Log!Range(Append(s, n)) \subseteq Log!Range(s) \cup {n}
  BY <1>1 DEF Log!Range
<1>3. ASSUME NEW x \in Log!Range(s) \cup {n} PROVE x \in Log!Range(Append(s, n))
  <2>1. CASE x = n
    BY <1>1, <2>1 DEF Log!Range
  <2>2. CASE x \in Log!Range(s)
    <3>1. PICK i \in 1..Len(s) : x = s[i]
      BY <1>1, <2>2 DEF Log!Range
    <3>2. i \in DOMAIN Append(s, n) /\ Append(s, n)[i] = x
      BY <1>1, <3>1
    <3>3. QED
      BY <3>2 DEF Log!Range
  <2>3. QED
    BY <2>1, <2>2
<1>4. QED
  BY <1>1, <1>2, <1>3

\* What a sequence holds once its first message is taken.
LEMMA TailHolds ==
  ASSUME NEW s \in Seq(Nat), s # <<>>
  PROVE  /\ Tail(s) \in Seq(Nat) /\ Head(s) \in Nat /\ Head(s) = s[1] /\ 1 \in DOMAIN s
         /\ Log!Range(s) = Log!Range(Tail(s)) \cup {Head(s)}
         /\ \A i \in DOMAIN Tail(s) : i \in Nat \ {0} /\ i + 1 \in DOMAIN s /\ Tail(s)[i] = s[i + 1]
<1>1. /\ Tail(s) \in Seq(Nat) /\ Head(s) \in Nat /\ Head(s) = s[1] /\ 1 \in DOMAIN s /\ Len(s) \in Nat \ {0}
      /\ DOMAIN s = 1..Len(s) /\ DOMAIN Tail(s) = 1..Len(s) - 1
      /\ \A i \in 1..Len(s) - 1 : Tail(s)[i] = s[i + 1]
  OBVIOUS
<1>2. Log!Range(Tail(s)) \subseteq Log!Range(s) /\ Head(s) \in Log!Range(s)
  BY <1>1 DEF Log!Range
<1>3. ASSUME NEW x \in Log!Range(s), x # Head(s) PROVE x \in Log!Range(Tail(s))
  <2>1. PICK i \in 1..Len(s) : x = s[i]
    BY <1>1, <1>3 DEF Log!Range
  <2>2. i - 1 \in 1..Len(s) - 1 /\ Tail(s)[i - 1] = x
    BY <1>1, <1>3, <2>1
  <2>3. QED
    BY <1>1, <2>2 DEF Log!Range
<1>4. QED
  BY <1>1, <1>2, <1>3

\* A line that was overtaken stays so, but one whose turn to be published has come.
LEMMA OvertakenStays ==
  ASSUME channel \in Seq(Nat), NEW m \in Nat, channel' = Append(channel, m), NEW n \in Nat,
         n # m \/ n \in Log!Range(channel), Log!Overtaken(n)
  PROVE  Log!Overtaken(n)'
<1>1. /\ Log!Range(channel') = Log!Range(channel) \cup {m}
      /\ DOMAIN channel = 1..Len(channel) /\ DOMAIN channel' = 1..Len(channel) + 1 /\ Len(channel) \in Nat
      /\ \A i \in 1..Len(channel) : channel'[i] = channel[i]
  BY AppendHolds
<1>2. CASE n \notin Log!Range(channel)
  BY <1>1, <1>2 DEF Log!Overtaken
<1>3. CASE \E i, j \in DOMAIN channel : i < j /\ channel[j] = n /\ channel[i] > n
  <2>1. PICK i, j \in 1..Len(channel) : i < j /\ channel[j] = n /\ channel[i] > n
    BY <1>1, <1>3
  <2>2. i \in DOMAIN channel' /\ j \in DOMAIN channel' /\ channel'[j] = n /\ channel'[i] > n
    BY <1>1, <2>1
  <2>3. QED
    BY <2>1, <2>2 DEF Log!Overtaken
<1>4. QED
  BY <1>2, <1>3 DEF Log!Overtaken

\* A line that is published after a later one is overtaken.
LEMMA PublishedLate ==
  ASSUME channel \in Seq(Nat), NEW m \in Nat, channel' = Append(channel, m),
         NEW k \in Log!Range(channel), k > m
  PROVE  Log!Overtaken(m)'
<1>1. /\ DOMAIN channel = 1..Len(channel) /\ DOMAIN channel' = 1..Len(channel) + 1 /\ Len(channel) \in Nat
      /\ channel'[Len(channel) + 1] = m /\ \A i \in 1..Len(channel) : channel'[i] = channel[i]
  BY AppendHolds
<1>2. PICK i \in 1..Len(channel) : channel[i] = k
  BY <1>1 DEF Log!Range
<1>3. i \in DOMAIN channel' /\ Len(channel) + 1 \in DOMAIN channel' /\ i < Len(channel) + 1 /\ channel'[i] > m
  BY <1>1, <1>2
<1>4. QED
  BY <1>1, <1>3 DEF Log!Overtaken

\* A reader as the invariant has it.
LEMMA ReaderAsItIs ==
  ASSUME Log!FollowInv, NEW r \in Readers
  PROVE  /\ reader \in [Readers -> Log!Readings] /\ reader[r] \in Log!Readings
         /\ reader[r].at \in {"away", "subscribing", "subscribed", "following", "ended"}
         /\ reader[r].listening \in BOOLEAN /\ reader[r].sure \in BOOLEAN
         /\ reader[r].buffer \in Seq(Nat) /\ reader[r].seen \in Nat /\ reader[r].shown \in Seq(Nat)
         /\ Log!Rising(reader[r]) /\ Log!Shown(reader[r])
         /\ reader[r].at # "ended" => Log!Ordered(reader[r]) /\ Log!Skipped(reader[r])
<1>1. reader \in [Readers -> Log!Readings]
  BY DEF Log!FollowInv, Log!Typed
<1>2. reader[r] \in Log!Readings
  BY <1>1
<1>3. /\ reader[r].at \in {"away", "subscribing", "subscribed", "following", "ended"}
      /\ reader[r].listening \in BOOLEAN /\ reader[r].sure \in BOOLEAN
      /\ reader[r].buffer \in Seq(Nat) /\ reader[r].seen \in Nat /\ reader[r].shown \in Seq(Nat)
  BY <1>2 DEF Log!Readings
<1>4. QED
  BY <1>1, <1>2, <1>3 DEF Log!FollowInv

\* The log beside its readers.
LEMMA LogAsItIs ==
  ASSUME Log!FollowInv
  PROVE  /\ job \in [ran : BOOLEAN, at : {"working", "over", "removed", "told", "closed"}]
         /\ lines \in [count : Nat, gone : BOOLEAN] /\ lines.count \in Nat
         /\ channel \in Seq(Nat) /\ writer \in [Writers -> Log!Writings]
         /\ Log!Typed /\ Log!Numbered
  BY DEF Log!FollowInv, Log!Typed

\* A step of one reader leaves the others as they are.
LEMMA ReaderMoves ==
  ASSUME Log!FollowInv, NEW r \in Readers, UNCHANGED <<job, lines, writer, channel>>,
         reader' \in [Readers -> Log!Readings], \A q \in Readers \ {r} : reader'[q] = reader[q],
         Log!Rising(reader[r])', Log!Shown(reader[r])',
         reader'[r].at # "ended" => Log!Ordered(reader[r])' /\ Log!Skipped(reader[r])'
  PROVE  Log!FollowInv'
<1>1. Log!Typed' /\ Log!Numbered'
  BY LogAsItIs DEF Log!Typed, Log!Numbered
<1>2. ASSUME NEW q \in Readers, q # r
      PROVE  /\ Log!Rising(reader[q])' /\ Log!Shown(reader[q])'
             /\ reader'[q].at # "ended" => Log!Ordered(reader[q])' /\ Log!Skipped(reader[q])'
  <2>1. reader'[q] = reader[q]
    BY <1>2
  <2>2. /\ Log!Rising(reader[q]) /\ Log!Shown(reader[q])
        /\ reader[q].at # "ended" => Log!Ordered(reader[q]) /\ Log!Skipped(reader[q])
    BY ReaderAsItIs
  <2>3. QED
    BY <2>1, <2>2 DEF Log!Rising, Log!Shown, Log!Ordered, Log!Skipped, Log!Overtaken
<1>3. QED
  BY <1>1, <1>2 DEF Log!FollowInv

\* A page's reader subscribes, is confirmed, and stops waiting for it.
LEMMA SubscriptionKeeps ==
  ASSUME Log!FollowInv, NEW r \in Readers, Log!Subscribes(r) \/ Log!Confirms(r) \/ Log!WaitEnds(r)
  PROVE  Log!FollowInv'
<1>1. /\ reader \in [Readers -> Log!Readings] /\ reader[r] \in Log!Readings
      /\ reader[r].listening \in BOOLEAN
      /\ Log!Rising(reader[r]) /\ Log!Shown(reader[r])
      /\ reader[r].at # "ended" => Log!Ordered(reader[r]) /\ Log!Skipped(reader[r])
  BY ReaderAsItIs
<1>2. /\ UNCHANGED <<job, lines, writer, channel>> /\ reader[r].at # "ended"
      /\ reader' \in [Readers -> Log!Readings] /\ \A q \in Readers \ {r} : reader'[q] = reader[q]
      /\ reader'[r].buffer = reader[r].buffer /\ reader'[r].seen = reader[r].seen
      /\ reader'[r].shown = reader[r].shown /\ reader'[r].at # "ended"
      /\ \/ /\ reader[r].at = "away" /\ reader'[r].at = "subscribing" /\ reader'[r].sure = reader[r].sure
            /\ reader'[r].listening = reader[r].listening
         \/ /\ reader'[r].at = reader[r].at /\ reader'[r].sure = reader[r].sure /\ reader'[r].listening
         \/ /\ reader[r].at = "subscribing" /\ reader'[r].at = "subscribed"
            /\ reader'[r].sure = reader[r].listening /\ reader'[r].listening = reader[r].listening
  <2>1. CASE Log!Subscribes(r)
    BY <1>1, <2>1 DEF Log!Subscribes, Log!Readings
  <2>2. CASE Log!Confirms(r)
    BY <1>1, <2>2 DEF Log!Confirms, Log!Readings
  <2>3. CASE Log!WaitEnds(r)
    BY <1>1, <2>3 DEF Log!WaitEnds, Log!Readings
  <2>4. QED
    BY <2>1, <2>2, <2>3
<1>3. Log!Rising(reader[r])' /\ Log!Ordered(reader[r])' /\ Log!Skipped(reader[r])'
  BY <1>1, <1>2 DEF Log!Rising, Log!Ordered, Log!Skipped, Log!Overtaken
<1>4. Log!Shown(reader[r])'
  BY <1>1, <1>2 DEF Log!Shown, Log!Overtaken
<1>5. QED
  BY <1>2, <1>3, <1>4, ReaderMoves

\* The history is read: lines 1 to its length are shown.
LEMMA ReadsKeeps ==
  ASSUME Log!FollowInv, NEW r \in Readers, Log!Reads(r)
  PROVE  Log!FollowInv'
<1>1. /\ reader \in [Readers -> Log!Readings] /\ reader[r] \in Log!Readings
      /\ reader[r].sure \in BOOLEAN
      /\ Log!Shown(reader[r]) /\ (reader[r].at # "ended" => Log!Ordered(reader[r]))
  BY ReaderAsItIs
<1>2. lines.count \in Nat /\ lines.gone \in BOOLEAN
  BY LogAsItIs
<1>3. PICK n \in Nat : n = IF lines.gone THEN 0 ELSE lines.count
  BY <1>2
<1>4. [i \in 1..n |-> i] \in Seq(Nat) /\ DOMAIN [i \in 1..n |-> i] = 1..n
      /\ \A i \in 1..n : [k \in 1..n |-> k][i] = i
  BY <1>3
<1>5. /\ UNCHANGED <<job, lines, writer, channel>> /\ reader[r].at = "subscribed"
      /\ reader' = [reader EXCEPT ![r].at = "following", ![r].seen = n,
                                  ![r].sure = @ /\ ~lines.gone, ![r].shown = [i \in 1..n |-> i]]
  BY <1>3 DEF Log!Reads, Log!Seen
<1>6. /\ reader' \in [Readers -> Log!Readings] /\ \A q \in Readers \ {r} : reader'[q] = reader[q]
      /\ reader'[r].buffer = reader[r].buffer /\ reader'[r].seen = n
      /\ reader'[r].shown = [i \in 1..n |-> i] /\ reader'[r].at = "following"
      /\ reader'[r].sure = (reader[r].sure /\ ~lines.gone) /\ reader'[r].listening = reader[r].listening
  BY <1>1, <1>4, <1>5 DEF Log!Readings
<1>7. \A i \in 1..n : i \in Log!Range(reader'[r].shown)
  BY <1>4, <1>6 DEF Log!Range
<1>8. Log!Rising(reader[r])'
  BY <1>2, <1>3, <1>4, <1>5, <1>6 DEF Log!Rising
<1>9. Log!Ordered(reader[r])'
  BY <1>1, <1>5, <1>6 DEF Log!Ordered, Log!Overtaken
<1>10. Log!Skipped(reader[r])'
  <2>1. \A m \in Log!Range(reader[r].buffer) : m \in Nat
    BY ReaderAsItIs DEF Log!Range
  <2>2. \A m \in Nat : m # Log!Done /\ m <= n => m \in 1..n
    BY DEF Log!Done
  <2>3. QED
    BY <1>6, <1>7, <2>1, <2>2 DEF Log!Skipped
<1>11. Log!Shown(reader[r])'
  BY <1>1, <1>3, <1>5, <1>6, <1>7 DEF Log!Shown
<1>12. QED
  BY <1>5, <1>6, <1>8, <1>9, <1>10, <1>11, ReaderMoves

\* Nothing came and the job is over: nothing more can come.
LEMMA QuitsKeeps ==
  ASSUME Log!FollowInv, NEW r \in Readers, Log!Quits(r)
  PROVE  Log!FollowInv'
<1>1. /\ reader \in [Readers -> Log!Readings] /\ reader[r] \in Log!Readings
      /\ Log!Rising(reader[r]) /\ Log!Shown(reader[r])
  BY ReaderAsItIs
<1>2. /\ UNCHANGED <<job, lines, writer, channel>> /\ reader[r].at = "following"
      /\ reader' \in [Readers -> Log!Readings] /\ \A q \in Readers \ {r} : reader'[q] = reader[q]
      /\ reader[r].buffer = <<>> /\ reader'[r].seen = reader[r].seen /\ reader'[r].sure = reader[r].sure
      /\ reader'[r].shown = reader[r].shown /\ reader'[r].at = "ended"
      /\ reader'[r].listening = reader[r].listening
  BY <1>1 DEF Log!Quits, Log!Readings, Log!NothingCame
<1>3. job.at # "working"
  BY DEF Log!Quits, Log!Over
<1>4. Log!Rising(reader[r])'
  BY <1>1, <1>2 DEF Log!Rising
<1>5. Log!Shown(reader[r])'
  BY <1>1, <1>2, <1>3 DEF Log!Shown, Log!Overtaken, Log!Range
<1>6. QED
  BY <1>2, <1>4, <1>5, ReaderMoves

\* A message is taken: DONE, a line that the history held, or the next line.
LEMMA TakesKeeps ==
  ASSUME Log!FollowInv, NEW r \in Readers, Log!Takes(r)
  PROVE  Log!FollowInv'
<1>1. /\ reader \in [Readers -> Log!Readings] /\ reader[r] \in Log!Readings /\ reader[r].buffer \in Seq(Nat)
      /\ reader[r].seen \in Nat /\ reader[r].shown \in Seq(Nat)
      /\ Log!Rising(reader[r]) /\ Log!Shown(reader[r])
      /\ reader[r].at = "following" /\ reader[r].buffer # <<>>
      /\ Log!Ordered(reader[r]) /\ Log!Skipped(reader[r])
      /\ UNCHANGED <<job, lines, writer, channel>>
  BY ReaderAsItIs DEF Log!Takes
<1>2. PICK n, rest : n = Head(reader[r].buffer) /\ rest = Tail(reader[r].buffer)
  OBVIOUS
<1>3. /\ rest \in Seq(Nat) /\ n \in Nat /\ n = reader[r].buffer[1] /\ 1 \in DOMAIN reader[r].buffer
      /\ Log!Range(reader[r].buffer) = Log!Range(rest) \cup {n}
      /\ \A i \in DOMAIN rest : /\ i \in Nat \ {0} /\ i + 1 \in DOMAIN reader[r].buffer
                                /\ rest[i] = reader[r].buffer[i + 1]
  BY <1>1, <1>2, TailHolds
<1>4. \A m \in Log!Range(rest) : n # Log!Done /\ (m # Log!Done /\ m < n => Log!Overtaken(m))
  <2>1. SUFFICES ASSUME NEW i \in DOMAIN rest
                 PROVE  n # Log!Done /\ (rest[i] # Log!Done /\ rest[i] < n => Log!Overtaken(rest[i]))
    BY DEF Log!Range
  <2>2. i + 1 \in DOMAIN reader[r].buffer /\ rest[i] = reader[r].buffer[i + 1] /\ 1 < i + 1
    BY <1>3
  <2>3. QED
    BY <1>1, <1>3, <2>2 DEF Log!Ordered
<1>5. PICK there \in Log!Readings :
        /\ reader' \in [Readers -> Log!Readings] /\ \A q \in Readers \ {r} : reader'[q] = reader[q]
        /\ reader'[r] = there /\ there.buffer = rest /\ there.sure = reader[r].sure
        /\ there.listening = reader[r].listening
        /\ \/ n = Log!Done /\ there.at = "ended" /\ there.seen = reader[r].seen
              /\ there.shown = reader[r].shown
           \/ n # Log!Done /\ n <= reader[r].seen /\ there.at = "following" /\ there.seen = reader[r].seen
              /\ there.shown = reader[r].shown
           \/ n # Log!Done /\ n > reader[r].seen /\ there.at = "following" /\ there.seen = n
              /\ there.shown = Append(reader[r].shown, n)
  <2> DEFINE taken == [reader[r] EXCEPT !.buffer = rest]
             there == IF n = Log!Done THEN [taken EXCEPT !.at = "ended"]
                      ELSE IF n <= reader[r].seen THEN taken
                      ELSE [taken EXCEPT !.seen = n, !.shown = Append(reader[r].shown, n)]
  <2>1. reader' = [reader EXCEPT ![r] = there]
    BY <1>2, <1>1, <1>3 DEF Log!Takes, Log!Held, Log!Seen, Log!Readings
  <2>2. taken \in Log!Readings /\ taken.buffer = rest /\ taken.sure = reader[r].sure
        /\ taken.listening = reader[r].listening /\ taken.at = "following" /\ taken.seen = reader[r].seen
        /\ taken.shown = reader[r].shown
    BY <1>1, <1>3 DEF Log!Readings
  <2>3. Append(reader[r].shown, n) \in Seq(Nat)
    BY <1>1, <1>3
  <2> HIDE DEF taken
  <2>4. there \in Log!Readings /\ there.buffer = rest /\ there.sure = reader[r].sure
        /\ there.listening = reader[r].listening
        /\ \/ n = Log!Done /\ there.at = "ended" /\ there.seen = reader[r].seen
              /\ there.shown = reader[r].shown
           \/ n # Log!Done /\ n <= reader[r].seen /\ there.at = "following" /\ there.seen = reader[r].seen
              /\ there.shown = reader[r].shown
           \/ n # Log!Done /\ n > reader[r].seen /\ there.at = "following" /\ there.seen = n
              /\ there.shown = Append(reader[r].shown, n)
    <3>1. CASE n = Log!Done
      <4>1. there = [taken EXCEPT !.at = "ended"]
        BY <3>1
      <4>2. QED
        BY <2>2, <3>1, <4>1 DEF Log!Readings
    <3>2. CASE n # Log!Done /\ n <= reader[r].seen
      <4>1. there = taken
        BY <3>2
      <4>2. QED
        BY <2>2, <3>2, <4>1
    <3>3. CASE n # Log!Done /\ ~(n <= reader[r].seen)
      <4>1. there = [taken EXCEPT !.seen = n, !.shown = Append(reader[r].shown, n)] /\ n > reader[r].seen
        BY <1>1, <1>3, <3>3
      <4>2. QED
        BY <1>3, <2>2, <2>3, <3>3, <4>1 DEF Log!Readings
    <3>4. QED
      BY <3>1, <3>2, <3>3
  <2> HIDE DEF there
  <2>5. reader' \in [Readers -> Log!Readings] /\ reader'[r] = there
        /\ \A q \in Readers \ {r} : reader'[q] = reader[q]
    BY <1>1, <2>1, <2>4
  <2>6. QED
    BY <2>4, <2>5
<1>6. Log!Ordered(there)
  <2>1. \A m \in Log!Range(rest) : m \in Log!Range(channel) \/ (m = Log!Done /\ job.at \in {"told", "closed"})
    BY <1>1, <1>3 DEF Log!Ordered
  <2>2. ASSUME NEW i \in DOMAIN rest, NEW j \in DOMAIN rest, i < j
        PROVE  /\ rest[i] # Log!Done
               /\ rest[j] # Log!Done /\ rest[j] < rest[i] => Log!Overtaken(rest[j])
    <3>1. /\ i + 1 \in DOMAIN reader[r].buffer /\ rest[i] = reader[r].buffer[i + 1]
          /\ j + 1 \in DOMAIN reader[r].buffer /\ rest[j] = reader[r].buffer[j + 1] /\ i + 1 < j + 1
      BY <1>3, <2>2
    <3>2. QED
      BY <1>1, <3>1 DEF Log!Ordered
  <2>3. QED
    BY <1>5, <2>1, <2>2 DEF Log!Ordered
<1>7. n \in Log!Range(channel) \/ n = Log!Done
  BY <1>1, <1>3 DEF Log!Ordered
<1>8. (n \in Nat /\ n <= lines.count) \/ n = Log!Done
  BY <1>7, <1>3, LogAsItIs DEF Log!Numbered
<1>9. ASSUME n # Log!Done, n > reader[r].seen, there.at = "following", there.seen = n,
             there.shown = Append(reader[r].shown, n)
      PROVE  Log!Rising(there) /\ Log!Shown(there) /\ Log!Skipped(there)
  <2>1. /\ Log!Range(there.shown) = Log!Range(reader[r].shown) \cup {n}
        /\ Len(there.shown) = Len(reader[r].shown) + 1 /\ Len(reader[r].shown) \in Nat
        /\ there.shown[Len(reader[r].shown) + 1] = n
        /\ \A i \in 1..Len(reader[r].shown) : there.shown[i] = reader[r].shown[i]
        /\ DOMAIN there.shown = 1..Len(reader[r].shown) + 1
        /\ DOMAIN reader[r].shown = 1..Len(reader[r].shown)
    BY <1>1, <1>3, <1>9, AppendHolds
  <2>2. \A i \in 1..Len(reader[r].shown) : reader[r].shown[i] \in Nat /\ reader[r].shown[i] <= reader[r].seen
    BY <1>1, <2>1 DEF Log!Rising
  <2>3. Log!Rising(there)
    <3>1. ASSUME NEW i \in DOMAIN there.shown
          PROVE  there.shown[i] <= n
      <4>1. CASE i = Len(reader[r].shown) + 1
        BY <1>3, <2>1, <4>1
      <4>2. CASE i \in 1..Len(reader[r].shown)
        <5>1. there.shown[i] \in Nat /\ there.shown[i] <= reader[r].seen
          BY <2>1, <2>2, <4>2
        <5>2. n > reader[r].seen /\ reader[r].seen \in Nat /\ n \in Nat
          BY <1>1, <1>3, <1>9
        <5>3. QED
          BY <5>1, <5>2
      <4>3. QED
        BY <2>1, <4>1, <4>2
    <3>2. ASSUME NEW i \in DOMAIN there.shown, NEW j \in DOMAIN there.shown, i < j
          PROVE  there.shown[i] < there.shown[j]
      <4>1. i \in 1..Len(reader[r].shown) /\ there.shown[i] = reader[r].shown[i]
        BY <2>1, <3>2
      <4>2. CASE j = Len(reader[r].shown) + 1
        <5>1. there.shown[i] \in Nat /\ there.shown[i] <= reader[r].seen /\ there.shown[j] = n
          BY <2>1, <2>2, <4>1, <4>2
        <5>2. n > reader[r].seen /\ reader[r].seen \in Nat /\ n \in Nat
          BY <1>1, <1>3, <1>9
        <5>3. QED
          BY <5>1, <5>2
      <4>3. CASE j \in 1..Len(reader[r].shown)
        <5>1. /\ there.shown[j] = reader[r].shown[j] /\ i \in DOMAIN reader[r].shown
              /\ j \in DOMAIN reader[r].shown
          BY <2>1, <4>1, <4>3
        <5>2. reader[r].shown[i] < reader[r].shown[j]
          BY <1>1, <3>2, <5>1 DEF Log!Rising
        <5>3. QED
          BY <4>1, <5>1, <5>2
      <4>4. QED
        BY <2>1, <4>2, <4>3
    <3>3. QED
      BY <1>8, <1>9, <3>1, <3>2 DEF Log!Rising
  <2>4. Log!Shown(there)
    BY <1>1, <1>3, <1>5, <1>9, <2>1 DEF Log!Shown
  <2>5. Log!Skipped(there)
    <3>1. \A m \in Log!Range(rest) : m \in Nat
      BY <1>3 DEF Log!Range
    <3>2. \A m \in Log!Range(rest) : m # Log!Done /\ m <= n => m = n \/ Log!Overtaken(m)
      BY <1>3, <1>4, <3>1
    <3>3. QED
      BY <1>5, <1>7, <1>9, <2>1, <3>2 DEF Log!Skipped
  <2>6. QED
    BY <2>3, <2>4, <2>5
<1>10. ASSUME n # Log!Done, n <= reader[r].seen, there.at = "following", there.seen = reader[r].seen,
              there.shown = reader[r].shown
       PROVE  Log!Rising(there) /\ Log!Shown(there) /\ Log!Skipped(there)
  <2>1. n \in Log!Range(reader[r].shown) \/ Log!Overtaken(n)
    BY <1>1, <1>3, <1>10 DEF Log!Skipped
  <2>2. Log!Shown(there)
    BY <1>1, <1>3, <1>5, <1>10, <2>1 DEF Log!Shown
  <2>3. Log!Rising(there) /\ Log!Skipped(there)
    BY <1>1, <1>3, <1>5, <1>10 DEF Log!Rising, Log!Skipped
  <2>4. QED
    BY <2>2, <2>3
<1>11. ASSUME n = Log!Done, there.at = "ended", there.seen = reader[r].seen, there.shown = reader[r].shown
       PROVE  Log!Rising(there) /\ Log!Shown(there)
  <2>1. Log!Range(rest) = {}
    BY <1>4, <1>11
  <2>2. job.at \in {"told", "closed"}
    <3>1. \A k \in Log!Range(channel) : k # Log!Done
      BY LogAsItIs DEF Log!Numbered, Log!Done
    <3>2. QED
      BY <1>1, <1>3, <1>11, <3>1 DEF Log!Ordered
  <2>3. \A m \in 1..lines.count : m # n
    BY <1>11 DEF Log!Done
  <2>4. Log!Shown(there)
    BY <1>1, <1>3, <1>5, <1>11, <2>1, <2>2, <2>3 DEF Log!Shown
  <2>5. QED
    BY <1>1, <1>11, <2>4 DEF Log!Rising
<1>12. Log!Rising(there) /\ Log!Shown(there) /\ (there.at # "ended" => Log!Skipped(there))
  BY <1>5, <1>9, <1>10, <1>11
<1>13. /\ Log!Rising(reader[r])' /\ Log!Shown(reader[r])'
       /\ reader'[r].at # "ended" => Log!Ordered(reader[r])' /\ Log!Skipped(reader[r])'
  BY <1>1, <1>5, <1>6, <1>12 DEF Log!Rising, Log!Shown, Log!Ordered, Log!Skipped, Log!Overtaken
<1>14. QED
  BY <1>1, <1>5, <1>13, ReaderMoves

\* What is published, a line or DONE, is the last of every buffer of a subscription in effect.
LEMMA PublishedReader ==
  ASSUME Log!FollowInv, NEW m \in Nat, reader' = Log!Published(m)
  PROVE  /\ reader' \in [Readers -> Log!Readings]
         /\ \A r \in Readers :
              /\ reader'[r].at = reader[r].at /\ reader'[r].listening = reader[r].listening
              /\ reader'[r].sure = reader[r].sure /\ reader'[r].seen = reader[r].seen
              /\ reader'[r].shown = reader[r].shown
              /\ reader'[r].buffer = IF reader[r].listening /\ reader[r].at # "ended"
                                     THEN Append(reader[r].buffer, m) ELSE reader[r].buffer
<1>1. ASSUME NEW r \in Readers
      PROVE  LET there == IF reader[r].listening /\ reader[r].at # "ended"
                          THEN [reader[r] EXCEPT !.buffer = Append(@, m)] ELSE reader[r]
             IN  /\ there \in Log!Readings
                 /\ there.at = reader[r].at /\ there.listening = reader[r].listening
                 /\ there.sure = reader[r].sure /\ there.seen = reader[r].seen
                 /\ there.shown = reader[r].shown
                 /\ there.buffer = IF reader[r].listening /\ reader[r].at # "ended"
                                   THEN Append(reader[r].buffer, m) ELSE reader[r].buffer
  <2>1. reader[r] \in Log!Readings /\ Append(reader[r].buffer, m) \in Seq(Nat)
    BY ReaderAsItIs
  <2>2. QED
    BY <2>1 DEF Log!Readings
<1>2. QED
  BY <1>1 DEF Log!Published

\* The order of a buffer once a message is appended that no earlier one of the channel can follow.
LEMMA AppendKeepsOrder ==
  ASSUME NEW old \in Seq(Nat), NEW m \in Nat, NEW late,
         \A i, j \in DOMAIN old : i < j => old[i] # 0 /\ (old[j] # 0 /\ old[j] < old[i] => old[j] \in late),
         \A n \in Log!Range(old) : n # 0 /\ (m # 0 /\ m < n => m \in late),
         NEW s, s = Append(old, m)
  PROVE  \A i, j \in DOMAIN s : i < j => s[i] # 0 /\ (s[j] # 0 /\ s[j] < s[i] => s[j] \in late)
<1> SUFFICES ASSUME NEW i \in DOMAIN s, NEW j \in DOMAIN s, i < j
             PROVE  s[i] # 0 /\ (s[j] # 0 /\ s[j] < s[i] => s[j] \in late)
  OBVIOUS
<1>1. /\ DOMAIN old = 1..Len(old) /\ DOMAIN s = 1..Len(old) + 1 /\ Len(old) \in Nat
      /\ s[Len(old) + 1] = m /\ \A k \in 1..Len(old) : s[k] = old[k]
  BY AppendHolds
<1>2. i \in DOMAIN old /\ s[i] = old[i] /\ old[i] \in Log!Range(old)
  BY <1>1 DEF Log!Range
<1>3. CASE j \in DOMAIN old
  <2>1. s[j] = old[j]
    BY <1>1, <1>3
  <2>2. QED
    BY <1>2, <1>3, <2>1
<1>4. CASE j = Len(old) + 1
  <2>1. s[j] = m
    BY <1>1, <1>4
  <2>2. QED
    BY <1>2, <2>1
<1>5. QED
  BY <1>1, <1>3, <1>4

\* A number is published, or only its turn passes.
LEMMA PublishesKeeps ==
  ASSUME Log!FollowInv, NEW w \in Writers, Log!Publishes(w)
  PROVE  Log!FollowInv'
<1>1. /\ Log!Typed /\ Log!Numbered /\ channel \in Seq(Nat) /\ lines.count \in Nat
      /\ writer \in [Writers -> Log!Writings]
  BY LogAsItIs
<1>2. PICK m \in Nat : m = writer[w].number
  BY <1>1 DEF Log!Writings
<1>3. m \in 1..lines.count /\ m # Log!Done /\ job.at = "working"
  BY <1>1, <1>2 DEF Log!Publishes, Log!Numbered, Log!Done
<1>4. /\ job' = job /\ lines' = lines /\ writer' \in [Writers -> Log!Writings]
      /\ \A v \in Writers : writer'[v].number \in {0, writer[v].number}
  <2>1. job' = job /\ lines' = lines /\ writer' = [writer EXCEPT ![w].number = 0]
    BY DEF Log!Publishes
  <2>2. QED
    BY <1>1, <2>1 DEF Log!Writings
<1>5. CASE channel' = channel /\ reader' = reader
  <2>1. Log!Typed' /\ Log!Numbered'
    BY <1>1, <1>4, <1>5 DEF Log!Typed, Log!Numbered
  <2>2. ASSUME NEW r \in Readers
        PROVE  /\ Log!Rising(reader[r])' /\ Log!Shown(reader[r])'
               /\ reader'[r].at # "ended" => Log!Ordered(reader[r])' /\ Log!Skipped(reader[r])'
    BY <1>4, <1>5, ReaderAsItIs DEF Log!Rising, Log!Shown, Log!Ordered, Log!Skipped, Log!Overtaken
  <2>3. QED
    BY <2>1, <2>2 DEF Log!FollowInv
<1>6. CASE channel' = Append(channel, m) /\ reader' = Log!Published(m)
  <2>1. channel' \in Seq(Nat) /\ Log!Range(channel') = Log!Range(channel) \cup {m}
    BY <1>1, <1>6, AppendHolds
  <2>2. reader' \in [Readers -> Log!Readings]
    BY <1>6, PublishedReader
  <2>3. Log!Typed' /\ Log!Numbered'
    BY <1>1, <1>3, <1>4, <2>1, <2>2 DEF Log!Typed, Log!Numbered
  <2>4. \A n \in Nat : (n # m \/ n \in Log!Range(channel)) /\ Log!Overtaken(n) => Log!Overtaken(n)'
    BY <1>1, <1>6, OvertakenStays
  <2>5. \A n \in Log!Range(channel) : n \in Nat /\ n # Log!Done /\ (n > m => Log!Overtaken(m)')
    BY <1>1, <1>6, PublishedLate DEF Log!Numbered, Log!Done
  <2>6. ASSUME NEW r \in Readers
        PROVE  /\ Log!Rising(reader[r])' /\ Log!Shown(reader[r])'
               /\ reader'[r].at # "ended" => Log!Ordered(reader[r])' /\ Log!Skipped(reader[r])'
    <3>1. /\ reader'[r].at = reader[r].at /\ reader'[r].listening = reader[r].listening
          /\ reader'[r].sure = reader[r].sure /\ reader'[r].seen = reader[r].seen
          /\ reader'[r].shown = reader[r].shown
          /\ reader'[r].buffer = IF reader[r].listening /\ reader[r].at # "ended"
                                 THEN Append(reader[r].buffer, m) ELSE reader[r].buffer
      BY <1>6, PublishedReader
    <3>2. /\ reader[r].buffer \in Seq(Nat) /\ reader[r].seen \in Nat
          /\ Log!Rising(reader[r]) /\ Log!Shown(reader[r])
          /\ reader[r].at # "ended" => Log!Ordered(reader[r]) /\ Log!Skipped(reader[r])
      BY ReaderAsItIs
    <3>3. Log!Rising(reader[r])'
      BY <1>4, <3>1, <3>2 DEF Log!Rising
    <3>4. \/ Log!Range(reader'[r].buffer) = Log!Range(reader[r].buffer) \cup {m}
          \/ ~(reader[r].listening /\ reader[r].at # "ended")
             /\ Log!Range(reader'[r].buffer) = Log!Range(reader[r].buffer)
      BY <3>1, <3>2, AppendHolds
    <3>5. ASSUME reader[r].at # "ended"
          PROVE  Log!Range(reader[r].buffer) \subseteq Log!Range(channel)
      BY <1>3, <3>2, <3>5 DEF Log!Ordered
    <3>6. ASSUME reader[r].at # "ended"
          PROVE  Log!Ordered(reader[r])'
      <4>1. \A i \in DOMAIN reader[r].buffer : reader[r].buffer[i] \in Log!Range(channel)
        BY <3>5, <3>6 DEF Log!Range
      <4>2. PICK late : late = {n \in Nat : Log!Overtaken(n)'}
        OBVIOUS
      <4>3. PICK old \in Seq(Nat) : old = reader[r].buffer
        BY <3>2
      <4>4. \A n \in Nat : (n # m \/ n \in Log!Range(channel)) /\ Log!Overtaken(n) => n \in late
        BY <2>4, <4>2
      <4>5. ASSUME NEW i \in DOMAIN old, NEW j \in DOMAIN old, i < j
            PROVE  old[i] # 0 /\ (old[j] # 0 /\ old[j] < old[i] => old[j] \in late)
        <5>1. /\ old[i] # 0 /\ old[j] \in Nat /\ old[j] \in Log!Range(channel)
              /\ old[j] # 0 /\ old[j] < old[i] => Log!Overtaken(old[j])
          BY <3>2, <3>6, <4>1, <4>3, <4>5 DEF Log!Ordered, Log!Done
        <5>2. QED
          BY <4>4, <5>1
      <4>6. \A n \in Log!Range(old) : n # 0 /\ (m # 0 /\ m < n => m \in late)
        BY <2>5, <3>5, <3>6, <4>2, <4>3 DEF Log!Done
      <4>7. PICK s : s = reader'[r].buffer
        OBVIOUS
      <4>8. \A i, j \in DOMAIN s : i < j => s[i] # 0 /\ (s[j] # 0 /\ s[j] < s[i] => s[j] \in late)
        <5>1. CASE s = old
          BY <4>5, <5>1
        <5>2. CASE s = Append(old, m)
          BY <4>5, <4>6, <5>2, AppendKeepsOrder
        <5>3. QED
          BY <3>1, <4>3, <4>7, <5>1, <5>2
      <4>9. Log!Range(s) \subseteq Log!Range(channel')
        BY <2>1, <3>4, <3>5, <3>6, <4>7
      <4>10. PICK x : x = reader'[r]
        OBVIOUS
      <4>11. Log!Ordered(x)'
        BY <4>2, <4>7, <4>8, <4>9, <4>10 DEF Log!Ordered, Log!Done
      <4>12. QED
        BY <4>10, <4>11 DEF Log!Ordered
    <3>7. ASSUME reader[r].at # "ended"
          PROVE  Log!Skipped(reader[r])'
      <4>1. \/ reader[r].seen \in Log!Range(channel') \cap Log!Range(reader[r].shown)
            \/ 1..reader[r].seen \subseteq Log!Range(reader[r].shown)
        BY <2>1, <3>2, <3>7 DEF Log!Skipped
      <4>2. ASSUME NEW n \in Log!Range(reader[r].buffer), n # Log!Done, n <= reader[r].seen
            PROVE  n \in Log!Range(reader[r].shown) \/ Log!Overtaken(n)'
        BY <2>4, <2>5, <3>2, <3>5, <3>7, <4>2 DEF Log!Skipped
      <4>3. ASSUME m <= reader[r].seen
            PROVE  m \in Log!Range(reader[r].shown) \/ Log!Overtaken(m)' \/ m \in Log!Range(reader[r].buffer)
        <5>1. CASE 1..reader[r].seen \subseteq Log!Range(reader[r].shown)
          BY <1>3, <3>2, <4>3, <5>1
        <5>2. CASE reader[r].seen \in Log!Range(channel) /\ reader[r].seen > m
          BY <2>5, <5>2
        <5>3. CASE reader[r].seen = m /\ m \in Log!Range(reader[r].shown)
          BY <5>3
        <5>4. QED
          BY <3>2, <3>7, <4>3, <5>1, <5>2, <5>3 DEF Log!Skipped
      <4>4. \A n \in Log!Range(reader'[r].buffer) :
              n # Log!Done /\ n <= reader[r].seen => n \in Log!Range(reader[r].shown) \/ Log!Overtaken(n)'
        BY <3>4, <4>2, <4>3
      <4>5. PICK x : x = reader'[r]
        OBVIOUS
      <4>6. Log!Skipped(x)'
        BY <3>1, <4>1, <4>4, <4>5 DEF Log!Skipped
      <4>7. QED
        BY <4>5, <4>6 DEF Log!Skipped
    <3>8. Log!Shown(reader[r])'
      BY <1>3, <1>4, <2>4, <3>1, <3>2, <3>4 DEF Log!Shown
    <3>9. QED
      BY <3>1, <3>3, <3>6, <3>7, <3>8
  <2>7. QED
    BY <2>3, <2>6 DEF Log!FollowInv
<1>7. QED
  BY <1>2, <1>5, <1>6 DEF Log!Publishes

\* A line is pushed to the history, or dropped.
LEMMA HistoryKeeps ==
  ASSUME Log!FollowInv, NEW w \in Writers, Log!Pushes(w)
  PROVE  Log!FollowInv'
<1>1. /\ Log!Typed /\ Log!Numbered /\ lines \in [count : Nat, gone : BOOLEAN] /\ lines.count \in Nat
      /\ writer \in [Writers -> Log!Writings] /\ channel \in Seq(Nat)
  BY LogAsItIs
<1>2. /\ job' = job /\ channel' = channel /\ reader' = reader /\ job.at = "working"
      /\ lines' \in [count : Nat, gone : BOOLEAN] /\ lines'.count \in {lines.count, lines.count + 1}
      /\ writer' \in [Writers -> Log!Writings]
      /\ \A v \in Writers : writer'[v].number = writer[v].number \/ writer'[v].number = lines'.count
  <2>1. writer[w].left - 1 \in Nat /\ job.at = "working"
    BY <1>1 DEF Log!Pushes, Log!Writings
  <2>2. CASE /\ lines' = [lines EXCEPT !.count = @ + 1]
             /\ writer' = [writer EXCEPT ![w] = [number |-> lines.count + 1, left |-> @.left - 1]]
    <3>1. lines' \in [count : Nat, gone : BOOLEAN] /\ lines'.count = lines.count + 1
      BY <1>1, <2>2
    <3>2. /\ writer'[w] = [number |-> lines.count + 1, left |-> writer[w].left - 1]
          /\ \A v \in Writers \ {w} : writer'[v] = writer[v]
          /\ writer' = [writer EXCEPT ![w] = [number |-> lines.count + 1, left |-> writer[w].left - 1]]
      BY <1>1, <2>2
    <3>3. [number |-> lines.count + 1, left |-> writer[w].left - 1] \in Log!Writings
      BY <1>1, <2>1 DEF Log!Writings
    <3>4. writer' \in [Writers -> Log!Writings]
      BY <1>1, <3>2, <3>3
    <3>5. QED
      BY <2>1, <3>1, <3>2, <3>4 DEF Log!Pushes
  <2>3. CASE writer' = [writer EXCEPT ![w].left = @ - 1] /\ UNCHANGED lines
    BY <1>1, <2>1, <2>3 DEF Log!Pushes, Log!Writings
  <2>4. QED
    BY <2>2, <2>3 DEF Log!Pushes
<1>3. Log!Typed'
  BY <1>1, <1>2 DEF Log!Typed
<1>4. Log!Numbered'
  <2>1. \A v \in Writers : writer[v].number \in Nat /\ writer[v].number <= lines.count
    BY <1>1 DEF Log!Numbered, Log!Writings
  <2>2. \A n \in Log!Range(channel) : n \in 1..lines'.count
    BY <1>1, <1>2 DEF Log!Numbered
  <2>3. \A v \in Writers : writer'[v].number <= lines'.count
    BY <1>1, <1>2, <2>1
  <2>4. QED
    BY <1>2, <2>2, <2>3 DEF Log!Numbered
<1>5. ASSUME NEW r \in Readers
      PROVE  /\ Log!Rising(reader[r])' /\ Log!Shown(reader[r])'
             /\ reader'[r].at # "ended" => Log!Ordered(reader[r])' /\ Log!Skipped(reader[r])'
  <2>1. PICK x : x = reader[r]
    OBVIOUS
  <2>2. /\ Log!Rising(x) /\ Log!Shown(x) /\ x.seen \in Nat
        /\ x.at # "ended" => Log!Ordered(x) /\ Log!Skipped(x)
    BY <2>1, ReaderAsItIs
  <2>3. Log!Rising(x)' /\ (x.at # "ended" => Log!Ordered(x)' /\ Log!Skipped(x)')
    BY <1>1, <1>2, <2>2 DEF Log!Rising, Log!Ordered, Log!Skipped, Log!Overtaken
  <2>4. ASSUME NEW n \in 1..lines'.count, n \notin 1..lines.count
        PROVE  n \notin Log!Range(channel)
    BY <1>1, <2>4 DEF Log!Numbered
  <2>5. Log!Shown(x)'
    BY <1>2, <2>2, <2>4 DEF Log!Shown, Log!Overtaken
  <2>6. QED
    BY <1>2, <2>1, <2>3, <2>5 DEF Log!Rising, Log!Shown, Log!Ordered, Log!Skipped
<1>6. QED
  BY <1>3, <1>4, <1>5 DEF Log!FollowInv

\* The job's end: its thread ends, it is removed, DONE is published, the history deleted.
LEMMA EndingKeeps ==
  ASSUME Log!FollowInv, Log!Ending
  PROVE  Log!FollowInv'
<1>1. /\ Log!Typed /\ Log!Numbered /\ lines \in [count : Nat, gone : BOOLEAN]
      /\ job \in [ran : BOOLEAN, at : {"working", "over", "removed", "told", "closed"}]
      /\ reader \in [Readers -> Log!Readings] /\ channel \in Seq(Nat)
  BY LogAsItIs DEF Log!Typed
<1>2. /\ channel' = channel /\ writer' = writer /\ lines'.count = lines.count
      /\ lines' \in [count : Nat, gone : BOOLEAN]
      /\ job' \in [ran : BOOLEAN, at : {"working", "over", "removed", "told", "closed"}]
      /\ job'.at # "working" /\ (job.at \in {"told", "closed"} => job'.at \in {"told", "closed"})
      /\ job.at = "working" => \A w \in Writers : writer[w].number = 0
      /\ \/ reader' = reader
         \/ job.at = "removed" /\ job'.at = "told" /\ reader' = Log!Published(Log!Done)
  <2>1. CASE Log!JobOver
    BY <1>1, <2>1 DEF Log!JobOver
  <2>2. CASE Log!Removed
    BY <1>1, <2>2 DEF Log!Removed
  <2>3. CASE Log!TellsDone
    BY <1>1, <2>3 DEF Log!TellsDone
  <2>4. CASE Log!DeletesKeys
    BY <1>1, <2>4 DEF Log!DeletesKeys
  <2>5. QED
    BY <2>1, <2>2, <2>3, <2>4 DEF Log!Ending
<1>3. Log!Done \in Nat
  BY DEF Log!Done
<1>4. reader' \in [Readers -> Log!Readings]
  BY <1>1, <1>2, <1>3, PublishedReader
<1>5. Log!Typed' /\ Log!Numbered'
  BY <1>1, <1>2, <1>4 DEF Log!Typed, Log!Numbered
<1>6. ASSUME NEW r \in Readers
      PROVE  /\ Log!Rising(reader[r])' /\ Log!Shown(reader[r])'
             /\ reader'[r].at # "ended" => Log!Ordered(reader[r])' /\ Log!Skipped(reader[r])'
  <2>1. PICK x, y : x = reader[r] /\ y = reader'[r]
    OBVIOUS
  <2>2. /\ Log!Rising(x) /\ Log!Shown(x) /\ x.buffer \in Seq(Nat)
        /\ x.at # "ended" => Log!Ordered(x) /\ Log!Skipped(x)
    BY <2>1, ReaderAsItIs
  <2>3. /\ y.at = x.at /\ y.listening = x.listening /\ y.sure = x.sure /\ y.seen = x.seen
        /\ y.shown = x.shown
        /\ y.buffer = x.buffer \/ (job.at = "removed" /\ job'.at = "told" /\ y.buffer = Append(x.buffer, 0))
    BY <1>2, <1>3, <2>1, PublishedReader DEF Log!Done
  <2>4. \/ Log!Range(y.buffer) = Log!Range(x.buffer)
        \/ job'.at = "told" /\ Log!Range(y.buffer) = Log!Range(x.buffer) \cup {0}
    <3>1. Log!Range(Append(x.buffer, 0)) = Log!Range(x.buffer) \cup {0}
      BY <2>2, AppendHolds
    <3>2. QED
      BY <2>3, <3>1
  <2>5. Log!Rising(y)' /\ Log!Shown(y)' /\ (y.at # "ended" => Log!Skipped(y)')
    BY <1>2, <2>2, <2>3, <2>4 DEF Log!Rising, Log!Shown, Log!Skipped, Log!Overtaken, Log!Done
  <2>6. ASSUME y.at # "ended" PROVE Log!Ordered(y)'
    <3>1. PICK late : late = {n \in Nat : Log!Overtaken(n)}
      OBVIOUS
    <3>2. ASSUME NEW i \in DOMAIN x.buffer, NEW j \in DOMAIN x.buffer, i < j
          PROVE  x.buffer[i] # 0 /\ (x.buffer[j] # 0 /\ x.buffer[j] < x.buffer[i] => x.buffer[j] \in late)
      BY <2>2, <2>3, <2>6, <3>1, <3>2 DEF Log!Ordered, Log!Done
    <3>3. \A i, j \in DOMAIN y.buffer :
            i < j => /\ y.buffer[i] # 0
                     /\ y.buffer[j] # 0 /\ y.buffer[j] < y.buffer[i] => y.buffer[j] \in late
      <4>1. CASE y.buffer = x.buffer
        BY <3>2, <4>1
      <4>2. CASE job.at = "removed" /\ y.buffer = Append(x.buffer, 0)
        <5>1. \A n \in Log!Range(x.buffer) : n # 0
          BY <1>1, <2>2, <2>3, <2>6, <4>2 DEF Log!Ordered, Log!Numbered
        <5>2. QED
          BY <2>2, <3>2, <4>2, <5>1, AppendKeepsOrder
      <4>3. QED
        BY <2>3, <4>1, <4>2
    <3>4. QED
      BY <1>2, <2>2, <2>3, <2>4, <2>6, <3>1, <3>3 DEF Log!Ordered, Log!Overtaken, Log!Done
  <2>7. QED
    BY <2>1, <2>5, <2>6 DEF Log!Rising, Log!Shown, Log!Ordered, Log!Skipped
<1>7. QED
  BY <1>5, <1>6 DEF Log!FollowInv

\* A step that leaves the log alone.
LEMMA LogStutters ==
  ASSUME Log!FollowInv, UNCHANGED logVars
  PROVE  Log!FollowInv'
BY DEF logVars, Log!FollowInv, Log!Typed, Log!Numbered, Log!Rising, Log!Shown, Log!Ordered, Log!Skipped,
       Log!Overtaken

\* At first nobody follows and nothing is written.
LEMMA LogFirst == Log!Init => Log!FollowInv
<1> SUFFICES ASSUME Log!Init PROVE Log!FollowInv
  OBVIOUS
<1>1. <<>> \in Seq(Nat) /\ Log!Range(<<>>) = {} /\ DOMAIN <<>> = {}
  BY DEF Log!Range
<1>2. Log!Typed /\ Log!Numbered
  BY <1>1, LinesAssumption DEF Log!Init, Log!Typed, Log!Numbered, Log!Writings, Log!Readings
<1>3. ASSUME NEW r \in Readers
      PROVE  Log!Rising(reader[r]) /\ Log!Shown(reader[r]) /\ Log!Ordered(reader[r]) /\ Log!Skipped(reader[r])
  <2>1. /\ reader[r].at = "away" /\ ~reader[r].sure /\ reader[r].buffer = <<>> /\ reader[r].seen = 0
        /\ reader[r].shown = <<>> /\ lines.count = 0
    BY DEF Log!Init
  <2>2. QED
    BY <1>1, <2>1 DEF Log!Rising, Log!Shown, Log!Ordered, Log!Skipped
<1>4. QED
  BY <1>2, <1>3 DEF Log!FollowInv

\* The invariant of the log's part, whichever part a behaviour is of.
LEMMA LogInvariant == Spec => []Log!FollowInv
<1>1. Init => Log!FollowInv
  BY LogFirst DEF Init
<1>2. Log!FollowInv /\ Log!Next => Log!FollowInv'
  BY HistoryKeeps, PublishesKeeps, EndingKeeps, SubscriptionKeeps, ReadsKeeps, TakesKeeps, QuitsKeeps
     DEF Log!Next, Log!Follows
<1>3. Log!FollowInv /\ [Next]_vars => Log!FollowInv'
  BY <1>2, LogStutters DEF Next, vars
<1>4. QED
  BY <1>1, <1>3, PTL DEF Spec

\* LogSafe: a page shows no line twice or out of order, and one whose subscription was in effect before
\* it read the history misses only a line that a later one overtook on the channel, or that was never
\* published (append, follow and close of log.py, over() of the stream).
THEOREM FollowersMissNothing == Spec => []LogSafe
<1>1. Log!FollowInv => LogSafe
  <2> SUFFICES ASSUME Log!FollowInv
               PROVE  Log!TypeOK /\ Log!NoneRepeated /\ Log!OnlyOvertakenLost
    BY DEF LogSafe
  <2>1. Log!TypeOK
    <3>1. job.at \in Log!Range(Log!JobEnds)
      <4>1. /\ Log!JobEnds[1] = "working" /\ Log!JobEnds[2] = "over" /\ Log!JobEnds[3] = "removed"
            /\ Log!JobEnds[4] = "told" /\ Log!JobEnds[5] = "closed" /\ DOMAIN Log!JobEnds = 1..5
        BY DEF Log!JobEnds
      <4>2. job.at \in {"working", "over", "removed", "told", "closed"}
        BY LogAsItIs
      <4>3. 1 \in 1..5 /\ 2 \in 1..5 /\ 3 \in 1..5 /\ 4 \in 1..5 /\ 5 \in 1..5
        OBVIOUS
      <4>4. QED
        BY <4>1, <4>2, <4>3 DEF Log!Range
    <3>2. \A w \in Writers : writer[w].number \in 0..lines.count
      BY LogAsItIs DEF Log!Numbered, Log!Writings
    <3>3. \A r \in Readers : /\ reader[r].at \in {"away", "subscribing", "subscribed", "following", "ended"}
                             /\ reader[r].seen \in 0..lines.count
      BY LogAsItIs, ReaderAsItIs DEF Log!Rising
    <3>4. QED
      BY <3>1, <3>2, <3>3, LogAsItIs DEF Log!TypeOK
  <2>2. Log!NoneRepeated
    BY ReaderAsItIs DEF Log!NoneRepeated, Log!Rising
  <2>3. Log!OnlyOvertakenLost
    BY ReaderAsItIs DEF Log!OnlyOvertakenLost, Log!Shown
  <2>4. QED
    BY <2>1, <2>2, <2>3
<1>2. QED
  BY <1>1, LogInvariant, PTL
=============================================================================
