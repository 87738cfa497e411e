----------------------------- MODULE Site_proofs -----------------------------
(***************************************************************************)
(* Proofs about how the server is reached (Site): the port trial, for any  *)
(* ports, requests and deaths of the helper; host names and certificates,  *)
(* for any admins, names, certificates, failures and weeks.                *)
(***************************************************************************)
EXTENDS Site, TLAPS

(***************************************************************************)
(* PortTrial: what is open, what is kept.                                  *)
(***************************************************************************)

\* Where numbers and ports are kept.
LEMMA NumberedHas ==
  /\ \A s \in Port!Copies : <<s.id, s.request>> \in Port!Numbered
  /\ <<0, 0>> \in Port!Numbered
  /\ Port!Opening \subseteq Port!Numbered /\ Port!Tried \subseteq Port!Numbered /\ reached \subseteq Port!Numbered
BY DEF Port!Numbered

\* A step that only copies numbers with their ports.
LEMMA SameNumbers ==
  ASSUME Port!OnePort, \A s \in Port!Copies' : <<s.id, s.request>> \in Port!Numbered,
         Port!Opening' \subseteq Port!Numbered, Port!Tried' \subseteq Port!Numbered, reached' \subseteq Port!Numbered
  PROVE  Port!OnePort'
<1>1. <<0, 0>> \in Port!Numbered
  BY DEF Port!Numbered
<1>2. Port!Numbered' \subseteq Port!Numbered
  BY <1>1 DEF Port!Numbered
<1>3. QED
  BY <1>2 DEF Port!OnePort

\* The helper somewhere else.
LEMMA HelperAt ==
  ASSUME NEW h \in Port!Helpers, NEW there \in Port!Places
  PROVE  LET k == [h EXCEPT !.at = there]
         IN  /\ k \in Port!Helpers /\ k.at = there
             /\ k.id = h.id /\ k.port = h.port /\ k.outcome = h.outcome /\ k.read = h.read
BY DEF Port!Helpers

\* The helper about to close a trial.
LEMMA HelperCloses ==
  ASSUME NEW h \in Port!Helpers, NEW id \in Port!Numbers, NEW outcome \in {"keep", "rollback", "timed_out", "failed"}
  PROVE  LET k == [h EXCEPT !.at = "close", !.outcome = outcome, !.id = id]
         IN  /\ k \in Port!Helpers /\ k.at = "close" /\ k.outcome = outcome
             /\ k.id = id /\ k.port = h.port /\ k.read = h.read
BY DEF Port!Helpers, Port!Places, Port!Closing

\* The helper waits; or it has read site.env.
LEMMA HelperReads ==
  ASSUME NEW h \in Port!Helpers, NEW there \in Port!Places
  PROVE  /\ \A id \in Port!Numbers :
              LET k == [h EXCEPT !.at = there, !.id = id]
              IN  /\ k \in Port!Helpers /\ k.at = there
                  /\ k.id = id /\ k.port = h.port /\ k.outcome = h.outcome /\ k.read = h.read
         /\ \A s \in Port!SiteFiles :
              LET k == [h EXCEPT !.at = there, !.read = s]
              IN  /\ k \in Port!Helpers /\ k.at = there
                  /\ k.id = h.id /\ k.port = h.port /\ k.outcome = h.outcome /\ k.read = s
BY DEF Port!Helpers

\* The helper called for nothing yet.
LEMMA HelperIdle ==
  ASSUME Port!Typed
  PROVE  /\ Port!IdleHelper \in Port!Helpers /\ Port!IdleHelper.at = "idle" /\ Port!IdleHelper.read = Port!None
         /\ Port!None \in Port!SiteFiles /\ Port!None.id = 0 /\ Port!None.request = 0 /\ Port!None.confirmed = 0
<1>1. 0 \in Port!Numbers
  BY DEF Port!Typed, Port!Numbers
<1>2. Port!None \in Port!SiteFiles
  BY <1>1 DEF Port!None, Port!SiteFiles, Port!PortOrNone
<1>3. QED
  BY <1>1, <1>2 DEF Port!IdleHelper, Port!None, Port!Helpers, Port!Places, Port!PortOrNone

\* A number with its port as it was kept somewhere.
Copied(s) ==
  \/ s.id = 0 /\ s.request = 0 /\ s.confirmed = 0
  \/ \E c \in Port!Copies : s.id = c.id /\ s.request = c.request /\ s.confirmed = c.confirmed

\* A confirmed number is that of the port that is tried: a browser came through it.
LEMMA ConfirmedTrial ==
  ASSUME Port!PortInv, Port!Trying, status.id = site.id, Port!Confirmed
  PROVE  <<status.id, status.trying>> \in reached
<1>1. site.confirmed = status.id /\ status.id # 0
  BY DEF Port!Confirmed, Port!PortInv, Port!Open
<1>2. site.confirmed \in Port!CameThrough
  BY <1>1 DEF Port!PortInv, Port!ConfirmedByOne, Port!Copies
<1>3. PICK x \in reached : x[1] = status.id
  BY <1>1, <1>2 DEF Port!CameThrough
<1>4. x = <<x[1], x[2]>>
  BY DEF Port!PortInv, Port!Typed
<1>5. x \in Port!Numbered /\ <<status.id, status.trying>> \in Port!Numbered
  BY NumberedHas DEF Port!Tried
<1>6. x[2] = status.trying
  BY <1>3, <1>5 DEF Port!PortInv, Port!OnePort
<1>7. QED
  BY <1>3, <1>4, <1>6

\* What a step of the helper must leave as it was.
LEMMA HelperKeeps ==
  ASSUME Port!PortInv, UNCHANGED <<saver, confirmer, update, reached>>,
         count' \in [requests : Nat, mishaps : Nat], count'.requests = count.requests,
         env' \in [port : Ports, entry : Port!PortOrNone], status' \in Port!Statuses, helper' \in Port!Helpers,
         published' \subseteq Ports, site' \in Port!SiteFiles, Copied(site'), Copied(helper'.read),
         Port!Opening' \subseteq Port!Numbered, Port!Tried' \subseteq Port!Numbered,
         Port!Stepping', Port!Open'
  PROVE  Port!PortInv'
<1> USE DEF Port!PortInv
<1>1. Port!Numbers' = Port!Numbers
  BY DEF Port!Numbers
<1>2. Port!SiteFiles' = Port!SiteFiles
  BY <1>1 DEF Port!SiteFiles
<1>3. Port!Statuses' = Port!Statuses /\ Port!Helpers' = Port!Helpers
  BY <1>1, <1>2 DEF Port!Statuses, Port!Helpers
<1>4. Port!Typed'
  BY <1>1, <1>2, <1>3 DEF Port!Typed
<1>5. Port!OnePort'
  <2>1. \A s \in Port!Copies' : <<s.id, s.request>> \in Port!Numbered
    BY NumberedHas DEF Port!Copies, Copied
  <2>2. QED
    BY <2>1, SameNumbers, NumberedHas
<1>6. Port!ConfirmedByOne'
  <2>1. \A s \in Port!Copies' : Copied(s)
    BY DEF Port!Copies, Copied
  <2>2. Port!CameThrough' = Port!CameThrough
    BY DEF Port!CameThrough
  <2>3. \A s \in Port!Copies' : s.confirmed \in {0} \cup Port!CameThrough /\ (s.id # 0 => s.request \in Ports)
    BY <2>1 DEF Port!ConfirmedByOne, Copied, Port!None
  <2>4. QED
    BY <2>2, <2>3 DEF Port!ConfirmedByOne
<1>7. QED
  BY <1>4, <1>5, <1>6

LEMMA RequestedKeeps == ASSUME Port!PortInv, Port!Requested PROVE Port!PortInv'
<1> USE DEF Port!PortInv
<1>1. Port!Typed'
  BY DEF Port!Typed, Port!Numbers, Port!PortOrNone, Port!SiteFiles, Port!Statuses, Port!Helpers, Port!Requested,
         Port!Replaces, Port!NoUpdate, Port!None
<1>2. Port!Stepping' /\ Port!Open'
  BY DEF Port!Requested, Port!Stepping, Port!Open, Port!Trying, Port!ByHandNow, Port!Kept
<1>3. Port!OnePort'
  <2>1. \A s \in Port!Copies' : <<s.id, s.request>> \in Port!Numbered
    BY NumberedHas DEF Port!Requested, Port!Replaces, Port!NoUpdate, Port!None, Port!Copies
  <2>2. Port!Opening' = Port!Opening /\ Port!Tried' = Port!Tried /\ reached' = reached
    BY DEF Port!Requested, Port!Opening, Port!Tried, Port!Trying
  <2>3. QED
    BY <2>1, <2>2, SameNumbers, NumberedHas
<1>4. Port!ConfirmedByOne'
  BY DEF Port!Requested, Port!Replaces, Port!NoUpdate, Port!None, Port!ConfirmedByOne, Port!Copies, Port!CameThrough
<1>5. QED
  BY <1>1, <1>2, <1>3, <1>4

LEMMA SaveStandsKeeps == ASSUME Port!PortInv, Port!SaveStands PROVE Port!PortInv'
<1> USE DEF Port!PortInv
<1>1. Port!Typed'
  BY DEF Port!Typed, Port!Numbers, Port!PortOrNone, Port!SiteFiles, Port!Statuses, Port!Helpers, Port!SaveStands
<1>2. Port!Stepping' /\ Port!Open'
  BY DEF Port!SaveStands, Port!Stepping, Port!Open, Port!Trying, Port!ByHandNow, Port!Kept
<1>3. Port!OnePort'
  <2>1. \A s \in Port!Copies' : <<s.id, s.request>> \in Port!Numbered
    BY NumberedHas DEF Port!Typed, Port!Numbers, Port!PortOrNone, Port!SiteFiles, Port!Statuses, Port!SaveStands,
           Port!Copies
  <2>2. Port!Opening' = Port!Opening /\ Port!Tried' = Port!Tried /\ reached' = reached
    BY DEF Port!SaveStands, Port!Opening, Port!Tried, Port!Trying
  <2>3. QED
    BY <2>1, <2>2, SameNumbers, NumberedHas
<1>4. Port!ConfirmedByOne'
  BY DEF Port!SaveStands, Port!ConfirmedByOne, Port!Copies, Port!CameThrough
<1>5. QED
  BY <1>1, <1>2, <1>3, <1>4

LEMMA UndoesRequestKeeps == ASSUME Port!PortInv, Port!UndoesRequest PROVE Port!PortInv'
<1> USE DEF Port!PortInv
<1>1. Port!Typed'
  BY DEF Port!Typed, Port!Numbers, Port!SiteFiles, Port!Statuses, Port!Helpers, Port!UndoesRequest, Port!Starts
<1>2. Port!Stepping' /\ Port!Open'
  BY DEF Port!UndoesRequest, Port!Stepping, Port!Open, Port!Trying, Port!ByHandNow, Port!Kept
<1>3. Port!OnePort'
  <2>1. \A s \in Port!Copies' : <<s.id, s.request>> \in Port!Numbered
    BY NumberedHas DEF Port!Typed, Port!SiteFiles, Port!UndoesRequest, Port!Starts, Port!Copies
  <2>2. Port!Opening' = Port!Opening /\ Port!Tried' = Port!Tried /\ reached' = reached
    BY DEF Port!UndoesRequest, Port!Opening, Port!Tried, Port!Trying
  <2>3. QED
    BY <2>1, <2>2, SameNumbers, NumberedHas
<1>4. Port!ConfirmedByOne'
  BY DEF Port!Typed, Port!SiteFiles, Port!UndoesRequest, Port!Starts, Port!ConfirmedByOne, Port!Copies,
         Port!CameThrough
<1>5. QED
  BY <1>1, <1>2, <1>3, <1>4

LEMMA UndoneKeeps == ASSUME Port!PortInv, Port!Undone PROVE Port!PortInv'
<1> USE DEF Port!PortInv
<1>1. Port!Typed'
  BY DEF Port!Typed, Port!Numbers, Port!PortOrNone, Port!SiteFiles, Port!Statuses, Port!Helpers, Port!Undone,
         Port!Replaces, Port!NoUpdate, Port!None
<1>2. Port!Stepping' /\ Port!Open'
  BY DEF Port!Undone, Port!Stepping, Port!Open, Port!Trying, Port!ByHandNow, Port!Kept
<1>3. Port!OnePort'
  <2>1. \A s \in Port!Copies' : <<s.id, s.request>> \in Port!Numbered
    BY NumberedHas DEF Port!Undone, Port!Replaces, Port!NoUpdate, Port!None, Port!Copies
  <2>2. Port!Opening' = Port!Opening /\ Port!Tried' = Port!Tried /\ reached' = reached
    BY DEF Port!Undone, Port!Opening, Port!Tried, Port!Trying
  <2>3. QED
    BY <2>1, <2>2, SameNumbers, NumberedHas
<1>4. Port!ConfirmedByOne'
  BY DEF Port!Undone, Port!Replaces, Port!NoUpdate, Port!None, Port!ConfirmedByOne, Port!Copies, Port!CameThrough
<1>5. QED
  BY <1>1, <1>2, <1>3, <1>4

LEMMA ConfirmReadsKeeps == ASSUME Port!PortInv, Port!ConfirmReads PROVE Port!PortInv'
<1> USE DEF Port!PortInv
<1>1. Port!Typed'
  BY DEF Port!Typed, Port!Numbers, Port!SiteFiles, Port!Statuses, Port!Helpers, Port!ConfirmReads, Port!Starts
<1>2. Port!Stepping' /\ Port!Open'
  BY DEF Port!ConfirmReads, Port!Stepping, Port!Open, Port!Trying, Port!ByHandNow, Port!Kept
<1>3. Port!OnePort'
  <2>1. \A s \in Port!Copies' : <<s.id, s.request>> \in Port!Numbered
    BY NumberedHas DEF Port!Typed, Port!SiteFiles, Port!ConfirmReads, Port!Starts, Port!Copies
  <2>2. Port!Opening' = Port!Opening /\ Port!Tried' = Port!Tried /\ reached' = reached
    BY DEF Port!ConfirmReads, Port!Opening, Port!Tried, Port!Trying
  <2>3. QED
    BY <2>1, <2>2, SameNumbers, NumberedHas
<1>4. Port!ConfirmedByOne'
  BY DEF Port!Typed, Port!SiteFiles, Port!ConfirmReads, Port!Starts, Port!ConfirmedByOne, Port!Copies,
         Port!CameThrough
<1>5. QED
  BY <1>1, <1>2, <1>3, <1>4

LEMMA ConfirmWritesKeeps == ASSUME Port!PortInv, Port!ConfirmWrites PROVE Port!PortInv'
<1> USE DEF Port!PortInv
<1>1. Port!Typed'
  BY DEF Port!Typed, Port!Numbers, Port!PortOrNone, Port!SiteFiles, Port!Statuses, Port!Helpers, Port!ConfirmWrites,
         Port!Replaces, Port!NoUpdate, Port!None
<1>2. Port!Stepping' /\ Port!Open'
  BY DEF Port!ConfirmWrites, Port!Stepping, Port!Open, Port!Trying, Port!ByHandNow, Port!Kept
<1>3. Port!OnePort'
  <2>1. \A s \in Port!Copies' : <<s.id, s.request>> \in Port!Numbered
    BY NumberedHas DEF Port!ConfirmWrites, Port!Replaces, Port!NoUpdate, Port!None, Port!Copies
  <2>2. Port!Opening' = Port!Opening /\ Port!Tried' = Port!Tried /\ reached' = reached
    BY DEF Port!ConfirmWrites, Port!Opening, Port!Tried, Port!Trying
  <2>3. QED
    BY <2>1, <2>2, SameNumbers, NumberedHas
<1>4. Port!ConfirmedByOne'
  BY DEF Port!ConfirmWrites, Port!Replaces, Port!NoUpdate, Port!None, Port!ConfirmedByOne, Port!Copies,
         Port!CameThrough
<1>5. QED
  BY <1>1, <1>2, <1>3, <1>4

LEMMA SiteReadsKeeps == ASSUME Port!PortInv, Port!SiteReads PROVE Port!PortInv'
<1> USE DEF Port!PortInv
<1>1. Port!Typed'
  BY DEF Port!Typed, Port!Numbers, Port!PortOrNone, Port!SiteFiles, Port!Statuses, Port!Helpers, Port!SiteReads,
         Port!Starts, Port!ServingPort
<1>2. Port!Stepping' /\ Port!Open'
  BY DEF Port!SiteReads, Port!Stepping, Port!Open, Port!Trying, Port!ByHandNow, Port!Kept
<1>3. Port!OnePort'
  <2>1. \A s \in Port!Copies' : <<s.id, s.request>> \in Port!Numbered
    BY NumberedHas DEF Port!Typed, Port!SiteFiles, Port!SiteReads, Port!Starts, Port!Copies
  <2>2. Port!Opening' = Port!Opening /\ Port!Tried' = Port!Tried /\ reached' = reached
    BY DEF Port!SiteReads, Port!Opening, Port!Tried, Port!Trying
  <2>3. QED
    BY <2>1, <2>2, SameNumbers, NumberedHas
<1>4. Port!ConfirmedByOne'
  BY DEF Port!Typed, Port!SiteFiles, Port!SiteReads, Port!Starts, Port!ConfirmedByOne, Port!Copies, Port!CameThrough
<1>5. QED
  BY <1>1, <1>2, <1>3, <1>4

LEMMA SiteWritesKeeps == ASSUME Port!PortInv, Port!SiteWrites PROVE Port!PortInv'
<1> USE DEF Port!PortInv
<1>1. Port!Typed'
  BY DEF Port!Typed, Port!Numbers, Port!PortOrNone, Port!SiteFiles, Port!Statuses, Port!Helpers, Port!SiteWrites,
         Port!Replaces, Port!NoUpdate, Port!None
<1>2. Port!Stepping' /\ Port!Open'
  BY DEF Port!SiteWrites, Port!Stepping, Port!Open, Port!Trying, Port!ByHandNow, Port!Kept
<1>3. Port!OnePort'
  <2>1. \A s \in Port!Copies' : <<s.id, s.request>> \in Port!Numbered
    BY NumberedHas DEF Port!SiteWrites, Port!Replaces, Port!NoUpdate, Port!None, Port!Copies
  <2>2. Port!Opening' = Port!Opening /\ Port!Tried' = Port!Tried /\ reached' = reached
    BY DEF Port!SiteWrites, Port!Opening, Port!Tried, Port!Trying
  <2>3. QED
    BY <2>1, <2>2, SameNumbers, NumberedHas
<1>4. Port!ConfirmedByOne'
  BY DEF Port!SiteWrites, Port!Replaces, Port!NoUpdate, Port!None, Port!ConfirmedByOne, Port!Copies,
         Port!CameThrough
<1>5. QED
  BY <1>1, <1>2, <1>3, <1>4

\* A save is asked for: its number is new.
LEMMA RequestsKeeps == ASSUME Port!PortInv, NEW p \in Ports, Port!Requests(p) PROVE Port!PortInv'
<1> USE DEF Port!PortInv
<1> DEFINE n == count.requests + 1
<1>1. /\ count' \in [requests : Nat, mishaps : Nat] /\ count'.requests = n /\ count.requests \in Nat
      /\ UNCHANGED <<env, site, status, published, confirmer, helper, reached>>
  BY DEF Port!Requests, Port!Typed
<1>2. Port!Numbers \subseteq Port!Numbers' /\ n \in Port!Numbers' /\ n \notin Port!Numbers /\ n # 0 /\ 0 \in Port!Numbers'
  BY <1>1 DEF Port!Numbers
<1> HIDE DEF n
<1>3. Port!SiteFiles \subseteq Port!SiteFiles'
  BY <1>2 DEF Port!SiteFiles
<1>4. /\ update' = [by |-> "saver", read |-> site, write |-> [inUse |-> site.inUse, request |-> p, id |-> n, confirmed |-> 0]]
      /\ saver' = [at |-> "requesting", before |-> site]
  BY DEF Port!Requests, Port!Starts, Port!Typed, Port!SiteFiles, n
<1>5. site \in Port!SiteFiles' /\ update'.write \in Port!SiteFiles'
  BY <1>2, <1>3, <1>4 DEF Port!Typed, Port!SiteFiles, Port!PortOrNone
<1>6. Port!Typed'
  BY <1>1, <1>2, <1>3, <1>4, <1>5 DEF Port!Typed, Port!Statuses, Port!Helpers
<1>7. Port!Stepping' /\ Port!Open'
  BY <1>1 DEF Port!Stepping, Port!Open, Port!Trying, Port!ByHandNow, Port!Kept
<1>8. Port!OnePort'
  <2>1. \A s \in Port!Copies' : <<s.id, s.request>> \in Port!Numbered \cup {<<n, p>>}
    BY <1>1, <1>4, NumberedHas DEF Port!Copies
  <2>2. Port!Opening' = Port!Opening /\ Port!Tried' = Port!Tried /\ reached' = reached
    BY <1>1 DEF Port!Opening, Port!Tried, Port!Trying
  <2>3. Port!Numbered' \subseteq Port!Numbered \cup {<<n, p>>}
    BY <2>1, <2>2, NumberedHas DEF Port!Numbered, Port!None
  <2>4. \A x \in Port!Numbered : x[1] # n
    BY <1>2 DEF Port!Numbered, Port!Copies, Port!Opening, Port!Tried, Port!Typed, Port!SiteFiles, Port!Statuses,
           Port!Helpers
  <2>5. QED
    BY <2>3, <2>4 DEF Port!OnePort
<1>9. Port!ConfirmedByOne'
  BY <1>1, <1>4 DEF Port!ConfirmedByOne, Port!Copies, Port!CameThrough
<1>10. QED
  BY <1>6, <1>7, <1>8, <1>9

\* A browser came through the port that is tried.
LEMMA ConfirmsKeeps == ASSUME Port!PortInv, NEW p \in Ports, Port!Confirms(p) PROVE Port!PortInv'
<1> USE DEF Port!PortInv
<1>1. /\ Port!Trying /\ status.trying = p /\ status.id # 0 /\ status.id \in Port!Numbers
      /\ reached' = reached \cup {<<status.id, p>>} /\ confirmer' = [at |-> "checked", id |-> status.id]
      /\ UNCHANGED <<env, site, status, published, saver, update, helper, count>>
  BY DEF Port!Confirms, Port!Confirmable, Port!Trying, Port!Open, Port!Typed, Port!Statuses
<1>2. Port!Numbers' = Port!Numbers /\ Port!SiteFiles' = Port!SiteFiles /\ Port!Statuses' = Port!Statuses
      /\ Port!Helpers' = Port!Helpers
  BY <1>1 DEF Port!Numbers, Port!SiteFiles, Port!Statuses, Port!Helpers
<1>3. reached' \subseteq (Port!Numbers \ {0}) \X Ports
  BY <1>1 DEF Port!Typed
<1>4. Port!Typed'
  BY <1>1, <1>2, <1>3 DEF Port!Typed
<1>5. Port!Stepping' /\ Port!Open'
  BY <1>1 DEF Port!Stepping, Port!Open, Port!Trying, Port!ByHandNow, Port!Kept
<1>6. Port!OnePort'
  <2>1. Port!Copies' = Port!Copies /\ Port!Opening' = Port!Opening /\ Port!Tried' = Port!Tried
    BY <1>1 DEF Port!Copies, Port!Opening, Port!Tried, Port!Trying
  <2>2. <<status.id, p>> \in Port!Numbered
    BY <1>1, NumberedHas DEF Port!Tried
  <2>3. QED
    BY <1>1, <2>1, <2>2, SameNumbers, NumberedHas
<1>7. Port!ConfirmedByOne'
  <2>1. Port!CameThrough \cup {status.id} \subseteq Port!CameThrough'
    <3>1. reached \subseteq reached' /\ <<status.id, p>> \in reached'
      BY <1>1
    <3>2. <<status.id, p>>[1] = status.id
      OBVIOUS
    <3>3. status.id \in {x[1] : x \in reached'}
      BY <3>1, <3>2, Zenon
    <3>4. {x[1] : x \in reached} \subseteq {x[1] : x \in reached'}
      BY <3>1
    <3>5. QED
      BY <3>3, <3>4 DEF Port!CameThrough
  <2>2. Port!Copies' = Port!Copies /\ confirmer'.id = status.id
    BY <1>1 DEF Port!Copies
  <2>3. QED
    BY <2>1, <2>2 DEF Port!ConfirmedByOne
<1>8. QED
  BY <1>4, <1>5, <1>6, <1>7

\* The helper is called.
LEMMA RunsKeeps == ASSUME Port!PortInv, Port!Runs PROVE Port!PortInv'
<1> USE DEF Port!PortInv
<1>1. /\ helper' \in Port!Helpers /\ helper'.at = "next" /\ helper'.id = helper.id /\ helper'.port = helper.port
      /\ helper'.outcome = helper.outcome /\ helper'.read = helper.read
  BY HelperAt DEF Port!Runs, Port!Does, Port!Typed, Port!Places
<1>2. /\ UNCHANGED <<confirmer, count, env, published, reached, saver, site, status, update>>
      /\ helper.at = "idle"
  BY PortsAssumption DEF Port!Runs
<1>3. count' \in [requests : Nat, mishaps : Nat] /\ count'.requests = count.requests
  BY <1>2 DEF Port!Typed
<1>4. Port!Stepping'
  BY <1>1, <1>2 DEF Port!Stepping, Port!Open, Port!Trying, Port!Kept, Port!Closing, Port!ByHandSteps
<1>5. Port!Open'
  BY <1>1, <1>2 DEF Port!Stepping, Port!Open, Port!Trying, Port!ByHandNow, Port!Kept, Port!Closing, Port!ByHandSteps
<1>6. Port!Opening' \subseteq Port!Numbered /\ Port!Tried' \subseteq Port!Numbered
  BY <1>1, <1>2, NumberedHas DEF Port!Opening, Port!Tried, Port!Trying, Port!Copies
<1>7. Copied(site') /\ Copied(helper'.read)
  BY <1>1, <1>2 DEF Copied, Port!Copies, Port!None
<1>8. QED
  BY <1>1, <1>2, <1>3, <1>4, <1>5, <1>6, <1>7, HelperKeeps DEF Port!Typed

\* While a trial runs: wait, keep its port when it was confirmed, or close it.
LEMMA NextOfTrialKeeps == ASSUME Port!PortInv, Port!NextOfTrial PROVE Port!PortInv'
<1> USE DEF Port!PortInv
<1>1. CASE status.id # site.id
  <2>0. /\ helper \in Port!Helpers
        /\ helper' = [helper EXCEPT !.at = "close", !.outcome = "rollback", !.id = status.id]
        /\ status.id \in Port!Numbers
    BY <1>1, HelperIdle DEF Port!NextOfTrial, Port!Closes, Port!Typed, Port!Statuses, Port!Trying
  <2>1. /\ helper' \in Port!Helpers /\ helper'.at = "close" /\ helper'.outcome = "rollback"
        /\ helper'.id = status.id /\ helper'.port = helper.port /\ helper'.read = helper.read
    BY <2>0 DEF Port!Helpers, Port!Places, Port!Closing, Port!ByHandSteps
  <2>2. /\ UNCHANGED <<confirmer, count, env, published, reached, saver, site, status, update>>
        /\ helper.at = "next"
        /\ Port!Trying
    BY PortsAssumption, <1>1 DEF Port!NextOfTrial, Port!Trying
  <2>3. count' \in [requests : Nat, mishaps : Nat] /\ count'.requests = count.requests
    BY <2>2 DEF Port!Typed
  <2>4. Port!Stepping'
    BY <2>1, <2>2 DEF Port!Stepping, Port!Open, Port!Trying, Port!Kept, Port!Closing, Port!ByHandSteps
  <2>5. Port!Open'
    BY <2>1, <2>2 DEF Port!Stepping, Port!Open, Port!Trying, Port!ByHandNow, Port!Kept, Port!Closing,
           Port!ByHandSteps
  <2>6. Port!Opening' \subseteq Port!Numbered /\ Port!Tried' \subseteq Port!Numbered
    BY <2>1, <2>2, NumberedHas DEF Port!Opening, Port!Tried, Port!Trying, Port!Copies
  <2>7. Copied(site') /\ Copied(helper'.read)
    BY <2>1, <2>2 DEF Copied, Port!Copies, Port!None
  <2>8. QED
    BY <2>1, <2>2, <2>3, <2>4, <2>5, <2>6, <2>7, HelperKeeps DEF Port!Typed
<1>2. CASE status.id = site.id /\ Port!Confirmed
  <2>0. /\ helper \in Port!Helpers
        /\ helper' = [helper EXCEPT !.at = "close", !.outcome = "keep", !.id = status.id]
        /\ status.id \in Port!Numbers
    BY <1>2, HelperIdle DEF Port!NextOfTrial, Port!Closes, Port!Confirmed, Port!Typed, Port!Statuses, Port!Trying
  <2>1. /\ helper' \in Port!Helpers /\ helper'.at = "close" /\ helper'.outcome = "keep" /\ helper'.id = status.id
        /\ helper'.port = helper.port /\ helper'.read = helper.read
    BY <2>0 DEF Port!Helpers, Port!Places, Port!Closing, Port!ByHandSteps
  <2>2. /\ UNCHANGED <<confirmer, count, env, published, reached, saver, site, status, update>>
        /\ helper.at = "next"
        /\ Port!Trying
        /\ <<status.id, status.trying>> \in reached
    BY PortsAssumption, ConfirmedTrial, <1>2 DEF Port!NextOfTrial, Port!Trying
  <2>3. count' \in [requests : Nat, mishaps : Nat] /\ count'.requests = count.requests
    BY <2>2 DEF Port!Typed
  <2>4. Port!Stepping'
    BY <2>1, <2>2 DEF Port!Stepping, Port!Open, Port!Trying, Port!Kept, Port!Closing, Port!ByHandSteps
  <2>5. Port!Open'
    BY <2>1, <2>2 DEF Port!Stepping, Port!Open, Port!Trying, Port!ByHandNow, Port!Kept, Port!Closing,
           Port!ByHandSteps
  <2>6. Port!Opening' \subseteq Port!Numbered /\ Port!Tried' \subseteq Port!Numbered
    BY <2>1, <2>2, NumberedHas DEF Port!Opening, Port!Tried, Port!Trying, Port!Copies
  <2>7. Copied(site') /\ Copied(helper'.read)
    BY <2>1, <2>2 DEF Copied, Port!Copies, Port!None
  <2>8. QED
    BY <2>1, <2>2, <2>3, <2>4, <2>5, <2>6, <2>7, HelperKeeps DEF Port!Typed
<1>3. CASE status.id = site.id /\ ~Port!Confirmed /\ status.late
  <2>0. /\ helper \in Port!Helpers
        /\ helper' = [helper EXCEPT !.at = "close", !.outcome = "rollback", !.id = status.id]
        /\ status.id \in Port!Numbers
    BY <1>3, HelperIdle DEF Port!NextOfTrial, Port!Closes, Port!Typed, Port!Statuses, Port!Trying
  <2>1. /\ helper' \in Port!Helpers /\ helper'.at = "close" /\ helper'.outcome = "rollback"
        /\ helper'.id = status.id /\ helper'.port = helper.port /\ helper'.read = helper.read
    BY <2>0 DEF Port!Helpers, Port!Places, Port!Closing, Port!ByHandSteps
  <2>2. /\ UNCHANGED <<confirmer, count, env, published, reached, saver, site, status, update>>
        /\ helper.at = "next"
        /\ Port!Trying
    BY PortsAssumption, <1>3 DEF Port!NextOfTrial, Port!Trying
  <2>3. count' \in [requests : Nat, mishaps : Nat] /\ count'.requests = count.requests
    BY <2>2 DEF Port!Typed
  <2>4. Port!Stepping'
    BY <2>1, <2>2 DEF Port!Stepping, Port!Open, Port!Trying, Port!Kept, Port!Closing, Port!ByHandSteps
  <2>5. Port!Open'
    BY <2>1, <2>2 DEF Port!Stepping, Port!Open, Port!Trying, Port!ByHandNow, Port!Kept, Port!Closing,
           Port!ByHandSteps
  <2>6. Port!Opening' \subseteq Port!Numbered /\ Port!Tried' \subseteq Port!Numbered
    BY <2>1, <2>2, NumberedHas DEF Port!Opening, Port!Tried, Port!Trying, Port!Copies
  <2>7. Copied(site') /\ Copied(helper'.read)
    BY <2>1, <2>2 DEF Copied, Port!Copies, Port!None
  <2>8. QED
    BY <2>1, <2>2, <2>3, <2>4, <2>5, <2>6, <2>7, HelperKeeps DEF Port!Typed
<1>4. CASE status.id = site.id /\ ~Port!Confirmed /\ ~status.late
  <2>0. /\ helper \in Port!Helpers
        /\ helper' = [helper EXCEPT !.at = "wait", !.id = status.id]
        /\ status.id \in Port!Numbers
    BY <1>4, HelperIdle DEF Port!NextOfTrial, Port!Closes, Port!Typed, Port!Statuses, Port!Trying
  <2>1. /\ helper' \in Port!Helpers /\ helper'.at = "wait" /\ helper'.id = status.id /\ helper'.port = helper.port
        /\ helper'.outcome = helper.outcome /\ helper'.read = helper.read
    BY <2>0 DEF Port!Helpers, Port!Places, Port!Closing, Port!ByHandSteps
  <2>2. /\ UNCHANGED <<confirmer, count, env, published, reached, saver, site, status, update>>
        /\ helper.at = "next"
        /\ Port!Trying
    BY PortsAssumption, <1>4 DEF Port!NextOfTrial, Port!Trying
  <2>3. count' \in [requests : Nat, mishaps : Nat] /\ count'.requests = count.requests
    BY <2>2 DEF Port!Typed
  <2>4. Port!Stepping'
    BY <2>1, <2>2 DEF Port!Stepping, Port!Open, Port!Trying, Port!Kept, Port!Closing, Port!ByHandSteps
  <2>5. Port!Open'
    BY <2>1, <2>2 DEF Port!Stepping, Port!Open, Port!Trying, Port!ByHandNow, Port!Kept, Port!Closing,
           Port!ByHandSteps
  <2>6. Port!Opening' \subseteq Port!Numbered /\ Port!Tried' \subseteq Port!Numbered
    BY <2>1, <2>2, NumberedHas DEF Port!Opening, Port!Tried, Port!Trying, Port!Copies
  <2>7. Copied(site') /\ Copied(helper'.read)
    BY <2>1, <2>2 DEF Copied, Port!Copies, Port!None
  <2>8. QED
    BY <2>1, <2>2, <2>3, <2>4, <2>5, <2>6, <2>7, HelperKeeps DEF Port!Typed
<1>5. QED
  BY <1>1, <1>2, <1>3, <1>4 DEF Port!NextOfTrial, Port!Closes

\* With no trial: nothing to do, an answer, or a port to try.
LEMMA NextOfRequestKeeps == ASSUME Port!PortInv, Port!NextOfRequest PROVE Port!PortInv'
<1> USE DEF Port!PortInv
<1>1. CASE UNCHANGED status /\ helper' = Port!IdleHelper
  <2>0. helper \in Port!Helpers /\ helper' = Port!IdleHelper
    BY <1>1, HelperIdle DEF Port!NextOfRequest, Port!Answers, Port!IdleHelper, Port!None, Port!Typed, Port!Statuses,
           Port!Trying
  <2>1. /\ helper' \in Port!Helpers /\ helper'.at = "idle" /\ helper'.read = Port!None
    BY <2>0, HelperIdle DEF Port!Places, Port!Closing, Port!ByHandSteps
  <2>2. /\ UNCHANGED <<confirmer, count, env, published, reached, saver, site, status, update>>
        /\ helper.at = "next"
        /\ ~Port!Trying
    BY PortsAssumption, <1>1 DEF Port!NextOfRequest, Port!Trying
  <2>3. count' \in [requests : Nat, mishaps : Nat] /\ count'.requests = count.requests
    BY <2>2 DEF Port!Typed
  <2>4. Port!Stepping'
    BY <2>1, <2>2 DEF Port!Stepping, Port!Open, Port!Trying, Port!Kept, Port!Closing, Port!ByHandSteps
  <2>5. Port!Open'
    BY <2>1, <2>2 DEF Port!Stepping, Port!Open, Port!Trying, Port!ByHandNow, Port!Kept, Port!Closing,
           Port!ByHandSteps
  <2>6. Port!Opening' \subseteq Port!Numbered /\ Port!Tried' \subseteq Port!Numbered
    BY <2>1, <2>2, NumberedHas DEF Port!Opening, Port!Tried, Port!Trying, Port!Copies
  <2>7. Copied(site') /\ Copied(helper'.read)
    BY <2>1, <2>2 DEF Copied, Port!Copies, Port!None
  <2>8. QED
    BY <2>1, <2>2, <2>3, <2>4, <2>5, <2>6, <2>7, HelperKeeps DEF Port!Typed
<1>2. CASE Port!Answers(site.id, "applied", 0) /\ helper' = Port!IdleHelper
  <2>0. helper \in Port!Helpers /\ helper' = Port!IdleHelper
    BY <1>2, HelperIdle DEF Port!NextOfRequest, Port!Answers, Port!IdleHelper, Port!None, Port!Typed, Port!Statuses,
           Port!Trying
  <2>1. /\ helper' \in Port!Helpers /\ helper'.at = "idle" /\ helper'.read = Port!None
    BY <2>0, HelperIdle DEF Port!Places, Port!Closing, Port!ByHandSteps
  <2>2. /\ UNCHANGED <<confirmer, count, env, published, reached, saver, site, update>>
        /\ helper.at = "next"
        /\ ~Port!Trying
        /\ ~(status'.state = "trying")
        /\ status' \in Port!Statuses
        /\ status'.port = env.port
    BY PortsAssumption, <1>2 DEF Port!NextOfRequest, Port!Answers, Port!Typed, Port!Statuses, Port!Trying,
           Port!SiteFiles, Port!PortOrNone
  <2>3. count' \in [requests : Nat, mishaps : Nat] /\ count'.requests = count.requests
    BY <2>2 DEF Port!Typed
  <2>4. Port!Stepping'
    BY <2>1, <2>2 DEF Port!Stepping, Port!Open, Port!Trying, Port!Kept, Port!Closing, Port!ByHandSteps
  <2>5. Port!Open'
    BY <2>1, <2>2 DEF Port!Stepping, Port!Open, Port!Trying, Port!ByHandNow, Port!Kept, Port!Closing,
           Port!ByHandSteps
  <2>6. Port!Opening' \subseteq Port!Numbered /\ Port!Tried' \subseteq Port!Numbered
    BY <2>1, <2>2, NumberedHas DEF Port!Opening, Port!Tried, Port!Trying, Port!Copies
  <2>7. Copied(site') /\ Copied(helper'.read)
    BY <2>1, <2>2 DEF Copied, Port!Copies, Port!None
  <2>8. QED
    BY <2>1, <2>2, <2>3, <2>4, <2>5, <2>6, <2>7, HelperKeeps DEF Port!Typed
<1>3. CASE Port!Answers(site.id, "failed", 0) /\ helper' = Port!IdleHelper
  <2>0. helper \in Port!Helpers /\ helper' = Port!IdleHelper
    BY <1>3, HelperIdle DEF Port!NextOfRequest, Port!Answers, Port!IdleHelper, Port!None, Port!Typed, Port!Statuses,
           Port!Trying
  <2>1. /\ helper' \in Port!Helpers /\ helper'.at = "idle" /\ helper'.read = Port!None
    BY <2>0, HelperIdle DEF Port!Places, Port!Closing, Port!ByHandSteps
  <2>2. /\ UNCHANGED <<confirmer, count, env, published, reached, saver, site, update>>
        /\ helper.at = "next"
        /\ ~Port!Trying
        /\ ~(status'.state = "trying")
        /\ status' \in Port!Statuses
        /\ status'.port = env.port
    BY PortsAssumption, <1>3 DEF Port!NextOfRequest, Port!Answers, Port!Typed, Port!Statuses, Port!Trying,
           Port!SiteFiles, Port!PortOrNone
  <2>3. count' \in [requests : Nat, mishaps : Nat] /\ count'.requests = count.requests
    BY <2>2 DEF Port!Typed
  <2>4. Port!Stepping'
    BY <2>1, <2>2 DEF Port!Stepping, Port!Open, Port!Trying, Port!Kept, Port!Closing, Port!ByHandSteps
  <2>5. Port!Open'
    BY <2>1, <2>2 DEF Port!Stepping, Port!Open, Port!Trying, Port!ByHandNow, Port!Kept, Port!Closing,
           Port!ByHandSteps
  <2>6. Port!Opening' \subseteq Port!Numbered /\ Port!Tried' \subseteq Port!Numbered
    BY <2>1, <2>2, NumberedHas DEF Port!Opening, Port!Tried, Port!Trying, Port!Copies
  <2>7. Copied(site') /\ Copied(helper'.read)
    BY <2>1, <2>2 DEF Copied, Port!Copies, Port!None
  <2>8. QED
    BY <2>1, <2>2, <2>3, <2>4, <2>5, <2>6, <2>7, HelperKeeps DEF Port!Typed
<1>4. CASE site.id # 0 /\ UNCHANGED status /\ helper' = [helper EXCEPT !.at = "open", !.id = site.id, !.port = site.request]
  <2>1. /\ helper' \in Port!Helpers /\ helper'.at = "open" /\ helper'.id = site.id /\ helper'.port = site.request
        /\ helper'.read = helper.read
    BY HelperAt, HelperCloses, <1>4 DEF Port!NextOfRequest, Port!ConfirmedByOne, Port!Copies, Port!Typed,
           Port!Places, Port!Closing, Port!ByHandSteps, Port!Numbers, Port!Statuses, Port!Kept, Port!SiteFiles,
           Port!Trying, Port!Stepping, Port!Helpers
  <2>2. /\ UNCHANGED <<confirmer, count, env, published, reached, saver, site, status, update>>
        /\ helper.at = "next"
        /\ ~Port!Trying
        /\ site.id # 0
        /\ site.request \in Ports
    BY PortsAssumption, <1>4 DEF Port!NextOfRequest, Port!ConfirmedByOne, Port!Copies, Port!Trying
  <2>3. count' \in [requests : Nat, mishaps : Nat] /\ count'.requests = count.requests
    BY <2>2 DEF Port!Typed
  <2>4. Port!Stepping'
    BY <2>1, <2>2 DEF Port!Stepping, Port!Open, Port!Trying, Port!Kept, Port!Closing, Port!ByHandSteps
  <2>5. Port!Open'
    BY <2>1, <2>2 DEF Port!Stepping, Port!Open, Port!Trying, Port!ByHandNow, Port!Kept, Port!Closing,
           Port!ByHandSteps
  <2>6. Port!Opening' \subseteq Port!Numbered /\ Port!Tried' \subseteq Port!Numbered
    BY <2>1, <2>2, NumberedHas DEF Port!Opening, Port!Tried, Port!Trying, Port!Copies
  <2>7. Copied(site') /\ Copied(helper'.read)
    BY <2>1, <2>2 DEF Copied, Port!Copies, Port!None
  <2>8. QED
    BY <2>1, <2>2, <2>3, <2>4, <2>5, <2>6, <2>7, HelperKeeps DEF Port!Typed
<1>5. QED
  BY <1>1, <1>2, <1>3, <1>4 DEF Port!NextOfRequest, Port!Answers, Port!IdleHelper, Port!None

\* The trial's port is added, or it can't be.
LEMMA OpensTrialKeeps == ASSUME Port!PortInv, Port!OpensTrial PROVE Port!PortInv'
<1> USE DEF Port!PortInv
<1>1. CASE env' = [env EXCEPT !.entry = helper.port] /\ Port!Does(Port!AfterOpen)
  <2>1. /\ helper' \in Port!Helpers /\ helper'.at = "nginx_trial" /\ helper'.id = helper.id
        /\ helper'.port = helper.port /\ helper'.outcome = helper.outcome /\ helper'.read = helper.read
    BY HelperAt, HelperCloses, <1>1 DEF Port!OpensTrial, Port!Does, Port!Closes, Port!AfterOpen, Port!Typed,
           Port!Places, Port!Closing, Port!ByHandSteps, Port!Numbers, Port!Statuses, Port!Kept, Port!SiteFiles,
           Port!Trying, Port!Stepping, Port!Helpers
  <2>2. /\ UNCHANGED <<confirmer, count, published, reached, saver, site, status, update>>
        /\ helper.at = "open"
        /\ ~Port!Trying
        /\ env' \in [port : Ports, entry : Port!PortOrNone]
        /\ env'.entry = helper.port /\ env'.port = env.port
    BY PortsAssumption, <1>1 DEF Port!OpensTrial, Port!Typed, Port!Stepping, Port!PortOrNone
  <2>3. count' \in [requests : Nat, mishaps : Nat] /\ count'.requests = count.requests
    BY <2>2 DEF Port!Typed
  <2>4. Port!Stepping'
    BY <2>1, <2>2 DEF Port!Stepping, Port!Open, Port!Trying, Port!Kept, Port!Closing, Port!ByHandSteps
  <2>5. Port!Open'
    BY <2>1, <2>2 DEF Port!Stepping, Port!Open, Port!Trying, Port!ByHandNow, Port!Kept, Port!Closing,
           Port!ByHandSteps
  <2>6. Port!Opening' \subseteq Port!Numbered /\ Port!Tried' \subseteq Port!Numbered
    BY <2>1, <2>2, NumberedHas DEF Port!Opening, Port!Tried, Port!Trying, Port!Copies
  <2>7. Copied(site') /\ Copied(helper'.read)
    BY <2>1, <2>2 DEF Copied, Port!Copies, Port!None
  <2>8. QED
    BY <2>1, <2>2, <2>3, <2>4, <2>5, <2>6, <2>7, HelperKeeps DEF Port!Typed
<1>2. CASE UNCHANGED env /\ Port!Closes("failed", helper.id)
  <2>1. /\ helper' \in Port!Helpers /\ helper'.at = "close" /\ helper'.outcome = "failed" /\ helper'.id = helper.id
        /\ helper'.port = helper.port /\ helper'.read = helper.read
    BY HelperCloses, <1>2 DEF Port!OpensTrial, Port!Does, Port!Closes, Port!Typed, Port!Helpers
  <2>2. /\ UNCHANGED <<confirmer, count, env, published, reached, saver, site, status, update>>
        /\ helper.at = "open"
        /\ ~Port!Trying
    BY PortsAssumption, <1>2 DEF Port!OpensTrial, Port!Stepping
  <2>3. count' \in [requests : Nat, mishaps : Nat] /\ count'.requests = count.requests
    BY <2>2 DEF Port!Typed
  <2>4. Port!Stepping'
    BY <2>1, <2>2 DEF Port!Stepping, Port!Open, Port!Trying, Port!Kept, Port!Closing, Port!ByHandSteps
  <2>5. Port!Open'
    BY <2>1, <2>2 DEF Port!Stepping, Port!Open, Port!Trying, Port!ByHandNow, Port!Kept, Port!Closing,
           Port!ByHandSteps
  <2>6. Port!Opening' \subseteq Port!Numbered /\ Port!Tried' \subseteq Port!Numbered
    BY <2>1, <2>2, NumberedHas DEF Port!Opening, Port!Tried, Port!Trying, Port!Copies
  <2>7. Copied(site') /\ Copied(helper'.read)
    BY <2>1, <2>2 DEF Copied, Port!Copies, Port!None
  <2>8. QED
    BY <2>1, <2>2, <2>3, <2>4, <2>5, <2>6, <2>7, HelperKeeps DEF Port!Typed
<1>3. QED
  BY <1>1, <1>2 DEF Port!OpensTrial, Port!Does, Port!Closes, Port!AfterOpen

\* nginx listens on both ports, or doesn't start.
LEMMA RecreatesForTrialKeeps == ASSUME Port!PortInv, Port!RecreatesForTrial PROVE Port!PortInv'
<1> USE DEF Port!PortInv
<1>1. CASE published' = Port!TrialPorts /\ Port!Does("trying")
  <2>1. /\ helper' \in Port!Helpers /\ helper'.at = "trying" /\ helper'.id = helper.id /\ helper'.port = helper.port
        /\ helper'.outcome = helper.outcome /\ helper'.read = helper.read
    BY HelperAt, <1>1 DEF Port!RecreatesForTrial, Port!Does, Port!Closes, Port!Typed, Port!Places
  <2>2. /\ UNCHANGED <<confirmer, count, env, reached, saver, site, status, update>>
        /\ helper.at = "nginx_trial"
        /\ ~Port!Trying
        /\ published' \subseteq Ports
        /\ published' = {env.port, helper.port}
    BY PortsAssumption, <1>1 DEF Port!RecreatesForTrial, Port!Does, Port!TrialPorts, Port!Typed, Port!Stepping
  <2>3. count' \in [requests : Nat, mishaps : Nat] /\ count'.requests = count.requests
    BY <2>2 DEF Port!Typed
  <2>4. Port!Stepping'
    BY <2>1, <2>2 DEF Port!Stepping, Port!Open, Port!Trying, Port!Kept, Port!Closing, Port!ByHandSteps
  <2>5. Port!Open'
    BY <2>1, <2>2 DEF Port!Stepping, Port!Open, Port!Trying, Port!ByHandNow, Port!Kept, Port!Closing,
           Port!ByHandSteps
  <2>6. Port!Opening' \subseteq Port!Numbered /\ Port!Tried' \subseteq Port!Numbered
    BY <2>1, <2>2, NumberedHas DEF Port!Opening, Port!Tried, Port!Trying, Port!Copies
  <2>7. Copied(site') /\ Copied(helper'.read)
    BY <2>1, <2>2 DEF Copied, Port!Copies, Port!None
  <2>8. QED
    BY <2>1, <2>2, <2>3, <2>4, <2>5, <2>6, <2>7, HelperKeeps DEF Port!Typed
<1>2. CASE published' = {} /\ Port!Closes("failed", helper.id)
  <2>1. /\ helper' \in Port!Helpers /\ helper'.at = "close" /\ helper'.outcome = "failed" /\ helper'.id = helper.id
        /\ helper'.port = helper.port /\ helper'.read = helper.read
    BY HelperCloses, <1>2 DEF Port!RecreatesForTrial, Port!Does, Port!Closes, Port!Typed, Port!Helpers
  <2>2. /\ UNCHANGED <<confirmer, count, env, reached, saver, site, status, update>>
        /\ helper.at = "nginx_trial"
        /\ ~Port!Trying
        /\ published' = {} /\ published' \subseteq Ports
    BY PortsAssumption, <1>2 DEF Port!RecreatesForTrial, Port!Stepping
  <2>3. count' \in [requests : Nat, mishaps : Nat] /\ count'.requests = count.requests
    BY <2>2 DEF Port!Typed
  <2>4. Port!Stepping'
    BY <2>1, <2>2 DEF Port!Stepping, Port!Open, Port!Trying, Port!Kept, Port!Closing, Port!ByHandSteps
  <2>5. Port!Open'
    BY <2>1, <2>2 DEF Port!Stepping, Port!Open, Port!Trying, Port!ByHandNow, Port!Kept, Port!Closing,
           Port!ByHandSteps
  <2>6. Port!Opening' \subseteq Port!Numbered /\ Port!Tried' \subseteq Port!Numbered
    BY <2>1, <2>2, NumberedHas DEF Port!Opening, Port!Tried, Port!Trying, Port!Copies
  <2>7. Copied(site') /\ Copied(helper'.read)
    BY <2>1, <2>2 DEF Copied, Port!Copies, Port!None
  <2>8. QED
    BY <2>1, <2>2, <2>3, <2>4, <2>5, <2>6, <2>7, HelperKeeps DEF Port!Typed
<1>3. QED
  BY <1>1, <1>2 DEF Port!RecreatesForTrial, Port!Does, Port!Closes, Port!TrialPorts

\* The trial's clock starts.
LEMMA TrialRunsKeeps == ASSUME Port!PortInv, Port!TrialRuns PROVE Port!PortInv'
<1> USE DEF Port!PortInv
<1>1. CASE Port!Answers(helper.id, "trying", helper.port) /\ Port!Does("next")
  <2>1. /\ helper' \in Port!Helpers /\ helper'.at = "next" /\ helper'.id = helper.id /\ helper'.port = helper.port
        /\ helper'.outcome = helper.outcome /\ helper'.read = helper.read
    BY HelperAt, <1>1 DEF Port!TrialRuns, Port!Does, Port!Closes, Port!Answers, Port!Typed, Port!Places
  <2>2. /\ UNCHANGED <<confirmer, count, env, published, reached, saver, site, update>>
        /\ helper.at = "trying"
        /\ ~Port!Trying
        /\ status'.state = "trying" /\ status'.id = helper.id /\ status'.trying = helper.port
        /\ status' \in Port!Statuses
        /\ status'.port = env.port
    BY PortsAssumption, <1>1 DEF Port!TrialRuns, Port!Answers, Port!Helpers, Port!Typed, Port!Statuses,
           Port!Stepping
  <2>3. count' \in [requests : Nat, mishaps : Nat] /\ count'.requests = count.requests
    BY <2>2 DEF Port!Typed
  <2>4. Port!Stepping'
    BY <2>1, <2>2 DEF Port!Stepping, Port!Open, Port!Trying, Port!Kept, Port!Closing, Port!ByHandSteps
  <2>5. Port!Open'
    BY <2>1, <2>2 DEF Port!Stepping, Port!Open, Port!Trying, Port!ByHandNow, Port!Kept, Port!Closing,
           Port!ByHandSteps
  <2>6. Port!Opening' \subseteq Port!Numbered /\ Port!Tried' \subseteq Port!Numbered
    BY <2>1, <2>2, NumberedHas DEF Port!Opening, Port!Tried, Port!Trying, Port!Copies
  <2>7. Copied(site') /\ Copied(helper'.read)
    BY <2>1, <2>2 DEF Copied, Port!Copies, Port!None
  <2>8. QED
    BY <2>1, <2>2, <2>3, <2>4, <2>5, <2>6, <2>7, HelperKeeps DEF Port!Typed
<1>2. CASE UNCHANGED status /\ Port!Closes("failed", helper.id)
  <2>1. /\ helper' \in Port!Helpers /\ helper'.at = "close" /\ helper'.outcome = "failed" /\ helper'.id = helper.id
        /\ helper'.port = helper.port /\ helper'.read = helper.read
    BY HelperCloses, <1>2 DEF Port!TrialRuns, Port!Does, Port!Closes, Port!Answers, Port!Typed, Port!Helpers
  <2>2. /\ UNCHANGED <<confirmer, count, env, published, reached, saver, site, status, update>>
        /\ helper.at = "trying"
        /\ ~Port!Trying
    BY PortsAssumption, <1>2 DEF Port!TrialRuns, Port!Stepping
  <2>3. count' \in [requests : Nat, mishaps : Nat] /\ count'.requests = count.requests
    BY <2>2 DEF Port!Typed
  <2>4. Port!Stepping'
    BY <2>1, <2>2 DEF Port!Stepping, Port!Open, Port!Trying, Port!Kept, Port!Closing, Port!ByHandSteps
  <2>5. Port!Open'
    BY <2>1, <2>2 DEF Port!Stepping, Port!Open, Port!Trying, Port!ByHandNow, Port!Kept, Port!Closing,
           Port!ByHandSteps
  <2>6. Port!Opening' \subseteq Port!Numbered /\ Port!Tried' \subseteq Port!Numbered
    BY <2>1, <2>2, NumberedHas DEF Port!Opening, Port!Tried, Port!Trying, Port!Copies
  <2>7. Copied(site') /\ Copied(helper'.read)
    BY <2>1, <2>2 DEF Copied, Port!Copies, Port!None
  <2>8. QED
    BY <2>1, <2>2, <2>3, <2>4, <2>5, <2>6, <2>7, HelperKeeps DEF Port!Typed
<1>3. QED
  BY <1>1, <1>2 DEF Port!TrialRuns, Port!Does, Port!Closes, Port!Answers, Port!Helpers

\* The clock of the command.
LEMMA WaitsKeeps == ASSUME Port!PortInv, Port!Waits PROVE Port!PortInv'
<1> USE DEF Port!PortInv
<1>1. CASE Port!Does("next")
  <2>1. /\ helper' \in Port!Helpers /\ helper'.at = "next" /\ helper'.id = helper.id /\ helper'.port = helper.port
        /\ helper'.outcome = helper.outcome /\ helper'.read = helper.read
    BY HelperAt, <1>1 DEF Port!Waits, Port!Does, Port!Typed, Port!Places
  <2>2. /\ UNCHANGED <<confirmer, count, env, published, reached, saver, site, status, update>>
        /\ helper.at = "wait"
        /\ Port!Trying
    BY PortsAssumption, <1>1 DEF Port!Waits, Port!Stepping
  <2>3. count' \in [requests : Nat, mishaps : Nat] /\ count'.requests = count.requests
    BY <2>2 DEF Port!Typed
  <2>4. Port!Stepping'
    BY <2>1, <2>2 DEF Port!Stepping, Port!Open, Port!Trying, Port!Kept, Port!Closing, Port!ByHandSteps
  <2>5. Port!Open'
    BY <2>1, <2>2 DEF Port!Stepping, Port!Open, Port!Trying, Port!ByHandNow, Port!Kept, Port!Closing,
           Port!ByHandSteps
  <2>6. Port!Opening' \subseteq Port!Numbered /\ Port!Tried' \subseteq Port!Numbered
    BY <2>1, <2>2, NumberedHas DEF Port!Opening, Port!Tried, Port!Trying, Port!Copies
  <2>7. Copied(site') /\ Copied(helper'.read)
    BY <2>1, <2>2 DEF Copied, Port!Copies, Port!None
  <2>8. QED
    BY <2>1, <2>2, <2>3, <2>4, <2>5, <2>6, <2>7, HelperKeeps DEF Port!Typed
<1>2. CASE helper' = [helper EXCEPT !.at = "close", !.outcome = "timed_out"]
  <2>1. /\ helper' \in Port!Helpers /\ helper'.at = "close" /\ helper'.outcome = "timed_out"
        /\ helper'.id = helper.id /\ helper'.port = helper.port /\ helper'.read = helper.read
    BY HelperCloses, <1>2 DEF Port!Waits, Port!Does, Port!Typed, Port!Helpers
  <2>2. /\ UNCHANGED <<confirmer, count, env, published, reached, saver, site, status, update>>
        /\ helper.at = "wait"
        /\ Port!Trying
    BY PortsAssumption, <1>2 DEF Port!Waits, Port!Stepping
  <2>3. count' \in [requests : Nat, mishaps : Nat] /\ count'.requests = count.requests
    BY <2>2 DEF Port!Typed
  <2>4. Port!Stepping'
    BY <2>1, <2>2 DEF Port!Stepping, Port!Open, Port!Trying, Port!Kept, Port!Closing, Port!ByHandSteps
  <2>5. Port!Open'
    BY <2>1, <2>2 DEF Port!Stepping, Port!Open, Port!Trying, Port!ByHandNow, Port!Kept, Port!Closing,
           Port!ByHandSteps
  <2>6. Port!Opening' \subseteq Port!Numbered /\ Port!Tried' \subseteq Port!Numbered
    BY <2>1, <2>2, NumberedHas DEF Port!Opening, Port!Tried, Port!Trying, Port!Copies
  <2>7. Copied(site') /\ Copied(helper'.read)
    BY <2>1, <2>2 DEF Copied, Port!Copies, Port!None
  <2>8. QED
    BY <2>1, <2>2, <2>3, <2>4, <2>5, <2>6, <2>7, HelperKeeps DEF Port!Typed
<1>3. QED
  BY <1>1, <1>2 DEF Port!Waits, Port!Does

\* The deadline passes.
LEMMA LateKeeps == ASSUME Port!PortInv, Port!Late PROVE Port!PortInv'
<1> USE DEF Port!PortInv
<1>1. /\ helper' \in Port!Helpers /\ helper'.at = helper.at /\ helper'.id = helper.id /\ helper'.port = helper.port
      /\ helper'.outcome = helper.outcome /\ helper'.read = helper.read
  BY HelperAt DEF Port!Late, Port!Typed, Port!Places
<1>2. /\ UNCHANGED <<confirmer, count, env, published, reached, saver, site, update>>
      /\ UNCHANGED helper
      /\ Port!Trying
      /\ status' \in Port!Statuses
      /\ status'.state = "trying" /\ status'.id = status.id /\ status'.trying = status.trying /\ status'.port = status.port
  BY PortsAssumption DEF Port!Late, Port!Typed, Port!Statuses, Port!Stepping, Port!Open, Port!Trying, Port!Kept,
         Port!Closing, Port!ByHandSteps, Port!SiteFiles, Port!PortOrNone, Port!Numbers, Port!ByHandNow
<1>3. count' \in [requests : Nat, mishaps : Nat] /\ count'.requests = count.requests
  BY <1>2 DEF Port!Typed
<1>4. Port!Stepping'
  BY <1>1, <1>2 DEF Port!Stepping, Port!Open, Port!Trying, Port!Kept, Port!Closing, Port!ByHandSteps
<1>5. Port!Open'
  BY <1>1, <1>2 DEF Port!Stepping, Port!Open, Port!Trying, Port!ByHandNow, Port!Kept, Port!Closing, Port!ByHandSteps
<1>6. Port!Opening' \subseteq Port!Numbered /\ Port!Tried' \subseteq Port!Numbered
  BY <1>1, <1>2, NumberedHas DEF Port!Opening, Port!Tried, Port!Trying, Port!Copies
<1>7. Copied(site') /\ Copied(helper'.read)
  BY <1>1, <1>2 DEF Copied, Port!Copies, Port!None
<1>8. QED
  BY <1>1, <1>2, <1>3, <1>4, <1>5, <1>6, <1>7, HelperKeeps DEF Port!Typed

\* The port that is kept becomes that of .env.
LEMMA CloseEnvKeeps == ASSUME Port!PortInv, Port!CloseEnv PROVE Port!PortInv'
<1> USE DEF Port!PortInv
<1>1. CASE Port!Kept
  <2>1. /\ helper' \in Port!Helpers /\ helper'.at = "close_reads" /\ helper'.id = helper.id
        /\ helper'.port = helper.port /\ helper'.outcome = helper.outcome /\ helper'.read = helper.read
    BY <1>1 DEF Port!CloseEnv, Port!Does, Port!Typed, Port!Helpers, Port!Places, Port!Closing, Port!ByHandSteps
  <2>2. /\ UNCHANGED <<confirmer, count, published, reached, saver, site, status, update>>
        /\ helper.at = "close"
        /\ Port!Trying
        /\ env' \in [port : Ports, entry : Port!PortOrNone]
        /\ env'.port = status.trying /\ env'.entry = env.entry
        /\ helper.outcome = "keep"
    BY PortsAssumption, <1>1 DEF Port!CloseEnv, Port!Typed, Port!Stepping, Port!Kept, Port!Closing
  <2>3. count' \in [requests : Nat, mishaps : Nat] /\ count'.requests = count.requests
    BY <2>2 DEF Port!Typed
  <2>4. Port!Stepping'
    BY <2>1, <2>2 DEF Port!Stepping, Port!Open, Port!Trying, Port!Kept, Port!Closing, Port!ByHandSteps
  <2>5. Port!Open'
    BY <2>1, <2>2 DEF Port!Stepping, Port!Open, Port!Trying, Port!ByHandNow, Port!Kept, Port!Closing,
           Port!ByHandSteps
  <2>6. Port!Opening' \subseteq Port!Numbered /\ Port!Tried' \subseteq Port!Numbered
    BY <2>1, <2>2, NumberedHas DEF Port!Opening, Port!Tried, Port!Trying, Port!Copies
  <2>7. Copied(site') /\ Copied(helper'.read)
    BY <2>1, <2>2 DEF Copied, Port!Copies, Port!None
  <2>8. QED
    BY <2>1, <2>2, <2>3, <2>4, <2>5, <2>6, <2>7, HelperKeeps DEF Port!Typed
<1>2. CASE ~Port!Kept
  <2>1. /\ helper' \in Port!Helpers /\ helper'.at = "close_entry" /\ helper'.id = helper.id
        /\ helper'.port = helper.port /\ helper'.outcome = helper.outcome /\ helper'.read = helper.read
    BY <1>2 DEF Port!CloseEnv, Port!Does, Port!Typed, Port!Helpers, Port!Places, Port!Closing, Port!ByHandSteps
  <2>2. /\ UNCHANGED <<confirmer, count, env, published, reached, saver, site, status, update>>
        /\ helper.at = "close"
        /\ helper.outcome # "keep"
    BY PortsAssumption, <1>2 DEF Port!CloseEnv, Port!Kept
  <2>3. count' \in [requests : Nat, mishaps : Nat] /\ count'.requests = count.requests
    BY <2>2 DEF Port!Typed
  <2>4. Port!Stepping'
    BY <2>1, <2>2 DEF Port!Stepping, Port!Open, Port!Trying, Port!Kept, Port!Closing, Port!ByHandSteps
  <2>5. Port!Open'
    BY <2>1, <2>2 DEF Port!Stepping, Port!Open, Port!Trying, Port!ByHandNow, Port!Kept, Port!Closing,
           Port!ByHandSteps
  <2>6. Port!Opening' \subseteq Port!Numbered /\ Port!Tried' \subseteq Port!Numbered
    BY <2>1, <2>2, NumberedHas DEF Port!Opening, Port!Tried, Port!Trying, Port!Copies
  <2>7. Copied(site') /\ Copied(helper'.read)
    BY <2>1, <2>2 DEF Copied, Port!Copies, Port!None
  <2>8. QED
    BY <2>1, <2>2, <2>3, <2>4, <2>5, <2>6, <2>7, HelperKeeps DEF Port!Typed
<1>3. QED
  BY <1>1, <1>2 DEF Port!CloseEnv, Port!Does

\* site.env is read,
LEMMA CloseReadsKeeps == ASSUME Port!PortInv, Port!CloseReads PROVE Port!PortInv'
<1> USE DEF Port!PortInv
<1>1. /\ helper' \in Port!Helpers /\ helper'.at = "close_site" /\ helper'.id = helper.id
      /\ helper'.port = helper.port /\ helper'.outcome = helper.outcome /\ helper'.read = site
  BY DEF Port!CloseReads, Port!Typed, Port!Helpers, Port!Places, Port!Closing, Port!ByHandSteps
<1>2. /\ UNCHANGED <<confirmer, count, env, published, reached, saver, site, status, update>>
      /\ helper.at = "close_reads"
      /\ helper.outcome = "keep"
  BY PortsAssumption DEF Port!CloseReads, Port!Stepping, Port!Kept
<1>3. count' \in [requests : Nat, mishaps : Nat] /\ count'.requests = count.requests
  BY <1>2 DEF Port!Typed
<1>4. Port!Stepping'
  BY <1>1, <1>2 DEF Port!Stepping, Port!Open, Port!Trying, Port!Kept, Port!Closing, Port!ByHandSteps
<1>5. Port!Open'
  BY <1>1, <1>2 DEF Port!Stepping, Port!Open, Port!Trying, Port!ByHandNow, Port!Kept, Port!Closing, Port!ByHandSteps
<1>6. Port!Opening' \subseteq Port!Numbered /\ Port!Tried' \subseteq Port!Numbered
  BY <1>1, <1>2, NumberedHas DEF Port!Opening, Port!Tried, Port!Trying, Port!Copies
<1>7. Copied(site') /\ Copied(helper'.read)
  BY <1>1, <1>2 DEF Copied, Port!Copies, Port!None
<1>8. QED
  BY <1>1, <1>2, <1>3, <1>4, <1>5, <1>6, <1>7, HelperKeeps DEF Port!Typed

\* and written as it was read, whatever the app wrote since.
LEMMA CloseSiteKeeps == ASSUME Port!PortInv, Port!CloseSite PROVE Port!PortInv'
<1> USE DEF Port!PortInv
<1>0. /\ helper \in Port!Helpers
      /\ helper' = [helper EXCEPT !.at = "close_entry", !.read = Port!None]
      /\ Port!None \in Port!SiteFiles
  BY HelperIdle DEF Port!CloseSite, Port!None, Port!Helpers, Port!Typed, Port!Statuses, Port!Trying
<1>1. /\ helper' \in Port!Helpers /\ helper'.at = "close_entry" /\ helper'.id = helper.id
      /\ helper'.port = helper.port /\ helper'.outcome = helper.outcome /\ helper'.read = Port!None
  BY <1>0 DEF Port!Helpers, Port!Places, Port!Closing, Port!ByHandSteps
<1>2. /\ UNCHANGED <<confirmer, count, env, published, reached, saver, status, update>>
      /\ helper.at = "close_site"
      /\ helper.outcome = "keep"
      /\ site' \in Port!SiteFiles
      /\ site'.id = helper.read.id /\ site'.request = helper.read.request /\ site'.confirmed = helper.read.confirmed
  BY PortsAssumption DEF Port!CloseSite, Port!Helpers, Port!Typed, Port!Statuses, Port!Stepping, Port!Kept,
         Port!SiteFiles
<1>3. count' \in [requests : Nat, mishaps : Nat] /\ count'.requests = count.requests
  BY <1>2 DEF Port!Typed
<1>4. Port!Stepping'
  BY <1>1, <1>2 DEF Port!Stepping, Port!Open, Port!Trying, Port!Kept, Port!Closing, Port!ByHandSteps
<1>5. Port!Open'
  BY <1>1, <1>2 DEF Port!Stepping, Port!Open, Port!Trying, Port!ByHandNow, Port!Kept, Port!Closing, Port!ByHandSteps
<1>6. Port!Opening' \subseteq Port!Numbered /\ Port!Tried' \subseteq Port!Numbered
  BY <1>1, <1>2, NumberedHas DEF Port!Opening, Port!Tried, Port!Trying, Port!Copies
<1>7. Copied(site') /\ Copied(helper'.read)
  BY <1>1, <1>2 DEF Copied, Port!Copies, Port!None
<1>8. QED
  BY <1>1, <1>2, <1>3, <1>4, <1>5, <1>6, <1>7, HelperKeeps DEF Port!Typed

\* The trial's entry goes.
LEMMA CloseEntryKeeps == ASSUME Port!PortInv, Port!CloseEntry PROVE Port!PortInv'
<1> USE DEF Port!PortInv
<1>1. /\ helper' \in Port!Helpers /\ helper'.at = "close_status" /\ helper'.id = helper.id
      /\ helper'.port = helper.port /\ helper'.outcome = helper.outcome /\ helper'.read = helper.read
  BY HelperAt DEF Port!CloseEntry, Port!Does, Port!Typed, Port!Places, Port!Closing, Port!ByHandSteps
<1>2. /\ UNCHANGED <<confirmer, count, published, reached, saver, site, status, update>>
      /\ helper.at = "close_entry"
      /\ env' \in [port : Ports, entry : Port!PortOrNone]
      /\ env'.port = env.port
  BY PortsAssumption DEF Port!CloseEntry, Port!Typed, Port!PortOrNone
<1>3. count' \in [requests : Nat, mishaps : Nat] /\ count'.requests = count.requests
  BY <1>2 DEF Port!Typed
<1>4. Port!Stepping'
  BY <1>1, <1>2 DEF Port!Stepping, Port!Open, Port!Trying, Port!Kept, Port!Closing, Port!ByHandSteps
<1>5. Port!Open'
  BY <1>1, <1>2 DEF Port!Stepping, Port!Open, Port!Trying, Port!ByHandNow, Port!Kept, Port!Closing, Port!ByHandSteps
<1>6. Port!Opening' \subseteq Port!Numbered /\ Port!Tried' \subseteq Port!Numbered
  BY <1>1, <1>2, NumberedHas DEF Port!Opening, Port!Tried, Port!Trying, Port!Copies
<1>7. Copied(site') /\ Copied(helper'.read)
  BY <1>1, <1>2 DEF Copied, Port!Copies, Port!None
<1>8. QED
  BY <1>1, <1>2, <1>3, <1>4, <1>5, <1>6, <1>7, HelperKeeps DEF Port!Typed

\* The trial is over.
LEMMA CloseStatusKeeps == ASSUME Port!PortInv, Port!CloseStatus PROVE Port!PortInv'
<1> USE DEF Port!PortInv
<1>1. /\ helper' \in Port!Helpers /\ helper'.at = "nginx" /\ helper'.id = helper.id /\ helper'.port = helper.port
      /\ helper'.outcome = helper.outcome /\ helper'.read = helper.read
  BY HelperAt DEF Port!CloseStatus, Port!Does, Port!Answers, Port!Typed, Port!Places
<1>2. /\ UNCHANGED <<confirmer, count, env, published, reached, saver, site, update>>
      /\ helper.at = "close_status"
      /\ ~(status'.state = "trying")
      /\ status' \in Port!Statuses
      /\ status'.port = env.port
  BY PortsAssumption DEF Port!CloseStatus, Port!Answers, Port!Helpers, Port!Typed, Port!Statuses, Port!PortOrNone
<1>3. count' \in [requests : Nat, mishaps : Nat] /\ count'.requests = count.requests
  BY <1>2 DEF Port!Typed
<1>4. Port!Stepping'
  BY <1>1, <1>2 DEF Port!Stepping, Port!Open, Port!Trying, Port!Kept, Port!Closing, Port!ByHandSteps
<1>5. Port!Open'
  BY <1>1, <1>2 DEF Port!Stepping, Port!Open, Port!Trying, Port!ByHandNow, Port!Kept, Port!Closing, Port!ByHandSteps
<1>6. Port!Opening' \subseteq Port!Numbered /\ Port!Tried' \subseteq Port!Numbered
  BY <1>1, <1>2, NumberedHas DEF Port!Opening, Port!Tried, Port!Trying, Port!Copies
<1>7. Copied(site') /\ Copied(helper'.read)
  BY <1>1, <1>2 DEF Copied, Port!Copies, Port!None
<1>8. QED
  BY <1>1, <1>2, <1>3, <1>4, <1>5, <1>6, <1>7, HelperKeeps DEF Port!Typed

\* nginx is recreated, or keeps its ports.
LEMMA RecreatesKeeps == ASSUME Port!PortInv, Port!Recreates PROVE Port!PortInv'
<1> USE DEF Port!PortInv
<1>1. CASE helper' = Port!IdleHelper
  <2>0. helper \in Port!Helpers /\ helper' = Port!IdleHelper
    BY <1>1, HelperIdle DEF Port!Recreates, Port!TrialPorts, Port!Typed, Port!Statuses, Port!Trying
  <2>1. /\ helper' \in Port!Helpers /\ helper'.at = "idle" /\ helper'.read = Port!None
    BY <2>0, HelperIdle DEF Port!Places, Port!Closing, Port!ByHandSteps
  <2>2. /\ UNCHANGED <<confirmer, count, env, reached, saver, site, status, update>>
        /\ helper.at = "nginx"
        /\ ~Port!Trying
        /\ published' \subseteq Ports
        /\ env.port \in published' \/ published' = published
        /\ status.port = env.port
    BY PortsAssumption, <1>1 DEF Port!Recreates, Port!TrialPorts, Port!Typed, Port!Stepping, Port!Open,
           Port!PortOrNone
  <2>3. count' \in [requests : Nat, mishaps : Nat] /\ count'.requests = count.requests
    BY <2>2 DEF Port!Typed
  <2>4. Port!Stepping'
    BY <2>1, <2>2 DEF Port!Stepping, Port!Open, Port!Trying, Port!Kept, Port!Closing, Port!ByHandSteps
  <2>5. Port!Open'
    BY <2>1, <2>2 DEF Port!Stepping, Port!Open, Port!Trying, Port!ByHandNow, Port!Kept, Port!Closing,
           Port!ByHandSteps
  <2>6. Port!Opening' \subseteq Port!Numbered /\ Port!Tried' \subseteq Port!Numbered
    BY <2>1, <2>2, NumberedHas DEF Port!Opening, Port!Tried, Port!Trying, Port!Copies
  <2>7. Copied(site') /\ Copied(helper'.read)
    BY <2>1, <2>2 DEF Copied, Port!Copies, Port!None
  <2>8. QED
    BY <2>1, <2>2, <2>3, <2>4, <2>5, <2>6, <2>7, HelperKeeps DEF Port!Typed
<1>2. CASE helper' = [Port!IdleHelper EXCEPT !.at = "next"]
  <2>0. /\ helper \in Port!Helpers
        /\ helper' = [Port!IdleHelper EXCEPT !.at = "next"]
        /\ Port!IdleHelper \in Port!Helpers
        /\ Port!IdleHelper.read = Port!None
    BY <1>2, HelperIdle DEF Port!Recreates, Port!TrialPorts, Port!Typed, Port!Statuses, Port!Trying
  <2>1. /\ helper' \in Port!Helpers /\ helper'.at = "next" /\ helper'.read = Port!None
    BY <2>0, HelperAt DEF Port!Places, Port!Closing, Port!ByHandSteps
  <2>2. /\ UNCHANGED <<confirmer, count, env, reached, saver, site, status, update>>
        /\ helper.at = "nginx"
        /\ ~Port!Trying
        /\ published' \subseteq Ports
        /\ env.port \in published' \/ published' = published
        /\ status.port = env.port
    BY PortsAssumption, <1>2 DEF Port!Recreates, Port!TrialPorts, Port!Typed, Port!Stepping, Port!Open,
           Port!PortOrNone
  <2>3. count' \in [requests : Nat, mishaps : Nat] /\ count'.requests = count.requests
    BY <2>2 DEF Port!Typed
  <2>4. Port!Stepping'
    BY <2>1, <2>2 DEF Port!Stepping, Port!Open, Port!Trying, Port!Kept, Port!Closing, Port!ByHandSteps
  <2>5. Port!Open'
    BY <2>1, <2>2 DEF Port!Stepping, Port!Open, Port!Trying, Port!ByHandNow, Port!Kept, Port!Closing,
           Port!ByHandSteps
  <2>6. Port!Opening' \subseteq Port!Numbered /\ Port!Tried' \subseteq Port!Numbered
    BY <2>1, <2>2, NumberedHas DEF Port!Opening, Port!Tried, Port!Trying, Port!Copies
  <2>7. Copied(site') /\ Copied(helper'.read)
    BY <2>1, <2>2 DEF Copied, Port!Copies, Port!None
  <2>8. QED
    BY <2>1, <2>2, <2>3, <2>4, <2>5, <2>6, <2>7, HelperKeeps DEF Port!Typed
<1>3. QED
  BY <1>1, <1>2 DEF Port!Recreates, Port!TrialPorts

\* The helper is killed.
LEMMA DiesKeeps == ASSUME Port!PortInv, Port!Dies PROVE Port!PortInv'
<1> USE DEF Port!PortInv
<1>0. helper \in Port!Helpers /\ helper' = Port!IdleHelper
  BY HelperIdle DEF Port!Dies, Port!IdleHelper, Port!None, Port!Typed, Port!Statuses, Port!Trying
<1>1. /\ helper' \in Port!Helpers /\ helper'.at = "idle" /\ helper'.read = Port!None
  BY <1>0, HelperIdle DEF Port!Places, Port!Closing, Port!ByHandSteps
<1>2. /\ UNCHANGED <<confirmer, env, published, reached, saver, site, status, update>>
      /\ helper.at \notin Port!ByHandSteps
  BY PortsAssumption DEF Port!Dies, Port!ByHandSteps
<1>3. count' \in [requests : Nat, mishaps : Nat] /\ count'.requests = count.requests
  BY DEF Port!Dies, Port!IdleHelper, Port!None, Port!Typed
<1>4. Port!Stepping'
  BY <1>1, <1>2 DEF Port!Stepping, Port!Open, Port!Trying, Port!Kept, Port!Closing, Port!ByHandSteps
<1>5. Port!Open'
  BY <1>1, <1>2 DEF Port!Stepping, Port!Open, Port!Trying, Port!ByHandNow, Port!Kept, Port!Closing, Port!ByHandSteps
<1>6. Port!Opening' \subseteq Port!Numbered /\ Port!Tried' \subseteq Port!Numbered
  BY <1>1, <1>2, NumberedHas DEF Port!Opening, Port!Tried, Port!Trying, Port!Copies
<1>7. Copied(site') /\ Copied(helper'.read)
  BY <1>1, <1>2 DEF Copied, Port!Copies, Port!None
<1>8. QED
  BY <1>1, <1>2, <1>3, <1>4, <1>5, <1>6, <1>7, HelperKeeps DEF Port!Typed

\* Another port is set by hand:
LEMMA ByHandKeeps == ASSUME Port!PortInv, NEW p \in Ports, Port!ByHand(p) PROVE Port!PortInv'
<1> USE DEF Port!PortInv
<1>0. helper \in Port!Helpers /\ helper' = [helper EXCEPT !.at = "hand_reads"]
  BY HelperIdle DEF Port!ByHand, Port!Typed, Port!Statuses, Port!Trying
<1>1. /\ helper' \in Port!Helpers /\ helper'.at = "hand_reads" /\ helper'.id = helper.id
      /\ helper'.port = helper.port /\ helper'.outcome = helper.outcome /\ helper'.read = helper.read
  BY <1>0, HelperAt DEF Port!Places, Port!Closing, Port!ByHandSteps
<1>2. /\ UNCHANGED <<confirmer, published, reached, saver, site, status, update>>
      /\ helper.at = "idle"
      /\ ~Port!Trying
      /\ env' \in [port : Ports, entry : Port!PortOrNone]
  BY PortsAssumption DEF Port!ByHand, Port!Typed, Port!Trying
<1>3. count' \in [requests : Nat, mishaps : Nat] /\ count'.requests = count.requests
  BY DEF Port!ByHand, Port!Typed
<1>4. Port!Stepping'
  BY <1>1, <1>2 DEF Port!Stepping, Port!Open, Port!Trying, Port!Kept, Port!Closing, Port!ByHandSteps
<1>5. Port!Open'
  BY <1>1, <1>2 DEF Port!Stepping, Port!Open, Port!Trying, Port!ByHandNow, Port!Kept, Port!Closing, Port!ByHandSteps
<1>6. Port!Opening' \subseteq Port!Numbered /\ Port!Tried' \subseteq Port!Numbered
  BY <1>1, <1>2, NumberedHas DEF Port!Opening, Port!Tried, Port!Trying, Port!Copies
<1>7. Copied(site') /\ Copied(helper'.read)
  BY <1>1, <1>2 DEF Copied, Port!Copies, Port!None
<1>8. QED
  BY <1>1, <1>2, <1>3, <1>4, <1>5, <1>6, <1>7, HelperKeeps DEF Port!Typed

\* site.env is read,
LEMMA HandReadsKeeps == ASSUME Port!PortInv, Port!HandReads PROVE Port!PortInv'
<1> USE DEF Port!PortInv
<1>1. /\ helper' \in Port!Helpers /\ helper'.at = "hand_site" /\ helper'.id = helper.id
      /\ helper'.port = helper.port /\ helper'.outcome = helper.outcome /\ helper'.read = site
  BY DEF Port!HandReads, Port!Typed, Port!Helpers, Port!Places, Port!Closing, Port!ByHandSteps
<1>2. /\ UNCHANGED <<confirmer, count, env, published, reached, saver, site, status, update>>
      /\ helper.at = "hand_reads"
      /\ ~Port!Trying
  BY PortsAssumption DEF Port!HandReads, Port!Stepping, Port!ByHandSteps
<1>3. count' \in [requests : Nat, mishaps : Nat] /\ count'.requests = count.requests
  BY <1>2 DEF Port!Typed
<1>4. Port!Stepping'
  BY <1>1, <1>2 DEF Port!Stepping, Port!Open, Port!Trying, Port!Kept, Port!Closing, Port!ByHandSteps
<1>5. Port!Open'
  BY <1>1, <1>2 DEF Port!Stepping, Port!Open, Port!Trying, Port!ByHandNow, Port!Kept, Port!Closing, Port!ByHandSteps
<1>6. Port!Opening' \subseteq Port!Numbered /\ Port!Tried' \subseteq Port!Numbered
  BY <1>1, <1>2, NumberedHas DEF Port!Opening, Port!Tried, Port!Trying, Port!Copies
<1>7. Copied(site') /\ Copied(helper'.read)
  BY <1>1, <1>2 DEF Copied, Port!Copies, Port!None
<1>8. QED
  BY <1>1, <1>2, <1>3, <1>4, <1>5, <1>6, <1>7, HelperKeeps DEF Port!Typed

\* and written without a request,
LEMMA HandSiteKeeps == ASSUME Port!PortInv, Port!HandSite PROVE Port!PortInv'
<1> USE DEF Port!PortInv
<1>0. /\ helper \in Port!Helpers
      /\ helper' = [helper EXCEPT !.at = "hand_status", !.read = Port!None]
      /\ Port!None \in Port!SiteFiles
  BY HelperIdle DEF Port!HandSite, Port!None, Port!Typed, Port!Statuses, Port!Trying
<1>1. /\ helper' \in Port!Helpers /\ helper'.at = "hand_status" /\ helper'.id = helper.id
      /\ helper'.port = helper.port /\ helper'.outcome = helper.outcome /\ helper'.read = Port!None
  BY <1>0 DEF Port!Helpers, Port!Places, Port!Closing, Port!ByHandSteps
<1>2. /\ UNCHANGED <<confirmer, count, env, published, reached, saver, status, update>>
      /\ helper.at = "hand_site"
      /\ ~Port!Trying
      /\ site' \in Port!SiteFiles
      /\ site'.id = 0 /\ site'.request = 0 /\ site'.confirmed = 0
  BY PortsAssumption DEF Port!HandSite, Port!None, Port!Typed, Port!Stepping, Port!ByHandSteps, Port!SiteFiles,
         Port!PortOrNone, Port!Numbers
<1>3. count' \in [requests : Nat, mishaps : Nat] /\ count'.requests = count.requests
  BY <1>2 DEF Port!Typed
<1>4. Port!Stepping'
  BY <1>1, <1>2 DEF Port!Stepping, Port!Open, Port!Trying, Port!Kept, Port!Closing, Port!ByHandSteps
<1>5. Port!Open'
  BY <1>1, <1>2 DEF Port!Stepping, Port!Open, Port!Trying, Port!ByHandNow, Port!Kept, Port!Closing, Port!ByHandSteps
<1>6. Port!Opening' \subseteq Port!Numbered /\ Port!Tried' \subseteq Port!Numbered
  BY <1>1, <1>2, NumberedHas DEF Port!Opening, Port!Tried, Port!Trying, Port!Copies
<1>7. Copied(site') /\ Copied(helper'.read)
  BY <1>1, <1>2 DEF Copied, Port!Copies, Port!None, Port!None
<1>8. QED
  BY <1>1, <1>2, <1>3, <1>4, <1>5, <1>6, <1>7, HelperKeeps DEF Port!Typed

\* and so does the status say.
LEMMA HandStatusKeeps == ASSUME Port!PortInv, Port!HandStatus PROVE Port!PortInv'
<1> USE DEF Port!PortInv
<1>1. /\ helper' \in Port!Helpers /\ helper'.at = "hand_start" /\ helper'.id = helper.id
      /\ helper'.port = helper.port /\ helper'.outcome = helper.outcome /\ helper'.read = helper.read
  BY HelperAt DEF Port!HandStatus, Port!Does, Port!Answers, Port!Typed, Port!Places, Port!Closing, Port!ByHandSteps
<1>2. /\ UNCHANGED <<confirmer, count, env, published, reached, saver, site, update>>
      /\ helper.at = "hand_status"
      /\ ~Port!Trying
      /\ ~(status'.state = "trying")
      /\ status' \in Port!Statuses
      /\ status'.port = env.port
  BY PortsAssumption DEF Port!HandStatus, Port!Answers, Port!Typed, Port!Statuses, Port!Stepping, Port!ByHandSteps,
         Port!PortOrNone, Port!Numbers
<1>3. count' \in [requests : Nat, mishaps : Nat] /\ count'.requests = count.requests
  BY <1>2 DEF Port!Typed
<1>4. Port!Stepping'
  BY <1>1, <1>2 DEF Port!Stepping, Port!Open, Port!Trying, Port!Kept, Port!Closing, Port!ByHandSteps
<1>5. Port!Open'
  BY <1>1, <1>2 DEF Port!Stepping, Port!Open, Port!Trying, Port!ByHandNow, Port!Kept, Port!Closing, Port!ByHandSteps
<1>6. Port!Opening' \subseteq Port!Numbered /\ Port!Tried' \subseteq Port!Numbered
  BY <1>1, <1>2, NumberedHas DEF Port!Opening, Port!Tried, Port!Trying, Port!Copies
<1>7. Copied(site') /\ Copied(helper'.read)
  BY <1>1, <1>2 DEF Copied, Port!Copies, Port!None
<1>8. QED
  BY <1>1, <1>2, <1>3, <1>4, <1>5, <1>6, <1>7, HelperKeeps DEF Port!Typed

\* nginx starts on it, or the previous port is put back.
LEMMA HandStartsKeeps == ASSUME Port!PortInv, Port!HandStarts PROVE Port!PortInv'
<1> USE DEF Port!PortInv
<1>1. CASE published' = Port!TrialPorts /\ UNCHANGED env /\ helper' = Port!IdleHelper
  <2>0. helper \in Port!Helpers /\ helper' = Port!IdleHelper
    BY <1>1, HelperIdle DEF Port!Typed
  <2>1. /\ helper' \in Port!Helpers /\ helper'.at = "idle" /\ helper'.read = Port!None
    BY <2>0, HelperIdle DEF Port!Places, Port!Closing, Port!ByHandSteps
  <2>2. /\ UNCHANGED <<confirmer, count, env, reached, saver, site, status, update>>
        /\ helper.at = "hand_start"
        /\ ~Port!Trying
        /\ published' \subseteq Ports
        /\ env.port \in published'
        /\ status.port = env.port
    BY PortsAssumption, <1>1 DEF Port!HandStarts, Port!TrialPorts, Port!Typed, Port!Stepping, Port!Open,
           Port!ByHandSteps, Port!PortOrNone
  <2>3. count' \in [requests : Nat, mishaps : Nat] /\ count'.requests = count.requests
    BY <2>2 DEF Port!Typed
  <2>4. Port!Stepping'
    BY <2>1, <2>2 DEF Port!Stepping, Port!Open, Port!Trying, Port!Kept, Port!Closing, Port!ByHandSteps
  <2>5. Port!Open'
    BY <2>1, <2>2 DEF Port!Stepping, Port!Open, Port!Trying, Port!ByHandNow, Port!Kept, Port!Closing,
           Port!ByHandSteps
  <2>6. Port!Opening' \subseteq Port!Numbered /\ Port!Tried' \subseteq Port!Numbered
    BY <2>1, <2>2, NumberedHas DEF Port!Opening, Port!Tried, Port!Trying, Port!Copies
  <2>7. Copied(site') /\ Copied(helper'.read)
    BY <2>1, <2>2 DEF Copied, Port!Copies, Port!None
  <2>8. QED
    BY <2>1, <2>2, <2>3, <2>4, <2>5, <2>6, <2>7, HelperKeeps DEF Port!Typed
<1>2. CASE UNCHANGED published /\ Port!Does("hand_reads") /\ \E p \in published : env' = [env EXCEPT !.port = p]
  <2>1. /\ helper' \in Port!Helpers /\ helper'.at = "hand_reads" /\ helper'.id = helper.id
        /\ helper'.port = helper.port /\ helper'.outcome = helper.outcome /\ helper'.read = helper.read
    BY HelperAt, <1>2 DEF Port!HandStarts, Port!Does, Port!Typed, Port!Places, Port!Closing, Port!ByHandSteps
  <2>2. /\ UNCHANGED <<confirmer, count, published, reached, saver, site, status, update>>
        /\ helper.at = "hand_start"
        /\ ~Port!Trying
        /\ env' \in [port : Ports, entry : Port!PortOrNone]
    BY PortsAssumption, <1>2 DEF Port!HandStarts, Port!Typed, Port!Stepping, Port!ByHandSteps
  <2>3. count' \in [requests : Nat, mishaps : Nat] /\ count'.requests = count.requests
    BY <2>2 DEF Port!Typed
  <2>4. Port!Stepping'
    BY <2>1, <2>2 DEF Port!Stepping, Port!Open, Port!Trying, Port!Kept, Port!Closing, Port!ByHandSteps
  <2>5. Port!Open'
    BY <2>1, <2>2 DEF Port!Stepping, Port!Open, Port!Trying, Port!ByHandNow, Port!Kept, Port!Closing,
           Port!ByHandSteps
  <2>6. Port!Opening' \subseteq Port!Numbered /\ Port!Tried' \subseteq Port!Numbered
    BY <2>1, <2>2, NumberedHas DEF Port!Opening, Port!Tried, Port!Trying, Port!Copies
  <2>7. Copied(site') /\ Copied(helper'.read)
    BY <2>1, <2>2 DEF Copied, Port!Copies, Port!None
  <2>8. QED
    BY <2>1, <2>2, <2>3, <2>4, <2>5, <2>6, <2>7, HelperKeeps DEF Port!Typed
<1>3. QED
  BY <1>1, <1>2 DEF Port!HandStarts, Port!Does, Port!TrialPorts, Port!IdleHelper, Port!None

-----------------------------------------------------------------------------

\* Installed on a port.
LEMMA PortInit == ASSUME Port!Init PROVE Port!PortInv
<1> USE PortsAssumption
<1>1. PICK p \in Ports :
        /\ env = [port |-> p, entry |-> 0]
        /\ site = [Port!None EXCEPT !.inUse = p]
        /\ status = [id |-> 0, state |-> "applied", port |-> p, trying |-> 0, late |-> FALSE]
        /\ published = {p}
  BY DEF Port!Init
<1>2. /\ saver = [at |-> "idle", before |-> Port!None] /\ confirmer = [at |-> "idle", id |-> 0]
      /\ update = Port!NoUpdate /\ helper = Port!IdleHelper
      /\ count = [requests |-> 0, mishaps |-> 0] /\ reached = {}
  BY DEF Port!Init
<1>3. 0 \in Port!Numbers /\ p \in Port!PortOrNone /\ 0 \in Port!PortOrNone
  BY <1>2 DEF Port!Numbers, Port!PortOrNone
<1>4. Port!None \in Port!SiteFiles /\ site \in Port!SiteFiles
  BY <1>1, <1>3 DEF Port!None, Port!SiteFiles
<1>5. status \in Port!Statuses
  BY <1>1, <1>3 DEF Port!Statuses
<1>6. helper \in Port!Helpers /\ helper.at = "idle" /\ helper.read = Port!None
  BY <1>2, <1>3, <1>4 DEF Port!IdleHelper, Port!Helpers, Port!Places
<1>7. Port!Typed
  BY <1>1, <1>2, <1>3, <1>4, <1>5, <1>6 DEF Port!Typed, Port!NoUpdate
<1>8. Port!Stepping
  BY <1>6 DEF Port!Stepping, Port!Closing, Port!ByHandSteps
<1>9. Port!Open
  BY <1>1, <1>6 DEF Port!Open, Port!Trying, Port!ByHandNow
<1>10. \A s \in Port!Copies : s.id = 0 /\ s.request = 0 /\ s.confirmed = 0
  BY <1>1, <1>2, <1>6 DEF Port!Copies, Port!NoUpdate, Port!None
<1>11. Port!OnePort
  <2>1. Port!Opening = {} /\ Port!Tried = {}
    BY <1>1, <1>6 DEF Port!Opening, Port!Tried, Port!Trying
  <2>2. Port!Numbered = {<<0, 0>>}
    BY <1>2, <1>10, <2>1 DEF Port!Numbered
  <2>3. QED
    BY <2>2 DEF Port!OnePort
<1>12. Port!ConfirmedByOne
  BY <1>2, <1>10 DEF Port!ConfirmedByOne
<1>13. QED
  BY <1>7, <1>8, <1>9, <1>11, <1>12 DEF Port!PortInv

\* Whatever the app, the helper or the clock does next.
LEMMA PortNext == ASSUME Port!PortInv, Port!Next PROVE Port!PortInv'
<1>1. CASE Port!App
  BY <1>1, RequestedKeeps, SaveStandsKeeps, UndoesRequestKeeps, UndoneKeeps, ConfirmReadsKeeps, ConfirmWritesKeeps,
     SiteReadsKeeps, SiteWritesKeeps, RequestsKeeps, ConfirmsKeeps DEF Port!App
<1>2. CASE Port!Helper
  BY <1>2, RunsKeeps, NextOfTrialKeeps, NextOfRequestKeeps, OpensTrialKeeps, RecreatesForTrialKeeps, TrialRunsKeeps,
     WaitsKeeps, CloseEnvKeeps, CloseReadsKeeps, CloseSiteKeeps, CloseEntryKeeps, CloseStatusKeeps, RecreatesKeeps,
     DiesKeeps, ByHandKeeps, HandReadsKeeps, HandSiteKeeps, HandStatusKeeps, HandStartsKeeps DEF Port!Helper
<1>3. QED
  BY <1>1, <1>2, LateKeeps DEF Port!Next

\* What the invariant says of the ports that are open.
LEMMA PortOpen == ASSUME Port!PortInv PROVE Port!TypeOK /\ Port!Reachable /\ Port!OfferedIsOpen
<1> USE DEF Port!PortInv
<1>1. Port!TypeOK
  BY DEF Port!Typed, Port!TypeOK, Port!Statuses, Port!SiteFiles, Port!Numbers, Port!PortOrNone
<1>2. Port!Reachable
  BY DEF Port!Reachable, Port!ByHandNow, Port!Open, Port!Trying, Port!ServingPort
<1>3. Port!OfferedIsOpen
  BY DEF Port!OfferedIsOpen, Port!PageState, Port!Open, Port!Trying
<1>4. QED
  BY <1>1, <1>2, <1>3

\* .env gets another port only from a trial that is kept, or by hand.
LEMMA PortKept == ASSUME Port!PortInv, Port!Next PROVE Port!KeptIsConfirmed
<1> USE DEF Port!PortInv
<1>1. CASE Port!CloseEnv
  <2>1. CASE Port!Kept
    <3>1. env'.port = status.trying
      BY <1>1, <2>1 DEF Port!CloseEnv, Port!Typed
    <3>2. helper.id = status.id /\ <<status.id, status.trying>> \in reached
      BY <1>1, <2>1 DEF Port!CloseEnv, Port!Stepping, Port!Closing
    <3>3. QED
      BY <3>1, <3>2 DEF Port!KeptIsConfirmed
  <2>2. CASE ~Port!Kept
    BY <1>1, <2>2 DEF Port!CloseEnv, Port!KeptIsConfirmed
  <2>3. QED
    BY <2>1, <2>2
<1>2. CASE Port!OpensTrial
  BY <1>2 DEF Port!OpensTrial, Port!Typed, Port!KeptIsConfirmed
<1>3. CASE Port!CloseEntry
  BY <1>3 DEF Port!CloseEntry, Port!Typed, Port!KeptIsConfirmed
<1>4. CASE Port!HandStarts
  BY <1>4 DEF Port!HandStarts, Port!ByHandNow, Port!KeptIsConfirmed
<1>5. CASE \E p \in Ports : Port!ByHand(p)
  BY <1>5 DEF Port!ByHand, Port!KeptIsConfirmed
<1>6. CASE UNCHANGED env
  BY <1>6 DEF Port!KeptIsConfirmed
<1>7. Port!App \/ Port!Late => UNCHANGED env
  BY DEF Port!App, Port!Late, Port!Requested, Port!SaveStands, Port!UndoesRequest, Port!Undone, Port!ConfirmReads,
         Port!ConfirmWrites, Port!SiteReads, Port!SiteWrites, Port!Requests, Port!Confirms
<1>8. Port!Helper => \/ Port!CloseEnv \/ Port!OpensTrial \/ Port!CloseEntry \/ Port!HandStarts
                     \/ \E p \in Ports : Port!ByHand(p)
                     \/ UNCHANGED env
  BY DEF Port!Helper, Port!Runs, Port!NextOfTrial, Port!NextOfRequest, Port!RecreatesForTrial, Port!TrialRuns,
         Port!Waits, Port!CloseReads, Port!CloseSite, Port!CloseStatus, Port!Recreates, Port!Dies, Port!HandReads,
         Port!HandSite, Port!HandStatus
<1>9. QED
  BY <1>1, <1>2, <1>3, <1>4, <1>5, <1>6, <1>7, <1>8 DEF Port!Next

\* A step of the other component, or of neither.
LEMMA PortFrame == ASSUME Port!PortInv, UNCHANGED vars PROVE Port!PortInv'
BY DEF vars, portVars, Port!PortInv, Port!Typed, Port!Stepping, Port!Open, Port!OnePort, Port!ConfirmedByOne,
       Port!Numbers, Port!SiteFiles, Port!Statuses, Port!Helpers, Port!Trying, Port!Kept, Port!ByHandNow,
       Port!Copies, Port!Opening, Port!Tried, Port!Numbered, Port!CameThrough

\* nginx listens on the port .env publishes and on the one the app's addresses name, a port that the page
\* offers to confirm is open, and a port is kept only when a browser came through it in that very trial:
\* for any ports, any requests, and wherever the helper dies.
THEOREM PortIsSafe == Spec => PortSafe
<1> DEFINE Inv == part = "port" => Port!PortInv
<1>1. Init => Inv
  BY PortInit DEF Init
<1>2. Inv /\ [Next]_vars => Inv'
  <2> SUFFICES ASSUME Inv, [Next]_vars, part' = "port" PROVE Port!PortInv'
    OBVIOUS
  <2>1. CASE Next
    <3>1. part = "port" /\ Port!Next
      BY <2>1 DEF Next
    <3>2. QED
      BY <3>1, PortNext
  <2>2. CASE UNCHANGED vars
    <3>1. part = "port"
      BY <2>2 DEF vars
    <3>2. QED
      BY <2>2, <3>1, PortFrame
  <2>3. QED
    BY <2>1, <2>2
<1>3. Inv => (part = "port" => Port!TypeOK /\ Port!Reachable /\ Port!OfferedIsOpen)
  BY PortOpen
<1>4. Inv /\ [Next]_vars => [part = "port" => Port!KeptIsConfirmed]_vars
  BY PortKept DEF Next
<1>5. QED
  BY <1>1, <1>2, <1>3, <1>4, PTL DEF Spec, PortSafe

-----------------------------------------------------------------------------

(***************************************************************************)
(* SiteAccess: certificates and host names.                                *)
(***************************************************************************)

Counts == [changes : Nat, faults : Nat, weeks : Nat, torn : BOOLEAN]

\* What there is before a change and after one.
LEMMA ChangeEnded ==
  /\ Access!Ended("idle") \in Access!Changes /\ Access!MadeOfWhole(Access!Ended("idle"))
  /\ Access!Ended("idle").at = "idle" /\ Access!Ended("idle").kind = "none"
<1> DEFINE e == Access!Ended("idle")
<1>1. Access!Files("none") \in Access!WholeFolders /\ Access!Files("none") \in Access!Folders
  BY DEF Access!Files, Access!Cert, Access!NoOld, Access!WholeFolders, Access!Folders, Access!Hosts
<1>2. /\ e.at = "idle" /\ e.kind = "none" /\ e.saved = Access!Files("none") /\ e.new = Access!Files("none")
  BY DEF Access!Ended
<1>3. e \in Access!AllChanges
  BY <1>1 DEF Access!Ended, Access!AllChanges, Access!Stages, Access!Hosts
<1> HIDE DEF e
<1>4. e \in Access!Changes
  BY <1>2, <1>3 DEF Access!Changes
<1>5. Access!MadeOfWhole(e)
  BY <1>1, <1>2 DEF Access!MadeOfWhole
<1>6. QED
  BY <1>2, <1>4, <1>5 DEF e

\* A change at another stage.
LEMMA ChangeMoves ==
  ASSUME NEW c \in Access!Changes, c.kind # "none",
         NEW there \in {"site", "setting", "verdict", "undo_setting", "undo_files", "refused"},
         there \in {"site", "setting", "undo_setting"} => c.kind = "rename",
         there \in {"verdict", "undo_files"} => c.kind # "upkeep"
  PROVE  LET d == [c EXCEPT !.at = there]
         IN  /\ d \in Access!Changes /\ d.at = there /\ (Access!MadeOfWhole(c) => Access!MadeOfWhole(d))
             /\ d.kind = c.kind /\ d.host = c.host /\ d.before = c.before /\ d.siteBefore = c.siteBefore
             /\ d.was = c.was /\ d.serial = c.serial /\ d.saved = c.saved /\ d.new = c.new /\ d.alone = c.alone
<1> DEFINE d == [c EXCEPT !.at = there]
<1>1. /\ d.at = there
      /\ d.kind = c.kind /\ d.host = c.host /\ d.before = c.before /\ d.siteBefore = c.siteBefore
      /\ d.was = c.was /\ d.serial = c.serial /\ d.saved = c.saved /\ d.new = c.new /\ d.alone = c.alone
  BY DEF Access!Changes, Access!AllChanges
<1>2. d \in Access!AllChanges
  BY DEF Access!Changes, Access!AllChanges, Access!Stages
<1>3. d \in Access!Changes /\ (Access!MadeOfWhole(c) => Access!MadeOfWhole(d))
  <2> HIDE DEF d
  <2>1. QED
    BY <1>1, <1>2 DEF Access!Changes, Access!MadeOfWhole
<1>4. QED
  BY <1>1, <1>3

\* A rename whose host name is saved remembers what that replaced.
LEMMA ChangeSaves ==
  ASSUME NEW c \in Access!Changes, c.kind = "rename", NEW n \in Access!Hosts
  PROVE  LET d == [c EXCEPT !.at = "verdict", !.was = n]
         IN  /\ d \in Access!Changes /\ d.at = "verdict" /\ (Access!MadeOfWhole(c) => Access!MadeOfWhole(d))
             /\ d.kind = c.kind /\ d.host = c.host /\ d.before = c.before /\ d.siteBefore = c.siteBefore
             /\ d.was = n /\ d.serial = c.serial /\ d.saved = c.saved /\ d.new = c.new /\ d.alone = c.alone
<1> DEFINE d == [c EXCEPT !.at = "verdict", !.was = n]
<1>1. /\ d.at = "verdict"
      /\ d.kind = c.kind /\ d.host = c.host /\ d.before = c.before /\ d.siteBefore = c.siteBefore
      /\ d.was = n /\ d.serial = c.serial /\ d.saved = c.saved /\ d.new = c.new /\ d.alone = c.alone
  BY DEF Access!Changes, Access!AllChanges
<1>2. d \in Access!AllChanges
  BY DEF Access!Changes, Access!AllChanges, Access!Stages
<1>3. d \in Access!Changes /\ (Access!MadeOfWhole(c) => Access!MadeOfWhole(d))
  <2> HIDE DEF d
  <2>1. QED
    BY <1>1, <1>2 DEF Access!Changes, Access!MadeOfWhole
<1>4. QED
  BY <1>1, <1>3

\* A change that has taken the lock.
LEMMA ChangeLocks ==
  ASSUME NEW c \in Access!Changes, c.kind # "none", site \in Names, files \in Access!Folders,
         NEW w \in Access!Folders, w.cert = files.cert \/ w.cert.serial = c.serial
  PROVE  LET d == [c EXCEPT !.at = "cert", !.saved = files, !.new = w, !.siteBefore = site]
         IN  /\ d \in Access!Changes /\ d.at = "cert"
             /\ d.kind = c.kind /\ d.host = c.host /\ d.before = c.before /\ d.siteBefore = site
             /\ d.serial = c.serial /\ d.saved = files /\ d.new = w /\ d.alone = c.alone
<1> DEFINE d == [c EXCEPT !.at = "cert", !.saved = files, !.new = w, !.siteBefore = site]
<1>1. /\ d.at = "cert"
      /\ d.kind = c.kind /\ d.host = c.host /\ d.before = c.before /\ d.siteBefore = site
      /\ d.serial = c.serial /\ d.saved = files /\ d.new = w /\ d.alone = c.alone
  BY DEF Access!Changes, Access!AllChanges
<1>2. d \in Access!AllChanges
  BY DEF Access!Changes, Access!AllChanges, Access!Stages, Access!Hosts
<1>3. d \in Access!Changes
  <2> HIDE DEF d
  <2>1. QED
    BY <1>1, <1>2 DEF Access!Changes
<1>4. QED
  BY <1>1, <1>3

\* What a change makes of the files has its own number when it is another certificate.
LEMMA WantedNumbered ==
  ASSUME NEW a \in Access!Actors, Access!Typed, doing[a].kind # "none", NEW w \in Access!Wanted(a)
  PROVE  w \in Access!Folders /\ (w.cert = files.cert \/ w.cert.serial = doing[a].serial)
<1> DEFINE d == doing[a]
<1>1. /\ d \in Access!Changes /\ d.serial \in Nat /\ d.host \in Names /\ d.before \in Names /\ d.names \in SUBSET Names
      /\ d.kind \in {"rename", "upload", "generate", "upkeep"}
  BY DEF Access!Typed, Access!Changes, Access!AllChanges
<1>2. /\ files \in Access!Folders
      /\ files.cert \in [serial : Nat, name : Access!Hosts \cup {"org"}, names : SUBSET Access!Hosts]
      /\ files.old \in [Names -> Nat]
  BY DEF Access!Typed, Access!Folders
<1>3. count.weeks \in Nat
  BY DEF Access!Typed
<1>4. CASE d.kind = "rename" /\ files.marker
  <2>1. w = Access!Renamed(files, d.host, d.serial)
    BY <1>4 DEF Access!Wanted, Access!IsOurs
  <2> DEFINE old == [m \in Names |-> IF m = d.host THEN 0 ELSE IF files.old[m] > count.weeks THEN files.old[m]
                                     ELSE IF m \in files.cert.names THEN count.weeks + 1 ELSE 0]
             covered == {d.host} \cup {m \in Names : old[m] # 0}
  <2>2. old \in [Names -> Nat] /\ covered \in SUBSET Names
    BY <1>1, <1>2, <1>3
  <2>3. w = [cert |-> [serial |-> d.serial, name |-> d.host, names |-> covered], key |-> d.serial,
             marker |-> TRUE, old |-> old]
    BY <2>1 DEF Access!Renamed, Access!Cert
  <2> HIDE DEF old, covered, d
  <2>4. w \in Access!Folders /\ w.cert.serial = d.serial
    BY <1>1, <2>2, <2>3 DEF Access!Folders, Access!Hosts
  <2>5. QED
    BY <2>4 DEF d
<1>5. CASE (d.kind = "rename" /\ ~files.marker) \/ (d.kind = "upkeep" /\ ~(files.marker /\ files.old # Access!NoOld))
  <2>1. w = files
    BY <1>5 DEF Access!Wanted, Access!IsOurs
  <2>2. QED
    BY <1>2, <2>1
<1>6. CASE d.kind = "upload"
  <2>1. w = [cert |-> [serial |-> d.serial, name |-> "org", names |-> d.names], key |-> d.serial, marker |-> FALSE,
             old |-> Access!NoOld]
    BY <1>6 DEF Access!Wanted, Access!Installed, Access!Cert
  <2>2. QED
    BY <1>1, <2>1 DEF Access!Folders, Access!NoOld, Access!Hosts
<1>7. CASE d.kind = "generate"
  <2>1. w = [cert |-> [serial |-> d.serial, name |-> d.before, names |-> {d.before}], key |-> d.serial, marker |-> TRUE,
             old |-> Access!NoOld]
    BY <1>7 DEF Access!Wanted, Access!Generated, Access!Cert
  <2>2. QED
    BY <1>1, <2>1 DEF Access!Folders, Access!NoOld, Access!Hosts
<1>8. CASE d.kind = "upkeep" /\ files.marker /\ files.old # Access!NoOld
  <2>1. w = Access!Dropped(files, d.serial)
    BY <1>8 DEF Access!Wanted, Access!IsOurs
  <2> DEFINE old == [m \in Names |-> IF files.old[m] > count.weeks THEN files.old[m] ELSE 0]
             gone == Access!Expired(files)
  <2>2. old \in [Names -> Nat]
    BY <1>2, <1>3
  <2>3. CASE gone = {}
    <3>1. w = [files EXCEPT !.old = old]
      BY <2>1, <2>3 DEF Access!Dropped
    <3> HIDE DEF old
    <3>2. QED
      BY <1>2, <2>2, <3>1 DEF Access!Folders
  <2>4. CASE gone # {}
    <3>1. w = [cert |-> [serial |-> d.serial, name |-> files.cert.name, names |-> files.cert.names \ gone],
               key |-> d.serial, marker |-> TRUE, old |-> old]
      BY <2>1, <2>4 DEF Access!Dropped, Access!Cert
    <3> HIDE DEF old, gone, d
    <3>2. w \in Access!Folders /\ w.cert.serial = d.serial
      BY <1>1, <1>2, <2>2, <3>1 DEF Access!Folders
    <3>3. QED
      BY <3>2 DEF d
  <2>5. QED
    BY <2>3, <2>4
<1>9. QED
  BY <1>1, <1>4, <1>5, <1>6, <1>7, <1>8

\* What a change makes of whole files is whole, and is the organisation's only when a person says so.
LEMMA WantedWhole ==
  ASSUME NEW a \in Access!Actors, Access!Typed, doing[a].kind # "none", files \in Access!WholeFolders,
         NEW w \in Access!Wanted(a)
  PROVE  /\ w \in Access!WholeFolders
         /\ doing[a].kind = "upkeep" /\ w.cert = files.cert => w = files
         /\ doing[a].kind \in {"rename", "upkeep"} /\ "org" \in {files.cert.name, w.cert.name} => w.cert = files.cert
<1> DEFINE d == doing[a]
<1>1. /\ d \in Access!Changes /\ d.serial \in Nat /\ d.host \in Names /\ d.before \in Names /\ d.names \in SUBSET Names
      /\ d.kind \in {"rename", "upload", "generate", "upkeep"}
  BY DEF Access!Typed, Access!Changes, Access!AllChanges
<1>2. /\ files.cert \in [serial : Nat, name : Access!Hosts \cup {"org"}, names : SUBSET Access!Hosts]
      /\ files.old \in [Names -> Nat] /\ files.marker \in BOOLEAN /\ files.key \in Nat
      /\ files.key = files.cert.serial /\ (files.marker <=> files.cert.name # "org")
      /\ \A m \in Names : files.old[m] # 0 => m \in files.cert.names \ {files.cert.name}
  BY DEF Access!WholeFolders, Access!Folders
<1>3. count.weeks \in Nat
  BY DEF Access!Typed
<1>4. CASE d.kind = "rename" /\ files.marker
  <2>1. w = Access!Renamed(files, d.host, d.serial)
    BY <1>4 DEF Access!Wanted, Access!IsOurs
  <2> DEFINE old == [m \in Names |-> IF m = d.host THEN 0 ELSE IF files.old[m] > count.weeks THEN files.old[m]
                                     ELSE IF m \in files.cert.names THEN count.weeks + 1 ELSE 0]
             covered == {d.host} \cup {m \in Names : old[m] # 0}
  <2>2. old \in [Names -> Nat] /\ covered \in SUBSET Names /\ old[d.host] = 0
    BY <1>1, <1>2, <1>3
  <2>3. \A m \in Names : old[m] # 0 => m \in covered \ {d.host}
    BY <2>2
  <2>4. w = [cert |-> [serial |-> d.serial, name |-> d.host, names |-> covered], key |-> d.serial,
             marker |-> TRUE, old |-> old]
    BY <2>1 DEF Access!Renamed, Access!Cert
  <2> HIDE DEF old, covered, d
  <2>5. d.host # "org" /\ d.host \in Access!Hosts /\ covered \in SUBSET Access!Hosts
    BY <1>1, <2>2, NamesAssumption DEF Access!Hosts
  <2>6. w \in Access!WholeFolders
    BY <1>1, <2>2, <2>3, <2>4, <2>5 DEF Access!WholeFolders, Access!Folders
  <2>7. w.cert.serial = d.serial /\ w.cert.name = d.host
    BY <2>4
  <2>8. QED
    BY <1>2, <1>4, <2>5, <2>6, <2>7 DEF d
<1>5. CASE d.kind = "rename" /\ ~files.marker
  <2>1. w = files
    BY <1>5 DEF Access!Wanted, Access!IsOurs
  <2>2. QED
    BY <2>1
<1>6. CASE d.kind = "upload"
  <2>1. w = [cert |-> [serial |-> d.serial, name |-> "org", names |-> d.names], key |-> d.serial, marker |-> FALSE,
             old |-> Access!NoOld]
    BY <1>6 DEF Access!Wanted, Access!Installed, Access!Cert
  <2>2. w \in Access!WholeFolders /\ w.cert.serial = d.serial
    BY <1>1, <2>1 DEF Access!WholeFolders, Access!Folders, Access!NoOld, Access!Hosts
  <2>3. QED
    BY <1>6, <2>2
<1>7. CASE d.kind = "generate"
  <2>1. w = [cert |-> [serial |-> d.serial, name |-> d.before, names |-> {d.before}], key |-> d.serial, marker |-> TRUE,
             old |-> Access!NoOld]
    BY <1>7 DEF Access!Wanted, Access!Generated, Access!Cert
  <2>2. w \in Access!WholeFolders /\ w.cert.serial = d.serial
    BY <1>1, <2>1, NamesAssumption DEF Access!WholeFolders, Access!Folders, Access!NoOld, Access!Hosts
  <2>3. QED
    BY <1>7, <2>2
<1>8. CASE d.kind = "upkeep" /\ ~(files.marker /\ files.old # Access!NoOld)
  <2>1. w = files
    BY <1>8 DEF Access!Wanted, Access!IsOurs
  <2>2. QED
    BY <2>1
<1>9. CASE d.kind = "upkeep" /\ files.marker /\ files.old # Access!NoOld
  <2>1. w = Access!Dropped(files, d.serial)
    BY <1>9 DEF Access!Wanted, Access!IsOurs
  <2> DEFINE old == [m \in Names |-> IF files.old[m] > count.weeks THEN files.old[m] ELSE 0]
             gone == Access!Expired(files)
  <2>2. /\ old \in [Names -> Nat] /\ gone \subseteq files.cert.names \ {files.cert.name}
        /\ \A m \in Names : old[m] # 0 => m \in (files.cert.names \ gone) \ {files.cert.name}
    BY <1>2, <1>3 DEF Access!Expired
  <2>3. CASE gone = {}
    <3>1. old = files.old
      BY <1>2, <1>3, <2>3 DEF Access!Expired
    <3>2. w = [files EXCEPT !.old = files.old]
      BY <2>1, <2>3, <3>1 DEF Access!Dropped
    <3>3. w = files
      BY <3>2 DEF Access!WholeFolders, Access!Folders
    <3>4. QED
      BY <3>3
  <2>4. CASE gone # {}
    <3>1. w = [cert |-> [serial |-> d.serial, name |-> files.cert.name, names |-> files.cert.names \ gone],
               key |-> d.serial, marker |-> TRUE, old |-> old]
      BY <2>1, <2>4 DEF Access!Dropped, Access!Cert
    <3> HIDE DEF old, gone, d
    <3>2. w \in Access!WholeFolders
      BY <1>1, <1>2, <1>9, <2>2, <3>1 DEF Access!WholeFolders, Access!Folders
    <3>3. w.cert.serial = d.serial /\ w.cert.name = files.cert.name /\ w.cert.names = files.cert.names \ gone
      BY <3>1
    <3>4. w.cert # files.cert
      BY <2>2, <2>4, <3>3
    <3>5. QED
      BY <1>2, <1>9, <3>2, <3>3, <3>4 DEF d
  <2>5. QED
    BY <2>3, <2>4
<1>10. QED
  BY <1>1, <1>2, <1>4, <1>5, <1>6, <1>7, <1>8, <1>9

\* Changed(a, d): actor a's change becomes d, the others' stay.
Changed(a, d) ==
  /\ doing' \in [Access!Actors -> Access!Changes] /\ doing'[a] = d
  /\ \A b \in Access!Actors \ {a} : doing'[b] = doing[b]

LEMMA ChangedTo ==
  ASSUME NEW a \in Access!Actors, NEW d \in Access!Changes, Access!Typed, doing' = [doing EXCEPT ![a] = d]
  PROVE  Changed(a, d)
BY DEF Changed, Access!Typed

\* A step of a change that is under way keeps the invariant, given where it leaves the files and, when it is
\* the only one of an admin, the names.
LEMMA StepKeeps ==
  ASSUME Access!AccessInv, NEW a \in Access!Actors, NEW d \in Access!Changes, Access!Busy(a), Changed(a, d),
         d.kind # "none" => d.kind = doing[a].kind /\ d.serial = doing[a].serial,
         count' \in Counts, count'.changes = count.changes, count.torn => count'.torn,
         host' \in Names, site' \in Names, files' \in Access!Folders, lock' \in Access!Actors \cup {"free"},
         Access!Holding',
         a = Upkeep => /\ UNCHANGED <<host, site>>
                       /\ \/ count'.torn \/ files'.cert.serial = doing[a].serial
                          \/ /\ files'.cert = files.cert /\ files'.marker = files.marker
                             /\ files'.old = files.old,
         a \in Admins => Access!AloneAt(a)'
  PROVE  Access!AccessInv'
<1> USE DEF Access!AccessInv
<1>1. Access!Typed'
  BY DEF Access!Typed, Changed, Access!Actors, Counts
<1>2. doing[a].kind # "none"
  BY DEF Access!Typed, Access!Changes, Access!Busy
<1>3. Access!Numbered'
  BY <1>2 DEF Access!Numbered, Changed
<1>4. ASSUME NEW b \in Admins, b # a PROVE Access!AloneAt(b)'
  <2> SUFFICES ASSUME doing'[b].kind # "none", doing'[b].alone
               PROVE  /\ \A c \in Admins \ {b} : ~Access!Busy(c)'
                      /\ host' = Access!HostAt(b)' /\ site' = Access!SiteAt(b)'
                      /\ doing'[b].kind = "rename" /\ doing'[b].at \in {"verdict", "undo_setting"} =>
                           doing'[b].was = doing'[b].before
                      /\ ~count'.torn /\ doing'[b].new.cert # doing'[b].saved.cert /\ files'.cert = doing'[b].new.cert =>
                           /\ doing'[b].at \in {"site", "setting", "verdict", "undo_setting", "undo_files"}
                           /\ files'.marker = doing'[b].new.marker /\ files'.old = doing'[b].new.old
    BY DEF Access!AloneAt
  <2>1. b \in Access!Actors /\ doing'[b] = doing[b]
    BY <1>4 DEF Changed, Access!Actors
  <2>2. /\ \A c \in Admins \ {b} : ~Access!Busy(c)
        /\ host = Access!HostAt(b) /\ site = Access!SiteAt(b)
        /\ doing[b].kind = "rename" /\ doing[b].at \in {"verdict", "undo_setting"} => doing[b].was = doing[b].before
        /\ ~count.torn /\ doing[b].new.cert # doing[b].saved.cert /\ files.cert = doing[b].new.cert =>
             /\ doing[b].at \in {"site", "setting", "verdict", "undo_setting", "undo_files"}
             /\ files.marker = doing[b].new.marker /\ files.old = doing[b].new.old
    BY <2>1 DEF Access!Alone, Access!AloneAt
  <2>3. a = Upkeep
    BY <1>4, <2>2 DEF Access!Actors
  <2>4. \A c \in Admins \ {b} : ~Access!Busy(c)'
    <3>1. \A c \in Admins : c \in Access!Actors \ {a}
      BY <2>3, NamesAssumption DEF Access!Actors
    <3>2. QED
      BY <2>2, <3>1 DEF Access!Busy, Changed
  <2>5. host' = Access!HostAt(b)' /\ site' = Access!SiteAt(b)'
    BY <2>1, <2>2, <2>3 DEF Access!HostAt, Access!SiteAt
  <2>6. CASE files'.cert.serial = doing[a].serial
    <3>1. doing[b].serial # doing[a].serial
      BY <1>2, <1>4, <2>1 DEF Access!Numbered
    <3>2. doing[b].new.cert = doing[b].saved.cert \/ doing[b].new.cert.serial = doing[b].serial
      BY <2>1 DEF Access!Typed, Access!Changes
    <3>3. doing[b].new.cert # doing[b].saved.cert => files'.cert # doing[b].new.cert
      BY <2>6, <3>1, <3>2
    <3>4. QED
      BY <2>1, <2>2, <2>4, <2>5, <3>3
  <2>7. CASE files'.cert = files.cert /\ files'.marker = files.marker /\ files'.old = files.old
    BY <2>1, <2>2, <2>4, <2>5, <2>7
  <2>8. CASE count'.torn
    BY <2>1, <2>2, <2>4, <2>5, <2>8
  <2>9. QED
    BY <2>3, <2>6, <2>7, <2>8
<1>5. Access!Alone'
  BY <1>4 DEF Access!Alone
<1>6. QED
  BY <1>1, <1>3, <1>5

\* A step that leaves the files and the lock alone.
LEMMA HoldingSame ==
  ASSUME Access!Typed, Access!Holding, NEW a \in Access!Actors, NEW d \in Access!Changes, Changed(a, d),
         doing[a].at \notin {"cert", "site"}, d.at \notin {"cert", "site"}, UNCHANGED <<files, lock>>,
         ~count'.torn => ~count.torn /\ Access!MadeOfWhole(d)
  PROVE  Access!Holding'
BY DEF Access!Holding, Access!Typed, Changed

\* A step after which the lock is free.
LEMMA HoldingFree ==
  ASSUME Access!Typed, Access!Holding, NEW a \in Access!Actors, NEW d \in Access!Changes, Changed(a, d),
         lock = "free" \/ doing[a].at \in {"cert", "site"}, d.at \notin {"cert", "site"},
         lock' = "free", ~count'.torn => ~count.torn /\ Access!MadeOfWhole(d) /\ files' \in Access!WholeFolders
  PROVE  Access!Holding'
<1>1. \A b \in Access!Actors : doing'[b].at \notin {"cert", "site"}
  BY NamesAssumption DEF Access!Holding, Access!Actors, Changed
<1>2. ~count'.torn => \A b \in Access!Actors : Access!MadeOfWhole(doing[b])'
  BY DEF Access!Holding, Changed, Access!MadeOfWhole
<1>3. QED
  BY <1>1, <1>2 DEF Access!Holding

\* A change ends without a word of its own: the lock and the files stay, or the lock is given back.
LEMMA EndsKeeps ==
  ASSUME Access!AccessInv, NEW a \in Access!Actors, Access!Busy(a), Access!Ends(a),
         count' \in Counts, count'.changes = count.changes, count.torn => count'.torn,
         host' \in Names, site' \in Names, files' \in Access!Folders,
         \/ doing[a].at \notin {"cert", "site"} /\ UNCHANGED <<files, lock>> /\ (~count'.torn => ~count.torn)
         \/ /\ lock = "free" \/ doing[a].at \in {"cert", "site"}
            /\ lock' = "free" /\ (~count'.torn => files' \in Access!WholeFolders),
         a = Upkeep => /\ UNCHANGED <<host, site>>
                       /\ \/ count'.torn \/ files'.cert.serial = doing[a].serial
                          \/ /\ files'.cert = files.cert /\ files'.marker = files.marker
                             /\ files'.old = files.old
  PROVE  Access!AccessInv'
<1> USE DEF Access!AccessInv
<1> DEFINE d == Access!Ended("idle")
<1>1. d \in Access!Changes /\ d.at = "idle" /\ d.kind = "none" /\ Access!MadeOfWhole(d)
  BY ChangeEnded
<1>2. doing' = [doing EXCEPT ![a] = d]
  BY DEF Access!Ends
<1> HIDE DEF d
<1>3. Changed(a, d)
  BY <1>1, <1>2, ChangedTo
<1>4. Access!Holding'
  BY <1>1, <1>3, HoldingSame, HoldingFree
<1>5. a \in Admins => Access!AloneAt(a)'
  BY <1>1, <1>3 DEF Changed, Access!AloneAt
<1>6. lock' \in Access!Actors \cup {"free"}
  BY DEF Access!Typed
<1>7. QED
  BY <1>1, <1>3, <1>4, <1>5, <1>6, StepKeeps

\* An admin's change is refused: when it was the only one, everything is as it was.
LEMMA RefusedKeeps ==
  ASSUME Access!AccessInv, NEW a \in Access!Actors, Access!Busy(a), Access!Refused(a), a # Upkeep,
         count' \in Counts, count'.changes = count.changes, count.torn => count'.torn,
         host' \in Names, site' \in Names, files' \in Access!Folders,
         lock = "free" \/ doing[a].at \in {"cert", "site"}, lock' = "free",
         ~count'.torn => files' \in Access!WholeFolders,
         doing[a].alone => /\ host' = doing[a].before /\ site' = doing[a].siteBefore
                           /\ ~count'.torn /\ doing[a].new.cert # doing[a].saved.cert =>
                                files'.cert # doing[a].new.cert
  PROVE  Access!AccessInv'
<1> USE DEF Access!AccessInv
<1> DEFINE c == doing[a]
           d == [c EXCEPT !.at = "refused"]
<1>1. c \in Access!Changes /\ c.kind # "none"
  BY DEF Access!Typed, Access!Changes, Access!Busy
<1>2. CASE c.alone
  <2>1. /\ d \in Access!Changes /\ d.at = "refused" /\ (Access!MadeOfWhole(c) => Access!MadeOfWhole(d))
        /\ d.kind = c.kind /\ d.host = c.host /\ d.before = c.before /\ d.siteBefore = c.siteBefore
        /\ d.serial = c.serial /\ d.saved = c.saved /\ d.new = c.new /\ d.alone = c.alone
    BY <1>1, ChangeMoves
  <2>2. doing' = [doing EXCEPT ![a] = d]
    BY <1>2 DEF Access!Refused, Access!Goes
  <2> HIDE DEF d
  <2>3. Changed(a, d)
    BY <2>1, <2>2, ChangedTo
  <2>4. ~count'.torn => ~count.torn /\ Access!MadeOfWhole(d)
    BY <2>1 DEF Access!Holding, Counts
  <2>5. Access!Holding'
    BY <2>1, <2>3, <2>4, HoldingFree
  <2>6. a \in Admins => \A b \in Admins \ {a} : ~Access!Busy(b)'
    BY <1>1, <1>2, <2>3 DEF Changed, Access!Alone, Access!AloneAt, Access!Busy, Access!Actors
  <2>7. a \in Admins => Access!AloneAt(a)'
    BY <1>2, <2>1, <2>3, <2>6 DEF Changed, Access!AloneAt, Access!HostAt, Access!SiteAt
  <2>8. lock' \in Access!Actors \cup {"free"}
    OBVIOUS
  <2>9. QED
    BY <2>1, <2>3, <2>5, <2>7, <2>8, StepKeeps
<1>3. CASE ~c.alone
  <2>1. Access!Ends(a)
    BY <1>3 DEF Access!Refused
  <2>2. QED
    BY <2>1, EndsKeeps
<1>4. QED
  BY <1>2, <1>3

\* What the invariant says of the only admin's change.
LEMMA OnlyOne ==
  ASSUME Access!AccessInv, NEW a \in Access!Actors, a # Upkeep, doing[a].kind # "none", doing[a].alone
  PROVE  /\ a \in Admins /\ \A b \in Admins \ {a} : ~Access!Busy(b)
         /\ host = Access!HostAt(a) /\ site = Access!SiteAt(a)
         /\ doing[a].kind = "rename" /\ doing[a].at \in {"verdict", "undo_setting"} => doing[a].was = doing[a].before
         /\ ~count.torn /\ doing[a].new.cert # doing[a].saved.cert /\ files.cert = doing[a].new.cert =>
              /\ doing[a].at \in {"site", "setting", "verdict", "undo_setting", "undo_files"}
              /\ files.marker = doing[a].new.marker /\ files.old = doing[a].new.old
BY DEF Access!AccessInv, Access!Alone, Access!AloneAt, Access!Actors

\* Refused before anything is written, or the lock is taken, the snapshot and the key made.
LEMMA LocksKeeps == ASSUME Access!AccessInv, NEW a \in Access!Actors, Access!Locks(a) PROVE Access!AccessInv'
<1> USE DEF Access!AccessInv
<1> DEFINE c == doing[a]
<1>1. /\ c \in Access!Changes /\ c.at = "planned" /\ lock = "free"
      /\ UNCHANGED <<host, site, count>>
  BY DEF Access!Locks, Access!Typed
<1>2. c.kind # "none" /\ Access!Busy(a) /\ c.new = c.saved
  BY <1>1 DEF Access!Changes, Access!Busy
<1>3. /\ host \in Names /\ site \in Names /\ files \in Access!Folders
      /\ ~count.torn => files \in Access!WholeFolders
  BY <1>1 DEF Access!Holding, Access!Typed
<1>4. count \in Counts /\ count' = count
  BY <1>1 DEF Access!Typed, Counts
<1>5. CASE Access!Wanted(a) = {}
  <2>1. Access!Refused(a) /\ UNCHANGED <<files, lock>>
    BY <1>5 DEF Access!Locks
  <2>2. c.kind # "upkeep"
    BY <1>5 DEF Access!Wanted
  <2>3. a # Upkeep
    BY <1>2, <2>2 DEF Access!Typed
  <2>4. c.alone => host' = c.before /\ site' = c.siteBefore
    BY <1>1, <1>2, <2>3, OnlyOne DEF Access!HostAt, Access!SiteAt
  <2>5. QED
    BY <1>1, <1>2, <1>3, <1>4, <2>1, <2>3, <2>4, RefusedKeeps
<1>6. CASE Access!Wanted(a) # {}
  <2>1. PICK w \in Access!Wanted(a) :
          /\ doing' = [doing EXCEPT ![a].at = "cert", ![a].saved = files, ![a].new = w, ![a].siteBefore = site]
          /\ files' = [files EXCEPT !.key = w.key] /\ lock' = a
    BY <1>6 DEF Access!Locks
  <2>2. w \in Access!Folders /\ (w.cert = files.cert \/ w.cert.serial = c.serial)
    BY <1>2, WantedNumbered
  <2> DEFINE d == [c EXCEPT !.at = "cert", !.saved = files, !.new = w, !.siteBefore = site]
  <2>3. /\ d \in Access!Changes /\ d.at = "cert" /\ d.kind = c.kind /\ d.host = c.host /\ d.before = c.before
        /\ d.siteBefore = site /\ d.serial = c.serial /\ d.saved = files /\ d.new = w /\ d.alone = c.alone
    <3>1. c \in Access!Changes /\ c.kind # "none" /\ site \in Names /\ files \in Access!Folders
      BY <1>1, <1>2, <1>3
    <3>2. w \in Access!Folders /\ (w.cert = files.cert \/ w.cert.serial = c.serial)
      BY <2>2
    <3> HIDE DEF c
    <3>3. QED
      BY <3>1, <3>2, ChangeLocks, ZenonT(60)
  <2>4. doing' = [doing EXCEPT ![a] = d]
    BY <2>1
  <2> HIDE DEF d
  <2>5. Changed(a, d)
    BY <2>3, <2>4, ChangedTo
  <2>6. files' \in Access!Folders /\ files'.cert = files.cert /\ files'.marker = files.marker /\ files'.old = files.old
    BY <1>3, <2>1, <2>2 DEF Access!Folders
  <2>7. ~count.torn => Access!MadeOfWhole(d)
    <3> SUFFICES ASSUME ~count.torn PROVE Access!MadeOfWhole(d)
      OBVIOUS
    <3>1. /\ w \in Access!WholeFolders
          /\ c.kind = "upkeep" /\ w.cert = files.cert => w = files
          /\ c.kind \in {"rename", "upkeep"} /\ "org" \in {files.cert.name, w.cert.name} => w.cert = files.cert
      BY <1>2, <1>3, WantedWhole
    <3>2. QED
      BY <1>3, <2>3, <3>1 DEF Access!MadeOfWhole
  <2>8. Access!Holding'
    <3>1. a # "free"
      BY NamesAssumption DEF Access!Actors
    <3>2. \A b \in Access!Actors \ {a} : doing'[b].at \notin {"cert", "site"}
      BY <1>1, <2>5, NamesAssumption DEF Changed, Access!Holding, Access!Actors
    <3>3. ~count.torn => \A b \in Access!Actors : Access!MadeOfWhole(doing'[b])
      BY <2>5, <2>7 DEF Changed, Access!Holding
    <3>4. QED
      BY <1>4, <2>1, <2>3, <2>5, <3>1, <3>2, <3>3 DEF Changed, Access!Holding, Access!MadeOfWhole
  <2>9. a \in Admins => Access!AloneAt(a)'
    BY <1>1, <1>2, <2>3, <2>5, <2>6 DEF Changed, Access!Alone, Access!AloneAt, Access!HostAt, Access!SiteAt,
           Access!Busy, Access!Actors
  <2>10. lock' \in Access!Actors \cup {"free"} /\ host' \in Names /\ site' \in Names
    BY <1>1, <1>3, <2>1
  <2>11. QED
    BY <1>1, <1>2, <1>4, <2>3, <2>5, <2>6, <2>8, <2>9, <2>10, StepKeeps
<1>7. QED
  BY <1>5, <1>6

\* A change at a later stage: the lock, the files and site.env where it leaves them.
LEMMA GoesKeeps ==
  ASSUME Access!AccessInv, NEW a \in Access!Actors, a # Upkeep, NEW d \in Access!Changes, Changed(a, d),
         Access!Busy(a), d.kind = doing[a].kind, d.serial = doing[a].serial, d.alone = doing[a].alone,
         d.new = doing[a].new, d.saved = doing[a].saved, Access!MadeOfWhole(doing[a]) => Access!MadeOfWhole(d),
         d.at \in {"site", "setting", "verdict", "undo_setting", "undo_files"},
         count' \in Counts, count'.changes = count.changes, count'.torn = count.torn,
         host' \in Names, site' \in Names, lock' \in Access!Actors \cup {"free"}, Access!Holding',
         files' = files \/ files' = doing[a].new,
         d.alone /\ host = Access!HostAt(a) /\ site = Access!SiteAt(a) =>
           host' = Access!HostAt(a)' /\ site' = Access!SiteAt(a)',
         d.alone /\ d.kind = "rename" /\ d.at \in {"verdict", "undo_setting"} => d.was = d.before
  PROVE  Access!AccessInv'
<1> USE DEF Access!AccessInv
<1>1. files \in Access!Folders /\ doing[a].new \in Access!Folders /\ doing[a].kind # "none"
  BY DEF Access!Typed, Access!Changes, Access!AllChanges, Access!Busy
<1>2. files' \in Access!Folders
  BY <1>1
<1>3. a \in Admins => Access!AloneAt(a)'
  <2> SUFFICES ASSUME d.alone PROVE Access!AloneAt(a)'
    BY DEF Changed, Access!AloneAt
  <2>1. /\ a \in Admins /\ \A b \in Admins \ {a} : ~Access!Busy(b)
        /\ host = Access!HostAt(a) /\ site = Access!SiteAt(a)
        /\ ~count.torn /\ doing[a].new.cert # doing[a].saved.cert /\ files.cert = doing[a].new.cert =>
              files.marker = doing[a].new.marker /\ files.old = doing[a].new.old
    BY <1>1, OnlyOne
  <2>2. \A b \in Admins \ {a} : ~Access!Busy(b)'
    BY <2>1 DEF Changed, Access!Busy, Access!Actors
  <2>3. doing'[a] = d
    BY DEF Changed
  <2>4. host' = Access!HostAt(a)' /\ site' = Access!SiteAt(a)'
    BY <2>1
  <2>5. ~count'.torn /\ d.new.cert # d.saved.cert /\ files'.cert = d.new.cert =>
          files'.marker = d.new.marker /\ files'.old = d.new.old
    BY <2>1
  <2>6. QED
    BY <2>2, <2>3, <2>4, <2>5 DEF Access!AloneAt
<1>4. QED
  BY <1>2, <1>3, StepKeeps

\* The certificate, its marker and names follow the key.
LEMMA WritesCertKeeps ==
  ASSUME Access!AccessInv, NEW a \in Access!Actors, Access!WritesCert(a)
  PROVE  Access!AccessInv'
<1> USE DEF Access!AccessInv
<1> DEFINE c == doing[a]
<1>1. /\ c \in Access!Changes /\ c.at = "cert" /\ lock = a /\ files = [c.saved EXCEPT !.key = c.new.key]
      /\ UNCHANGED <<host, site, count>> /\ files' = c.new /\ c.saved \in Access!Folders
      /\ files' \in Access!Folders /\ (~count.torn => files' \in Access!WholeFolders)
  BY DEF Access!WritesCert, Access!Typed, Access!Holding, Access!Changes, Access!AllChanges, Access!MadeOfWhole
<1>2. c.kind # "none" /\ Access!Busy(a)
  BY <1>1 DEF Access!Changes, Access!Busy
<1>3. /\ host \in Names /\ site \in Names /\ files \in Access!Folders /\ lock \in Access!Actors \cup {"free"}
      /\ count \in Counts /\ count' = count
      /\ files.cert = c.saved.cert /\ files.marker = c.saved.marker /\ files.old = c.saved.old
  BY <1>1 DEF Access!Typed, Access!Folders, Counts
<1>4. CASE c.kind = "rename"
  <2> DEFINE d == [c EXCEPT !.at = "site"]
  <2>1. /\ d \in Access!Changes /\ d.at = "site" /\ (Access!MadeOfWhole(c) => Access!MadeOfWhole(d)) /\ d.kind = c.kind
        /\ d.host = c.host /\ d.before = c.before /\ d.siteBefore = c.siteBefore
        /\ d.serial = c.serial /\ d.saved = c.saved /\ d.new = c.new /\ d.alone = c.alone
    BY <1>1, <1>2, <1>4, ChangeMoves
  <2>2. doing' = [doing EXCEPT ![a] = d] /\ lock' = a
    BY <1>1, <1>4 DEF Access!WritesCert, Access!Goes, Access!AfterFiles, Access!LockAfter
  <2> HIDE DEF d
  <2>3. Changed(a, d)
    BY <2>1, <2>2, ChangedTo
  <2>4. Access!Holding'
    <3>1. a # "free"
      BY NamesAssumption DEF Access!Actors
    <3>2. \A b \in Access!Actors \ {a} : doing'[b].at \notin {"cert", "site"}
      BY <1>1, <2>3 DEF Changed, Access!Holding
    <3>3. ~count.torn => \A b \in Access!Actors : Access!MadeOfWhole(doing'[b])
      BY <2>1, <2>3 DEF Changed, Access!Holding
    <3>4. QED
      BY <1>1, <1>3, <2>1, <2>2, <2>3, <3>1, <3>2, <3>3 DEF Changed, Access!Holding, Access!MadeOfWhole
  <2>5. a # Upkeep
    BY <1>4 DEF Access!Typed
  <2>6. host = Access!HostAt(a) /\ site = Access!SiteAt(a) => host' = Access!HostAt(a)' /\ site' = Access!SiteAt(a)'
    BY <1>1, <2>1, <2>3 DEF Changed, Access!HostAt, Access!SiteAt
  <2>7. QED
    BY <1>1, <1>2, <1>3, <2>1, <2>2, <2>3, <2>4, <2>5, <2>6, GoesKeeps
<1>5. CASE c.kind \in {"upload", "generate"}
  <2> DEFINE d == [c EXCEPT !.at = "verdict"]
  <2>1. /\ d \in Access!Changes /\ d.at = "verdict" /\ (Access!MadeOfWhole(c) => Access!MadeOfWhole(d)) /\ d.kind = c.kind
        /\ d.host = c.host /\ d.before = c.before /\ d.siteBefore = c.siteBefore
        /\ d.serial = c.serial /\ d.saved = c.saved /\ d.new = c.new /\ d.alone = c.alone
    BY <1>1, <1>2, <1>5, ChangeMoves
  <2>2. doing' = [doing EXCEPT ![a] = d] /\ lock' = "free"
    BY <1>1, <1>5 DEF Access!WritesCert, Access!Goes, Access!AfterFiles, Access!LockAfter
  <2> HIDE DEF d
  <2>3. Changed(a, d)
    BY <2>1, <2>2, ChangedTo
  <2>4. ~count'.torn => ~count.torn /\ Access!MadeOfWhole(d) /\ files' \in Access!WholeFolders
    BY <1>1, <1>3, <2>1 DEF Access!Holding
  <2>5. Access!Holding'
    BY <1>1, <2>1, <2>2, <2>3, <2>4, HoldingFree
  <2>6. a # Upkeep
    BY <1>5 DEF Access!Typed
  <2>7. host = Access!HostAt(a) /\ site = Access!SiteAt(a) => host' = Access!HostAt(a)' /\ site' = Access!SiteAt(a)'
    BY <1>1, <1>5, <2>1, <2>3 DEF Changed, Access!HostAt, Access!SiteAt
  <2>8. QED
    BY <1>1, <1>2, <1>3, <1>5, <2>1, <2>2, <2>3, <2>5, <2>6, <2>7, GoesKeeps
<1>6. CASE c.kind = "upkeep"
  <2>1. Access!Ends(a) /\ lock' = "free"
    BY <1>1, <1>6 DEF Access!WritesCert, Access!AfterFiles, Access!LockAfter
  <2>2. \/ count'.torn \/ files'.cert.serial = c.serial
        \/ files'.cert = files.cert /\ files'.marker = files.marker /\ files'.old = files.old
    BY <1>1, <1>3, <1>6 DEF Access!Changes, Access!Holding, Access!MadeOfWhole
  <2>3. QED
    BY <1>1, <1>2, <1>3, <2>1, <2>2, EndsKeeps
<1>7. QED
  BY <1>1, <1>2, <1>4, <1>5, <1>6 DEF Access!Changes, Access!AllChanges

\* Whatever is new in a folder, it is a folder.
LEMMA MixedFolder ==
  ASSUME NEW f \in Access!Folders, NEW g \in Access!Folders, NEW names
  PROVE  Access!Mixed(f, g, names) \in Access!Folders /\ Access!Mixed(f, g, names).cert \in {f.cert, g.cert}
BY DEF Access!Mixed, Access!Folders

\* A fault is counted, and a folder that is neither the one nor the other is torn.
LEMMA FaultedCounts ==
  ASSUME count \in Counts, NEW f, NEW g, Access!Faulted(f, g)
  PROVE  /\ count' \in Counts /\ count'.changes = count.changes /\ (count.torn => count'.torn)
         /\ ~count'.torn => ~count.torn /\ files' \in {f, g}
<1>1. count' = [count EXCEPT !.faults = count.faults + 1, !.torn = count.torn \/ files' \notin {f, g}]
  BY DEF Access!Faulted
<1>2. /\ count'.changes = count.changes /\ count'.weeks = count.weeks /\ count'.faults = count.faults + 1
      /\ count'.torn = (count.torn \/ files' \notin {f, g})
      /\ count' = [changes |-> count'.changes, faults |-> count'.faults, weeks |-> count'.weeks, torn |-> count'.torn]
  BY <1>1 DEF Counts
<1>3. count'.torn \in BOOLEAN
  <2>1. (count.torn \/ files' \notin {f, g}) \in BOOLEAN
    OBVIOUS
  <2>2. QED
    BY <1>2, <2>1, Zenon
<1>4. count'.changes \in Nat /\ count'.weeks \in Nat /\ count'.faults \in Nat
  BY <1>2 DEF Counts
<1>5. count' \in Counts
  BY <1>2, <1>3, <1>4, Zenon DEF Counts
<1>6. QED
  BY <1>2, <1>5

\* The snapshot is put back, or that fails too.
LEMMA WriteFailsKeeps ==
  ASSUME Access!AccessInv, NEW a \in Access!Actors, Access!WriteFails(a)
  PROVE  Access!AccessInv'
<1> USE DEF Access!AccessInv
<1> DEFINE c == doing[a]
<1>1. /\ c \in Access!Changes /\ c.at \in {"cert", "site"} /\ c.kind # "upkeep"
      /\ UNCHANGED <<host, site>> /\ lock' = "free" /\ Access!Faulted(c.saved, c.new)
      /\ c.saved \in Access!Folders /\ c.new \in Access!Folders /\ host \in Names /\ site \in Names /\ count \in Counts
  BY DEF Access!WriteFails, Access!Typed, Access!Changes, Access!AllChanges, Counts
<1>2. c.kind # "none" /\ Access!Busy(a)
  BY <1>1 DEF Access!Changes, Access!Busy
<1>3. a # Upkeep
  BY <1>1, <1>2 DEF Access!Typed
<1>4. /\ count' \in Counts /\ count'.changes = count.changes /\ (count.torn => count'.torn)
      /\ ~count'.torn => files' \in Access!WholeFolders
  BY <1>1, FaultedCounts DEF Access!Holding, Access!MadeOfWhole
<1>5. CASE files' = c.saved /\ Access!Refused(a)
  <2>1. c.alone => host' = c.before /\ site' = c.siteBefore
    BY <1>1, <1>2, <1>3, OnlyOne DEF Access!HostAt, Access!SiteAt
  <2>2. QED
    BY <1>1, <1>2, <1>3, <1>4, <1>5, <2>1, RefusedKeeps
<1>6. CASE Access!Ends(a) /\ \E names \in SUBSET Access!AllFiles : files' = Access!Mixed(c.saved, c.new, names)
  <2>1. files' \in Access!Folders
    BY <1>1, <1>6, MixedFolder
  <2>2. QED
    BY <1>1, <1>2, <1>3, <1>4, <1>6, <2>1, EndsKeeps
<1>7. QED
  BY <1>5, <1>6 DEF Access!WriteFails, Access!Written, Access!AllFiles

\* What the upkeep has written stays.
LEMMA UpkeepFailsKeeps ==
  ASSUME Access!AccessInv, NEW a \in Access!Actors, Access!UpkeepFails(a)
  PROVE  Access!AccessInv'
<1> USE DEF Access!AccessInv
<1> DEFINE c == doing[a]
<1>1. /\ c \in Access!Changes /\ c.at = "cert" /\ c.kind = "upkeep" /\ Access!Busy(a)
      /\ UNCHANGED <<host, site>> /\ lock' = "free" /\ Access!Faulted(c.saved, c.new) /\ Access!Ends(a)
      /\ c.saved \in Access!Folders /\ c.new \in Access!Folders /\ host \in Names /\ site \in Names /\ count \in Counts
      /\ files = [c.saved EXCEPT !.key = c.new.key]
  BY DEF Access!UpkeepFails, Access!Typed, Access!Changes, Access!AllChanges, Counts, Access!Busy, Access!Holding
<1>2. /\ count' \in Counts /\ count'.changes = count.changes /\ (count.torn => count'.torn)
      /\ ~count'.torn => ~count.torn /\ files' \in {c.saved, c.new}
  BY <1>1, FaultedCounts
<1>3. /\ ~count'.torn => files' \in Access!WholeFolders
      /\ ~count'.torn /\ c.new.cert = c.saved.cert => files' = c.saved
  BY <1>1, <1>2 DEF Access!Holding, Access!MadeOfWhole
<1>4. files' \in Access!Folders
  BY <1>1, MixedFolder DEF Access!UpkeepFails
<1>5. \/ count'.torn \/ files'.cert.serial = c.serial
      \/ files'.cert = files.cert /\ files'.marker = files.marker /\ files'.old = files.old
  BY <1>1, <1>2, <1>3 DEF Access!Changes, Access!Folders
<1>6. QED
  BY <1>1, <1>2, <1>3, <1>4, <1>5, EndsKeeps

\* site.env gets the new host name, and the lock is given back.
LEMMA WritesSiteKeeps ==
  ASSUME Access!AccessInv, NEW a \in Access!Actors, Access!WritesSite(a)
  PROVE  Access!AccessInv'
<1> USE DEF Access!AccessInv
<1> DEFINE c == doing[a]
           d == [c EXCEPT !.at = "setting"]
<1>1. /\ c \in Access!Changes /\ c.at = "site" /\ c.kind = "rename" /\ c.host \in Names /\ files = c.new
      /\ UNCHANGED <<host, files, count>> /\ site' = c.host /\ lock' = "free" /\ doing' = [doing EXCEPT ![a] = d]
      /\ (~count.torn => Access!MadeOfWhole(c)) /\ host \in Names /\ count \in Counts
  BY DEF Access!WritesSite, Access!Goes, Access!Typed, Access!Changes, Access!Holding, Counts
<1>2. Access!Busy(a) /\ a # Upkeep /\ count' = count
  BY <1>1 DEF Access!Busy, Access!Typed
<1>3. /\ d \in Access!Changes /\ d.at = "setting" /\ (Access!MadeOfWhole(c) => Access!MadeOfWhole(d))
      /\ d.kind = c.kind /\ d.host = c.host /\ d.before = c.before /\ d.siteBefore = c.siteBefore
      /\ d.serial = c.serial /\ d.saved = c.saved /\ d.new = c.new /\ d.alone = c.alone
  BY <1>1, ChangeMoves
<1> HIDE DEF d
<1>4. Changed(a, d)
  BY <1>1, <1>3, ChangedTo
<1>5. ~count'.torn => ~count.torn /\ Access!MadeOfWhole(d) /\ files' \in Access!WholeFolders
  BY <1>1, <1>2, <1>3 DEF Access!MadeOfWhole
<1>6. Access!Holding'
  BY <1>1, <1>3, <1>4, <1>5, HoldingFree
<1>7. host = Access!HostAt(a) /\ site = Access!SiteAt(a) => host' = Access!HostAt(a)' /\ site' = Access!SiteAt(a)'
  BY <1>1, <1>3, <1>4 DEF Changed, Access!HostAt, Access!SiteAt
<1>8. QED
  BY <1>1, <1>2, <1>3, <1>4, <1>6, <1>7, GoesKeeps

\* A stage that leaves files and lock alone.
LEMMA MovesKeeps ==
  ASSUME Access!AccessInv, NEW a \in Access!Actors, doing[a].at \in {"setting", "verdict", "undo_setting"},
         NEW d \in Access!Changes, doing' = [doing EXCEPT ![a] = d],
         d.kind = doing[a].kind, d.serial = doing[a].serial, d.alone = doing[a].alone,
         d.new = doing[a].new, d.saved = doing[a].saved, Access!MadeOfWhole(doing[a]) => Access!MadeOfWhole(d),
         d.at \in {"verdict", "undo_setting", "undo_files"},
         UNCHANGED <<site, files, lock, count>>, host' \in Names,
         d.alone /\ host = Access!HostAt(a) /\ site = Access!SiteAt(a) =>
           host' = Access!HostAt(a)' /\ site' = Access!SiteAt(a)',
         d.alone /\ d.kind = "rename" /\ d.at \in {"verdict", "undo_setting"} => d.was = d.before
  PROVE  Access!AccessInv'
<1> USE DEF Access!AccessInv
<1>1. /\ Access!Busy(a) /\ doing[a].kind \notin {"none", "upkeep"} /\ count' = count /\ count \in Counts
      /\ site' \in Names /\ lock' \in Access!Actors \cup {"free"}
  BY DEF Access!Busy, Access!Typed, Access!Changes, Counts
<1>2. a # Upkeep
  BY <1>1 DEF Access!Typed
<1>3. Changed(a, d)
  BY ChangedTo
<1>4. ~count'.torn => ~count.torn /\ Access!MadeOfWhole(d)
  BY <1>1 DEF Access!Holding
<1>5. Access!Holding'
  BY <1>3, <1>4, HoldingSame
<1>6. QED
  BY <1>1, <1>2, <1>3, <1>5, GoesKeeps

\* A change that ends with files and lock as they are.
LEMMA EndsHereKeeps ==
  ASSUME Access!AccessInv, NEW a \in Access!Actors, doing[a].at \in {"setting", "verdict", "undo_setting"}, Access!Ends(a),
         UNCHANGED <<host, site, files, lock>>, count' \in Counts, count'.changes = count.changes,
         count'.torn = count.torn
  PROVE  Access!AccessInv'
<1>1. host' \in Names /\ site' \in Names /\ files' \in Access!Folders /\ Access!Busy(a)
  BY DEF Access!AccessInv, Access!Typed, Access!Busy
<1>2. QED
  BY <1>1, EndsKeeps

\* The new host name is saved, or the database doesn't answer.
LEMMA SavesSettingKeeps ==
  ASSUME Access!AccessInv, NEW a \in Access!Actors, Access!SavesSetting(a)
  PROVE  Access!AccessInv'
<1> USE DEF Access!AccessInv
<1> DEFINE c == doing[a]
           was == IF host = c.host THEN "none" ELSE host
           d == [c EXCEPT !.at = "verdict", !.was = was]
<1>1. /\ c \in Access!Changes /\ c.at = "setting" /\ c.kind = "rename" /\ c.host \in Names /\ c.host # c.before
      /\ UNCHANGED <<site, files, lock>> /\ host \in Names /\ was \in Access!Hosts /\ count \in Counts
  BY DEF Access!SavesSetting, Access!Typed, Access!Changes, Counts, Access!Hosts
<1>2. CASE host' = c.host /\ UNCHANGED count /\ doing' = [doing EXCEPT ![a] = d]
  <2>1. /\ d \in Access!Changes /\ d.at = "verdict" /\ (Access!MadeOfWhole(c) => Access!MadeOfWhole(d))
        /\ d.kind = c.kind /\ d.host = c.host /\ d.before = c.before /\ d.siteBefore = c.siteBefore
        /\ d.was = was /\ d.serial = c.serial /\ d.saved = c.saved /\ d.new = c.new /\ d.alone = c.alone
    BY <1>1, ChangeSaves
  <2>2. doing'[a] = d
    BY <1>2, <2>1 DEF Access!Typed
  <2> HIDE DEF d
  <2>3. host = Access!HostAt(a) /\ site = Access!SiteAt(a) => host' = Access!HostAt(a)' /\ site' = Access!SiteAt(a)'
    BY <1>1, <1>2, <2>1, <2>2 DEF Access!HostAt, Access!SiteAt
  <2>4. d.alone => d.was = d.before
    <3>1. a # Upkeep
      BY <1>1 DEF Access!Typed
    <3>2. c.alone => host = c.before
      BY <1>1, <3>1, OnlyOne DEF Access!HostAt
    <3>3. QED
      BY <1>1, <2>1, <3>2
  <2>5. host' \in Names
    BY <1>1, <1>2
  <2>6. QED
    BY <1>1, <1>2, <2>1, <2>3, <2>4, <2>5, MovesKeeps
<1>3. CASE UNCHANGED host /\ Access!Ends(a) /\ count' = [count EXCEPT !.faults = @ + 1]
  <2>1. count' \in Counts /\ count'.changes = count.changes /\ count'.torn = count.torn
    BY <1>1, <1>3 DEF Counts
  <2>2. QED
    BY <1>1, <1>3, <2>1, EndsHereKeeps
<1>4. QED
  BY <1>2, <1>3 DEF Access!SavesSetting

\* The change is backed out: the setting was never saved.
LEMMA SettingRefusedKeeps ==
  ASSUME Access!AccessInv, NEW a \in Access!Actors, Access!SettingRefused(a)
  PROVE  Access!AccessInv'
<1> USE DEF Access!AccessInv
<1> DEFINE c == doing[a]
           d == [c EXCEPT !.at = "undo_files"]
<1>1. /\ c \in Access!Changes /\ c.at = "setting" /\ c.kind = "rename" /\ c.kind # "none" /\ host' \in Names
      /\ UNCHANGED <<host, site, files, lock, count>> /\ doing' = [doing EXCEPT ![a] = d]
  BY DEF Access!SettingRefused, Access!Goes, Access!Typed, Access!Changes
<1>2. /\ d \in Access!Changes /\ d.at = "undo_files" /\ (Access!MadeOfWhole(c) => Access!MadeOfWhole(d))
      /\ d.kind = c.kind /\ d.host = c.host /\ d.before = c.before /\ d.siteBefore = c.siteBefore
      /\ d.serial = c.serial /\ d.saved = c.saved /\ d.new = c.new /\ d.alone = c.alone
  BY <1>1, ChangeMoves
<1>3. doing'[a] = d
  BY <1>1, <1>2 DEF Access!Typed
<1> HIDE DEF d
<1>4. host = Access!HostAt(a) /\ site = Access!SiteAt(a) => host' = Access!HostAt(a)' /\ site' = Access!SiteAt(a)'
  BY <1>1, <1>2, <1>3 DEF Access!HostAt, Access!SiteAt
<1>5. QED
  BY <1>1, <1>2, <1>4, MovesKeeps

\* nginx has rejected the change, or has taken it.
LEMMA TakesVerdictKeeps ==
  ASSUME Access!AccessInv, NEW a \in Access!Actors, Access!TakesVerdict(a)
  PROVE  Access!AccessInv'
<1> USE DEF Access!AccessInv
<1> DEFINE c == doing[a]
<1>1. /\ c \in Access!Changes /\ c.at = "verdict" /\ c.kind # "none" /\ c.kind # "upkeep" /\ host' \in Names
      /\ UNCHANGED <<host, site, files, lock, count>> /\ count \in Counts /\ count' = count
  BY DEF Access!TakesVerdict, Access!Typed, Access!Changes, Counts
<1>2. CASE c.kind = "rename" /\ Access!Goes(a, "undo_setting")
  <2> DEFINE d == [c EXCEPT !.at = "undo_setting"]
  <2>1. /\ d \in Access!Changes /\ d.at = "undo_setting" /\ (Access!MadeOfWhole(c) => Access!MadeOfWhole(d))
        /\ d.kind = c.kind /\ d.host = c.host /\ d.before = c.before /\ d.siteBefore = c.siteBefore
        /\ d.was = c.was /\ d.serial = c.serial /\ d.saved = c.saved /\ d.new = c.new /\ d.alone = c.alone
    BY <1>1, <1>2, ChangeMoves
  <2>2. doing' = [doing EXCEPT ![a] = d] /\ doing'[a] = d
    BY <1>2, <2>1 DEF Access!Goes, Access!Typed
  <2> HIDE DEF d
  <2>3. host = Access!HostAt(a) /\ site = Access!SiteAt(a) => host' = Access!HostAt(a)' /\ site' = Access!SiteAt(a)'
    BY <1>1, <1>2, <2>1, <2>2 DEF Access!HostAt, Access!SiteAt
  <2>4. d.alone => d.was = d.before
    <3>1. a # Upkeep
      BY <1>1 DEF Access!Typed
    <3>2. QED
      BY <1>1, <1>2, <2>1, <3>1, OnlyOne
  <2>5. QED
    BY <1>1, <2>1, <2>2, <2>3, <2>4, MovesKeeps
<1>3. CASE c.kind # "rename" /\ Access!Goes(a, "undo_files")
  <2> DEFINE d == [c EXCEPT !.at = "undo_files"]
  <2>1. /\ d \in Access!Changes /\ d.at = "undo_files" /\ (Access!MadeOfWhole(c) => Access!MadeOfWhole(d))
        /\ d.kind = c.kind /\ d.host = c.host /\ d.before = c.before /\ d.siteBefore = c.siteBefore
        /\ d.was = c.was /\ d.serial = c.serial /\ d.saved = c.saved /\ d.new = c.new /\ d.alone = c.alone
    BY <1>1, <1>3, ChangeMoves
  <2>2. doing' = [doing EXCEPT ![a] = d] /\ doing'[a] = d
    BY <1>3, <2>1 DEF Access!Goes, Access!Typed
  <2> HIDE DEF d
  <2>3. host = Access!HostAt(a) /\ site = Access!SiteAt(a) => host' = Access!HostAt(a)' /\ site' = Access!SiteAt(a)'
    BY <1>1, <1>3, <2>1, <2>2 DEF Access!HostAt, Access!SiteAt
  <2>4. QED
    BY <1>1, <2>1, <2>2, <2>3, MovesKeeps
<1>4. CASE Access!Ends(a)
  BY <1>1, <1>4, EndsHereKeeps
<1>5. QED
  BY <1>2, <1>3, <1>4 DEF Access!TakesVerdict

\* No verdict in time.
LEMMA NoAnswerKeeps == ASSUME Access!AccessInv, NEW a \in Access!Actors, Access!NoAnswer(a) PROVE Access!AccessInv'
<1>1. count \in Counts /\ count' = count
  BY DEF Access!NoAnswer, Access!AccessInv, Access!Typed, Counts
<1>2. QED
  BY <1>1, EndsHereKeeps DEF Access!NoAnswer

\* The host name that the save replaced is saved again, or the database doesn't answer.
LEMMA UndoesSettingKeeps ==
  ASSUME Access!AccessInv, NEW a \in Access!Actors, Access!UndoesSetting(a)
  PROVE  Access!AccessInv'
<1> USE DEF Access!AccessInv
<1> DEFINE c == doing[a]
           d == [c EXCEPT !.at = "undo_files"]
<1>1. /\ c \in Access!Changes /\ c.at = "undo_setting" /\ c.kind = "rename" /\ c.kind # "none" /\ c.was \in Access!Hosts
      /\ c.before \in Names /\ UNCHANGED <<site, files, lock>> /\ host \in Names /\ count \in Counts
  BY DEF Access!UndoesSetting, Access!Typed, Access!Changes, Access!AllChanges, Counts
<1>2. CASE host' = (IF c.was = "none" THEN host ELSE c.was) /\ UNCHANGED count /\ Access!Goes(a, "undo_files")
  <2>1. /\ d \in Access!Changes /\ d.at = "undo_files" /\ (Access!MadeOfWhole(c) => Access!MadeOfWhole(d))
        /\ d.kind = c.kind /\ d.host = c.host /\ d.before = c.before /\ d.siteBefore = c.siteBefore
        /\ d.serial = c.serial /\ d.saved = c.saved /\ d.new = c.new /\ d.alone = c.alone
    BY <1>1, ChangeMoves
  <2>2. doing' = [doing EXCEPT ![a] = d] /\ doing'[a] = d
    BY <1>2, <2>1 DEF Access!Goes, Access!Typed
  <2> HIDE DEF d
  <2>3. d.alone /\ host = Access!HostAt(a) /\ site = Access!SiteAt(a) =>
          host' = Access!HostAt(a)' /\ site' = Access!SiteAt(a)'
    <3>1. a # Upkeep
      BY <1>1 DEF Access!Typed
    <3>2. c.alone => c.was = c.before
      BY <1>1, <3>1, OnlyOne
    <3>3. c.alone => host' = c.before
      BY <1>1, <1>2, <3>2, NamesAssumption
    <3>4. QED
      BY <1>1, <2>1, <2>2, <3>3 DEF Access!HostAt, Access!SiteAt
  <2>4. host' \in Names
    BY <1>1, <1>2 DEF Access!Hosts
  <2>5. QED
    BY <1>1, <1>2, <2>1, <2>2, <2>3, <2>4, MovesKeeps
<1>3. CASE UNCHANGED host /\ Access!Ends(a) /\ count' = [count EXCEPT !.faults = @ + 1]
  <2>1. count' \in Counts /\ count'.changes = count.changes /\ count'.torn = count.torn
    BY <1>1, <1>3 DEF Counts
  <2>2. QED
    BY <1>1, <1>3, <2>1, EndsHereKeeps
<1>4. QED
  BY <1>2, <1>3 DEF Access!UndoesSetting

\* The files and site.env are put back where they are still this change's: with no other admin's change they are,
\* or the upkeep has made a certificate of its own.
LEMMA UndoesFilesKeeps ==
  ASSUME Access!AccessInv, NEW a \in Access!Actors, Access!UndoesFiles(a)
  PROVE  Access!AccessInv'
<1> USE DEF Access!AccessInv
<1> DEFINE c == doing[a]
<1>1. /\ c \in Access!Changes /\ c.at = "undo_files" /\ c.kind # "none" /\ c.kind # "upkeep" /\ lock = "free"
      /\ UNCHANGED <<host, lock, count>> /\ files' = (IF files = c.new THEN c.saved ELSE files)
      /\ site' = (IF c.kind = "rename" /\ site = c.host THEN c.siteBefore ELSE site)
      /\ Access!Refused(a) /\ c.siteBefore \in Names
  BY DEF Access!UndoesFiles, Access!PutsBackSite, Access!Typed, Access!Changes
<1>2. Access!Busy(a) /\ a # Upkeep
  BY <1>1 DEF Access!Busy, Access!Typed
<1>3. /\ files \in Access!Folders /\ c.new \in Access!Folders /\ c.saved \in Access!Folders
      /\ ~count.torn => /\ files \in Access!WholeFolders /\ c.new \in Access!WholeFolders
                        /\ c.saved \in Access!WholeFolders
      /\ files' \in Access!Folders /\ host' \in Names /\ site' \in Names
      /\ count \in Counts /\ count' = count
  BY <1>1 DEF Access!Changes, Access!AllChanges, Access!MadeOfWhole, Access!Holding, Access!Typed, Counts
<1>4. ASSUME ~count.torn, files.cert = c.new.cert, files.marker = c.new.marker, files.old = c.new.old
      PROVE  files = c.new
  BY <1>3, <1>4 DEF Access!WholeFolders, Access!Folders
<1>5. c.alone => /\ host' = c.before /\ site' = c.siteBefore
                 /\ ~count.torn /\ c.new.cert # c.saved.cert => files'.cert # c.new.cert
  <2> SUFFICES ASSUME c.alone
               PROVE  /\ host' = c.before /\ site' = c.siteBefore
                      /\ ~count.torn /\ c.new.cert # c.saved.cert => files'.cert # c.new.cert
    OBVIOUS
  <2>1. /\ host = c.before /\ site = (IF c.kind = "rename" THEN c.host ELSE c.siteBefore)
        /\ ~count.torn /\ c.new.cert # c.saved.cert /\ files.cert = c.new.cert =>
             files.marker = c.new.marker /\ files.old = c.new.old
    BY <1>1, <1>2, OnlyOne DEF Access!HostAt, Access!SiteAt
  <2>2. host' = c.before /\ site' = c.siteBefore
    BY <1>1, <2>1
  <2>3. ~count.torn /\ c.new.cert # c.saved.cert => files'.cert # c.new.cert
    BY <1>1, <1>4, <2>1
  <2>4. QED
    BY <2>2, <2>3
<1>6. ~count'.torn => files' \in Access!WholeFolders
  BY <1>1, <1>3
<1>7. QED
  BY <1>1, <1>2, <1>3, <1>5, <1>6, RefusedKeeps

\* Putting back fails, in the files or at site.env.
LEMMA UndoFailsKeeps ==
  ASSUME Access!AccessInv, NEW a \in Access!Actors, Access!UndoFails(a)
  PROVE  Access!AccessInv'
<1> USE DEF Access!AccessInv
<1> DEFINE c == doing[a]
<1>1. /\ c \in Access!Changes /\ c.at = "undo_files" /\ c.kind # "upkeep" /\ c.kind # "none" /\ lock = "free"
      /\ UNCHANGED <<host, site, lock>> /\ Access!Faulted(c.saved, files) /\ Access!Ends(a) /\ Access!Busy(a)
      /\ c.saved \in Access!Folders /\ c.new \in Access!Folders /\ files \in Access!Folders
      /\ host \in Names /\ site \in Names /\ count \in Counts
  BY DEF Access!UndoFails, Access!Typed, Access!Changes, Access!AllChanges, Counts, Access!Busy
<1>2. a # Upkeep
  BY <1>1 DEF Access!Typed
<1>3. /\ count' \in Counts /\ count'.changes = count.changes /\ (count.torn => count'.torn)
      /\ ~count'.torn => ~count.torn /\ files' \in {c.saved, files}
  BY <1>1, FaultedCounts
<1>4. ~count'.torn => files' \in Access!WholeFolders
  BY <1>1, <1>3 DEF Access!Holding, Access!MadeOfWhole
<1>5. files' \in Access!Folders
  <2>1. CASE \E p \in Access!Restored : files' = Access!Mixed(c.saved, c.new, Access!AllFiles \ p)
    <3>1. PICK p \in Access!Restored : files' = Access!Mixed(c.saved, c.new, Access!AllFiles \ p)
      BY <2>1
    <3>2. QED
      BY <1>1, <3>1, MixedFolder
  <2>2. CASE files' \in {c.saved, files}
    BY <1>1, <2>2
  <2>3. QED
    BY <2>1, <2>2 DEF Access!UndoFails
<1>6. QED
  BY <1>1, <1>2, <1>3, <1>4, <1>5, EndsKeeps

\* A change begins: it has a number of its own, and an admin's change is no longer the only one of any other.
LEMMA BeginsKeeps ==
  ASSUME Access!AccessInv, NEW a \in Access!Actors, NEW kind \in {"rename", "upload", "generate", "upkeep"},
         NEW n \in Names, NEW names \in SUBSET Names, Access!Begins(a, kind, n, names), kind = "upkeep" <=> a = Upkeep
  PROVE  Access!AccessInv'
<1> USE DEF Access!AccessInv
<1> DEFINE d == [Access!Ended("planned") EXCEPT !.kind = kind, !.host = n, !.names = names, !.serial = count.changes + 1,
                   !.before = host, !.siteBefore = site, !.alone = a # Upkeep /\ \A c \in Admins \ {a} : ~Access!Busy(c)]
           none == Access!Files("none")
<1>1. /\ UNCHANGED <<host, site, files, lock>> /\ host \in Names /\ site \in Names /\ count.changes \in Nat
      /\ count' \in Counts /\ count'.changes = count.changes + 1
      /\ ~Access!Busy(a)
  <2>1. count \in Counts /\ count' = [count EXCEPT !.changes = @ + 1]
    BY DEF Access!Begins, Access!Typed, Counts
  <2>2. /\ count.changes \in Nat /\ count'.changes = count.changes + 1
        /\ count' \in Counts
    BY <2>1 DEF Counts
  <2>3. QED
    BY <2>2 DEF Access!Begins, Access!Typed
<1>2. /\ d.at = "planned" /\ d.kind = kind /\ d.host = n /\ d.before = host /\ d.siteBefore = site
      /\ d.serial = count.changes + 1 /\ d.saved = none /\ d.new = none
      /\ d.alone = (a # Upkeep /\ \A c \in Admins \ {a} : ~Access!Busy(c)) /\ (kind = "rename" => n # host)
  BY DEF Access!Ended, Access!Begins
<1>3. d \in Access!Changes /\ Access!MadeOfWhole(d)
  <2>1. none \in Access!WholeFolders /\ none \in Access!Folders
    BY DEF Access!Files, Access!Cert, Access!NoOld, Access!WholeFolders, Access!Folders, Access!Hosts
  <2>2. d \in Access!AllChanges
    <3> DEFINE only == a # Upkeep /\ \A c \in Admins \ {a} : ~Access!Busy(c)
    <3>1. only \in BOOLEAN
      OBVIOUS
    <3> HIDE DEF only
    <3> DEFINE e == Access!Ended("planned")
               f == [e EXCEPT !.kind = kind, !.host = n, !.names = names]
               g == [f EXCEPT !.serial = count.changes + 1, !.before = host, !.siteBefore = site]
    <3>2. e \in Access!AllChanges
      BY <1>1, <2>1 DEF Access!Ended, Access!AllChanges, Access!Stages, Access!Hosts
    <3> HIDE DEF e
    <3>3. f \in Access!AllChanges
      BY <3>2 DEF Access!AllChanges, Access!Hosts
    <3> HIDE DEF f
    <3>4. g \in Access!AllChanges
      <4> DEFINE next == count.changes + 1
      <4>1. next \in Nat /\ host \in Names /\ site \in Names
        BY <1>1
      <4> HIDE DEF next
      <4>2. [f EXCEPT !.serial = next, !.before = host, !.siteBefore = site] \in Access!AllChanges
        BY <3>3, <4>1 DEF Access!AllChanges, Access!Hosts
      <4>3. QED
        BY <4>2 DEF next
    <3> HIDE DEF g
    <3>5. [g EXCEPT !.alone = only] \in Access!AllChanges
      BY <3>1, <3>4 DEF Access!AllChanges
    <3>6. QED
      BY <3>5 DEF e, f, g, only
  <2>3. none.cert.name # "org"
    BY DEF Access!Files, Access!Cert
  <2> HIDE DEF d, none
  <2>4. QED
    BY <1>1, <1>2, <2>1, <2>2, <2>3 DEF Access!Changes, Access!MadeOfWhole
<1>4. doing' = [b \in Access!Actors |->
                 IF b = a THEN d
                 ELSE IF a = Upkeep \/ doing[b].kind = "none" THEN doing[b]
                 ELSE IF doing[b].at = "refused" THEN Access!Ended("idle") ELSE [doing[b] EXCEPT !.alone = FALSE]]
  BY DEF Access!Begins
<1> HIDE DEF d, none
<1>5. doing'[a] = d
  BY <1>4
<1>6. ASSUME NEW b \in Access!Actors, b # a
      PROVE  /\ doing'[b] \in Access!Changes /\ (Access!MadeOfWhole(doing[b]) => Access!MadeOfWhole(doing'[b]))
             /\ Access!Busy(b)' <=> Access!Busy(b)
             /\ doing'[b].kind # "none" => /\ doing'[b].at = doing[b].at /\ doing'[b].kind = doing[b].kind
                                           /\ doing'[b].serial = doing[b].serial
                                           /\ doing'[b].saved = doing[b].saved /\ doing'[b].new = doing[b].new
             /\ doing'[b].kind = "none" => doing'[b].at = "idle" /\ doing[b].at \notin {"cert", "site"}
             /\ doing'[b].kind # "none" /\ doing'[b].alone => a = Upkeep /\ doing'[b] = doing[b]
  <2>1. doing[b] \in Access!Changes
    BY DEF Access!Typed
  <2>2. CASE a = Upkeep \/ doing[b].kind = "none"
    <3>1. doing'[b] = doing[b]
      BY <1>4, <1>6, <2>2
    <3>2. doing[b].kind = "none" => doing[b].at = "idle"
      BY <2>1 DEF Access!Changes
    <3>3. doing[b].kind # "none" => a = Upkeep
      BY <2>2
    <3>4. QED
      BY <2>1, <3>1, <3>2, <3>3 DEF Access!Busy
  <2>3. CASE ~(a = Upkeep \/ doing[b].kind = "none") /\ doing[b].at = "refused"
    <3>1. doing'[b] = Access!Ended("idle")
      BY <1>4, <1>6, <2>3
    <3>2. QED
      BY <2>3, <3>1, ChangeEnded DEF Access!Busy
  <2>4. CASE ~(a = Upkeep \/ doing[b].kind = "none") /\ doing[b].at # "refused"
    <3> DEFINE e == [doing[b] EXCEPT !.alone = FALSE]
    <3>1. doing'[b] = e
      BY <1>4, <1>6, <2>4
    <3>2. /\ e \in Access!AllChanges /\ e.alone = FALSE
          /\ e.at = doing[b].at /\ e.kind = doing[b].kind /\ e.host = doing[b].host /\ e.before = doing[b].before
          /\ e.siteBefore = doing[b].siteBefore /\ e.serial = doing[b].serial
          /\ e.saved = doing[b].saved /\ e.new = doing[b].new
      BY <2>1 DEF Access!Changes, Access!AllChanges
    <3> HIDE DEF e
    <3>3. e \in Access!Changes /\ (Access!MadeOfWhole(doing[b]) => Access!MadeOfWhole(e))
      BY <2>1, <3>2 DEF Access!Changes, Access!MadeOfWhole
    <3>4. QED
      BY <2>4, <3>1, <3>2, <3>3 DEF Access!Busy
  <2>5. QED
    BY <2>2, <2>3, <2>4
<1>7. Access!Typed'
  <2>1. doing' \in [Access!Actors -> Access!Changes]
    <3>1. \A b \in Access!Actors : doing'[b] \in Access!Changes
      BY <1>3, <1>5, <1>6
    <3>2. QED
      BY <1>4, <3>1
  <2>2. \A b \in Access!Actors : doing'[b].kind = "upkeep" => b = Upkeep
    BY <1>2, <1>5, <1>6 DEF Access!Typed
  <2>3. doing'[Upkeep].kind \in {"none", "upkeep"}
    BY <1>2, <1>5, <1>6 DEF Access!Typed, Access!Actors
  <2>4. QED
    BY <1>1, <2>1, <2>2, <2>3 DEF Access!Typed, Counts
<1>8. Access!Holding'
  <2>1. doing[a].at \notin {"cert", "site"}
    BY <1>1 DEF Access!Busy
  <2>2. lock # "free" => lock \in Access!Actors /\ lock # a
    BY <2>1 DEF Access!Holding, Access!Typed
  <2>3. \A b \in Access!Actors : doing'[b].at \in {"cert", "site"} \/ doing[b].at \in {"cert", "site"} =>
          /\ doing'[b].at = doing[b].at /\ doing'[b].saved = doing[b].saved /\ doing'[b].new = doing[b].new
    BY <1>2, <1>5, <1>6, <2>1 DEF Access!Typed
  <2>4. count'.torn = count.torn
    BY DEF Access!Begins, Access!Typed
  <2>5. ~count.torn => \A b \in Access!Actors : Access!MadeOfWhole(doing'[b])
    BY <1>3, <1>5, <1>6 DEF Access!Holding
  <2>6. QED
    BY <1>1, <2>2, <2>3, <2>4, <2>5 DEF Access!Holding, Access!MadeOfWhole
<1>9. Access!Numbered'
  <2>1. \A b \in Access!Actors : b # a /\ doing'[b].kind # "none" => doing'[b].serial \in 1..count.changes
    BY <1>6 DEF Access!Numbered
  <2>2. doing'[a].serial = count.changes + 1
    BY <1>2, <1>5
  <2>3. \A b \in Access!Actors : doing'[b].kind # "none" => doing'[b].serial \in 1..count'.changes
    BY <1>1, <2>1, <2>2
  <2>4. ASSUME NEW b \in Access!Actors, NEW e \in Access!Actors, doing'[b].kind # "none", doing'[e].kind # "none",
               doing'[b].serial = doing'[e].serial
        PROVE  b = e
    <3>1. CASE b # a /\ e # a
      BY <1>6, <2>4, <3>1 DEF Access!Numbered
    <3>2. CASE b = a \/ e = a
      BY <1>1, <2>1, <2>2, <2>4, <3>2
    <3>3. QED
      BY <3>1, <3>2
  <2>5. QED
    BY <2>3, <2>4 DEF Access!Numbered
<1>10. ASSUME NEW b \in Admins PROVE Access!AloneAt(b)'
  <2>1. b \in Access!Actors /\ \A c \in Admins : c \in Access!Actors
    BY DEF Access!Actors
  <2>2. CASE b = a
    <3> SUFFICES ASSUME d.alone PROVE Access!AloneAt(b)'
      BY <1>5, <2>2 DEF Access!AloneAt
    <3>1. \A c \in Admins \ {b} : ~Access!Busy(c)'
      BY <1>2, <1>6, <2>1, <2>2
    <3>2. QED
      BY <1>1, <1>2, <1>5, <2>2, <3>1 DEF Access!AloneAt, Access!HostAt, Access!SiteAt
  <2>3. CASE b # a
    <3> SUFFICES ASSUME doing'[b].kind # "none", doing'[b].alone PROVE Access!AloneAt(b)'
      BY DEF Access!AloneAt
    <3>1. a = Upkeep /\ doing'[b] = doing[b]
      BY <1>6, <2>1, <2>3
    <3>2. \A c \in Admins \ {b} : ~Access!Busy(c)
      BY <3>1 DEF Access!Alone, Access!AloneAt
    <3>3. \A c \in Admins : c # a
      BY <3>1, NamesAssumption
    <3>4. \A c \in Admins \ {b} : ~Access!Busy(c)'
      BY <1>6, <2>1, <3>2, <3>3
    <3>5. count'.torn = count.torn
      BY DEF Access!Begins, Access!Typed
    <3>6. QED
      BY <1>1, <3>1, <3>4, <3>5 DEF Access!Alone, Access!AloneAt, Access!HostAt, Access!SiteAt
  <2>4. QED
    BY <2>2, <2>3
<1>11. QED
  BY <1>7, <1>8, <1>9, <1>10 DEF Access!Alone

\* nginx's watcher and the clock change neither the files nor a change.
LEMMA WatchKeeps ==
  ASSUME Access!AccessInv, UNCHANGED <<host, site, files, lock, doing>>,
         count' \in Counts, count'.changes = count.changes, count'.torn = count.torn
  PROVE  Access!AccessInv'
BY DEF Access!AccessInv, Access!Typed, Access!Holding, Access!Numbered, Access!Alone, Access!AloneAt, Access!HostAt,
       Access!SiteAt, Access!Busy, Access!MadeOfWhole, Counts

\* Installed with NetRollout's own certificate.
LEMMA AccessInit == ASSUME Access!Init PROVE Access!AccessInv
<1>1. /\ host = First /\ site = First /\ First \in Names /\ First # "org"
      /\ lock = "free" /\ doing = [a \in Access!Actors |-> Access!Ended("idle")]
      /\ count = [changes |-> 0, faults |-> 0, weeks |-> 0, torn |-> FALSE]
  BY NamesAssumption DEF Access!Init
<1>2. files \in Access!WholeFolders /\ files \in Access!Folders
  <2>1. files = [cert |-> [serial |-> 0, name |-> First, names |-> {First}], key |-> 0, marker |-> TRUE,
                 old |-> Access!NoOld]
    BY DEF Access!Init, Access!Files, Access!Cert
  <2>2. QED
    BY <1>1, <2>1 DEF Access!NoOld, Access!WholeFolders, Access!Folders, Access!Hosts
<1>3. \A a \in Access!Actors : /\ doing[a] \in Access!Changes /\ Access!MadeOfWhole(doing[a])
                                /\ doing[a].at = "idle" /\ doing[a].kind = "none"
  BY <1>1, ChangeEnded
<1>4. Access!Typed
  <2>1. doing \in [Access!Actors -> Access!Changes]
    BY <1>1, ChangeEnded
  <2>2. QED
    BY <1>1, <1>2, <1>3, <2>1 DEF Access!Typed, Access!Actors
<1>5. Access!Holding
  BY <1>1, <1>2, <1>3 DEF Access!Holding
<1>6. Access!Numbered
  BY <1>3 DEF Access!Numbered
<1>7. Access!Alone
  BY <1>3 DEF Access!Alone, Access!AloneAt, Access!Actors
<1>8. QED
  BY <1>4, <1>5, <1>6, <1>7 DEF Access!AccessInv

\* Whatever an admin, the upkeep, the watcher or the clock does next.
LEMMA AccessNext == ASSUME Access!AccessInv, Access!Next PROVE Access!AccessInv'
<1>1. CASE Access!Watcher \/ Access!Week
  <2>1. /\ UNCHANGED <<host, site, files, lock, doing>>
        /\ count' \in Counts /\ count'.changes = count.changes /\ count'.torn = count.torn
    BY <1>1 DEF Access!Watcher, Access!Week, Access!AccessInv, Access!Typed, Counts
  <2>2. QED
    BY <2>1, WatchKeeps
<1>2. ASSUME NEW a \in Access!Actors, Access!Step(a) PROVE Access!AccessInv'
  BY <1>2, LocksKeeps, WritesCertKeeps, WriteFailsKeeps, UpkeepFailsKeeps, WritesSiteKeeps, SavesSettingKeeps,
     SettingRefusedKeeps, TakesVerdictKeeps, NoAnswerKeeps, UndoesSettingKeeps, UndoesFilesKeeps, UndoFailsKeeps DEF Access!Step
<1>3. host \in Names
  BY DEF Access!AccessInv, Access!Typed
<1>4. CASE \E a \in Admins, n \in Names : Access!Begins(a, "rename", n, {})
  <2>1. PICK a \in Admins, n \in Names : Access!Begins(a, "rename", n, {})
    BY <1>4
  <2>2. a \in Access!Actors /\ a # Upkeep /\ {} \in SUBSET Names
    BY NamesAssumption DEF Access!Actors
  <2>3. QED
    BY <2>1, <2>2, BeginsKeeps
<1>5. CASE \E a \in Admins, names \in Uploads : Access!Begins(a, "upload", host, names)
  <2>1. PICK a \in Admins, names \in Uploads : Access!Begins(a, "upload", host, names)
    BY <1>5
  <2>2. a \in Access!Actors /\ a # Upkeep /\ names \in SUBSET Names
    BY NamesAssumption DEF Access!Actors
  <2>3. QED
    BY <1>3, <2>1, <2>2, BeginsKeeps
<1>6. CASE \E a \in Admins : Access!Begins(a, "generate", host, {})
  <2>1. PICK a \in Admins : Access!Begins(a, "generate", host, {})
    BY <1>6
  <2>2. a \in Access!Actors /\ a # Upkeep /\ {} \in SUBSET Names
    BY NamesAssumption DEF Access!Actors
  <2>3. QED
    BY <1>3, <2>1, <2>2, BeginsKeeps
<1>7. CASE Access!Overdue /\ Access!Begins(Upkeep, "upkeep", host, {})
  <2>1. Upkeep \in Access!Actors /\ {} \in SUBSET Names
    BY DEF Access!Actors
  <2>2. QED
    BY <1>3, <1>7, <2>1, BeginsKeeps
<1>8. QED
  BY <1>1, <1>2, <1>4, <1>5, <1>6, <1>7 DEF Access!Next

LEMMA AccessFrame == ASSUME Access!AccessInv, UNCHANGED vars PROVE Access!AccessInv'
<1>1. /\ UNCHANGED <<host, site, files, lock, doing, count>>
      /\ count \in Counts
  BY DEF vars, accessVars, Access!AccessInv, Access!Typed, Counts
<1>2. QED
  BY <1>1, WatchKeeps

\* What the invariant says of the folder and of a refused change.
LEMMA AccessWhole == ASSUME Access!AccessInv PROVE Access!TypeOK /\ Access!PairWhole /\ Access!AllOrNothing
<1> USE DEF Access!AccessInv
<1>1. Access!TypeOK
  BY DEF Access!TypeOK, Access!Typed, Access!Holding
<1>2. Access!PairWhole
  BY DEF Access!PairWhole, Access!Holding, Access!WholeFolders
<1>3. ASSUME NEW a \in Admins, doing[a].at = "refused", doing[a].alone
      PROVE  /\ host = doing[a].before /\ site = doing[a].siteBefore
             /\ ~count.torn /\ doing[a].new.cert # doing[a].saved.cert => files.cert # doing[a].new.cert
  <2>1. doing[a].kind # "none"
    BY <1>3 DEF Access!Typed, Access!Actors, Access!Changes
  <2>2. QED
    BY <1>3, <2>1 DEF Access!Alone, Access!AloneAt, Access!HostAt, Access!SiteAt
<1>4. QED
  BY <1>1, <1>2, <1>3 DEF Access!AllOrNothing

\* A new host name and the upkeep leave an organisation's certificate where it is.
LEMMA OrganisationStays == ASSUME Access!AccessInv, Access!Next PROVE Access!OrganisationKept
<1> SUFFICES ASSUME ~count.torn, files.cert.name = "org", files'.cert # files.cert
             PROVE  \E a \in Admins : doing[a].kind \in {"upload", "generate"} /\ doing'[a].at # doing[a].at
  BY DEF Access!OrganisationKept
<1> USE DEF Access!AccessInv
<1>1. PICK a \in Access!Actors : \/ Access!WritesCert(a) \/ Access!WriteFails(a) \/ Access!UpkeepFails(a)
                                 \/ Access!UndoesFiles(a) \/ Access!UndoFails(a)
  <2>1. ASSUME NEW a \in Access!Actors, Access!Locks(a) PROVE files'.cert = files.cert
    BY <2>1 DEF Access!Locks, Access!Typed, Access!Folders
  <2>2. QED
    BY <2>1 DEF Access!Next, Access!Step, Access!Begins, Access!WritesSite, Access!SavesSetting, Access!SettingRefused,
           Access!TakesVerdict, Access!NoAnswer, Access!UndoesSetting, Access!Watcher, Access!Week
<1> DEFINE c == doing[a]
<1>2. /\ c \in Access!Changes /\ c.at \in {"cert", "site", "undo_files"} /\ c.kind # "none"
      /\ c.saved \in Access!Folders /\ c.new \in Access!Folders
  BY <1>1 DEF Access!Typed, Access!Changes, Access!AllChanges, Access!WritesCert,
         Access!WriteFails, Access!UpkeepFails, Access!UndoesFiles, Access!UndoFails
<1>3. files.cert \in {c.saved.cert, c.new.cert} /\ files'.cert \in {c.saved.cert, c.new.cert}
  <2>1. CASE c.at = "cert"
    <3>1. files = [c.saved EXCEPT !.key = c.new.key]
      BY <2>1 DEF Access!Holding
    <3>2. files.cert = c.saved.cert
      BY <1>2, <3>1 DEF Access!Folders
    <3>3. files'.cert \in {c.saved.cert, c.new.cert}
      BY <1>1, <1>2, <2>1, MixedFolder DEF Access!WritesCert, Access!WriteFails, Access!UpkeepFails, Access!UndoesFiles,
             Access!UndoFails
    <3>4. QED
      BY <3>2, <3>3
  <2>2. CASE c.at = "site"
    BY <1>1, <1>2, <2>2, MixedFolder DEF Access!Holding, Access!WritesCert, Access!WriteFails, Access!UpkeepFails,
           Access!UndoesFiles, Access!UndoFails
  <2>3. CASE c.at = "undo_files"
    BY <1>1, <1>2, <2>3, MixedFolder DEF Access!WritesCert, Access!WriteFails, Access!UpkeepFails,
           Access!UndoesFiles, Access!UndoFails
  <2>4. QED
    BY <1>2, <2>1, <2>2, <2>3
<1>4. c.kind \in {"upload", "generate"}
  BY <1>2, <1>3 DEF Access!Changes, Access!AllChanges, Access!Holding, Access!MadeOfWhole
<1>5. a \in Admins
  BY <1>4 DEF Access!Typed, Access!Actors
<1>6. doing'[a].at # c.at
  BY <1>1, <1>2, <1>4, ChangeEnded DEF Access!WritesCert, Access!WriteFails, Access!UpkeepFails, Access!UndoesFiles,
         Access!UndoFails, Access!Goes, Access!Ends, Access!Refused, Access!AfterFiles,
         Access!Typed, Access!Changes, Access!AllChanges
<1>7. QED
  BY <1>4, <1>5, <1>6

\* Between changes the folder holds a certificate with its own key; a refused change, when it is the only one
\* of an admin, leaves names and certificate as they were; and an organisation's certificate goes only by a
\* person's hand: for any admins, names, certificates, failures and weeks.
THEOREM AccessIsSafe == Spec => AccessSafe
<1> DEFINE Inv == part = "access" => Access!AccessInv
<1>1. Init => Inv
  BY AccessInit DEF Init
<1>2. Inv /\ [Next]_vars => Inv'
  <2> SUFFICES ASSUME Inv, [Next]_vars, part' = "access" PROVE Access!AccessInv'
    OBVIOUS
  <2>1. CASE Next
    <3>1. part = "access" /\ Access!Next
      BY <2>1 DEF Next
    <3>2. QED
      BY <3>1, AccessNext
  <2>2. CASE UNCHANGED vars
    <3>1. part = "access"
      BY <2>2 DEF vars
    <3>2. QED
      BY <2>2, <3>1, AccessFrame
  <2>3. QED
    BY <2>1, <2>2
<1>3. Inv => (part = "access" => Access!TypeOK /\ Access!PairWhole /\ Access!AllOrNothing)
  BY AccessWhole
<1>4. Inv /\ [Next]_vars => [part = "access" => Access!OrganisationKept]_vars
  BY OrganisationStays DEF Next
<1>5. QED
  BY <1>1, <1>2, <1>3, <1>4, PTL DEF Spec, AccessSafe
=============================================================================
