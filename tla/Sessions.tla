------------------------------ MODULE Sessions ------------------------------
(***************************************************************************)
(* The signed-in sessions in Redis (SessionStore in                        *)
(* src/src/accounts/users.py, the session interface in webapp/build.py,    *)
(* the lifetime in webapp/hooks.py): a request reads its session when it   *)
(* begins and, when it changed it, writes the whole of it when it ends.    *)
(* Several requests of a browser are handled at once: a person's, and the  *)
(* page's own (background), which are no activity.  Meanwhile sessions end *)
(* by their limits, by a sign-out, after a password change, by an admin.   *)
(***************************************************************************)
EXTENDS Naturals, FiniteSets

CONSTANTS
  Users,
  Sids,        \* session ids, in the order they are made (1..n)
  Requests,    \* requests that may be handled at the same time
  Gone,        \* nothing is stored
  IdleLimit,   \* session_idle_minutes
  Absolute,    \* ABSOLUTE_SESSION_HOURS
  MaxRequests, \* how many requests come
  MaxTime

VARIABLES
  now,
  store,    \* sid -> [user, since, last] as stored
  made,     \* how many sids were made
  served,   \* how many requests came
  req,      \* request -> what is handled; Gone: nothing
  active,   \* (history) sid -> when a person last did something in it
  ended,    \* (history) the sids that end_for was to end
  late      \* (history) sids that a request wrote back which had read them before end_for deleted them

vars == <<now, store, made, served, req, active, ended, late>>

Init ==
  /\ now = 0 /\ made = 0 /\ served = 0
  /\ store = [s \in Sids |-> Gone]
  /\ req = [r \in Requests |-> Gone]
  /\ active = [s \in Sids |-> 0]
  /\ ended = {} /\ late = {}

-----------------------------------------------------------------------------
(* Requests *)

IdleLeft(data) == data.last + IdleLimit > now
AbsoluteLeft(data) == data.since + Absolute > now
\* seconds_left, both
Lives(data) == IdleLeft(data) /\ AbsoluteLeft(data)

\* (a plausible bug: a page's own request is activity)
TouchedAny(data, person) == [data EXCEPT !.last = now]
\* What a person does is activity; a background request is none, and leaves the session as it is.
Touched(data, person) == IF person THEN [data EXCEPT !.last = now] ELSE data

\* enforce_session_lifetime, then the page: kind is what the request is for
Begins(r, s, kind) ==
  LET person == kind # "poll"
  IN  /\ req[r] = Gone /\ store[s] # Gone /\ served < MaxRequests /\ served' = served + 1
      /\ req' = [req EXCEPT ![r] =
           IF Lives(store[s])
           THEN [kind |-> kind, sid |-> s, read |-> store[s], data |-> Touched(store[s], person), todo |-> {}]
           ELSE [kind |-> "expired", sid |-> s, read |-> store[s], data |-> Gone, todo |-> {}]]
      /\ active' = IF person /\ Lives(store[s]) THEN [active EXCEPT ![s] = now] ELSE active
      /\ UNCHANGED <<now, store, made, ended, late>>

\* save_session: what was changed (every request of a person's changes its clock) is written, what was cleared
\* is deleted
Saves(r, data) ==
  store' = IF req[r].kind = "poll" /\ data = req[r].read THEN store ELSE [store EXCEPT ![req[r].sid] = data]

\* The answer to a page, a poll, a sign-out (logout) or a session that has ended
Answers(r) ==
  LET data == IF req[r].kind \in {"logout", "expired"} THEN Gone ELSE req[r].data
  IN  /\ req[r] # Gone /\ req[r].kind \in {"page", "poll", "logout", "expired"}
      /\ Saves(r, data)
      /\ late' = IF req[r].sid \in ended /\ req[r].kind = "page" THEN late \cup {req[r].sid} ELSE late
      /\ req' = [req EXCEPT ![r] = Gone]
      /\ UNCHANGED <<now, served, made, active, ended>>

\* regenerate: a new id
NewSid == made + 1

\* _sign_in: the user's session under a new id, both clocks started; a browser's earlier session is replaced.
SignsIn(u) ==
  /\ NewSid \in Sids
  /\ made' = NewSid
  /\ store' = [store EXCEPT ![NewSid] = [user |-> u, since |-> now, last |-> now]]
  /\ active' = [active EXCEPT ![NewSid] = now]
  /\ UNCHANGED <<now, served, req, ended, late>>

-----------------------------------------------------------------------------
(* Ending a user's sessions *)

OfUser(u) == {s \in Sids : store[s] # Gone /\ store[s].user = u}

\* (a plausible bug: sessions that have run out, and are still stored, are left alone)
ToEndLive(u, keep) == {s \in OfUser(u) \ keep : Lives(store[s])}
\* end_for: every stored session of the user but the one that is kept
ToEnd(u, keep) == OfUser(u) \ keep

\* change_password: the password is stored, the old id deleted (regenerate), then the scan for the others;
\* an admin's Terminate, kick or password reset: the scan for all of u's.
Scans(r, u) ==
  /\ req[r] # Gone
  /\ \/ req[r].kind = "change" /\ req[r].data.user = u /\ NewSid \in Sids
        /\ made' = NewSid /\ store' = [store EXCEPT ![req[r].sid] = Gone]
        /\ active' = [active EXCEPT ![NewSid] = now]
        /\ req' = [req EXCEPT ![r] = [@ EXCEPT !.kind = "scan", !.sid = NewSid, !.read = Gone,
                                               !.todo = ToEnd(u, {req[r].sid})]]
     \/ req[r].kind = "kick" /\ req[r].data.user # u
        /\ req' = [req EXCEPT ![r] = [@ EXCEPT !.kind = "scan", !.todo = ToEnd(u, {})]]
        /\ UNCHANGED <<made, store, active>>
  /\ ended' = ended \cup (OfUser(u) \ (IF req[r].kind = "kick" THEN {} ELSE {NewSid}))
  /\ UNCHANGED <<now, served, late>>

\* One session of the scan is read again and deleted.
Deletes(r, s) ==
  /\ req[r] # Gone /\ req[r].kind = "scan" /\ s \in req[r].todo
  /\ store' = [store EXCEPT ![s] = Gone]
  /\ late' = late \ {s}
  /\ req' = [req EXCEPT ![r].todo = @ \ {s}]
  /\ UNCHANGED <<now, served, made, active, ended>>

\* The scan is done; the request's own session is stored.
Scanned(r) ==
  /\ req[r] # Gone /\ req[r].kind = "scan" /\ req[r].todo = {}
  /\ Saves(r, req[r].data)
  /\ late' = IF req[r].sid \in ended THEN late \cup {req[r].sid} ELSE late
  /\ req' = [req EXCEPT ![r] = Gone]
  /\ UNCHANGED <<now, served, made, active, ended>>

\* clear_all: every start signs everyone out
Restart ==
  /\ \E s \in Sids : store[s] # Gone
  /\ store' = [s \in Sids |-> Gone] /\ req' = [r \in Requests |-> Gone] /\ late' = {}
  /\ UNCHANGED <<now, served, made, active, ended>>

Tick == now < MaxTime /\ now' = now + 1 /\ UNCHANGED <<store, made, served, req, active, ended, late>>

Next ==
  \/ \E r \in Requests :
       \/ \E s \in Sids, kind \in {"page", "poll", "logout", "change", "kick"} : Begins(r, s, kind)
       \/ Answers(r) \/ Scanned(r)
       \/ \E u \in Users : Scans(r, u)
       \/ \E s \in Sids : Deletes(r, s)
  \/ \E u \in Users : SignsIn(u)
  \/ Restart \/ Tick

Spec == Init /\ [][Next]_vars

-----------------------------------------------------------------------------
(* Properties: of states, and of steps (those with primes) *)

\* A stored session has a user and clocks that have not run ahead; what a scan still has to end was stored.
TypeOK ==
  /\ now \in 0..MaxTime /\ made \in 0..Cardinality(Sids)
  /\ \A s \in Sids : store[s] # Gone =>
       s <= made /\ store[s].user \in Users /\ store[s].since <= store[s].last /\ store[s].last <= now

\* A page left open keeps nobody signed in: a request is served only within the idle limit of what a person
\* last did in that session, and within the absolute limit, however its requests overtake each other.
ServedInTime ==
  \A r \in Requests : req[r] = Gone /\ req'[r] # Gone /\ req'[r].kind # "expired" =>
     /\ active[req'[r].sid] + IdleLimit > now
     /\ req'[r].read.since + Absolute > now

\* Sign out everywhere (end_for): once nobody is still scanning, a session of the user that was stored then is
\* stored again only when a request wrote it back that was being handled already.
EndedStays ==
  \A s \in ended : store[s] # Gone => s \in late \/ \E r \in Requests : req[r] # Gone /\ s \in req[r].todo

\* Sign out everywhere, as its comments have it: every session of theirs is ended.
AllEnded == (\A r \in Requests : req[r] # Gone => req[r].todo = {}) => \A s \in ended : store[s] = Gone

(***************************************************************************)
(* Why they hold.  A session's last activity is never later than what a    *)
(* person did, in Redis or in the hands of a request; and whoever could    *)
(* store an ended one again is noted when it does.                         *)
(***************************************************************************)
Data == [user : Users, since : Nat, last : Nat]
Kinds == {"page", "poll", "logout", "change", "kick", "scan", "expired"}
Handled == [kind : Kinds, sid : Sids, read : Data \cup {Gone}, data : Data \cup {Gone}, todo : SUBSET Sids]

\* What is stored, and what a request has in hand of its session.
Stored ==
  /\ now \in 0..MaxTime /\ made \in 0..Cardinality(Sids)
  /\ store \in [Sids -> Data \cup {Gone}] /\ active \in [Sids -> Nat] /\ \A s \in Sids : active[s] <= now
  /\ \A s \in Sids : store[s] # Gone =>
       s <= made /\ store[s].since <= store[s].last /\ store[s].last <= active[s]

InHand ==
  /\ req \in [Requests -> Handled \cup {Gone}]
  /\ \A r \in Requests : req[r] # Gone =>
       /\ req[r].sid <= made /\ \A s \in req[r].todo : s <= made
       /\ req[r].kind # "scan" => req[r].todo = {}
       /\ req[r].kind = "poll" => req[r].data = req[r].read
       /\ req[r].kind # "expired" =>
            /\ req[r].data \in Data /\ req[r].data.since <= req[r].data.last
            /\ req[r].data.last <= active[req[r].sid]

EndedMade == ended \subseteq Sids /\ \A s \in ended : s <= made

StayInv == Stored /\ InHand /\ EndedMade /\ EndedStays
=============================================================================
