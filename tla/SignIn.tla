------------------------------- MODULE SignIn -------------------------------
(***************************************************************************)
(* A local account's sign-in: the stop of a typed name (SignInThrottle),   *)
(* the account's lock and its count of wrong passwords                     *)
(* (src/src/accounts/users.py), and the way from the password through the  *)
(* code or the enrolment to a session (webapp/blueprints/auth.py), from    *)
(* several browsers at once, next to what an admin does to the account.  A *)
(* request reads the account's row first and writes it later: of the row   *)
(* only the columns that it changed, the count in the database itself.     *)
(***************************************************************************)
EXTENDS Naturals, FiniteSets

CONSTANTS
  Browsers,
  None,              \* no authenticator
  MaxFailed,         \* MAX_FAILED_PASSWORDS
  DisableAfter,      \* DISABLE_AFTER
  MaxWrongCodes,     \* MAX_WRONG_CODES
  MaxSteps           \* how many requests and admin's actions come

VARIABLES
  factory,   \* whether the account is the factory admin's
  acc,       \* the account's row
  stop,      \* the typed name in Redis: its failures, and whether it is stopped
  session,   \* browser -> its session's data
  req,       \* browser -> the request that is handled for it
  wrongs,    \* (history) wrong passwords that counted, since the last right one or the last unlock
  steps

vars == <<factory, acc, stop, session, req, wrongs, steps>>

Fresh == [pre |-> FALSE, pending |-> FALSE, codes |-> 0, in |-> FALSE, proved |-> {}]
Idle == [at |-> "idle"]
Rows == [active : BOOLEAN, fails : 0..(DisableAfter + Cardinality(Browsers)), lock : {"none", "held", "past"},
         otp : Browsers \cup {None}]

Init ==
  /\ factory \in BOOLEAN
  /\ acc = [active |-> TRUE, fails |-> 0, lock |-> "none", otp |-> None]
  /\ stop = [fails |-> 0, held |-> FALSE]
  /\ session = [b \in Browsers |-> Fresh]
  /\ req = [b \in Browsers |-> Idle]
  /\ wrongs = 0 /\ steps = 0

Steps == steps < MaxSteps /\ steps' = steps + 1
Goes(b, there) == req' = [req EXCEPT ![b] = [@ EXCEPT !.at = there]]
Ends(b) == req' = [req EXCEPT ![b] = Idle]

-----------------------------------------------------------------------------
(* The password *)

\* login: a name that is stopped is refused before anything is read; else the row is read.
Login(b, right) ==
  /\ Steps /\ req[b] = Idle /\ ~session[b].in
  /\ IF stop.held
     THEN session' = [session EXCEPT ![b].pre = FALSE] /\ UNCHANGED req
     ELSE req' = [req EXCEPT ![b] = [at |-> "password", right |-> right, row |-> acc]] /\ UNCHANGED session
  /\ UNCHANGED <<factory, acc, stop, wrongs>>

\* login_local, lock_minutes_left: no password is checked while the lock (as it was read) holds.
Locked(b) ==
  /\ req[b].at = "password" /\ req[b].row.lock = "held"
  /\ Goes(b, "failed")
  /\ UNCHANGED <<factory, acc, stop, session, wrongs, steps>>

Limit == IF factory THEN MaxFailed ELSE DisableAfter
Counted(row) == row.active     \* approved and active
\* (a plausible bug: whatever lock there is is lifted)
LockReadAny(row) == "none"
\* The lock after lock_minutes_left: one that had run out when it was read is lifted.
LockRead(row) == IF row.lock = "past" THEN "none" ELSE acc.lock

\* (a plausible bug: one more than the request had read)
CountAfterRead(row) == row.fails + 1
\* password_failed: one more than the database has now
CountAfter(row) == acc.fails + 1

\* password_failed, written: the count; at the MaxFailed-th the lock, at the DisableAfter-th disabled.
WrongPassword(b) ==
  LET row == req[b].row
      count == CountAfter(row)
  IN  /\ req[b].at = "password" /\ row.lock # "held" /\ ~req[b].right
      /\ acc' = IF ~Counted(row) THEN [acc EXCEPT !.lock = LockRead(row)]
                ELSE IF factory
                     THEN [acc EXCEPT !.fails = IF count < MaxFailed THEN count ELSE 0,
                                      !.lock = IF count < MaxFailed THEN LockRead(row) ELSE "held"]
                ELSE [acc EXCEPT !.fails = count, !.active = IF count >= DisableAfter THEN FALSE ELSE @,
                                 !.lock = IF count = MaxFailed THEN "held" ELSE LockRead(row)]
      /\ wrongs' = IF ~Counted(row) THEN wrongs
                   ELSE IF factory /\ count >= MaxFailed THEN 0 ELSE wrongs + 1
      /\ Goes(b, "failed")
      /\ UNCHANGED <<factory, stop, session, steps>>

\* SignInThrottle.failed: one more; the MaxFailed-th stops the name, in a second call.
Failed(b) ==
  /\ req[b].at = "failed"
  /\ stop' = [stop EXCEPT !.fails = @ + 1]
  /\ session' = [session EXCEPT ![b].pre = FALSE]
  /\ IF stop.fails + 1 < MaxFailed THEN Ends(b) ELSE Goes(b, "stopping")
  /\ UNCHANGED <<factory, acc, wrongs, steps>>

Stops(b) ==
  /\ req[b].at = "stopping"
  /\ stop' = [fails |-> 0, held |-> TRUE]
  /\ Ends(b)
  /\ UNCHANGED <<factory, acc, session, wrongs, steps>>

\* (a plausible bug: only an account that has an authenticator is asked for a code)
NeedsSecondFactorIfAny(row) == row.otp # None
\* needs_second_factor
NeedsSecondFactor(row) == ~factory \/ row.otp # None

\* A signed-in session; login_user refuses an account whose row, as it was read, is disabled.
SignedIn(s, row, proof) ==
  [s EXCEPT !.pre = FALSE, !.pending = FALSE, !.codes = 0, !.in = row.active, !.proved = @ \cup proof]

\* password_ok, cleared; then disabled, signed in, or on to the code (complete_login, start_otp_flow)
RightPassword(b) ==
  LET row == req[b].row
  IN  /\ req[b].at = "password" /\ row.lock # "held" /\ req[b].right
      /\ acc' = [acc EXCEPT !.fails = IF row.fails # 0 THEN 0 ELSE @, !.lock = LockRead(row)]
      /\ wrongs' = 0
      /\ stop' = [fails |-> 0, held |-> FALSE]
      /\ session' = [session EXCEPT ![b] =
           IF ~row.active THEN [@ EXCEPT !.pre = FALSE]
           ELSE IF ~NeedsSecondFactor(row) THEN SignedIn(Fresh, row, {"password"})
           ELSE [@ EXCEPT !.pre = TRUE, !.codes = 0, !.proved = {"password"}]]
      /\ Ends(b)
      /\ UNCHANGED <<factory, steps>>

-----------------------------------------------------------------------------
(* The code *)

\* (a plausible bug: one wrong code more than the limit is let through)
LastCodeOver(codes) == codes > MaxWrongCodes
\* _wrong_code: the MaxWrongCodes-th drops the half-done sign-in.
LastCode(codes) == codes >= MaxWrongCodes
WrongCode(b) ==
  LET codes == session[b].codes + 1
  IN  /\ Steps /\ req[b] = Idle /\ session[b].pre /\ (acc.otp # None \/ session[b].pending)
      /\ session' = [session EXCEPT ![b] =
           IF LastCode(codes) THEN [@ EXCEPT !.pre = FALSE, !.pending = FALSE, !.codes = 0]
           ELSE [@ EXCEPT !.codes = codes]]
      /\ UNCHANGED <<factory, acc, stop, req, wrongs>>

\* otp_verify: a code of the stored authenticator
OtpVerify(b) ==
  /\ Steps /\ req[b] = Idle /\ session[b].pre /\ acc.otp # None
  /\ session' = [session EXCEPT ![b] = SignedIn(@, acc, {"code"})]
  /\ UNCHANGED <<factory, acc, stop, req, wrongs>>

\* (a plausible bug: a new authenticator may be enrolled with the password alone)
MayEnrollAny(row) == TRUE
\* otp_enroll goes to the code page when the account has an authenticator.
MayEnroll(row) == row.otp = None

\* otp_enroll, GET: a secret of this browser's
OtpShow(b) ==
  /\ Steps /\ req[b] = Idle /\ session[b].pre
  /\ session' = [session EXCEPT ![b].pending = MayEnroll(acc)]
  /\ UNCHANGED <<factory, acc, stop, req, wrongs>>

\* otp_enroll, POST: the account is read, the code of the shown secret is right ...
OtpEnroll(b) ==
  /\ Steps /\ req[b] = Idle /\ session[b].pre /\ session[b].pending /\ MayEnroll(acc)
  /\ req' = [req EXCEPT ![b] = [at |-> "enrolling", row |-> acc]]
  /\ UNCHANGED <<factory, acc, stop, session, wrongs>>

\* ... and the secret is stored, in a transaction of its own.
OtpStore(b) ==
  /\ req[b].at = "enrolling"
  /\ acc' = [acc EXCEPT !.otp = b]
  /\ session' = [session EXCEPT ![b] = SignedIn(@, req[b].row, {"code"})]
  /\ Ends(b)
  /\ UNCHANGED <<factory, stop, wrongs, steps>>

\* account_2fa_setup, account_2fa_off: the factory admin's own choice
AccountTwoFactor(b) ==
  /\ Steps /\ factory /\ session[b].in /\ acc.active /\ req[b] = Idle
  /\ acc' = [acc EXCEPT !.otp = IF @ = None THEN b ELSE None]
  /\ UNCHANGED <<factory, stop, session, req, wrongs>>

Logout(b) ==
  /\ req[b] = Idle /\ session[b].in
  /\ session' = [session EXCEPT ![b] = Fresh]
  /\ UNCHANGED <<factory, acc, stop, req, wrongs, steps>>

-----------------------------------------------------------------------------
(* What is done to the account, and time *)

Unlocked(a) == [a EXCEPT !.fails = 0, !.lock = "none"]
EndSessions == session' = [b \in Browsers |-> IF session[b].in THEN Fresh ELSE session[b]]

\* Enable, Approve, Promote: also after too many wrong passwords
Enable ==
  /\ Steps /\ acc' = [Unlocked(acc) EXCEPT !.active = TRUE]
  /\ wrongs' = 0 /\ stop' = [fails |-> 0, held |-> FALSE] /\ UNCHANGED <<factory, session, req>>

Disable == Steps /\ acc' = [acc EXCEPT !.active = FALSE] /\ UNCHANGED <<factory, stop, session, req, wrongs>>

\* Reset 2FA: the next sign-in enrolls
ResetTwoFactor == Steps /\ acc' = [acc EXCEPT !.otp = None] /\ UNCHANGED <<factory, stop, session, req, wrongs>>

\* admin_reset_password (not of the factory admin): unlocked, and every session of theirs ends
ResetPassword ==
  /\ Steps /\ ~factory /\ acc' = Unlocked(acc)
  /\ wrongs' = 0 /\ stop' = [fails |-> 0, held |-> FALSE] /\ EndSessions /\ UNCHANGED <<factory, req>>

\* reset_admin, on the server
ResetAdmin ==
  /\ Steps /\ factory /\ acc' = [Unlocked(acc) EXCEPT !.active = TRUE, !.otp = None]
  /\ wrongs' = 0 /\ stop' = [fails |-> 0, held |-> FALSE] /\ EndSessions /\ UNCHANGED <<factory, req>>

\* The lock runs out; the stop of the name, or its failures, are forgotten (the keys expire).
LockRunsOut == acc.lock = "held" /\ acc' = [acc EXCEPT !.lock = "past"]
               /\ UNCHANGED <<factory, stop, session, req, wrongs, steps>>
StopRunsOut == stop # [fails |-> 0, held |-> FALSE] /\ stop' = [fails |-> 0, held |-> FALSE]
               /\ UNCHANGED <<factory, acc, session, req, wrongs, steps>>

Next ==
  \/ \E b \in Browsers :
       \/ \E right \in BOOLEAN : Login(b, right)
       \/ Locked(b) \/ WrongPassword(b) \/ RightPassword(b) \/ Failed(b) \/ Stops(b)
       \/ WrongCode(b) \/ OtpVerify(b) \/ OtpShow(b) \/ OtpEnroll(b) \/ OtpStore(b)
       \/ AccountTwoFactor(b) \/ Logout(b)
  \/ Enable \/ Disable \/ ResetTwoFactor \/ ResetPassword \/ ResetAdmin
  \/ LockRunsOut \/ StopRunsOut

Spec == Init /\ [][Next]_vars

-----------------------------------------------------------------------------
(* Properties: of states, and of steps (those with primes) *)

\* The row's columns and the sessions' data keep their types.
TypeOK ==
  /\ acc \in Rows
  /\ stop.fails \in 0..(MaxFailed + Cardinality(Browsers)) /\ stop.held \in BOOLEAN
  /\ \A b \in Browsers : session[b].codes < MaxWrongCodes /\ (session[b].pre => ~session[b].in)

\* Wrong passwords from several places at once each count (password_failed): while the account can be signed
\* in to, there were fewer than DisableAfter since the last right one - the factory admin's: than MaxFailed
\* since its last lock -, whatever requests were handled at the same time.
WrongOnesEndIt == acc.active \/ factory => wrongs < Limit

\* Nobody is signed in on the password alone (needs_second_factor), but the factory admin without an
\* authenticator: also not when an admin resets the second factor half-way, or after another browser enrolled.
SecondFactor == \A b \in Browsers : session[b].in =>
                   "password" \in session[b].proved /\ (factory \/ "code" \in session[b].proved)

\* Only a reset allows a new enrolment (otp_enroll): an authenticator is replaced by another one only by an
\* enrolment that had read the account while it had none.
AuthenticatorStays ==
  acc.otp # None /\ acc'.otp \notin {None, acc.otp}
     => \E b \in Browsers : req[b].at = "enrolling" /\ req[b].row.otp = None

\* While the account's lock holds, only an administrator or the server's reset lifts it, together with both
\* counts and in no request of a sign-in; no sign-in does (lock_minutes_left lifts one that has run out), but
\* one that is still at the password it read when an earlier lock had run out.
LockHolds ==
  acc.lock = "held" /\ acc'.lock = "none"
     => \/ acc'.fails = 0 /\ stop' = [fails |-> 0, held |-> FALSE] /\ req' = req
        \/ \E b \in Browsers : req[b].at = "password" /\ req[b].row.lock = "past"

(***************************************************************************)
(* Why they hold.  A count that reaches its limit closes the door that     *)
(* feeds it: only a request that had read the row before can still add to  *)
(* it.                                                                     *)
(***************************************************************************)
RowsRead == [active : BOOLEAN, fails : Nat, lock : {"none", "held", "past"}, otp : Browsers \cup {None}]
Proofs == SUBSET {"password", "code"}
Sessions == [pre : BOOLEAN, pending : BOOLEAN, codes : Nat, in : BOOLEAN, proved : Proofs]
AtPassword == [at : {"password"}, right : BOOLEAN, row : RowsRead]
AfterPassword == [at : {"failed", "stopping"}, right : BOOLEAN, row : RowsRead]
Enrolling == [at : {"enrolling"}, row : RowsRead]
Handled == {Idle} \cup AtPassword \cup AfterPassword \cup Enrolling
NameStops == [fails : Nat, held : BOOLEAN]

Typed ==
  /\ factory \in BOOLEAN /\ acc \in RowsRead /\ stop \in NameStops /\ wrongs \in Nat
  /\ session \in [Browsers -> Sessions]
  /\ req \in [Browsers -> Handled]

\* Those who read the account while it was active, and those who will yet stop the name.
MayCount == {b \in Browsers : req[b].at = "password" /\ req[b].row.active}
WillStop == {b \in Browsers : req[b].at = "stopping"}

CountsBounded ==
  /\ wrongs <= acc.fails
  /\ factory => acc.fails < MaxFailed
  /\ \/ acc.fails < DisableAfter
     \/ ~acc.active /\ acc.fails + Cardinality(MayCount) <= DisableAfter + Cardinality(Browsers)
  /\ stop.fails < MaxFailed + Cardinality(WillStop)

\* What a browser has proved, where it is.
HalfWay ==
  \A b \in Browsers :
    /\ session[b].codes < MaxWrongCodes
    /\ session[b].pre => ~session[b].in /\ "password" \in session[b].proved
    /\ session[b].in => "password" \in session[b].proved /\ (factory \/ "code" \in session[b].proved)
    /\ req[b].at = "password" => ~session[b].in
    /\ req[b].at = "enrolling" => session[b].pre /\ req[b].row.otp = None

SignInInv == Typed /\ CountsBounded /\ HalfWay
=============================================================================
