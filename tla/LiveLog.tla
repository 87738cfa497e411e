------------------------------ MODULE LiveLog ------------------------------
(***************************************************************************)
(* A rollout's live log (LiveLog in src/src/rollout/log.py): the devices'  *)
(* workers append lines, each page that follows it reads the history and   *)
(* then the channel, and the end of the job closes it (_finalize in        *)
(* src/src/jobs.py).  Lines are their numbers in the history; Redis hands  *)
(* a subscriber what is published after its subscription, in order.        *)
(***************************************************************************)
EXTENDS Naturals, Sequences, SequencesExt

CONSTANTS Writers, Readers,
          MaxLines   \* how many lines each writer has

VARIABLES
  job,      \* [ran, at]: whether it was started; how far its end is
  lines,    \* the history's length, and whether its key is gone
  writer,   \* writer -> the number it is about to publish (0: none), and the lines it has left
  channel,  \* the numbers published, in order; history of the model, not of the program
  reader    \* reader -> where its follow() is

vars == <<job, lines, writer, channel, reader>>

Done == 0   \* the DONE message
JobEnds == <<"working", "over", "removed", "told", "closed">>

Init ==
  /\ job \in [ran : BOOLEAN, at : {"working"}]
  /\ lines = [count |-> 0, gone |-> FALSE]
  /\ writer = [w \in Writers |-> [number |-> 0, left |-> MaxLines]]
  /\ channel = <<>>
  /\ reader = [r \in Readers |-> [at |-> "away", listening |-> FALSE, sure |-> FALSE, buffer |-> <<>>,
                                  seen |-> 0, shown |-> <<>>]]

-----------------------------------------------------------------------------
(* append, in the workers' threads: nothing keeps the two calls of one line together *)

\* rpush: its reply is the line's number.  Redis away: the line is dropped.
Pushes(w) ==
  /\ job.at = "working" /\ writer[w].number = 0 /\ writer[w].left > 0
  /\ \/ /\ lines' = [lines EXCEPT !.count = @ + 1]
        /\ writer' = [writer EXCEPT ![w] = [number |-> lines.count + 1, left |-> @.left - 1]]
     \/ writer' = [writer EXCEPT ![w].left = @ - 1] /\ UNCHANGED lines
  /\ UNCHANGED <<job, channel, reader>>

\* What is published reaches every subscription in effect.
Published(message) ==
  [r \in Readers |-> IF reader[r].listening /\ reader[r].at # "ended"
                     THEN [reader[r] EXCEPT !.buffer = Append(@, message)] ELSE reader[r]]

\* publish; Redis away: the line stays in the history only.
Publishes(w) ==
  /\ writer[w].number > 0
  /\ \/ /\ reader' = Published(writer[w].number)
        /\ channel' = Append(channel, writer[w].number)
     \/ UNCHANGED <<reader, channel>>
  /\ writer' = [writer EXCEPT ![w].number = 0]
  /\ UNCHANGED <<job, lines>>

-----------------------------------------------------------------------------
(* The end of the job: its thread ends, _finalize removes it, then close() *)

JobOver ==
  /\ job.at = "working" /\ \A w \in Writers : writer[w].number = 0
  /\ job' = [job EXCEPT !.at = "over"]
  /\ UNCHANGED <<lines, writer, channel, reader>>

Removed ==
  /\ job.at = "over"
  /\ job' = [job EXCEPT !.at = "removed"]
  /\ UNCHANGED <<lines, writer, channel, reader>>

\* DONE to the readers; Redis away: neither that nor the deletion.
TellsDone ==
  /\ job.at = "removed"
  /\ \/ reader' = Published(Done) /\ job' = [job EXCEPT !.at = "told"]
     \/ job' = [job EXCEPT !.at = "closed"] /\ UNCHANGED reader
  /\ UNCHANGED <<lines, writer, channel>>

DeletesKeys ==
  /\ job.at = "told"
  /\ job' = [job EXCEPT !.at = "closed"]
  /\ lines' = [lines EXCEPT !.gone = TRUE]
  /\ UNCHANGED <<writer, channel, reader>>

\* (a plausible bug: only the job's thread is asked, and a job cancelled in the queue has none)
OverThread == job.ran /\ job.at # "working"
\* over() of the stream: the thread has ended, or the job isn't there any more
Over == (job.ran /\ job.at # "working") \/ job.at \in {"removed", "told", "closed"}

-----------------------------------------------------------------------------
(* follow, for each page *)

Subscribes(r) ==
  /\ reader[r].at = "away"
  /\ reader' = [reader EXCEPT ![r].at = "subscribing"]
  /\ UNCHANGED <<job, lines, writer, channel>>

\* Redis takes the subscription, maybe after _SUBSCRIBE_WAIT.
Confirms(r) ==
  /\ reader[r].at \notin {"away", "ended"} /\ ~reader[r].listening
  /\ reader' = [reader EXCEPT ![r].listening = TRUE]
  /\ UNCHANGED <<job, lines, writer, channel>>

\* The confirmation came, or _SUBSCRIBE_WAIT has passed without it.
WaitEnds(r) ==
  /\ reader[r].at = "subscribing"
  /\ reader' = [reader EXCEPT ![r].at = "subscribed", ![r].sure = reader[r].listening]
  /\ UNCHANGED <<job, lines, writer, channel>>

\* (a plausible bug: the next number expected is kept instead of the last one seen)
SeenNext(n) == n + 1
Seen(n) == n

\* The history, shown.
Reads(r) ==
  /\ reader[r].at = "subscribed"
  /\ LET n == IF lines.gone THEN 0 ELSE lines.count
     IN  reader' = [reader EXCEPT ![r].at = "following", ![r].seen = Seen(n),
                                  ![r].sure = @ /\ ~lines.gone, ![r].shown = [i \in 1..n |-> i]]
  /\ UNCHANGED <<job, lines, writer, channel>>

\* (a plausible bug: off by one)
HeldBelow(r, n) == n < reader[r].seen
\* A live message that the history held is skipped by its number.
Held(r, n) == n <= reader[r].seen

Takes(r) ==
  /\ reader[r].at = "following" /\ reader[r].buffer # <<>>
  /\ LET n == Head(reader[r].buffer)
         taken == [reader[r] EXCEPT !.buffer = Tail(@)]
     IN  reader' = [reader EXCEPT ![r] =
           IF n = Done THEN [taken EXCEPT !.at = "ended"]
           ELSE IF Held(r, n) THEN taken
           ELSE [taken EXCEPT !.seen = Seen(n), !.shown = Append(@, n)]]
  /\ UNCHANGED <<job, lines, writer, channel>>

\* (a plausible bug: asked whether the job is over before what came is taken)
NothingCameAny(r) == TRUE
NothingCame(r) == reader[r].buffer = <<>>

\* Nothing for `wait` seconds: a heartbeat (no change), or the job is over.
Quits(r) ==
  /\ reader[r].at = "following" /\ NothingCame(r) /\ Over
  /\ reader' = [reader EXCEPT ![r].at = "ended"]
  /\ UNCHANGED <<job, lines, writer, channel>>

-----------------------------------------------------------------------------

Follows(r) == WaitEnds(r) \/ Reads(r) \/ Takes(r) \/ Quits(r)
Ending == JobOver \/ Removed \/ TellsDone \/ DeletesKeys

Next ==
  \/ Ending
  \/ \E w \in Writers : Pushes(w) \/ Publishes(w)
  \/ \E r \in Readers : Subscribes(r) \/ Confirms(r) \/ Follows(r)

Spec == Init /\ [][Next]_vars

\* Calls to Redis end (they have a timeout), the job ends, and a page's stream is run.
Fairness ==
  /\ WF_vars(Ending)
  /\ \A w \in Writers : WF_vars(Publishes(w))
  /\ \A r \in Readers : WF_vars(Follows(r))
FairSpec == Spec /\ Fairness

-----------------------------------------------------------------------------
(* Properties *)

\* Every part of the state has its kind of value, and a reader has seen no more than was written.
TypeOK ==
  /\ job.at \in Range(JobEnds) /\ lines.count \in Nat /\ lines.gone \in BOOLEAN
  /\ \A w \in Writers : writer[w].number \in 0..lines.count
  /\ \A r \in Readers : /\ reader[r].at \in {"away", "subscribing", "subscribed", "following", "ended"}
                        /\ reader[r].seen \in 0..lines.count

\* follow(): no line is shown twice, or before an earlier one, wherever the history read fell among
\* the two calls of every append.
NoneRepeated ==
  \A r \in Readers : \A i, j \in DOMAIN reader[r].shown : i < j => reader[r].shown[i] < reader[r].shown[j]

\* The line's number was published after a later line's, or not at all.
Overtaken(n) ==
  \/ n \notin Range(channel)
  \/ \E i, j \in DOMAIN channel : i < j /\ channel[j] = n /\ channel[i] > n

\* A page whose stream has ended has shown every line, if its subscription was in effect before the
\* history was read and the history was still there; only a line that another worker's later line
\* overtook on the channel, or that was never published, may be missing.
OnlyOvertakenLost ==
  \A r \in Readers :
    reader[r].at = "ended" /\ reader[r].sure =>
      \A n \in 1..lines.count : n \in Range(reader[r].shown) \/ Overtaken(n)

\* What follow() says: "the lines so far, then each new one - none lost or repeated between the two".
NoneLost ==
  \A r \in Readers :
    reader[r].at = "ended" /\ reader[r].sure /\ Range(channel) = 1..lines.count =>
      Range(reader[r].shown) = 1..lines.count

\* A page's stream ends when the job does, even if DONE was never published or came too early, and for
\* a job cancelled before it started.
FollowerEnds == \A r \in Readers : (reader[r].at # "away") ~> (reader[r].at = "ended")

-----------------------------------------------------------------------------
(***************************************************************************)
(* Why they hold.  A subscription takes the numbers in the channel's       *)
(* order, DONE last; what is taken after a later number was overtaken by   *)
(* it.  A reader whose subscription was in effect before the history has   *)
(* every number still to come in its buffer, or will have it there.        *)
(***************************************************************************)
Writings == [number : Nat, left : Nat]
Readings == [at : {"away", "subscribing", "subscribed", "following", "ended"}, listening : BOOLEAN,
             sure : BOOLEAN, buffer : Seq(Nat), seen : Nat, shown : Seq(Nat)]
Typed ==
  /\ job \in [ran : BOOLEAN, at : {"working", "over", "removed", "told", "closed"}]
  /\ lines \in [count : Nat, gone : BOOLEAN] /\ channel \in Seq(Nat)
  /\ writer \in [Writers -> Writings] /\ reader \in [Readers -> Readings]

\* Numbers are given out before they are published, and a number is published while the job runs.
Numbered ==
  /\ \A w \in Writers : writer[w].number <= lines.count /\ (job.at # "working" => writer[w].number = 0)
  /\ \A n \in Range(channel) : n \in 1..lines.count

\* A reader's view goes up to the last number seen.
Rising(x) ==
  /\ \A i, j \in DOMAIN x.shown : i < j => x.shown[i] < x.shown[j]
  /\ \A i \in DOMAIN x.shown : x.shown[i] <= x.seen
  /\ x.seen <= lines.count

\* The buffer is in the channel's order, and DONE is its last message.
Ordered(x) ==
  /\ \A n \in Range(x.buffer) : n \in Range(channel) \/ (n = Done /\ job.at \in {"told", "closed"})
  /\ \A i, j \in DOMAIN x.buffer :
       i < j => /\ x.buffer[i] # Done
                /\ x.buffer[j] # Done /\ x.buffer[j] < x.buffer[i] => Overtaken(x.buffer[j])

\* What is skipped was shown, or overtaken.
Skipped(x) ==
  /\ x.seen \in Range(channel) \cap Range(x.shown) \/ 1..x.seen \subseteq Range(x.shown)
  /\ \A n \in Range(x.buffer) : n # Done /\ n <= x.seen => n \in Range(x.shown) \/ Overtaken(n)

Shown(x) ==
  /\ x.at \in {"away", "subscribing", "subscribed"} => x.shown = <<>> /\ x.seen = 0
  /\ x.at \in {"away", "subscribing"} => ~x.sure
  /\ x.at = "ended" => job.at # "working"
  /\ x.sure => x.listening
  /\ x.sure /\ x.at \in {"following", "ended"} =>
       \A n \in 1..lines.count : \/ n \in Range(x.shown) \/ Overtaken(n)
                                 \/ x.at = "following" /\ n \in Range(x.buffer)

FollowInv ==
  /\ Typed /\ Numbered
  /\ \A r \in Readers : /\ Rising(reader[r]) /\ Shown(reader[r])
                        /\ reader[r].at # "ended" => Ordered(reader[r]) /\ Skipped(reader[r])
=============================================================================
