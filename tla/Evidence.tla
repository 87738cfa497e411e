------------------------------ MODULE Evidence ------------------------------
(***************************************************************************)
(* A push judged by the device's configuration before and after it         *)
(* (_Judge in src/src/rollout/evidence.py).                                *)
(*                                                                         *)
(* A word is a string, a command or a line's text a sequence of words, a   *)
(* configuration the sequence of its lines (no line twice) with the        *)
(* headers above each.  `device` is the device itself: it takes a command  *)
(* (leaving its section for one it finds only outside), or refuses it, with or *)
(* without a reply; it prints a new line first or last, and doesn't print  *)
(* its default.  Somebody else may change it meanwhile.                    *)
(***************************************************************************)
EXTENDS Naturals, Sequences, SequencesExt, FiniteSetsExt

CONSTANTS
  Vocabulary,     \* the commands a push may hold
  MaxCommands,
  Befores,        \* configurations before the push
  Strangers,      \* lines somebody else may add
  Abbreviations,  \* pairs <<typed, the device's word>>
  Hyphened,       \* pairs <<a word, the device's word that goes on with a hyphen after it>>
  Sections,       \* headers, as the device prints them
  Globals,        \* commands a device finds only outside of its sections
  Default         \* a line that the device doesn't print

VARIABLES
  device,  \* [before, config, context]: its configuration, and the section its session is in
  push,    \* the commands sent: [words, taken, replied]
  others,  \* whether somebody else changed the configuration
  judge    \* the judge: [at, context, added, removed, reviews, verdicts]

vars == <<device, push, others, judge>>

NAVIGATION == {"exit", "end"}
NEGATION == {"no"}
EXEC == {"do"}

Line(path, text) == [path |-> path, text |-> text]
Inside(line) == Append(line.path, line.text)
IsNavigation(c) == c[1] \in NAVIGATION
IsExec(c) == c[1] \in EXEC
IsRemoval(c) == c[1] \in NEGATION
At(lines, path) == SelectSeq(lines, LAMBDA line : line.path = path)
Without(lines, gone(_)) == SelectSeq(lines, LAMBDA line : ~gone(line))

SameWord(typed, word) == typed = word \/ <<typed, word>> \in Abbreviations

\* names: a removal's word may be the device's word up to its hyphen
Names(typed, word) == SameWord(typed, word) \/ <<typed, word>> \in Hyphened

\* contains: the command's words are in the line, in order
Found(c, text, same(_, _)) ==
  \E f \in [1..Len(c) -> 1..Len(text)] :
    \A i \in 1..Len(c) : same(c[i], text[f[i]]) /\ \A j \in 1..(i - 1) : f[j] < f[i]
FoundIn(c, text) == Found(c, text, SameWord)
Matches(c, text) == Len(c) = Len(text) /\ \A i \in 1..Len(c) : SameWord(c[i], text[i])

Idle == [at |-> 0, context |-> <<>>, added |-> {}, removed |-> {}, reviews |-> {}, verdicts |-> <<>>]

Init ==
  /\ \E before \in Befores : device = [before |-> before, config |-> before, context |-> <<>>]
  /\ push = <<>> /\ others = FALSE /\ judge = Idle

-----------------------------------------------------------------------------
(* The device *)

Expanded(c) == [i \in 1..Len(c) |-> IF \E a \in Abbreviations : a[1] = c[i]
                                    THEN (CHOOSE a \in Abbreviations : a[1] = c[i])[2] ELSE c[i]]
Insertions(lines, line) == {<<line>> \o lines, Append(lines, line)}
Under(line, path) == Len(line.path) >= Len(path) /\ SubSeq(line.path, 1, Len(path)) = path

\* A setting replaces the one with the same words up to the last; a removal takes the lines that begin
\* with its words (to some devices a word may stand for one that goes on with a hyphen), and what is
\* under them.
Takes(d, c) ==
  LET text == Expanded(c)
      path == IF text \in Sections \/ c \in Globals THEN <<>> ELSE d.context
      replaced(line) == line.path = path /\ Front(line.text) = Front(text)
      target == Tail(text)
      starts(l, hyphens) ==
        /\ Len(target) <= Len(l.text)
        /\ \A i \in 1..Len(target) : target[i] = l.text[i] \/ (hyphens /\ <<target[i], l.text[i]>> \in Hyphened)
      kept(hyphens) == Without(d.config, LAMBDA line :
                         \E l \in Range(At(d.config, path)) :
                           starts(l, hyphens) /\ (line = l \/ Under(line, Inside(l))))
      new == Line(path, text)
  IN  IF IsExec(c) THEN {d}
      ELSE IF IsNavigation(c)
      THEN {[d EXCEPT !.context = IF c[1] = "end" \/ @ = <<>> THEN <<>> ELSE Front(@)]}
      ELSE IF IsRemoval(c) THEN {[d EXCEPT !.config = kept(hyphens), !.context = path] : hyphens \in BOOLEAN}
      ELSE IF text \in Sections
      THEN {[d EXCEPT !.config = lines, !.context = Inside(new)] :
              lines \in IF new \in Range(d.config) THEN {d.config} ELSE Insertions(d.config, new)}
      ELSE {[d EXCEPT !.config = lines, !.context = path] :
              lines \in IF text = Default THEN {Without(d.config, replaced)}
                        ELSE IF new \in Range(d.config) THEN {d.config}
                        ELSE Insertions(Without(d.config, replaced), new)}

\* The device takes the next command, or refuses it.
Sends(c) ==
  /\ judge.at = 0 /\ Len(push) < MaxCommands
  /\ \E taken, replied \in BOOLEAN :
       /\ IF taken THEN device' \in Takes(device, c)
                   ELSE UNCHANGED device
       /\ push' = Append(push, [words |-> c, taken |-> taken, replied |-> replied])
  /\ UNCHANGED <<others, judge>>

Stranger(line) ==
  /\ judge.at = 0 /\ ~others /\ line \notin Range(device.config)
  /\ \E lines \in Insertions(device.config, line) : device' = [device EXCEPT !.config = lines]
  /\ others' = TRUE
  /\ UNCHANGED <<push, judge>>

-----------------------------------------------------------------------------
(* _Judge: the snapshots compared, then each command in turn *)

Added == SelectSeq(device.config, LAMBDA line : line \notin Range(device.before))
RemovedLines == SelectSeq(device.before, LAMBDA line : line \notin Range(device.config))
Unchanged == SelectSeq(device.config, LAMBDA line : line \in Range(device.before))
Both == Range(device.before) \cup Range(device.config)

\* The configuration shown with its defaults.
View == Both \cup {Line(path, Default) : path \in {Inside(l) : l \in {m \in Both : m.text \in Sections}}}
IsHeader(line) == \E l \in View : l.path = Inside(line)

Judging ==
  /\ judge.at = 0 /\ push # <<>>
  /\ judge' = [judge EXCEPT !.at = 1, !.verdicts = [i \in 1..Len(push) |-> "none"]]
  /\ UNCHANGED <<device, push, others>>

\* The levels to look at, the command's own section first.
Level(k) == SubSeq(judge.context, 1, k)
Levels == 0..Len(judge.context)

\* The first line, at the innermost level that has one, that the command is found in: added lines,
\* then the unchanged ones of that level.
Hits(lines, k, found(_)) == SelectSeq(At(lines, Level(k)), found)
Innermost(hit(_)) == Max({k \in Levels : hit(k)})

Claim(lines, line) == lines \cup {[line |-> line, by |-> judge.at]}

\* (a plausible bug: a command always opens a section)
EnteredAlways(line, path) == Inside(line)
\* _enter: inside a header, else where the line was found
Entered(line, path) == IF IsHeader(line) THEN Inside(line) ELSE path

Verdict(v) == [judge EXCEPT !.verdicts[judge.at] = v, !.at = @ + 1]
ToReview == [Verdict("review") EXCEPT !.reviews = @ \cup {[command |-> judge.at, section |-> judge.context]}]

FoundAdded(c, k) == Hits(Added, k, LAMBDA line : FoundIn(c, line.text))
FoundUnchanged(c, k) == Hits(Unchanged, k, LAMBDA line : Matches(c, line.text))

\* What the configuration shows of the command's own words: a line the push added, or one in place.
Shown(c, enters) ==
  LET k == Innermost(LAMBDA n : FoundAdded(c, n) \o FoundUnchanged(c, n) # <<>>)
      line == Head(FoundAdded(c, k) \o FoundUnchanged(c, k))
      there == IF enters THEN Entered(line, Level(k)) ELSE judge.context
  IN  IF FoundAdded(c, k) # <<>>
      THEN [Verdict("took effect") EXCEPT !.added = Claim(@, line), !.context = there]
      ELSE [Verdict("in place") EXCEPT !.context = there]
IsShown(c) == \E k \in Levels : FoundAdded(c, k) \o FoundUnchanged(c, k) # <<>>

\* The first line removed at the innermost level that has one.
IsGone(found(_)) == \E k \in Levels : Hits(RemovedLines, k, found) # <<>>
Gone(found(_)) == Head(Hits(RemovedLines, Innermost(LAMBDA k : Hits(RemovedLines, k, found) # <<>>), found))

\* The next command that configures something.
Following == {push[i].words : i \in {j \in (judge.at + 1)..Len(push) :
                /\ ~IsNavigation(push[j].words) /\ ~IsExec(push[j].words)
                /\ \A k \in (judge.at + 1)..(j - 1) : IsNavigation(push[k].words) \/ IsExec(push[k].words)}}

\* _opened_block: the unclaimed new header here whose new lines hold the next command
OpenedBlocks ==
  SelectSeq(At(Added, judge.context), LAMBDA header :
    /\ IsHeader(header) /\ header \notin {claim.line : claim \in judge.added}
    /\ \E c \in Following : \E line \in Range(At(Added, Inside(header))) : FoundIn(c, line.text))

Current == push[judge.at].words

JudgesSetting ==
  /\ judge.at \in 1..Len(push)
  /\ ~IsNavigation(Current) /\ ~IsExec(Current) /\ ~IsRemoval(Current)
  /\ LET negated(line) == IsRemoval(line.text) /\ Matches(Current, Tail(line.text))
     IN  judge' = IF IsShown(Current) THEN Shown(Current, TRUE)
                  ELSE IF IsGone(negated)
                  THEN [Verdict("took effect") EXCEPT !.removed = Claim(@, Gone(negated))]
                  ELSE IF OpenedBlocks # <<>>
                  THEN [Verdict("took effect") EXCEPT !.added = Claim(@, Head(OpenedBlocks)),
                                                      !.context = Inside(Head(OpenedBlocks))]
                  ELSE ToReview
  /\ UNCHANGED <<device, push, others>>

\* (a plausible bug: a removal that finds nothing is done, whatever the device said)
AbsentAlways(target) ==
  ~\E k \in Levels : \E line \in Both : line.path = Level(k) /\ FoundIn(target, line.text)
\* Nothing there to remove, and the device said nothing.
Absent(target) ==
  /\ ~push[judge.at].replied
  /\ ~\E k \in Levels : \E line \in Both : line.path = Level(k) /\ FoundIn(target, line.text)

JudgesRemoval ==
  /\ judge.at \in 1..Len(push) /\ IsRemoval(Current)
  /\ LET target == Tail(Current)
         named(line) == Found(target, line.text, Names)
     IN  judge' = IF IsGone(named) THEN [Verdict("removed") EXCEPT !.removed = Claim(@, Gone(named))]
                  ELSE IF IsShown(Current) THEN Shown(Current, FALSE)
                  ELSE IF Absent(target) THEN Verdict("in place")
                  ELSE ToReview
  /\ UNCHANGED <<device, push, others>>

\* An exec command is shown, never judged; navigation leaves a section, or all of them.
JudgesOther ==
  /\ judge.at \in 1..Len(push)
  /\ \/ IsExec(Current) /\ judge' = Verdict("exec")
     \/ /\ IsNavigation(Current)
        /\ judge' = [Verdict("navigation") EXCEPT
                       !.context = IF Current[1] = "end" \/ @ = <<>> THEN <<>> ELSE Front(@)]
  /\ UNCHANGED <<device, push, others>>

-----------------------------------------------------------------------------
(* Then all of them together *)

\* (a plausible bug: a changed line is the proof of every command found in it)
ConflictingNone(i) == FALSE
\* _conflicts: one changed line, two different commands
Conflicting(i) ==
  \E claims \in {judge.added, judge.removed} : \E a, b \in claims :
    a.by = i /\ a.line = b.line /\ push[a.by].words # push[b.by].words

\* _defaults: exactly a line of its section, shown with the defaults
ByDefault(i) == \E r \in judge.reviews : /\ r.command = i
                                         /\ \E line \in View : line.path = r.section /\ Matches(push[i].words, line.text)

\* _replied: the device replied to it, or to the command that closed its block
Replied(i) ==
  \/ push[i].replied
  \/ \E k \in (i + 1)..Len(push) : /\ IsNavigation(push[k].words) /\ push[k].replied
                                   /\ \A j \in i..(k - 1) : ~IsNavigation(push[j].words)

Final(i) ==
  LET v == judge.verdicts[i]
      unproven == Conflicting(i) \/ (v = "review" /\ ~ByDefault(i))
  IN  IF unproven THEN IF Replied(i) THEN "rejected" ELSE "review"
      ELSE IF v = "review" THEN "in place" ELSE v

Concludes ==
  /\ judge.at = Len(push) + 1 /\ push # <<>>
  /\ judge' = [judge EXCEPT !.at = @ + 1, !.verdicts = [i \in 1..Len(push) |-> Final(i)]]
  /\ UNCHANGED <<device, push, others>>

\* (a plausible bug: the line that a new value took the place of isn't the command's)
ReplacedByNone(gone) == FALSE
\* _replaced_by: a claimed line with the same section and leading words took its place
ReplacedBy(gone) ==
  \E claim \in judge.added :
    LET common == LongestCommonPrefix({gone.text, claim.line.text})
    IN  claim.line.path = gone.path /\ (Len(common) >= 2 \/ common = gone.text)

\* _changes: what no command accounts for
Claimed == {claim.line : claim \in judge.added \cup judge.removed}
OtherChanges ==
  {line \in Range(Added) \cup Range(RemovedLines) :
     /\ line \notin Claimed /\ ~\E block \in Claimed : Under(line, Inside(block))
     /\ ~(line \in Range(RemovedLines) /\ ReplacedBy(line))}

-----------------------------------------------------------------------------

Next ==
  \/ \E c \in Vocabulary : Sends(c)
  \/ \E line \in Strangers : Stranger(line)
  \/ Judging \/ JudgesSetting \/ JudgesRemoval \/ JudgesOther \/ Concludes

Spec == Init /\ [][Next]_vars

-----------------------------------------------------------------------------
(* Properties *)

Proven == {"took effect", "in place", "removed"}
Judged == judge.at = Len(push) + 2
Holds(lines, c) == \E line \in lines : Matches(c, line.text)

\* The judge says one of the verdicts of every command, and its sections are the device's.
TypeOK ==
  /\ judge.at \in 0..(MaxCommands + 2)
  /\ \A i \in DOMAIN judge.verdicts :
       judge.verdicts[i] \in Proven \cup {"none", "review", "rejected", "navigation", "exec"}
  /\ judge.context \in {<<>>} \cup {line.path : line \in View}

\* The device opened every section that the push asks for.
SectionsOpened == \A i \in 1..Len(push) : Expanded(push[i].words) \in Sections => push[i].taken

\* A setting that the device refused, and didn't hold before, is reported as proven only when the same
\* command was taken at another place of the push: no line that another command made is its proof.  (When the device
\* was in the sections the push names: a refused header misplaces what follows it.)
RefusedUnproven ==
  Judged /\ ~others /\ SectionsOpened =>
    \A i \in 1..Len(push) :
      /\ ~push[i].taken /\ ~IsRemoval(push[i].words)
      /\ ~Holds(Range(device.before) \cup View, push[i].words)
      /\ judge.verdicts[i] \in Proven
      => \E j \in 1..Len(push) : push[j].taken /\ Expanded(push[j].words) = Expanded(push[i].words)

\* A removal the device objected to is never reported as done when every line it names is still there.
ObjectedUnproven ==
  Judged /\ ~others =>
    \A i \in 1..Len(push) :
      IsRemoval(push[i].words) /\ push[i].replied /\ RemovedLines = <<>> /\ Added = <<>> => judge.verdicts[i] \notin Proven

\* A removal claims the first of the removed lines that its words name.
NamesSeveral(i) ==
  /\ IsRemoval(push[i].words)
  /\ \E a, b \in Range(RemovedLines) : /\ a # b
                                       /\ Found(Tail(push[i].words), a.text, Names)
                                       /\ Found(Tail(push[i].words), b.text, Names)

\* A change reported as nobody's is somebody else's: when nobody else touched the device and it took
\* every command, every change is accounted for, unless the plain configuration didn't prove some command
\* or a removal took several lines at once.
OthersAreOthers ==
  Judged /\ ~others /\ OtherChanges # {} /\ (\A i \in 1..Len(push) : push[i].taken) =>
    judge.reviews # {} \/ \E i \in 1..Len(push) : Conflicting(i) \/ NamesSeveral(i)
=============================================================================
