------------------------------ MODULE MCResults ------------------------------
(* TLC's instance of Results *)
EXTENDS Results, TLC

CONSTANTS d1, d2, d3, k1, k2

-----------------------------------------------------------------------------
(* Evidence: words of commands and configurations, so that lines replace, remove, repeat and default *)

Line(path, text) == [path |-> path, text |-> text]
If1 == <<"if", "1">>
MCVocabulary == {<<"in", "1">>, <<"x", "v", "b">>, <<"x">>, <<"no", "x">>, <<"exit">>,
                 <<"x", "v", "d">>, <<"y">>, <<"do">>}
MCBefores == {<<>>, <<Line(<<>>, If1), Line(<<If1>>, <<"x", "v", "a">>), Line(<<>>, <<"no", "y">>),
                Line(<<If1>>, <<"x-y", "a">>)>>}
MCStrangers == {Line(<<>>, <<"x", "v", "b">>)}
MCAbbreviations == {<<"in", "if">>}
MCHyphened == {<<"x", "x-y">>}
MCSections == {If1}
MCGlobals == {<<"y">>}
MCDefault == <<"x", "v", "d">>

(* Reviews: rows that wait for a decision, two of them alike, beside settled ones *)

Row(status_, open, proven, signature) ==
  [status |-> status_, open |-> open, proven |-> proven, signature |-> signature]
SettledStatuses == {"failed", "success", "not verified", "cancelled"}
Firsts == {<<Row("review", TRUE, 0, "a"), Row("failed", TRUE, 0, "a")>>,
           <<Row("partial", TRUE, 1, "a"), Row("partial", TRUE, 1, "b")>>}
MCJobs ==
  {(d1 :> ab[1]) @@ (d2 :> ab[2]) @@ (d3 :> c) : ab \in Firsts,
     c \in {Row("review", TRUE, 0, "a")} \cup {Row(s, FALSE, 0, "a") : s \in SettledStatuses}}

(* Launch: three platforms, two and one, all with the same device of the first platform *)

MCPlatformsOf == [l \in Launches |-> SubSeq(<<"ios", "junos", "gaia">>, 1, 4 - l)]
MCTargetsOf == [k \in Launches \X {"ios", "junos", "gaia"} |-> {k[2]}]

(* HostKeyStore: two keys of one type, so that one can replace the other, and one of another type *)

MCKeyType == <<"a", "a", "b">>

(* Backups: those from elsewhere have another key, or one that doesn't decrypt their rows *)

MCElsewhere == {[key |-> k2, good |-> TRUE], [key |-> k1, good |-> FALSE]}

Symmetry == Permutations(Runs)
==============================================================================
