----------------------------- MODULE MCMintPass -----------------------------
(***************************************************************************)
(* Small instances of MintPass for TLC.                                    *)
(***************************************************************************)
EXTENDS MintPass, TLC

\* Two changes that tell a line, and one that is below the floor.
Sizes == ("a" :> 3) @@ ("b" :> 4) @@ ("c" :> 1)

C(parents, tree) == [parents |-> parents, tree |-> tree]

\* The default branch, 2, and a topic from its parent.
Forked == <<C({}, {}), C({1}, {"b"}), C({1}, {"a"})>>
\* The same, the topic of two commits.
Longer == Append(Forked, C({3}, {"a", "c"}))

At(side, topic) == ("side" :> side) @@ ("topic" :> topic)
Shared(topic) == ("main" :> 2) @@ ("topic" :> topic)

On(history, side, topic, notes) ==
  [commits |-> history, cut |-> {}, tips |-> At(side, topic), remotes |-> Shared(topic),
   head |-> "topic", noted |-> notes]

\* The other branch is at the default branch, or where the topic is.
Lines1 == On(Forked, 2, 3, {3})
Lines2 == On(Longer, 4, 4, {3, 4})
Depth1 == [Lines1 EXCEPT !.cut = {2, 3}]

Order == <<"side", "topic">>
Histories == {Lines1, Lines2, Depth1}
=============================================================================
