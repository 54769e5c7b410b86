----------------------------- MODULE MCRuleEngine -----------------------------
(* Instances of RuleEngine for TLC: the rules, their matches and results. *)
EXTENDS RuleEngine

Call(r, os, p) == [rule |-> r, objs |-> os, pass |-> p]

Objs3 == 1 .. 3
Objs5 == 1 .. 5

\* Two threaded rules in a row, the first of which may fail.
FirstThenOne == << Call("centroid", {1, 2}, 1), Call("area", {3}, 1) >>

\* Unthreaded rules in two passes, one of them to be executed once.
Unthreaded == << Call("out", {1, 2}, 1), Call("grid2", {1, 2, 3}, 1), Call("tag", {1, 3}, 2), Call("grid2", {2}, 2) >>

\* Threaded and unthreaded rules that fail, in two passes.
WithErrors == << Call("centroid", Objs5, 1), Call("out", {1, 2}, 1), Call("area", {2, 3, 4}, 2) >>

\* A rule that is executed once between threaded and unthreaded ones
Mixed == << Call("area", Objs5, 1), Call("grid2", {1, 2}, 1), Call("out", {1, 3}, 2), Call("area", {2, 3, 4}, 2) >>

\* grid2 called by two sub() rules, the first of which has nothing that matches.
OnceBySub == << Call("tag", {1, 2}, 1), Call("grid2", {}, 1), Call("grid2", {1, 2}, 1) >>

NoneFail  == {{}}
OneFails  == {{}, {0}}

Zero     == {0}
ZeroOne  == {0, 1}
ThreeRet == {-1, 0, 1}
=============================================================================
