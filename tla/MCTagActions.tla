---------------------------- MODULE MCTagActions ----------------------------
(* Three nodes, a closed way and a relation, each with one of a few tag lists. *)
EXTENDS TagActions

T(k, v) == [k |-> k, v |-> v]
World(tags, pos) ==
  [type |-> <<"node", "node", "node", "way", "rel">>,
   ref |-> [o \in {4} |-> <<1, 2, 3, 1>>], mem |-> [o \in {5} |-> {1, 4, 9}],
   parent |-> << {4, 5}, {4}, {4}, {5}, {} >>, pos |-> pos, tag |-> tags]
Position(a, b, c) == [o \in (-MaxSteps)..3 |-> CASE o = 1 -> a [] o = 2 -> b [] o = 3 -> c [] OTHER -> 2]

MCWorlds == {World(<<a, <<T(1, 2)>>, <<T(1, 1)>>, b, c>>, p) :
               a \in {<<T(1, 1), T(2, 2)>>, <<T(2, 3)>>}, b \in {<<T(1, 3), T(2, 1)>>, <<>>},
               c \in {<<T(2, 2), T(1, 2)>>}, p \in {Position(0, 1, 2)}}

Regex(S) == [type |-> "regex", val |-> S, inv |-> FALSE, not |-> FALSE]
P(k, v) == [k |-> k, v |-> v]
Mark(p, mark) == [p EXCEPT ![mark] = TRUE]
MCConds == { <<>>, <<P(Direct(1), AnyString)>>, <<P(Regex({1, 2}), Direct(2))>>, <<P(Direct(1), Mark(Direct(1), "inv"))>>,
             <<P(Mark(Direct(1), "not"), AnyString)>>, <<P(AnyString, Mark(Regex({3}), "not"))>>,
             <<P(Direct(2), [AnyString EXCEPT !.type = "gt", !.val = 1]), P(Mark(Regex({1}), "inv"), [AnyString EXCEPT !.type = "lt", !.val = 4])>> }
MCTemplates == { <<T(1, 3), T(2, 1)>>, <<T(3, 2)>> }
MCKeyLists == { <<Regex({1, 2})>>, <<Direct(1), Direct(2)>>, <<Mark(Direct(3), "not")>> }
=============================================================================
