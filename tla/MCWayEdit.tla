----------------------------- MODULE MCWayEdit -----------------------------
(* Small maps for WayEdit: every one has what makes one of the functions hard. *)
EXTENDS WayEdit

Map(p, w, r) == [pos |-> p, ref |-> w, rel |-> r]

\* A way passes through node 2, one begins there, and it is a member.
Crossing == Map(<< <<0, 0>>, <<0, 2>>, <<1, 3>>, <<2, 2>> >>,
                << <<1, 2, 3>>, <<2, 4>> >>, 100 :> <<2, 3>>)
\* A ring and two ways on it: node 2 is in all three.
Ring == Map(<< <<0, 0>>, <<0, 2>>, <<2, 2>> >>, << <<1, 2, 3, 1>>, <<3, 2>>, <<2, 1>> >>, <<>>)
\* The way passes through node 2 twice.
Lollipop == Map(<< <<0, 0>>, <<0, 1>>, <<1, 1>>, <<1, 2>> >>, << <<1, 2, 3, 4, 2>> >>, <<>>)
\* A way crosses the seam three times, another one once, near its end.
Wrap == Map(<< <<0, 3>>, <<0, -3>>, <<1, 1>> >>, << <<1, 2, 1, 2>>, <<1, 2, 3>> >>, <<>>)
\* Node 3 is not in the data, node 2 is repeated.
Missing == Map(<< <<0, 0>>, <<0, 3>> >>, << <<1, 2, 2, 3>>, <<3, 1, 2>> >>, <<>>)

MCMaps == {Crossing, Ring, Lollipop, Wrap, Missing}
=============================================================================
