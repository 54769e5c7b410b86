----------------------------- MODULE MCCatPoly -----------------------------
(* Worlds for CatPoly: all pairings of six end points around the page, and all *)
(* ways to chain three ways at three nodes, with tags, gaps and repeated nodes. *)
EXTENDS CatPoly

P(b, o) == [brg |-> b, off |-> o]
World(n, w, t, near, no, ign, nc) ==
  [node |-> n, way |-> w, tag |-> t, copy |-> {"name"}, near |-> near, north |-> no,
   ignIncomplete |-> ign, noCorner |-> nc]
NoTags(w) == [i \in DOMAIN w |-> <<>>]

\* Six points off the page, 3 in a corner region; 7 to 9 are on the page.
Border == << P(1, TRUE), P(5, TRUE), P(6, TRUE), P(9, TRUE), P(11, TRUE), P(15, TRUE) >>
Page == << P(3, FALSE), P(8, FALSE), P(12, FALSE) >>
Pairings == {p \in [1..6 -> 1..6] : \A i, j \in 1..6 : i # j => p[i] # p[j]}
Coasts == {LET w == << <<p[1], 7, p[2]>>, <<p[3], 8, p[4]>>, <<p[5], 9, p[6]>> >>
           IN World(Border \o Page, w, NoTags(w), {}, x[1], FALSE, x[2])
           : p \in Pairings, x \in {<<0, FALSE>>, <<Circle, FALSE>>, <<0, TRUE>>}}

Chains == {LET w == << <<a[1], 4, a[2]>>, <<a[3], 5, a[4]>>, <<a[5], 6, a[6]>> >>
           IN World(Page \o Page, w, << [name |-> 1], [name |-> 2, ref |-> 1], <<>> >>, {}, 0, ign, FALSE)
           : a \in [1..6 -> 1..3], ign \in BOOLEAN}

\* Node 9 is missing; nodes 1 and 3 are near each other; a way is too short.
Others == {LET w == << <<7, 7, 8, 1, 1>>, <<1, 9, 2>>, <<3, 7>>, <<5>>, <<4, 4>>, <<6, 5>> >>
           IN World([n \in 1..8 |-> (Border \o Page)[n]], w, NoTags(w), {{3, 7}}, 0, ign, FALSE)
           : ign \in BOOLEAN}
          \cup {LET w == << <<7, 1, 9, 8>>, <<2, 8>> >>
           IN World([n \in 1..8 |-> (Border \o Page)[n]], w, NoTags(w), {}, 0, FALSE, FALSE)}
          \cup {LET w == << <<7, 9, 2>>, <<3, 8, 4>> >>
           IN World([n \in 1..8 |-> (Border \o Page)[n]], w, NoTags(w), {}, 0, FALSE, FALSE)}

MCWorlds == Coasts \cup Chains \cup Others
=============================================================================
