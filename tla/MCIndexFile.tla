----------------------------- MODULE MCIndexFile -----------------------------
EXTENDS IndexFile, TLC

CONSTANTS r1, r2, r3, n, w, r, q, g, outer, inner, none

Ordered == <<n, g, w, r, q>>
Types   == (n :> 0) @@ (g :> 0) @@ (w :> 1) @@ (r :> 2) @@ (q :> 2)

\* Two versions of the data file, one relation is removed.  The second one has
\* more objects than MaxInt.
Versions == << (n :> none) @@ (r :> outer) @@ (q :> inner),
               (n :> none) @@ (g :> none) @@ (w :> none) @@ (r :> outer) >>
Roles    == << <<outer, inner>>, <<outer>> >>
Version1 == << (n :> none) @@ (r :> outer) >>
Roles1   == << <<outer>> >>

NoRoles   == [p \in Runs |-> <<>>]
OuterIn2  == [p \in Runs |-> IF p = r2 THEN <<outer>> ELSE <<>>]
NoneMade  == [p \in Runs |-> {}]
GridMade  == [p \in Runs |-> {g}]
=============================================================================
