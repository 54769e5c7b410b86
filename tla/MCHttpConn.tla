------------------------------ MODULE MCHttpConn ------------------------------
EXTENDS HttpConn

\* Two requests that succeed.
Plain == << <<[m |-> "GET", v |-> 11, uri |-> "found"], "header", "empty">>,
            <<[m |-> "GET", v |-> 11, uri |-> "found"], "empty">> >>

Line1(m, v, u) == [m |-> m, v |-> v, uri |-> u]

\* All kinds of requests, for a single thread
Mixed == << <<Line1("GET", 11, "wsbad"), "upgrade", "connection", "empty">>,
            <<Line1("GET", 9, "found"), "empty">>, <<Line1("other", 10, "found"), "header", "empty">>,
            <<Line1("GET", 10, "absent"), "empty">> >>
=============================================================================
