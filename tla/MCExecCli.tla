------------------------------ MODULE MCExecCli ------------------------------
EXTENDS ExecCli

\* Four processes in two passes; the first cannot be executed, the last reads to the
\* end of its input.
Objs4 == <<1, 2, 1, 1>>
Ends4 == <<"period", "period", "period", "eof">>
Passes4 == <<1, 1, 1, 2>>

\* Two processes, of which the first reads to the end of its input, or both exit by themselves.
Objs2 == <<1, 1>>
OnePass == <<1, 1>>
EofFirst == <<"eof", "period">>
Periods == <<"period", "period">>

Command(c, a) == [c |-> c, a |-> a]
MCCmds == {Command("next", n) : n \in {-128, 127, 128}} \cup {Command("get", n) : n \in {200, 404, 400}}
          \cup {Command("help", 0), Command("junk", 0)}
=============================================================================
