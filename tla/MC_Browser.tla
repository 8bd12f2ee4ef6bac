------------------------------ MODULE MC_Browser ------------------------------
(* What the owner's browser depends on: the dashboard's server process, and *)
(* the output of a terminal as one stream serves it.  part names the one    *)
(* that moves in a behaviour, so that they add up and do not multiply.      *)
EXTENDS DashboardProcess, TerminalStream

CONSTANT v1

VARIABLE part

browserVars == <<processVars, vars, part>>

Serving(A) == part = "dashboard" /\ A /\ UNCHANGED <<vars, part>>
Output(A)  == part = "output" /\ A /\ UNCHANGED <<processVars, part>>

\* The output is streamed beside a port nobody else moves on.
BrowserInit ==
    /\ ProcessInit /\ Init
    /\ part = "dashboard" \/ (part = "output" /\ ~Live)

BrowserNext == Serving(ProcessNext) \/ Output(Next)

\* The server processes and the companion's threads go on, the respawning
\* thread looks every half second, and a stream is served.
BrowserSpec ==
    /\ BrowserInit /\ [][BrowserNext]_browserVars
    /\ WF_browserVars(Serving(\E p \in Procs : Serves(p)))
    /\ WF_browserVars(Serving(\E t \in Openers : Works(t)))
    /\ WF_browserVars(Serving(Works("respawn")))
    /\ \A v \in Viewers : WF_browserVars(Output(Stream(v)))
=============================================================================
