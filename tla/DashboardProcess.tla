--------------------------- MODULE DashboardProcess ---------------------------
(***************************************************************************)
(* The dashboard's server process on its port, and those who start and     *)
(* stop it (horus/companion.py): the threads of the companion that warm    *)
(* it up, open it and replace a dead child, its quit, and `horus dashboard *)
(* --reload` of another process.                                           *)
(***************************************************************************)
EXTENDS Integers, FiniteSets

CONSTANTS MaxProcs,   \* bound: server processes, the first one included
          MaxMishaps, \* bound: servers that fail to start or die by themselves,
                      \* probes unanswered in time and waits given up
          MaxClicks,  \* bound: times the owner opens the dashboard
          Linger      \* may a daemon thread move on while the program exits?

ASSUME ProcessAssumption == {MaxProcs, MaxMishaps, MaxClicks} \subseteq Nat

Procs == 1..MaxProcs
Openers == {"prewarm", "main"}
Own == Openers \cup {"respawn"}
Threads == Own \cup {"reload"}
Unknown == 0 - 1     \* state["dashboard"] is None
Adopted == 0         \* a server that was already there

VARIABLES proc,      \* proc[p]: what the server is, who started it, its stage
          told,      \* the live processes sent a SIGTERM nobody waits for
          at,        \* at[t]: where thread t is
          child,     \* child[t]: the process t works on
          second,    \* the openers in their second attempt
          dash,      \* state["dashboard"]
          holder,    \* the thread that holds state_lock, or "none"
          closing,
          companion, \* "up", "leaving" or "gone"
          clicks, deaths, late,
          report     \* what the reload said, of which process

budget == <<clicks, deaths, late>>
sharedVars == <<dash, holder, closing, companion>>
processVars == <<proc, told, at, child, second, sharedVars, budget, report>>

\* Only "fresh" is this install; a "foreign" server has no /health.
Kinds == {"fresh", "stale", "foreign"}
NoProc == [kind |-> "fresh", exposed |-> FALSE, by |-> "none", stage |-> "none"]

Stage(s) == {p \in Procs : proc[p].stage = s}
Listeners == Stage("serving")
Live == Listeners # {}
Server == CHOOSE p \in Listeners : TRUE
IsHorus == Live /\ proc[Server].kind # "foreign"

ProcessInit ==
    /\ \E k \in Kinds, x \in BOOLEAN, s \in {"none", "serving"} :
          proc = [p \in Procs |-> IF p = 1 /\ s = "serving"
                     THEN [kind |-> k, exposed |-> x /\ k # "foreign", by |-> "owner", stage |-> s]
                     ELSE NoProc]
    /\ told = {} /\ second = {} /\ child = [t \in Threads |-> 0]
    /\ at = [t \in Threads |-> IF t = "prewarm" THEN "lock" ELSE "idle"]
    /\ dash = Unknown /\ holder = "none" /\ closing = FALSE /\ companion = "up"
    /\ clicks = 0 /\ deaths = 0 /\ late = 0
    /\ report = [said |-> "nothing", old |-> 0, new |-> 0]

-----------------------------------------------------------------------------
(* The server processes.                                                   *)

Ends(p) == proc' = [proc EXCEPT ![p].stage = "dead"] /\ told' = told \ {p}

\* serve: _SingleInstanceServer refuses a port that is taken, and returns.
Binds(p) ==
    /\ proc[p].stage = "starting"
    /\ IF Live THEN Ends(p) ELSE proc' = [proc EXCEPT ![p].stage = "serving"] /\ UNCHANGED told
    /\ UNCHANGED <<at, child, second, sharedVars, budget, report>>

Dies(p) ==
    /\ proc[p].stage \in {"starting", "serving"} /\ deaths + late < MaxMishaps /\ deaths' = deaths + 1
    /\ Ends(p) /\ UNCHANGED <<at, child, second, sharedVars, clicks, late, report>>

Obeys(p) ==
    /\ p \in told /\ proc[p].stage \in {"starting", "serving"} /\ Ends(p)
    /\ UNCHANGED <<at, child, second, sharedVars, budget, report>>

-----------------------------------------------------------------------------
(* ensure_dashboard, for whichever thread called it.  at[t] is "probe" at   *)
(* its start; it returns its process, Adopted or a failure to "got".        *)

Running(t) == t \in Own => companion = "up" \/ (Linger /\ companion = "leaving")

Goes(t, here, there) == at[t] = here /\ Running(t) /\ at' = [at EXCEPT ![t] = there]
Got(t, here, p) == Goes(t, here, "got") /\ child' = [child EXCEPT ![t] = p]

\* A wait that runs out, or a probe the server did not answer in time.
GivesUp == deaths + late < MaxMishaps /\ late' = late + 1 /\ UNCHANGED <<clicks, deaths>>
Seen == Live /\ UNCHANGED budget
Unseen == IF Live THEN GivesUp ELSE UNCHANGED budget

\* _replace_stale_dashboard: a Horus dashboard of another version, only.
IsStale == IsHorus /\ proc[Server].kind = "stale"

\* Nobody answers, or nobody in time; a stale server is told to end; any
\* other is adopted.
Probes(t) ==
    /\ \/ Unseen /\ Goes(t, "probe", "spawn") /\ UNCHANGED <<told, child>>
       \/ /\ Seen
          /\ IF IsStale THEN Goes(t, "probe", "outlast") /\ told' = told \cup {Server} /\ UNCHANGED child
                        ELSE Got(t, "probe", Adopted) /\ UNCHANGED told
    /\ UNCHANGED <<proc, second, sharedVars, report>>

Outlasts(t) ==
    /\ \/ ~Live /\ Goes(t, "outlast", "spawn") /\ UNCHANGED <<child, budget>>
       \/ Live /\ GivesUp /\ Got(t, "outlast", Adopted)
    /\ UNCHANGED <<proc, told, second, sharedVars, report>>

\* The reload passes on what it replaces was; everybody else starts it plain.
Exposes(t) == t = "reload" /\ proc[report.old].exposed

Spawns(t) ==
    /\ Goes(t, "spawn", "wait")
    /\ \E p \in Stage("none") :
          /\ \A q \in Stage("none") : p <= q
          /\ proc' = [proc EXCEPT ![p] = [kind |-> "fresh", exposed |-> Exposes(t),
                                          by |-> t, stage |-> "starting"]]
          /\ child' = [child EXCEPT ![t] = p]
    /\ UNCHANGED <<told, second, sharedVars, budget, report>>

\* _wait_dashboard_live: somebody answers, the child is dead, or time is up.
IsDead(p) == p # Unknown /\ p # Adopted /\ proc[p].stage = "dead"
Waits(t) ==
    /\ Goes(t, "wait", "got")
    /\ \/ Seen
       \/ ~Live /\ IsDead(child[t]) /\ UNCHANGED budget
       \/ GivesUp
    /\ UNCHANGED <<proc, told, child, second, sharedVars, report>>

Ensures(t) == Probes(t) \/ Outlasts(t) \/ Spawns(t) \/ Waits(t)

-----------------------------------------------------------------------------
(* The companion's threads, under state_lock.                              *)

Takes(t) == Running(t) /\ holder = "none" /\ holder' = t
Releases(t, here) ==
    /\ Goes(t, here, IF t = "prewarm" THEN "over" ELSE "idle")
    /\ holder = t /\ holder' = "none"

\* A click on the mascot; the prewarming thread starts the same way.
Clicks ==
    /\ companion = "up" /\ clicks < MaxClicks /\ clicks' = clicks + 1
    /\ Goes("main", "idle", "lock")
    /\ UNCHANGED <<proc, told, child, second, sharedVars, deaths, late, report>>

\* ensure_open: what is known, or ensure_dashboard.
Opens(t) ==
    /\ Takes(t) /\ IF dash = Unknown THEN Goes(t, "lock", "probe") /\ UNCHANGED child
                                   ELSE Got(t, "lock", dash)
    /\ UNCHANGED <<proc, told, second, dash, closing, companion, budget, report>>

\* _terminate_process_tree, which waits for the end.
Stops(p) == IF p \in Stage("starting") \cup Listeners THEN Ends(p) ELSE UNCHANGED <<proc, told>>

\* Mutant: the child that has not answered yet is left to itself.
Repairs_Leaves(p) == UNCHANGED <<proc, told>>

\* ensure_dashboard_for_open finds nobody and stops what it knows first.
Repairs(p) == Stops(p)

Keeps(t) == Releases(t, "got") /\ dash' = child[t] /\ child' = [child EXCEPT ![t] = 0]
Finishes(t) == Keeps(t) /\ second' = second \ {t}

\* The page is opened when somebody answers, or after one more attempt.
\* The prewarming thread may have been told not to open it.
OpensPage(t) ==
    /\ t \in Openers
    /\ \/ Seen /\ Finishes(t) /\ UNCHANGED <<proc, told>>
       \/ (t \in second \/ t = "prewarm") /\ Finishes(t) /\ UNCHANGED <<proc, told, budget>>
       \/ /\ t \notin second /\ Unseen /\ Goes(t, "got", "probe") /\ second' = second \cup {t}
          /\ Repairs(child[t]) /\ UNCHANGED <<dash, holder, child>>
    /\ UNCHANGED <<closing, companion, report>>

\* respawn_dashboard_child: every half second, unless the program is closing.
Looks ==
    /\ ~closing /\ Goes("respawn", "idle", "lock")
    /\ UNCHANGED <<proc, told, child, second, sharedVars, budget, report>>

\* Mutant: the test of `started` inverted.
Lost_Inverted == dash = Adopted /\ ~Live

\* respawn_dashboard_if_needed: adopted servers stay untouched.
Lost == IsDead(dash)

Checks ==
    /\ holder = "none" /\ Running("respawn")
    /\ IF Lost THEN Takes("respawn") /\ Goes("respawn", "lock", "probe")
               ELSE Goes("respawn", "lock", "idle") /\ UNCHANGED holder
    /\ UNCHANGED <<proc, told, child, second, dash, closing, companion, budget, report>>

Respawned ==
    /\ Keeps("respawn")
    /\ UNCHANGED <<proc, told, second, closing, companion, budget, report>>

\* run_companion's end: the main loop is left, the lock awaited.
Quits ==
    /\ companion = "up" /\ Takes("main") /\ closing' = TRUE /\ Goes("main", "idle", "stopping")
    /\ UNCHANGED <<proc, told, child, second, dash, companion, budget, report>>

StopsChild ==
    /\ Releases("main", "stopping") /\ Stops(dash) /\ companion' = "leaving"
    /\ UNCHANGED <<child, second, dash, closing, budget, report>>

Exits ==
    /\ companion = "leaving" /\ companion' = "gone"
    /\ UNCHANGED <<proc, told, at, child, second, dash, holder, closing, budget, report>>

-----------------------------------------------------------------------------
(* reload_dashboard, in a process of its own.                              *)

Reports(said, new) == report' = [report EXCEPT !.said = said, !.new = new]
Replies(here, said, new) == Goes("reload", here, "over") /\ Reports(said, new)

StartsReload ==
    /\ UNCHANGED <<proc, child, second, sharedVars, budget>>
    /\ IF IsHorus
       THEN /\ Goes("reload", "idle", "watch") /\ told' = told \cup {Server}
            /\ report' = [report EXCEPT !.old = Server]
       ELSE Replies("idle", "failed", 0) /\ UNCHANGED told

\* A supervisor may have replaced it already; if nobody did, it does.
Watches ==
    /\ UNCHANGED <<proc, told, child, second, sharedVars>>
    /\ \/ ~IsHorus /\ Goes("reload", "watch", "probe") /\ UNCHANGED <<budget, report>>
       \/ IsHorus /\ Server # report.old /\ Replies("watch", "reloaded", Server) /\ UNCHANGED budget
       \/ GivesUp /\ Goes("reload", "watch", "probe") /\ UNCHANGED report

\* Mutant: any dashboard that answers is the new one.
Replaced_Live == IsHorus

Replaced == IsHorus /\ Server # report.old

Confirms ==
    /\ UNCHANGED <<proc, told, child, second, sharedVars, budget>>
    /\ IF ~IsDead(child["reload"]) /\ Replaced
       THEN Replies("got", "reloaded", Server)
       ELSE Replies("got", "failed", 0)

-----------------------------------------------------------------------------
Works(t) ==
    \/ Ensures(t)
    \/ t \in Openers /\ (Opens(t) \/ OpensPage(t))
    \/ t = "main" /\ StopsChild
    \/ t = "respawn" /\ (Looks \/ Checks \/ Respawned)
    \/ t = "reload" /\ at["reload"] # "idle" /\ (Watches \/ Confirms)

Serves(p) == Binds(p) \/ Obeys(p)

ProcessNext ==
    \/ \E p \in Procs : Serves(p) \/ Dies(p)
    \/ \E t \in Threads : Works(t)
    \/ Clicks \/ Quits \/ Exits \/ StartsReload

ProcessSpec == ProcessInit /\ [][ProcessNext]_processVars

-----------------------------------------------------------------------------
(* Properties.                                                             *)

ProcessTypeOK ==
    /\ proc \in [Procs -> [kind : Kinds, exposed : BOOLEAN, by : Threads \cup {"none", "owner"},
                           stage : {"none", "starting", "serving", "dead"}]]
    /\ told \subseteq Procs /\ child \in [Threads -> Unknown..MaxProcs] /\ second \subseteq Openers
    /\ dash \in Unknown..MaxProcs /\ holder \in Own \cup {"none"} /\ closing \in BOOLEAN
    /\ companion \in {"up", "leaving", "gone"} /\ Cardinality(Listeners) <= 1

\* The server does not outlive the mascot: once the companion is gone, no
\* process any of its threads started runs, whichever of them it had lost
\* sight of, was still waiting for, or had seen lose the port to another.
QuitCleansUp ==
    companion = "gone" => \A p \in Procs : proc[p].by \in Own => proc[p].stage \in {"none", "dead"}

\* A reload that reports success has replaced the server: the old one is
\* gone, though it may take its time to end and others compete for the port,
\* and the new one runs this install; started by the reload itself, it is
\* exposed exactly if the old one was.
ReloadTrue ==
    report.said = "reloaded" =>
        /\ proc[report.old].stage = "dead" /\ report.new # report.old
        /\ proc[report.new].kind = "fresh"
        /\ proc[report.new].by \in Own \/ proc[report.new].exposed = proc[report.old].exposed

\* Once the companion has its dashboard, and every wait was patient enough,
\* no server of an older install answers on the port.
ServesThisInstall == dash # Unknown /\ late = 0 => \A p \in Listeners : proc[p].kind # "stale"

\* Both: an update of the install reaches the page the owner sees.
InstallPrevails == ReloadTrue /\ ServesThisInstall

\* A companion whose own child has died, killed by a reload, by its own
\* repair or by a crash, sees the port answered again, or adopts the server
\* it finds there, unless it quits.
ComesBack == (companion = "up" /\ IsDead(dash)) ~> (Live \/ dash = Adopted \/ companion # "up")
=============================================================================
