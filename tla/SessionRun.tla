------------------------------ MODULE SessionRun ------------------------------
(***************************************************************************)
(* The life of `horus run` sessions: a detached worker is launched into a  *)
(* tmux pane (TmuxHost.launch_worker), its pane runner hands off its pid   *)
(* and executes the agent (tmux_runner, run_executor.execute); a           *)
(* foreground run executes in the caller's process.  Observers list,       *)
(* prune, stop and reap sessions meanwhile.  They share registry.json      *)
(* (RegistryFile), the run-event logs, the datum store, the ready files    *)
(* and the processes themselves.                                           *)
(***************************************************************************)
EXTENDS RegistryFile

CONSTANTS Workers,   \* the sessions dispatched with --detach onto tmux
          Duties,    \* what the observers do besides listing
          Crashes    \* which processes may be killed from outside

ASSUME RunAssumption == /\ Workers \subseteq Sessions
                        /\ Duties \subseteq {"prune", "stop", "reap"}
                        /\ Crashes \subseteq {"runner", "launcher", "observer"}

VARIABLES lpc,       \* lpc[s]: control of s's launcher
          rpc,       \* rpc[s]: control of s's runner
          opc,       \* opc[o]: control of observer o
          aim,       \* aim[o]: the session o is stopping or reaping, and why
          ready,     \* sessions whose ready file exists
          handed,    \* sessions whose runner recorded its pid (history)
          outcome,   \* outcome[s]: how s's agent ended
          hosted     \* hosted[s]: s's runner knows a persistent host owns it

actorVars == <<lpc, rpc, opc, aim, ready, handed, outcome, hosted>>
vars == <<registryVars, results, alive, datum, actorVars>>

Launcher(s) == <<s, "launcher">>
Runner(s)   == <<s, "runner">>
Child(s)    == <<s, "child">>

Fresh(s, pid, target) ==
    [status |-> Running, pid |-> pid, reason |-> "none",
     delivery |-> "unknown", target |-> target]

SetReason(s, why) == Update(s, [NoFields EXCEPT !.reason = why])

NoAim == [why |-> "none", sid |-> "none"]

\* tmux kill-session and the death of its pane: the runner and the agent go.
Kill(s) == /\ alive' = alive \ {Runner(s), Child(s)}
           /\ rpc' = [rpc EXCEPT ![s] = IF Runner(s) \in alive THEN "dead" ELSE @]

-----------------------------------------------------------------------------
(* TmuxHost.launch_worker                                                  *)

LauncherAt(s, from, to) ==
    /\ lpc[s] = from /\ Free(Launcher(s))
    /\ lpc' = [lpc EXCEPT ![s] = to]

Register(s) ==
    /\ s \in Workers /\ LauncherAt(s, "new", "registered")
    /\ alive' = alive \cup {Launcher(s)}
    /\ Ask(Launcher(s), Upsert(s, Fresh(s, "launcher", "tmux")))
    /\ UNCHANGED <<results, datum, rpc, opc, aim, ready, handed, outcome,
                   hosted>>

\* tmux new-session starts the pane runner, or fails.
NewPane(s) ==
    /\ LauncherAt(s, "registered", "await")
    /\ alive' = alive \cup {Runner(s)}
    /\ rpc' = [rpc EXCEPT ![s] = "start"]
    /\ UNCHANGED <<registryVars, results, datum, opc, aim, ready, handed,
                   outcome, hosted>>

NewPaneFails(s) ==
    /\ LauncherAt(s, "registered", "undone")
    /\ Ask(Launcher(s), SetReason(s, "launch-error"))
    /\ UNCHANGED <<results, alive, datum, rpc, opc, aim, ready, handed,
                   outcome, hosted>>

\* await_handoff: both the confirmation and the poll go through store.get(),
\* which reconciles first.
Poll(s) ==
    /\ LauncherAt(s, "await", IF s \in ready THEN "confirm" ELSE "poll")
    /\ Ask(Launcher(s), Reconcile)
    /\ UNCHANGED <<results, alive, datum, rpc, opc, aim, ready, handed,
                   outcome, hosted>>

HandedOff(s) == /\ s \in DOMAIN Visible
                /\ Visible[s].pid # "launcher"
                /\ Visible[s].status = Running

\* The launch succeeded: the launcher returns and exits.
Confirm(s) ==
    /\ LauncherAt(s, "confirm", "gone") /\ HandedOff(s)
    /\ alive' = alive \ {Launcher(s)}
    /\ UNCHANGED <<registryVars, results, datum, rpc, opc, aim, ready, handed,
                   outcome, hosted>>

PollAgain(s) ==
    /\ LauncherAt(s, "poll", "await")
    /\ ~ (s \in DOMAIN Visible /\ Visible[s].status \in Terminal)
    /\ UNCHANGED <<registryVars, results, alive, datum, rpc, opc, aim, ready,
                   handed, outcome, hosted>>

\* _failed_worker: await_handoff returned False (the confirmation failed, the
\* row was terminal, or the deadline passed), or mouse mode could not be set.
GaveUp(s) == \/ lpc[s] = "await"
             \/ lpc[s] = "confirm" /\ ~ HandedOff(s)
             \/ /\ lpc[s] = "poll" /\ s \in DOMAIN Visible
                /\ Visible[s].status \in Terminal

Undo(s) ==
    /\ GaveUp(s) /\ Free(Launcher(s))
    /\ lpc' = [lpc EXCEPT ![s] = "undo"]
    /\ Kill(s) /\ Abandon({Runner(s)})
    /\ ready' = ready \ {s}
    /\ UNCHANGED <<results, datum, opc, aim, handed, outcome, hosted>>

UndoReason(s) ==
    /\ LauncherAt(s, "undo", "undone")
    /\ Ask(Launcher(s), SetReason(s, "launch-error"))
    /\ UNCHANGED <<results, alive, datum, rpc, opc, aim, ready, handed,
                   outcome, hosted>>

UndoStatus(s) ==
    /\ LauncherAt(s, "undone", "failing")
    /\ Ask(Launcher(s), SetStatus(s, "failed"))
    /\ UNCHANGED <<results, alive, datum, rpc, opc, aim, ready, handed,
                   outcome, hosted>>

LaunchFailed(s) ==
    /\ LauncherAt(s, "failing", "gone")
    /\ alive' = alive \ {Launcher(s)}
    /\ UNCHANGED <<registryVars, results, datum, rpc, opc, aim, ready, handed,
                   outcome, hosted>>

Launch(s) == \/ Register(s) \/ NewPane(s) \/ NewPaneFails(s) \/ Poll(s)
             \/ Confirm(s) \/ PollAgain(s) \/ Undo(s) \/ UndoReason(s)
             \/ UndoStatus(s) \/ LaunchFailed(s)

-----------------------------------------------------------------------------
(* tmux_runner._run_worker and run_executor.execute                        *)

RunnerAt(s, from, to) ==
    /\ rpc[s] = from /\ Free(Runner(s))
    /\ rpc' = [rpc EXCEPT ![s] = to]

\* A foreground `horus run` starts execute() in its own process.
StartForeground(s) ==
    /\ s \notin Workers /\ RunnerAt(s, "off", "execute")
    /\ alive' = alive \cup {Runner(s)}
    /\ UNCHANGED <<registryVars, results, datum, lpc, opc, aim, ready, handed,
                   outcome, hosted>>

\* The store.get() calls of _handoff and of execute reconcile first.
Look(s) ==
    /\ \/ RunnerAt(s, "start", "handoff")
       \/ RunnerAt(s, "execute", "lookup")
    /\ Ask(Runner(s), Reconcile)
    /\ UNCHANGED <<results, alive, datum, lpc, opc, aim, ready, handed,
                   outcome, hosted>>

\* Mutant: the handoff leaves the launcher's pid in the row.
Handoff_KeepsPid(s) ==
    /\ RunnerAt(s, "handoff", "handing") /\ s \in DOMAIN Visible
    /\ Ask(Runner(s), Upsert(s, [Visible[s] EXCEPT !.status = Running]))
    /\ UNCHANGED <<results, alive, datum, lpc, opc, aim, ready, handed, outcome,
                   hosted>>

Handoff(s) ==
    /\ RunnerAt(s, "handoff", "handing") /\ s \in DOMAIN Visible
    /\ Ask(Runner(s), Upsert(s, [Visible[s] EXCEPT !.pid = "runner",
                                                   !.status = Running]))
    /\ UNCHANGED <<results, alive, datum, lpc, opc, aim, ready, handed,
                   outcome, hosted>>

\* "runner has no preallocated registry row": nothing to run.
HandoffRefused(s) ==
    /\ RunnerAt(s, "handoff", "dead") /\ s \notin DOMAIN Visible
    /\ alive' = alive \ {Runner(s)}
    /\ UNCHANGED <<registryVars, results, datum, lpc, opc, aim, ready, handed,
                   outcome, hosted>>

WriteReady(s) ==
    /\ RunnerAt(s, "handing", "execute")
    /\ ready' = ready \cup {s}
    /\ handed' = handed \cup {s}
    /\ UNCHANGED <<registryVars, results, alive, datum, lpc, opc, aim, outcome,
                   hosted>>

\* execute() finds its row, or registers the run itself (and then no host
\* owns it).
Adopt(s) ==
    /\ RunnerAt(s, "lookup", "spawn")
    /\ hosted' = [hosted EXCEPT ![s] = s \in DOMAIN Visible
                                       /\ Visible[s].target = "tmux"]
    /\ IF s \in DOMAIN Visible
       THEN UNCHANGED registryVars
       ELSE Ask(Runner(s), Upsert(s, Fresh(s, "runner", "local")))
    /\ UNCHANGED <<results, alive, datum, lpc, opc, aim, ready, handed,
                   outcome>>

\* Mutant: the agent's pid always becomes the liveness pid.
LivenessPid_Child(s) == [NoFields EXCEPT !.pid = "child"]

\* A durable runner keeps its own pid in the row; otherwise the agent's pid
\* becomes the liveness pid.
LivenessPid(s) == IF hosted[s] THEN NoFields
                  ELSE [NoFields EXCEPT !.pid = "child"]

Spawn(s) ==
    /\ RunnerAt(s, "spawn", "launched")
    /\ alive' = alive \cup {Child(s)}
    /\ Ask(Runner(s), Update(s, LivenessPid(s)))
    /\ UNCHANGED <<results, datum, lpc, opc, aim, ready, handed, outcome,
                   hosted>>

\* AccountMismatch or OSError: the run ends without a result event.
SpawnFails(s) ==
    /\ RunnerAt(s, "spawn", "unspawned")
    /\ Ask(Runner(s), SetReason(s, "launch-error"))
    /\ UNCHANGED <<results, alive, datum, lpc, opc, aim, ready, handed,
                   outcome, hosted>>

SpawnFailed(s) ==
    /\ RunnerAt(s, "unspawned", "closing")
    /\ Ask(Runner(s), SetStatus(s, "failed"))
    /\ UNCHANGED <<results, alive, datum, lpc, opc, aim, ready, handed,
                   outcome, hosted>>

RecordLaunch(s) ==
    /\ RunnerAt(s, "launched", "running")
    /\ datum' = [datum EXCEPT ![s] = "launched"]
    /\ UNCHANGED <<registryVars, results, alive, lpc, opc, aim, ready, handed,
                   outcome, hosted>>

\* Every agent event rewrites the registry (last_activity_at).
AgentEvent(s) ==
    /\ RunnerAt(s, "running", "running") /\ Child(s) \in alive
    /\ Ask(Runner(s), Update(s, NoFields))
    /\ UNCHANGED <<results, alive, datum, lpc, opc, aim, ready, handed,
                   outcome, hosted>>

\* The agent's process ends (and is reaped).
ChildExits(s) ==
    /\ Child(s) \in alive
    /\ Runner(s) \in alive => rpc[s] = "running" /\ Free(Runner(s))
    /\ alive' = alive \ {Child(s)}
    /\ \E how \in {"exited", "failed"} : outcome' = [outcome EXCEPT ![s] = how]
    /\ UNCHANGED <<registryVars, results, datum, lpc, rpc, opc, aim, ready,
                   handed, hosted>>

RecordEvidence(s) ==
    /\ RunnerAt(s, "running", "evidence") /\ Child(s) \notin alive
    /\ Ask(Runner(s), Update(s, [NoFields EXCEPT !.reason = "natural",
                                    !.delivery = Classify(outcome[s])]))
    /\ UNCHANGED <<results, alive, datum, lpc, opc, aim, ready, handed,
                   outcome, hosted>>

\* Mutant: every agent that ended is recorded as exited.
RecordStatus_Clean(s) ==
    /\ RunnerAt(s, "evidence", "status")
    /\ Ask(Runner(s), SetStatus(s, "exited"))
    /\ UNCHANGED <<results, alive, datum, lpc, opc, aim, ready, handed, outcome,
                   hosted>>

RecordStatus(s) ==
    /\ RunnerAt(s, "evidence", "status")
    /\ Ask(Runner(s), SetStatus(s, outcome[s]))
    /\ UNCHANGED <<results, alive, datum, lpc, opc, aim, ready, handed,
                   outcome, hosted>>

LogResult(s) ==
    /\ RunnerAt(s, "status", "logged")
    /\ results' = [results EXCEPT ![s] = outcome[s]]
    /\ UNCHANGED <<registryVars, alive, datum, lpc, opc, aim, ready, handed,
                   outcome, hosted>>

RecordCompletion(s) ==
    /\ RunnerAt(s, "logged", "closing")
    /\ datum' = [datum EXCEPT ![s] = "executor"]
    /\ UNCHANGED <<registryVars, results, alive, lpc, opc, aim, ready, handed,
                   outcome, hosted>>

\* The runner removes its ready file and exits.
RunnerExits(s) ==
    /\ RunnerAt(s, "closing", "done")
    /\ ready' = ready \ {s}
    /\ alive' = alive \ {Runner(s)}
    /\ UNCHANGED <<registryVars, results, datum, lpc, opc, aim, handed,
                   outcome, hosted>>

Run(s) == \/ StartForeground(s) \/ Look(s) \/ Handoff(s) \/ HandoffRefused(s)
          \/ WriteReady(s) \/ Adopt(s) \/ Spawn(s) \/ SpawnFails(s)
          \/ SpawnFailed(s) \/ RecordLaunch(s) \/ AgentEvent(s)
          \/ RecordEvidence(s) \/ RecordStatus(s) \/ LogResult(s)
          \/ RecordCompletion(s) \/ RunnerExits(s)

-----------------------------------------------------------------------------
(* Observers: `horus sessions`, `horus sessions --prune`, stop_session and *)
(* reap_orphans.                                                           *)

ObserverAt(o, from, to) ==
    /\ opc[o] = from /\ Free(o)
    /\ opc' = [opc EXCEPT ![o] = to]

List(o) ==
    /\ ObserverAt(o, "rest", "listed")
    /\ Ask(o, Reconcile)
    /\ UNCHANGED <<results, alive, datum, lpc, rpc, aim, ready, handed,
                   outcome, hosted>>

Done(o) ==
    /\ \/ ObserverAt(o, "listed", "rest")
       \/ ObserverAt(o, "pruned", "rest")
       \/ ObserverAt(o, "noted", "rest")
    /\ aim' = [aim EXCEPT ![o] = NoAim]
    /\ UNCHANGED <<registryVars, results, alive, datum, lpc, rpc, ready,
                   handed, outcome, hosted>>

PruneAll(o) ==
    /\ "prune" \in Duties /\ ObserverAt(o, "listed", "pruned")
    /\ Ask(o, Prune)
    /\ UNCHANGED <<results, alive, datum, lpc, rpc, aim, ready, handed,
                   outcome, hosted>>

\* stop_session kills any session of a persistent host, whatever its status.
Stop(o, s) ==
    /\ "stop" \in Duties /\ ObserverAt(o, "listed", "killed")
    /\ s \in DOMAIN Visible /\ Visible[s].target = "tmux"
    /\ aim' = [aim EXCEPT ![o] = [why |-> "stopped", sid |-> s]]
    /\ Kill(s) /\ Abandon({Runner(s)})
    /\ UNCHANGED <<results, datum, lpc, ready, handed, outcome, hosted>>

\* A pane can look idle for the ten-minute grace window once the agent, or a
\* probe after it, is silent for that long.
PaneIdle(s) == /\ Runner(s) \in alive
               /\ rpc[s] \in {"running", "evidence", "status", "logged",
                              "closing"}

\* Mutant: an idle pane that is ours is abandoned.
Abandoned_IfOurs(s) == s \in DOMAIN Visible /\ Visible[s].target = "tmux"

\* The registry positively confirms that the pane's session is not live.
Abandoned(s) ==
    /\ s \in DOMAIN Visible /\ Visible[s].target = "tmux"
    /\ ~ (Visible[s].status = Running /\ <<s, Visible[s].pid>> \in alive)

\* reap_orphans: an unattached idle pane whose row is ours and not live.
Reap(o, s) ==
    /\ "reap" \in Duties /\ ObserverAt(o, "listed", "killed")
    /\ PaneIdle(s) /\ Abandoned(s)
    /\ aim' = [aim EXCEPT ![o] = [why |-> "orphan-reaped", sid |-> s]]
    /\ Kill(s) /\ Abandon({Runner(s)})
    /\ UNCHANGED <<results, datum, lpc, ready, handed, outcome, hosted>>

NoteReason(o) ==
    /\ ObserverAt(o, "killed", "noting")
    /\ Ask(o, SetReason(aim[o].sid, aim[o].why))
    /\ UNCHANGED <<results, alive, datum, lpc, rpc, aim, ready, handed,
                   outcome, hosted>>

NoteStatus(o) ==
    /\ ObserverAt(o, "noting", "noted")
    /\ Ask(o, SetStatus(aim[o].sid,
                        IF aim[o].why = "stopped" THEN "stopped" ELSE "orphaned"))
    /\ UNCHANGED <<results, alive, datum, lpc, rpc, aim, ready, handed,
                   outcome, hosted>>

Observe(o) == \/ List(o) \/ Done(o) \/ PruneAll(o) \/ NoteReason(o)
              \/ NoteStatus(o) \/ \E s \in Sessions : Stop(o, s) \/ Reap(o, s)

-----------------------------------------------------------------------------
(* Kills from outside: kill -9, a closed terminal, a power cut.            *)

RunnerCrashes(s) ==
    /\ "runner" \in Crashes /\ Runner(s) \in alive
    /\ rpc' = [rpc EXCEPT ![s] = "dead"]
    /\ alive' = alive \ {Runner(s)}
    /\ Abandon({Runner(s)})
    /\ UNCHANGED <<results, datum, lpc, opc, aim, ready, handed, outcome,
                   hosted>>

LauncherCrashes(s) ==
    /\ "launcher" \in Crashes /\ Launcher(s) \in alive
    /\ lpc' = [lpc EXCEPT ![s] = "gone"]
    /\ alive' = alive \ {Launcher(s)}
    /\ Abandon({Launcher(s)})
    /\ UNCHANGED <<results, datum, rpc, opc, aim, ready, handed, outcome,
                   hosted>>

ObserverCrashes(o) ==
    /\ "observer" \in Crashes /\ opc[o] # "rest"
    /\ opc' = [opc EXCEPT ![o] = "rest"]
    /\ aim' = [aim EXCEPT ![o] = NoAim]
    /\ Abandon({o})
    /\ UNCHANGED <<results, alive, datum, lpc, rpc, ready, handed, outcome,
                   hosted>>

-----------------------------------------------------------------------------
Init ==
    /\ RegistryInit /\ alive = {}
    /\ lpc = [s \in Sessions |-> IF s \in Workers THEN "new" ELSE "gone"]
    /\ rpc = [s \in Sessions |-> "off"]
    /\ opc = [o \in Observers |-> "rest"]
    /\ aim = [o \in Observers |-> NoAim]
    /\ ready = {} /\ handed = {}
    /\ outcome = [s \in Sessions |-> "none"]
    /\ hosted  = [s \in Sessions |-> FALSE]

Work(p) == Operate(p) /\ UNCHANGED actorVars

Next == \/ \E p \in Procs : Work(p)
        \/ \E s \in Sessions : \/ Launch(s) \/ Run(s) \/ ChildExits(s)
                               \/ RunnerCrashes(s) \/ LauncherCrashes(s)
        \/ \E o \in Observers : Observe(o) \/ ObserverCrashes(o)

Spec == Init /\ [][Next]_vars

-----------------------------------------------------------------------------
(* Fairness: the operating system runs every process that can move; the    *)
(* cockpit and the phone poll the session list for ever; the five-second   *)
(* deadline of await_handoff passes although its loop keeps polling.       *)

Fairness ==
    /\ \A p \in Procs : WF_vars(Work(p))
    /\ \A s \in Sessions : WF_vars(Launch(s)) /\ WF_vars(Run(s))
                           /\ SF_vars(Undo(s))
    /\ \A o \in Observers : WF_vars(Observe(o)) /\ SF_vars(List(o))

FairSpec == Spec /\ Fairness

-----------------------------------------------------------------------------
Pcs == {"off", "start", "handoff", "handing", "execute", "lookup", "spawn",
        "unspawned", "launched", "running", "evidence", "status", "logged",
        "closing", "done", "dead"}

ActorTypeOK ==
    /\ lpc \in [Sessions -> {"new", "registered", "await", "poll", "confirm",
                             "undo", "undone", "failing", "gone"}]
    /\ rpc \in [Sessions -> Pcs]
    /\ opc \in [Observers -> {"rest", "listed", "pruned", "killed", "noting",
                              "noted"}]
    /\ aim \in [Observers -> [why: {"stopped", "orphan-reaped"}, sid: Sessions]
                             \cup {NoAim}]
    /\ ready \in SUBSET Sessions /\ handed \in SUBSET Sessions
    /\ outcome \in [Sessions -> Outcomes]
    /\ hosted \in [Sessions -> BOOLEAN]

TypeOK == RegistryTypeOK /\ ActorTypeOK

\* Unless somebody stopped, reaped or undid the session, the row of a run whose
\* result is in its run-event log has the status the log has ...
Undisturbed(row) == /\ row.reason \in {"none", "natural", "vanished"}
                    /\ row.status \notin {"stopped", "orphaned"}
StatusStands ==
    \A s \in DOMAIN Visible :
        results[s] # "none" /\ Undisturbed(Visible[s])
            => Visible[s].status = results[s]

\* ... and for a tmux worker also the delivery verdict of that status: the
\* runner's "clean terminal receipt" is not overwritten with "stale/blocked".
WorkerVerdictStands ==
    \A s \in Workers \cap DOMAIN Visible :
        hosted[s] /\ results[s] # "none" /\ Undisturbed(Visible[s])
            => Visible[s].delivery = Classify(results[s])

\* A tmux worker that recorded its pid is never listed as stale while its
\* runner lives.
NoFalseDeath ==
    \A s \in DOMAIN Visible :
        s \in handed /\ Visible[s].target = "tmux"
        /\ Visible[s].status = "stale" => Runner(s) \notin alive

\* A datum is completed only on positive evidence, a result in the run-event
\* log; a dead pid alone never completes it.
DatumHasEvidence ==
    \A s \in Sessions :
        datum[s] \in {"executor", "reconcile"} => results[s] # "none"

\* reap_orphans kills only what is "provably abandoned": it never ends an agent
\* still at work, unless its owner asked for the session to stop.
ReapSparesTheLiving ==
    [][\A s \in Sessions :
          (\E o \in Observers : Reap(o, s)) /\ Visible[s].status # "stopped"
              => Child(s) \notin alive]_vars

\* await_handoff waits "only for the runner's durable PID handoff, never for its
\* agent": a worker that ran to its recorded end is not undone as a failed
\* launch.
FinishedRunNotUndone ==
    [][\A s \in Sessions : Undo(s) => results[s] = "none"]_vars

\* Once every process of a session is gone, the cockpit's polling brings its
\* row to rest: terminal, or pruned.
Settled(s) == s \in DOMAIN Visible => Visible[s].status \in Terminal
Gone(s) == /\ lpc[s] = "gone" /\ rpc[s] \in {"off", "done", "dead"}
           /\ Child(s) \notin alive
DeadRowsSettle == \A s \in Sessions : Gone(s) ~> []Settled(s)
=============================================================================
