----------------------------- MODULE Console_proofs -----------------------------
(***************************************************************************)
(* What holds of the dashboard's server processes, of the geometry of the  *)
(* terminals it shows, and of the frames of the terminal cockpit: for any  *)
(* pages, grids, projects, accounts and rows.  The three parts do not use  *)
(* one another.                                                            *)
(***************************************************************************)
EXTENDS DashboardProcess, ViewerGeometry, TerminalUI, FiniteSetTheorems, TLAPS

(* The dashboard's server processes.                                       *)

Places == {"idle", "lock", "probe", "outlast", "spawn", "wait", "got", "stopping", "over", "watch"}
Stages == {"none", "starting", "serving", "dead"}

\* At these a thread of the companion holds the lock.
Locked == {"probe", "outlast", "spawn", "wait", "got", "stopping"}

ProcessTypes ==
    /\ proc \in [Procs -> [kind : Kinds, exposed : BOOLEAN, by : Threads \cup {"none", "owner"},
                           stage : Stages]]
    /\ at \in [Threads -> Places] /\ child \in [Threads -> Int] /\ dash \in Int /\ late \in Nat
    /\ holder \in Own \cup {"none"} /\ companion \in {"up", "leaving", "gone"}
    /\ report \in [said : {"nothing", "failed", "reloaded"}, old : Int, new : Int]

OneListens == \A p, q \in Procs : proc[p].stage = "serving" /\ proc[q].stage = "serving" => p = q

\* The lock is held by the thread that is about something, and by no other.
LockHeld ==
    /\ \A t \in Own : at[t] \in Locked <=> holder = t
    /\ at["prewarm"] # "stopping" /\ at["respawn"] # "stopping" /\ at["reload"] # "stopping"

\* The servers of the companion that run.
Ours(p) == proc[p].by \in Own /\ proc[p].stage \in {"starting", "serving"}

\* It knows them: there is none but its dashboard, or the child of the thread
\* that holds the lock; while that thread looks for one, there is none at all.
OursKnown ==
    /\ holder = "none" => \A p \in Procs : Ours(p) => p = dash
    /\ \A t \in Own : holder = t =>
          \A p \in Procs : Ours(p) =>
             /\ at[t] \notin {"probe", "outlast", "spawn"}
             /\ at[t] \in {"wait", "got"} => p = child[t]
             /\ at[t] = "stopping" => p = dash
    /\ companion # "up" => holder = "none" /\ \A p \in Procs : ~ Ours(p)

\* Where a process comes from: only the one that was there is not of this install.
Origins ==
    \A p \in Procs :
        /\ proc[p].by \in Threads => proc[p].kind = "fresh"
        /\ proc[p].by = "owner" => proc[p].stage \in {"serving", "dead"}
        /\ proc[p].by = "none" <=> proc[p].stage = "none"

\* While a reload goes on, what it replaces ends, and nothing older serves.
Reloading ==
    /\ at["reload"] = "idle" => report.said = "nothing" /\ \A p \in Procs : proc[p].by # "reload"
    /\ at["reload"] \in {"watch", "probe", "outlast", "spawn", "wait", "got"} =>
          report.said = "nothing" /\ report.old \in Procs
    /\ report.old \in Procs =>
          /\ proc[report.old].stage \in {"serving", "dead"}
          /\ \A p \in Procs : proc[p].by = "owner" /\ p # report.old => proc[p].stage = "dead"
    /\ \A p \in Procs : proc[p].by = "reload" =>
          report.old \in Procs /\ proc[p].exposed = proc[report.old].exposed
    /\ report.said = "reloaded" =>
          /\ {report.old, report.new} \subseteq Procs /\ report.new # report.old
          /\ proc[report.old].stage = "dead" /\ proc[report.new].by \in Threads

\* Whoever has a dashboard, or looks for one no more, has seen the stale one go.
StaleGone ==
    late = 0 /\ (dash # Unknown \/ \E t \in Own : at[t] \in {"spawn", "wait", "got"})
        => \A p \in Procs : proc[p].kind = "stale" => proc[p].stage # "serving"

ProcessInv == ProcessTypes /\ OneListens /\ LockHeld /\ OursKnown /\ Origins /\ Reloading /\ StaleGone

LEMMA ServerListens ==
    Live => Server \in Procs /\ proc[Server].stage = "serving"
BY DEF Live, Server, Listeners, Stage

LEMMA ProcessBasics ==
    /\ Threads = {"prewarm", "main", "respawn", "reload"} /\ Own = {"prewarm", "main", "respawn"}
    /\ "none" \notin Own /\ Own \subseteq Threads /\ "reload" \notin Own
    /\ \A p \in Procs : p \in Nat /\ p # Unknown /\ p # Adopted
    /\ Procs \subseteq Int /\ Unknown \in Int /\ Adopted \in Int /\ Unknown \notin Procs /\ Adopted \notin Procs
BY ProcessAssumption DEF Threads, Own, Openers, Procs, Unknown, Adopted

-----------------------------------------------------------------------------
(* What a step does to the processes.                                      *)

\* A process that runs ends.
Ended(p) == /\ p \in Procs /\ proc[p].stage \in {"starting", "serving"}
            /\ proc' = [proc EXCEPT ![p].stage = "dead"]

LEMMA EndedKeeps ==
    ASSUME ProcessInv, NEW p, Ended(p) \/ proc' = proc
    PROVE  /\ proc' \in [Procs -> [kind : Kinds, exposed : BOOLEAN, by : Threads \cup {"none", "owner"},
                                   stage : Stages]]
           /\ OneListens' /\ Origins'
           /\ \A q \in Procs : /\ proc'[q].kind = proc[q].kind /\ proc'[q].by = proc[q].by
                               /\ proc'[q].exposed = proc[q].exposed
                               /\ proc'[q].stage = proc[q].stage
                                     \/ (q = p /\ proc[q].stage \in {"starting", "serving"} /\ proc'[q].stage = "dead")
<1> USE DEF ProcessInv, ProcessTypes
<1>1. /\ proc' \in [Procs -> [kind : Kinds, exposed : BOOLEAN, by : Threads \cup {"none", "owner"},
                              stage : Stages]]
      /\ \A q \in Procs : /\ proc'[q].kind = proc[q].kind /\ proc'[q].by = proc[q].by
                          /\ proc'[q].exposed = proc[q].exposed
                          /\ proc'[q].stage = proc[q].stage
                                \/ (q = p /\ proc[q].stage \in {"starting", "serving"} /\ proc'[q].stage = "dead")
  BY DEF Ended, Stages
<1>2. OneListens'
  BY <1>1 DEF OneListens
<1>3. Origins'
  BY <1>1 DEF Origins
<1> QED
  BY <1>1, <1>2, <1>3

\* An end alone breaks nothing.
LEMMA EndsKeep ==
    ASSUME ProcessInv, NEW p, Ended(p),
           UNCHANGED <<at, child, dash, holder, companion, report>>,
           late' \in Nat, late' >= late
    PROVE  ProcessInv'
<1> USE DEF ProcessInv, ProcessTypes
<1>1. /\ proc' \in [Procs -> [kind : Kinds, exposed : BOOLEAN, by : Threads \cup {"none", "owner"},
                              stage : Stages]]
      /\ OneListens' /\ Origins'
      /\ \A q \in Procs : /\ proc'[q].kind = proc[q].kind /\ proc'[q].by = proc[q].by
                          /\ proc'[q].exposed = proc[q].exposed
                          /\ proc'[q].stage = proc[q].stage
                                \/ (proc[q].stage \in {"starting", "serving"} /\ proc'[q].stage = "dead")
  BY EndedKeeps
<1>2. LockHeld'
  BY DEF LockHeld
<1>3. OursKnown'
  BY <1>1 DEF OursKnown, Ours
<1>4. Reloading'
  BY <1>1, ProcessBasics DEF Reloading, Origins
<1>5. StaleGone'
  BY <1>1 DEF StaleGone
<1> QED
  BY <1>1, <1>2, <1>3, <1>4, <1>5

LEMMA StepBinds ==
    ASSUME ProcessInv, NEW p \in Procs, Binds(p) PROVE ProcessInv'
<1> USE DEF ProcessInv, ProcessTypes
<1>1. CASE Live
  <2>1. Ended(p) /\ UNCHANGED <<at, child, dash, holder, companion, report, late>>
    BY <1>1 DEF Binds, Ends, Ended, sharedVars, budget
  <2> QED
    BY <2>1, EndsKeep
<1>2. CASE ~ Live
  <2>1. /\ proc' = [proc EXCEPT ![p].stage = "serving"] /\ proc[p].stage = "starting"
        /\ UNCHANGED <<at, child, dash, holder, companion, report, late>>
    BY <1>2 DEF Binds, sharedVars, budget
  <2>2. \A q \in Procs : proc[q].stage # "serving"
    BY <1>2 DEF Live, Listeners, Stage
  <2>3. /\ proc' \in [Procs -> [kind : Kinds, exposed : BOOLEAN, by : Threads \cup {"none", "owner"},
                                stage : Stages]]
        /\ \A q \in Procs : /\ proc'[q].kind = proc[q].kind /\ proc'[q].by = proc[q].by
                            /\ proc'[q].exposed = proc[q].exposed
                            /\ proc'[q].stage = (IF q = p THEN "serving" ELSE proc[q].stage)
    BY <2>1 DEF Stages
  <2>4. OneListens' /\ Origins' /\ LockHeld'
    BY <2>1, <2>2, <2>3 DEF OneListens, Origins, LockHeld
  <2>5. OursKnown'
    BY <2>1, <2>3 DEF OursKnown, Ours
  <2>6. proc[p].by \in Threads /\ proc[p].kind = "fresh"
    BY <2>1 DEF Origins
  <2>7. Reloading'
    BY <2>1, <2>3, <2>6, ProcessBasics DEF Reloading
  <2>8. StaleGone'
    BY <2>1, <2>3, <2>6 DEF StaleGone
  <2> QED
    BY <2>1, <2>3, <2>4, <2>5, <2>7, <2>8
<1> QED
  BY <1>1, <1>2

LEMMA StepDies ==
    ASSUME ProcessInv, NEW p \in Procs, Dies(p) \/ Obeys(p) PROVE ProcessInv'
<1>1. Ended(p) /\ UNCHANGED <<at, child, dash, holder, companion, report, late>>
  BY DEF Dies, Obeys, Ends, Ended, sharedVars, budget
<1> QED
  BY <1>1, EndsKeep DEF ProcessInv, ProcessTypes

-----------------------------------------------------------------------------
(* What a thread does.                                                     *)

\* A thread of the companion goes on only while the companion is up.
LEMMA OwnIsUp ==
    ASSUME ProcessInv, ~ Linger, NEW t \in Own, Running(t)
    PROVE  companion = "up"
BY DEF Running

\* A thread that keeps what it holds, and leaves the processes alone.
Minds(t, there) ==
    /\ at' = [at EXCEPT ![t] = there] /\ there \in Places
    /\ (t \in Own => (at[t] \in Locked <=> there \in Locked)) /\ there # "stopping"
    /\ UNCHANGED <<proc, dash, holder, companion>>
    /\ late' \in Nat /\ late' >= late
    /\ \A r \in Threads : r # t => child'[r] = child[r]
    /\ child' \in [Threads -> Int]

\* What it has to see to: the servers it knows, and the stale one.
LEMMA MindsKeeps ==
    ASSUME ProcessInv, NEW t \in Threads, NEW there, Minds(t, there),
           t \in Own /\ holder = t => \A p \in Procs : Ours(p) =>
              /\ there \notin {"probe", "outlast", "spawn"}
              /\ there \in {"wait", "got"} => p = child'[t],
           t \in Own /\ late' = 0 /\ there \in {"spawn", "wait", "got"} =>
              \A p \in Procs : proc[p].kind = "stale" => proc[p].stage # "serving"
    PROVE  /\ OneListens' /\ LockHeld' /\ OursKnown' /\ Origins' /\ StaleGone'
           /\ t # "reload" /\ UNCHANGED report => ProcessInv'
<1> USE DEF ProcessInv, ProcessTypes, Minds
<1>1. \A r \in Threads : at'[r] = (IF r = t THEN there ELSE at[r])
  OBVIOUS
<1>2. OneListens' /\ Origins'
  BY DEF OneListens, Origins
<1>3. LockHeld'
  BY <1>1, ProcessBasics DEF LockHeld
<1>4. OursKnown'
  <2>1. \A p : Ours(p)' <=> Ours(p)
    BY DEF Ours
  <2>2. ASSUME NEW r \in Own, holder = r
        PROVE  \A p \in Procs : Ours(p) =>
                  /\ at'[r] \notin {"probe", "outlast", "spawn"}
                  /\ at'[r] \in {"wait", "got"} => p = child'[r]
                  /\ at'[r] = "stopping" => p = dash
    <3>1. CASE r = t
      BY <1>1, <2>2, <3>1, ProcessBasics
    <3>2. CASE r # t
      BY <1>1, <2>2, <3>2, ProcessBasics DEF OursKnown
    <3> QED
      BY <3>1, <3>2
  <2>3. /\ holder = "none" => \A p \in Procs : Ours(p) => p = dash
        /\ companion # "up" => holder = "none" /\ \A p \in Procs : ~ Ours(p)
    BY DEF OursKnown
  <2> QED
    BY <2>1, <2>2, <2>3 DEF OursKnown
<1>5. StaleGone'
  BY <1>1, ProcessBasics DEF StaleGone
<1>6. ASSUME t # "reload", UNCHANGED report PROVE ProcessInv'
  <2>1. Reloading'
    BY <1>1, <1>6, ProcessBasics DEF Reloading
  <2> QED
    BY <1>2, <1>3, <1>4, <1>5, <1>6, <2>1
<1> QED
  BY <1>2, <1>3, <1>4, <1>5, <1>6

LEMMA Lateness ==
    ASSUME ProcessInv, Seen \/ Unseen \/ GivesUp \/ UNCHANGED budget
    PROVE  late' \in Nat /\ late' >= late
BY DEF ProcessInv, ProcessTypes, Seen, Unseen, GivesUp, budget

\* A stale server answers for itself, or it is gone.
LEMMA StaleServes ==
    ASSUME ProcessInv, ~ (Live /\ IsStale)
    PROVE  \A p \in Procs : proc[p].kind = "stale" => proc[p].stage # "serving"
<1> SUFFICES ASSUME NEW p \in Procs, proc[p].kind = "stale", proc[p].stage = "serving" PROVE FALSE
  OBVIOUS
<1>1. Live /\ p \in Listeners
  BY DEF Live, Listeners, Stage
<1>2. Server = p
  BY <1>1, ServerListens DEF ProcessInv, OneListens
<1> QED
  BY <1>1, <1>2 DEF IsStale, IsHorus

LEMMA ReloadMinds ==
    ASSUME ProcessInv, NEW there, Minds("reload", there),
           there \in {"probe", "outlast", "spawn", "wait", "got"},
           at["reload"] \in {"watch", "probe", "outlast", "spawn", "wait"}, UNCHANGED report
    PROVE  ProcessInv'
<1>1. OneListens' /\ LockHeld' /\ OursKnown' /\ Origins' /\ StaleGone'
  BY MindsKeeps, ProcessBasics
<1>2. ProcessTypes' /\ Reloading'
  BY ProcessBasics DEF ProcessInv, ProcessTypes, Minds, Reloading
<1> QED
  BY <1>1, <1>2 DEF ProcessInv

\* The same for any thread of those that ensure a dashboard.
LEMMA EnsureMinds ==
    ASSUME ProcessInv, NEW t \in Threads, NEW here \in {"probe", "outlast", "wait"},
           NEW there \in {"outlast", "spawn", "got"}, at[t] = here, Minds(t, there), UNCHANGED report,
           here = "wait" => there = "got" /\ child' = child,
           there \in {"spawn", "got"} /\ late' = 0 /\ here # "wait" =>
               \A p \in Procs : proc[p].kind = "stale" => proc[p].stage # "serving"
    PROVE  ProcessInv'
<1>1. CASE t = "reload"
  BY <1>1, ReloadMinds
<1>2. CASE t # "reload"
  <2>1. t \in Own /\ holder = t
    BY <1>2, ProcessBasics DEF ProcessInv, LockHeld, Locked
  <2>2. ASSUME NEW p \in Procs, Ours(p)
        PROVE  here = "wait" /\ p = child'[t]
    BY <2>1, <2>2 DEF ProcessInv, OursKnown
  <2>3. late' = 0 /\ here = "wait" => \A p \in Procs : proc[p].kind = "stale" => proc[p].stage # "serving"
    BY <2>1 DEF ProcessInv, ProcessTypes, StaleGone, Minds
  <2> QED
    BY <1>2, <2>1, <2>2, <2>3, MindsKeeps
<1> QED
  BY <1>1, <1>2

LEMMA StepProbes ==
    ASSUME ProcessInv, NEW t \in Threads, Probes(t) PROVE ProcessInv'
<1> USE DEF Places, Locked
<1>1. CASE Unseen /\ Goes(t, "probe", "spawn") /\ UNCHANGED child
  <2>1. at[t] = "probe" /\ Minds(t, "spawn") /\ UNCHANGED report
    BY <1>1, Lateness DEF Probes, Goes, Minds, sharedVars, ProcessInv, ProcessTypes
  <2>2. late' = 0 => ~ Live
    BY <1>1 DEF Unseen, GivesUp, ProcessInv, ProcessTypes
  <2> QED
    BY <2>1, <2>2, StaleServes, EnsureMinds
<1>2. CASE Seen /\ IsStale /\ Goes(t, "probe", "outlast") /\ UNCHANGED child
  <2>1. at[t] = "probe" /\ Minds(t, "outlast") /\ UNCHANGED report
    BY <1>2, Lateness DEF Probes, Goes, Minds, sharedVars, ProcessInv, ProcessTypes
  <2> QED
    BY <2>1, EnsureMinds
<1>3. CASE Seen /\ ~ IsStale /\ Got(t, "probe", Adopted)
  <2>1. at[t] = "probe" /\ Minds(t, "got") /\ UNCHANGED report
    BY <1>3, Lateness, ProcessBasics DEF Probes, Got, Goes, Minds, sharedVars, ProcessInv, ProcessTypes
  <2> QED
    BY <1>3, <2>1, StaleServes, EnsureMinds
<1> QED
  BY <1>1, <1>2, <1>3 DEF Probes

LEMMA StepOutlasts ==
    ASSUME ProcessInv, NEW t \in Threads, Outlasts(t) PROVE ProcessInv'
<1> USE DEF Places, Locked
<1>1. CASE ~ Live /\ Goes(t, "outlast", "spawn") /\ UNCHANGED <<child, budget>>
  <2>1. at[t] = "outlast" /\ Minds(t, "spawn") /\ UNCHANGED report
    BY <1>1, Lateness DEF Outlasts, Goes, Minds, sharedVars, ProcessInv, ProcessTypes
  <2> QED
    BY <1>1, <2>1, StaleServes, EnsureMinds
<1>2. CASE GivesUp /\ Got(t, "outlast", Adopted)
  <2>1. at[t] = "outlast" /\ Minds(t, "got") /\ UNCHANGED report
    BY <1>2, Lateness, ProcessBasics DEF Outlasts, Got, Goes, Minds, sharedVars, ProcessInv, ProcessTypes
  <2>2. late' # 0
    BY <1>2 DEF GivesUp, ProcessInv, ProcessTypes
  <2> QED
    BY <2>1, <2>2, EnsureMinds
<1> QED
  BY <1>1, <1>2 DEF Outlasts

LEMMA StepWaits ==
    ASSUME ProcessInv, NEW t \in Threads, Waits(t) PROVE ProcessInv'
<1>1. at[t] = "wait" /\ Minds(t, "got") /\ UNCHANGED report /\ child' = child
  BY Lateness DEF Waits, Goes, Minds, sharedVars, ProcessInv, ProcessTypes, Places, Locked
<1> QED
  BY <1>1, EnsureMinds

\* A new process is of this install, and known to the thread that starts it.
LEMMA StepSpawns ==
    ASSUME ProcessInv, NEW t \in Threads, Spawns(t) PROVE ProcessInv'
<1> USE DEF ProcessInv, ProcessTypes
<1>1. PICK p \in Stage("none") :
          /\ proc' = [proc EXCEPT ![p] = [kind |-> "fresh", exposed |-> Exposes(t),
                                          by |-> t, stage |-> "starting"]]
          /\ child' = [child EXCEPT ![t] = p]
  BY DEF Spawns
<1>2. /\ p \in Procs /\ proc[p].stage = "none" /\ at[t] = "spawn"
      /\ at' = [at EXCEPT ![t] = "wait"]
      /\ UNCHANGED <<dash, holder, companion, report, late>>
  BY DEF Spawns, Goes, Stage, sharedVars, budget
<1>3. Exposes(t) \in BOOLEAN /\ (t = "reload" => Exposes(t) = proc[report.old].exposed)
  BY <1>2 DEF Exposes, Reloading
<1>4. /\ proc'[p].kind = "fresh" /\ proc'[p].by = t /\ proc'[p].stage = "starting"
      /\ proc'[p].exposed = Exposes(t)
      /\ \A q \in Procs : q # p => proc'[q] = proc[q]
  BY <1>1, <1>2
<1>5. proc' \in [Procs -> [kind : Kinds, exposed : BOOLEAN, by : Threads \cup {"none", "owner"},
                           stage : Stages]]
  BY <1>1, <1>2, <1>3 DEF Kinds, Stages
<1>6. ProcessTypes'
  BY <1>1, <1>2, <1>5, ProcessBasics DEF Places
<1>7. OneListens' /\ Origins'
  <2>1. OneListens'
    BY <1>4 DEF OneListens
  <2>2. t \notin {"none", "owner"}
    BY ProcessBasics
  <2>3. Origins'
    BY <1>4, <2>2 DEF Origins
  <2> QED
    BY <2>1, <2>3
<1>8. LockHeld'
  BY <1>2, ProcessBasics DEF LockHeld, Locked
<1>9. OursKnown'
  <2>1. \A q \in Procs : q # p => (Ours(q)' <=> Ours(q))
    BY <1>4 DEF Ours
  <2>2. CASE t = "reload"
    <3>1. ~ Ours(p)'
      BY <1>4, <2>2, ProcessBasics DEF Ours
    <3>2. \A r \in Own : at'[r] = at[r] /\ child'[r] = child[r]
      BY <1>1, <1>2, <2>2, ProcessBasics
    <3>3. /\ holder = "none" => \A q \in Procs : Ours(q)' => q = dash
          /\ companion # "up" => holder = "none" /\ \A q \in Procs : ~ Ours(q)'
      BY <2>1, <3>1 DEF OursKnown
    <3>4. \A r \in Own : holder = r =>
             \A q \in Procs : Ours(q)' =>
                /\ at[r] \notin {"probe", "outlast", "spawn"}
                /\ at[r] \in {"wait", "got"} => q = child[r]
                /\ at[r] = "stopping" => q = dash
      BY <2>1, <3>1 DEF OursKnown
    <3> QED
      BY <1>2, <3>2, <3>3, <3>4 DEF OursKnown
  <2>3. CASE t \in Own
    <3>1. holder = t /\ \A q \in Procs : ~ Ours(q)
      BY <1>2, <2>3 DEF LockHeld, Locked, OursKnown
    <3>2. \A q \in Procs : Ours(q)' => q = p
      BY <2>1, <3>1
    <3>3. at'[t] = "wait" /\ child'[t] = p /\ companion = "up"
      BY <1>1, <1>2, <2>3, <3>1, ProcessBasics DEF OursKnown
    <3> QED
      BY <1>2, <2>3, <3>1, <3>2, <3>3, ProcessBasics DEF OursKnown
  <2> QED
    BY <2>2, <2>3, ProcessBasics
<1>10. Reloading'
  BY <1>2, <1>3, <1>4, ProcessBasics DEF Reloading
<1>11. StaleGone'
  BY <1>2, <1>4, ProcessBasics DEF StaleGone
<1> QED
  BY <1>6, <1>7, <1>8, <1>9, <1>10, <1>11

-----------------------------------------------------------------------------
(* The companion's threads and the lock.                                   *)

\* What ends a process at most, and leaves the reload alone.
LEMMA CompanionKeeps ==
    ASSUME ProcessInv, NEW p, Ended(p) \/ proc' = proc, UNCHANGED report,
           at'["reload"] = at["reload"]
    PROVE  /\ proc' \in [Procs -> [kind : Kinds, exposed : BOOLEAN, by : Threads \cup {"none", "owner"},
                                   stage : Stages]]
           /\ OneListens' /\ Origins' /\ Reloading'
           /\ \A q \in Procs : Ours(q)' => Ours(q) /\ (Ended(p) => q # p)
           /\ \A q \in Procs : /\ proc'[q].kind = proc[q].kind
                               /\ proc'[q].stage = "serving" => proc[q].stage = "serving"
<1>1. /\ proc' \in [Procs -> [kind : Kinds, exposed : BOOLEAN, by : Threads \cup {"none", "owner"},
                              stage : Stages]]
      /\ OneListens' /\ Origins'
      /\ \A q \in Procs : /\ proc'[q].kind = proc[q].kind /\ proc'[q].by = proc[q].by
                          /\ proc'[q].exposed = proc[q].exposed
                          /\ proc'[q].stage = proc[q].stage
                                \/ (q = p /\ proc[q].stage \in {"starting", "serving"} /\ proc'[q].stage = "dead")
  BY EndedKeeps
<1>2. Reloading'
  BY <1>1 DEF ProcessInv, Reloading, Origins
<1>3. Ended(p) => p \in Procs /\ proc'[p].stage = "dead"
  BY DEF Ended, ProcessInv, ProcessTypes, Stages
<1>4. \A q \in Procs : Ours(q)' => Ours(q) /\ (Ended(p) => q # p)
  BY <1>1, <1>3 DEF Ours
<1> QED
  BY <1>1, <1>2, <1>4

\* A move of a thread that touches nothing else.
LEMMA StepIdle ==
    ASSUME ProcessInv, NEW t \in Own, NEW there \in {"idle", "lock"},
           at[t] \in {"idle", "lock"}, at' = [at EXCEPT ![t] = there],
           UNCHANGED <<proc, child, dash, holder, companion, late, report>>
    PROVE  ProcessInv'
<1>1. Minds(t, there)
  BY DEF Minds, ProcessInv, ProcessTypes, Places, Locked
<1>2. holder # t
  BY DEF ProcessInv, LockHeld, Locked
<1> QED
  BY <1>1, <1>2, MindsKeeps, ProcessBasics

\* The thread takes the lock: what runs of the companion's is its dashboard.
LEMMA TakenKeeps ==
    ASSUME ProcessInv, ~ Linger, NEW t \in Own, NEW there \in {"probe", "got", "stopping"},
           Takes(t), at' = [at EXCEPT ![t] = there], there = "stopping" => t = "main",
           child' \in [Threads -> Int], \A r \in Threads : r # t => child'[r] = child[r],
           there = "probe" => \A p \in Procs : Ours(p) => p # dash,
           there = "got" => child'[t] = dash /\ dash # Unknown,
           UNCHANGED <<proc, dash, companion, late, report>>
    PROVE  ProcessInv'
<1> USE DEF ProcessInv, ProcessTypes
<1>1. holder = "none" /\ holder' = t /\ companion = "up"
  BY OwnIsUp DEF Takes
<1>2. \A r \in Threads : at'[r] = (IF r = t THEN there ELSE at[r])
  OBVIOUS
<1>3. OneListens' /\ Origins' /\ Reloading'
  BY <1>2, CompanionKeeps, ProcessBasics
<1>4. ProcessTypes'
  BY <1>1, ProcessBasics DEF Places
<1>5. LockHeld'
  BY <1>1, <1>2, ProcessBasics DEF LockHeld, Locked
<1>6. OursKnown'
  <2>1. \A p \in Procs : (Ours(p)' <=> Ours(p)) /\ (Ours(p) => p = dash)
    BY <1>1 DEF Ours, OursKnown
  <2>2. /\ at'[t] = there /\ holder' = t /\ companion' = "up" /\ dash' = dash /\ t # "none"
    BY <1>1, <1>2, ProcessBasics
  <2> QED
    BY <2>1, <2>2 DEF OursKnown
<1>7. StaleGone'
  BY <1>2 DEF StaleGone
<1> QED
  BY <1>3, <1>4, <1>5, <1>6, <1>7

LEMMA StepOpens ==
    ASSUME ProcessInv, ~ Linger, NEW t \in Openers, Opens(t) PROVE ProcessInv'
<1>1. t \in Own /\ Takes(t) /\ UNCHANGED <<proc, dash, companion, late, report>>
  BY DEF Opens, Own, budget
<1>2. CASE dash = Unknown
  <2>1. at' = [at EXCEPT ![t] = "probe"] /\ child' = child
    BY <1>2 DEF Opens, Goes
  <2>2. \A p \in Procs : Ours(p) => p # dash
    BY <1>2, ProcessBasics
  <2> QED
    BY <1>1, <2>1, <2>2, TakenKeeps DEF ProcessInv, ProcessTypes
<1>3. CASE dash # Unknown
  <2>1. at' = [at EXCEPT ![t] = "got"] /\ child' = [child EXCEPT ![t] = dash]
    BY <1>3 DEF Opens, Got, Goes
  <2>2. /\ child' \in [Threads -> Int] /\ child'[t] = dash
        /\ \A r \in Threads : r # t => child'[r] = child[r]
    BY <1>1, <2>1, ProcessBasics DEF ProcessInv, ProcessTypes
  <2> QED
    BY <1>1, <1>3, <2>1, <2>2, TakenKeeps
<1> QED
  BY <1>2, <1>3

LEMMA StepQuits ==
    ASSUME ProcessInv, ~ Linger, Quits PROVE ProcessInv'
<1>1. /\ "main" \in Own /\ Takes("main") /\ UNCHANGED <<proc, child, dash, companion, late, report>>
      /\ at' = [at EXCEPT !["main"] = "stopping"]
  BY ProcessBasics DEF Quits, Goes, budget
<1> QED
  BY <1>1, TakenKeeps DEF ProcessInv, ProcessTypes

LEMMA StepChecks ==
    ASSUME ProcessInv, ~ Linger, Checks PROVE ProcessInv'
<1>1. "respawn" \in Own /\ UNCHANGED <<proc, child, dash, companion, late, report>>
  BY ProcessBasics DEF Checks, budget
<1>2. CASE Lost
  <2>1. Takes("respawn") /\ at' = [at EXCEPT !["respawn"] = "probe"]
    BY <1>2 DEF Checks, Goes
  <2>2. \A p \in Procs : Ours(p) => p # dash
    BY <1>2 DEF Lost, IsDead, Ours
  <2> QED
    BY <1>1, <2>1, <2>2, TakenKeeps DEF ProcessInv, ProcessTypes
<1>3. CASE ~ Lost
  <2>1. at["respawn"] = "lock" /\ at' = [at EXCEPT !["respawn"] = "idle"] /\ UNCHANGED holder
    BY <1>3 DEF Checks, Goes
  <2> QED
    BY <1>1, <2>1, StepIdle
<1> QED
  BY <1>2, <1>3

LEMMA StepLooks ==
    ASSUME ProcessInv, Looks \/ Clicks PROVE ProcessInv'
<1>1. CASE Looks
  BY <1>1, StepIdle, ProcessBasics DEF Looks, Goes, sharedVars, budget
<1>2. CASE Clicks
  BY <1>2, StepIdle, ProcessBasics DEF Clicks, Goes, sharedVars
<1> QED
  BY <1>1, <1>2

\* It keeps what it got as its dashboard, and lets go of the lock.
LEMMA StepKeeps ==
    ASSUME ProcessInv, ~ Linger, NEW t \in Own, Keeps(t),
           late' \in Nat, late' >= late, UNCHANGED <<proc, companion, report>>
    PROVE  ProcessInv'
<1> USE DEF ProcessInv, ProcessTypes
<1>1. /\ holder = t /\ holder' = "none" /\ companion = "up" /\ at[t] = "got"
      /\ dash' = child[t] /\ child' = [child EXCEPT ![t] = 0]
  BY OwnIsUp DEF Keeps, Releases, Goes
<1>2. PICK there \in {"over", "idle"} : at' = [at EXCEPT ![t] = there]
  BY DEF Keeps, Releases, Goes
<1>3. \A r \in Threads : at'[r] = (IF r = t THEN there ELSE at[r])
  BY <1>2
<1>4. OneListens' /\ Origins' /\ Reloading'
  BY <1>3, CompanionKeeps, ProcessBasics
<1>5. ProcessTypes'
  BY <1>1, <1>2, ProcessBasics DEF Places
<1>6. LockHeld'
  BY <1>1, <1>3, ProcessBasics DEF LockHeld, Locked
<1>7. OursKnown'
  <2>1. \A p \in Procs : (Ours(p)' <=> Ours(p)) /\ (Ours(p) => p = child[t])
    BY <1>1 DEF Ours, OursKnown
  <2> QED
    BY <1>1, <2>1, ProcessBasics DEF OursKnown
<1>8. StaleGone'
  BY <1>1 DEF StaleGone
<1> QED
  BY <1>4, <1>5, <1>6, <1>7, <1>8

\* It looks for another dashboard, after what it had is stopped.
LEMMA StepRepairs ==
    ASSUME ProcessInv, ~ Linger, NEW t \in Own, Goes(t, "got", "probe"), Repairs(child[t]),
           UNCHANGED <<child, dash, holder, companion, report>>,
           late' \in Nat, late' >= late
    PROVE  ProcessInv'
<1> USE DEF ProcessInv, ProcessTypes
<1> DEFINE p == child[t]
<1>1. /\ at[t] = "got" /\ at' = [at EXCEPT ![t] = "probe"] /\ holder = t /\ companion = "up"
      /\ \A r \in Threads : at'[r] = (IF r = t THEN "probe" ELSE at[r])
  BY OwnIsUp, ProcessBasics DEF Goes, LockHeld, Locked
<1>2. Ended(p) \/ (proc' = proc /\ (p \in Procs => proc[p].stage \notin {"starting", "serving"}))
  BY DEF Repairs, Stops, Ends, Ended, Listeners, Stage
<1>3. /\ proc' \in [Procs -> [kind : Kinds, exposed : BOOLEAN, by : Threads \cup {"none", "owner"},
                              stage : Stages]]
      /\ OneListens' /\ Origins' /\ Reloading'
      /\ \A q \in Procs : Ours(q)' => Ours(q) /\ (Ended(p) => q # p)
      /\ \A q \in Procs : /\ proc'[q].kind = proc[q].kind
                          /\ proc'[q].stage = "serving" => proc[q].stage = "serving"
  <2>1. at'["reload"] = at["reload"]
    BY <1>1, ProcessBasics
  <2>2. Ended(p) \/ proc' = proc
    BY <1>2
  <2> HIDE DEF p
  <2> QED
    BY <2>1, <2>2, CompanionKeeps
<1>4. ProcessTypes'
  BY <1>1, <1>3, ProcessBasics DEF Places
<1>5. LockHeld'
  BY <1>1, ProcessBasics DEF LockHeld, Locked
<1>6. OursKnown'
  <2>1. \A q \in Procs : Ours(q) => q = p
    BY <1>1 DEF OursKnown
  <2>2. \A q \in Procs : ~ Ours(q)'
    BY <1>2, <1>3, <2>1 DEF Ours
  <2> QED
    BY <1>1, <2>2, ProcessBasics DEF OursKnown
<1>7. StaleGone'
  BY <1>1, <1>3 DEF StaleGone
<1> QED
  BY <1>3, <1>4, <1>5, <1>6, <1>7

LEMMA StepOpensPage ==
    ASSUME ProcessInv, ~ Linger, NEW t \in Openers, OpensPage(t) PROVE ProcessInv'
<1>1. t \in Own /\ UNCHANGED <<companion, report>>
  BY DEF OpensPage, Own
<1>2. CASE Seen /\ Finishes(t) /\ UNCHANGED proc
  BY <1>1, <1>2, Lateness, StepKeeps DEF Finishes
<1>3. CASE Finishes(t) /\ UNCHANGED <<proc, budget>>
  BY <1>1, <1>3, Lateness, StepKeeps DEF Finishes
<1>4. CASE Unseen /\ Goes(t, "got", "probe") /\ Repairs(child[t]) /\ UNCHANGED <<dash, holder, child>>
  BY <1>1, <1>4, Lateness, StepRepairs
<1> QED
  BY <1>2, <1>3, <1>4 DEF OpensPage

LEMMA StepRespawned ==
    ASSUME ProcessInv, ~ Linger, Respawned PROVE ProcessInv'
<1>1. "respawn" \in Own /\ Keeps("respawn") /\ UNCHANGED <<proc, companion, report>> /\ UNCHANGED budget
  BY ProcessBasics DEF Respawned
<1> QED
  BY <1>1, Lateness, StepKeeps

\* The quit: with the dashboard nothing of the companion's is left.
LEMMA StepStopsChild ==
    ASSUME ProcessInv, ~ Linger, StopsChild PROVE ProcessInv'
<1> USE DEF ProcessInv, ProcessTypes
<1>1. /\ at["main"] = "stopping" /\ at' = [at EXCEPT !["main"] = "idle"] /\ holder = "main" /\ holder' = "none"
      /\ companion' = "leaving" /\ UNCHANGED <<child, dash, late, report>>
      /\ \A r \in Threads : at'[r] = (IF r = "main" THEN "idle" ELSE at[r])
  BY ProcessBasics DEF StopsChild, Releases, Goes, budget
<1>2. Ended(dash) \/ (proc' = proc /\ (dash \in Procs => proc[dash].stage \notin {"starting", "serving"}))
  BY DEF StopsChild, Stops, Ends, Ended, Listeners, Stage
<1>3. /\ proc' \in [Procs -> [kind : Kinds, exposed : BOOLEAN, by : Threads \cup {"none", "owner"},
                              stage : Stages]]
      /\ OneListens' /\ Origins' /\ Reloading'
      /\ \A q \in Procs : Ours(q)' => Ours(q) /\ (Ended(dash) => q # dash)
      /\ \A q \in Procs : /\ proc'[q].kind = proc[q].kind
                          /\ proc'[q].stage = "serving" => proc[q].stage = "serving"
  <2>1. at'["reload"] = at["reload"]
    BY <1>1, ProcessBasics
  <2>2. Ended(dash) \/ proc' = proc
    BY <1>2
  <2> QED
    BY <1>1, <2>1, <2>2, CompanionKeeps
<1>4. ProcessTypes'
  BY <1>1, <1>3, ProcessBasics DEF Places
<1>5. LockHeld'
  BY <1>1, ProcessBasics DEF LockHeld, Locked
<1>6. OursKnown'
  <2>1. \A q \in Procs : Ours(q) => q = dash
    BY <1>1, ProcessBasics DEF OursKnown
  <2>2. \A q \in Procs : ~ Ours(q)'
    BY <1>2, <1>3, <2>1 DEF Ours
  <2> QED
    BY <1>1, <2>2, ProcessBasics DEF OursKnown
<1>7. StaleGone'
  BY <1>1, <1>3 DEF StaleGone
<1> QED
  BY <1>3, <1>4, <1>5, <1>6, <1>7

LEMMA StepExits ==
    ASSUME ProcessInv, Exits PROVE ProcessInv'
<1> USE DEF ProcessInv, ProcessTypes
<1>1. companion = "leaving" /\ companion' = "gone" /\ UNCHANGED <<proc, at, child, dash, holder, late, report>>
  BY DEF Exits, budget
<1>2. OneListens' /\ Origins' /\ Reloading'
  BY <1>1, CompanionKeeps
<1>3. LockHeld' /\ StaleGone'
  BY <1>1 DEF LockHeld, StaleGone
<1>4. OursKnown'
  BY <1>1, ProcessBasics DEF OursKnown, Ours
<1> QED
  BY <1>1, <1>2, <1>3, <1>4

-----------------------------------------------------------------------------
(* The reload.                                                             *)

\* What it says at its end.
LEMMA StepReplies ==
    ASSUME ProcessInv, NEW here \in {"idle", "watch", "got"}, NEW said, NEW new, Replies(here, said, new),
           \/ said = "failed" /\ new = 0
           \/ said = "reloaded" /\ here # "idle" /\ Replaced /\ new = Server,
           UNCHANGED <<proc, child, dash, holder, companion>>, late' \in Nat, late' >= late
    PROVE  ProcessInv'
<1> USE DEF ProcessInv, ProcessTypes
<1>1. /\ at["reload"] = here /\ at' = [at EXCEPT !["reload"] = "over"]
      /\ report' = [report EXCEPT !.said = said, !.new = new]
      /\ Minds("reload", "over")
  BY ProcessBasics DEF Replies, Reports, Goes, Minds, Places
<1>2. OneListens' /\ LockHeld' /\ OursKnown' /\ Origins' /\ StaleGone'
  BY <1>1, MindsKeeps, ProcessBasics
<1>3. at'["reload"] = "over" /\ report'.old = report.old /\ report'.said = said /\ report'.new = new
  BY <1>1, ProcessBasics
<1>4. CASE said = "failed" /\ new = 0
  <2>1. ProcessTypes'
    <3>1. report' \in [said : {"nothing", "failed", "reloaded"}, old : Int, new : Int]
      <4>1. said \in {"nothing", "failed", "reloaded"} /\ new \in Int
        BY <1>4
      <4>2. report' = [report EXCEPT !.said = said, !.new = new]
        BY <1>1
      <4> QED
        BY <4>1, <4>2
    <3>2. at' \in [Threads -> Places]
      BY <1>1 DEF Minds
    <3> QED
      BY <1>1, <3>1, <3>2 DEF Minds
  <2>2. Reloading'
    BY <1>3, <1>4 DEF Reloading
  <2> QED
    BY <1>2, <2>1, <2>2
<1>5. CASE said = "reloaded" /\ here # "idle" /\ Replaced /\ new = Server
  <2>1. /\ Server \in Procs /\ proc[Server].stage = "serving" /\ Server # report.old /\ report.old \in Procs
    BY <1>1, <1>5, ServerListens DEF Replaced, IsHorus, Reloading
  <2>2. proc[report.old].stage = "dead"
    BY <2>1 DEF OneListens, Reloading
  <2>3. proc[Server].by \in Threads
    BY <2>1 DEF Origins, Reloading
  <2>4. ProcessTypes'
    <3>1. report' \in [said : {"nothing", "failed", "reloaded"}, old : Int, new : Int]
      BY <1>1, <1>5, <2>1, ProcessBasics
    <3>2. at' \in [Threads -> Places]
      BY <1>1 DEF Minds
    <3> QED
      BY <1>1, <3>1, <3>2 DEF Minds
  <2>5. /\ \A p \in Procs : proc[p].by = "owner" /\ p # report.old => proc[p].stage = "dead"
        /\ \A p \in Procs : proc[p].by = "reload" => proc[p].exposed = proc[report.old].exposed
    BY <2>1 DEF Reloading
  <2>6. Reloading'
    BY <1>1, <1>3, <1>5, <2>1, <2>2, <2>3, <2>5 DEF Reloading, Minds
  <2> QED
    BY <1>2, <2>4, <2>6
<1> QED
  BY <1>4, <1>5

LEMMA StepWatches ==
    ASSUME ProcessInv, Watches PROVE ProcessInv'
<1> USE DEF ProcessInv, ProcessTypes
<1>1. UNCHANGED <<proc, child, dash, holder, companion>> /\ late' \in Nat /\ late' >= late
  BY Lateness DEF Watches, sharedVars
<1>2. CASE Goes("reload", "watch", "probe") /\ UNCHANGED report
  <2>1. at["reload"] = "watch" /\ Minds("reload", "probe")
    BY <1>1, <1>2, ProcessBasics DEF Goes, Minds, Places
  <2> QED
    BY <1>2, <2>1, ReloadMinds
<1>3. CASE IsHorus /\ Server # report.old /\ Replies("watch", "reloaded", Server)
  BY <1>1, <1>3, StepReplies DEF Replaced
<1> QED
  BY <1>2, <1>3 DEF Watches

LEMMA StepConfirms ==
    ASSUME ProcessInv, Confirms PROVE ProcessInv'
<1>1. UNCHANGED <<proc, child, dash, holder, companion>> /\ late' \in Nat /\ late' >= late
  BY Lateness DEF Confirms, sharedVars
<1> QED
  BY <1>1, StepReplies DEF Confirms

LEMMA StepStartsReload ==
    ASSUME ProcessInv, StartsReload PROVE ProcessInv'
<1> USE DEF ProcessInv, ProcessTypes
<1>1. UNCHANGED <<proc, child, dash, holder, companion>> /\ late' \in Nat /\ late' >= late
  BY Lateness DEF StartsReload, sharedVars
<1>2. CASE ~ IsHorus
  BY <1>1, <1>2, StepReplies DEF StartsReload
<1>3. CASE IsHorus
  <2>1. /\ at["reload"] = "idle" /\ at' = [at EXCEPT !["reload"] = "watch"]
        /\ report' = [report EXCEPT !.old = Server] /\ Minds("reload", "watch")
    BY <1>1, <1>3, ProcessBasics DEF StartsReload, Goes, Minds, Places
  <2>2. OneListens' /\ LockHeld' /\ OursKnown' /\ Origins' /\ StaleGone'
    BY <2>1, MindsKeeps, ProcessBasics
  <2>3. Server \in Procs /\ proc[Server].stage = "serving"
    BY <1>3, ServerListens DEF IsHorus
  <2>4. ProcessTypes'
    BY <2>1, <2>3, ProcessBasics DEF Minds
  <2>5. at'["reload"] = "watch" /\ report'.old = Server /\ report'.said = "nothing"
    BY <2>1, ProcessBasics DEF Reloading
  <2>6. \A p \in Procs : proc[p].by = "owner" /\ p # Server => proc[p].stage = "dead"
    BY <2>3 DEF Origins, OneListens
  <2>7. Reloading'
    BY <1>1, <2>1, <2>3, <2>5, <2>6 DEF Reloading
  <2> QED
    BY <2>2, <2>4, <2>7
<1> QED
  BY <1>2, <1>3

-----------------------------------------------------------------------------
(* The invariant.                                                          *)

LEMMA ProcessInvInit == ProcessInit => ProcessInv
<1> SUFFICES ASSUME ProcessInit PROVE ProcessInv
  OBVIOUS
<1>1. PICK k \in Kinds, x \in BOOLEAN, s \in {"none", "serving"} :
          proc = [p \in Procs |-> IF p = 1 /\ s = "serving"
                     THEN [kind |-> k, exposed |-> x /\ k # "foreign", by |-> "owner", stage |-> s]
                     ELSE NoProc]
  BY DEF ProcessInit
<1>2. \A p \in Procs : \/ p = 1 /\ s = "serving" /\ proc[p] = [kind |-> k, exposed |-> x /\ k # "foreign",
                                                            by |-> "owner", stage |-> "serving"]
                       \/ proc[p] = NoProc
  BY <1>1
<1>3. /\ child = [t \in Threads |-> 0]
      /\ at = [t \in Threads |-> IF t = "prewarm" THEN "lock" ELSE "idle"]
      /\ dash = Unknown /\ holder = "none" /\ companion = "up" /\ late = 0
      /\ report = [said |-> "nothing", old |-> 0, new |-> 0]
  BY DEF ProcessInit
<1>4. proc \in [Procs -> [kind : Kinds, exposed : BOOLEAN, by : Threads \cup {"none", "owner"},
                          stage : Stages]]
  BY <1>1, ProcessBasics DEF NoProc, Kinds, Stages
<1>5. ProcessTypes
  BY <1>3, <1>4, ProcessBasics DEF ProcessTypes, Places
<1>6. \A p \in Procs : proc[p].by \in {"none", "owner"} /\ (proc[p].by = "none" <=> proc[p].stage = "none")
                          /\ (proc[p].by = "owner" => proc[p].stage = "serving" /\ p = 1)
                          /\ proc[p].stage \in {"none", "serving"}
  BY <1>2 DEF NoProc
<1>7. OneListens /\ Origins
  BY <1>6, ProcessBasics DEF OneListens, Origins
<1>8. LockHeld
  BY <1>3, ProcessBasics DEF LockHeld, Locked
<1>9. OursKnown
  BY <1>3, <1>6, ProcessBasics DEF OursKnown, Ours
<1>10. Reloading
  <2>1. at["reload"] = "idle" /\ report.said = "nothing" /\ report.old \notin Procs
    BY <1>3, ProcessBasics DEF Adopted
  <2>2. \A p \in Procs : proc[p].by # "reload"
    BY <1>6
  <2> QED
    BY <2>1, <2>2 DEF Reloading
<1>11. StaleGone
  BY <1>3, ProcessBasics DEF StaleGone
<1> QED
  BY <1>5, <1>7, <1>8, <1>9, <1>10, <1>11 DEF ProcessInv

LEMMA ProcessInvNext ==
    ASSUME ~ Linger, ProcessInv, [ProcessNext]_processVars PROVE ProcessInv'
<1>1. ASSUME NEW p \in Procs, Serves(p) \/ Dies(p) PROVE ProcessInv'
  BY <1>1, StepBinds, StepDies DEF Serves
<1>2. ASSUME NEW t \in Threads, Works(t) PROVE ProcessInv'
  <2>1. CASE Ensures(t)
    BY <2>1, StepProbes, StepOutlasts, StepSpawns, StepWaits DEF Ensures
  <2>2. CASE t \in Openers /\ (Opens(t) \/ OpensPage(t))
    BY <2>2, StepOpens, StepOpensPage
  <2>3. CASE StopsChild
    BY <2>3, StepStopsChild
  <2>4. CASE Looks \/ Checks \/ Respawned
    BY <2>4, StepLooks, StepChecks, StepRespawned
  <2>5. CASE Watches \/ Confirms
    BY <2>5, StepWatches, StepConfirms
  <2> QED
    BY <1>2, <2>1, <2>2, <2>3, <2>4, <2>5 DEF Works
<1>3. CASE Clicks \/ Quits \/ Exits \/ StartsReload
  BY <1>3, StepLooks, StepQuits, StepExits, StepStartsReload
<1>4. CASE UNCHANGED processVars
  <2>1. UNCHANGED <<proc, at, child, dash, holder, companion, late, report>>
    BY <1>4 DEF processVars, sharedVars, budget
  <2>2. ProcessTypes' /\ OneListens' /\ LockHeld' /\ Origins'
    BY <2>1 DEF ProcessInv, ProcessTypes, OneListens, LockHeld, Origins
  <2>3. OursKnown' /\ Reloading' /\ StaleGone'
    BY <2>1 DEF ProcessInv, OursKnown, Ours, Reloading, StaleGone
  <2> QED
    BY <2>2, <2>3 DEF ProcessInv
<1> QED
  BY <1>1, <1>2, <1>3, <1>4 DEF ProcessNext

\* In every run, while no daemon thread moves on during the exit.
THEOREM ProcessRuns ==
    ASSUME ~ Linger PROVE ProcessSpec => []ProcessInv
<1>1. ProcessInv /\ [ProcessNext]_processVars => ProcessInv'
  BY ProcessInvNext
<1> QED
  BY <1>1, ProcessInvInit, PTL DEF ProcessSpec

\* The quit of the companion (run_companion): once it is gone, no process any
\* of its threads started runs, whichever of them was in the middle of its
\* wait, its repair or its respawn, if a thread does not outlive the program.
THEOREM QuitLeavesNone ==
    ASSUME ~ Linger PROVE ProcessSpec => []QuitCleansUp
<1>1. ProcessInv => QuitCleansUp
  <2> SUFFICES ASSUME ProcessInv, companion = "gone", NEW p \in Procs, proc[p].by \in Own
               PROVE  proc[p].stage \in {"none", "dead"}
    BY DEF QuitCleansUp
  <2>1. ~ Ours(p) /\ proc[p].stage \in Stages
    BY DEF ProcessInv, ProcessTypes, OursKnown
  <2> QED
    BY <2>1 DEF Ours, Stages
<1> QED
  BY <1>1, ProcessRuns, PTL

\* reload_dashboard reports a success only of a server that replaced the one
\* it found, and, when no wait ran out, the companion never keeps a server of
\* an older install.
THEOREM UpdatesPrevail ==
    ASSUME ~ Linger PROVE ProcessSpec => []InstallPrevails
<1>1. ProcessInv => ReloadTrue
  <2> SUFFICES ASSUME ProcessInv, report.said = "reloaded"
               PROVE  /\ proc[report.old].stage = "dead" /\ report.new # report.old
                      /\ proc[report.new].kind = "fresh"
                      /\ proc[report.new].by \in Own \/ proc[report.new].exposed = proc[report.old].exposed
    BY DEF ReloadTrue
  <2>1. /\ {report.old, report.new} \subseteq Procs /\ report.new # report.old
        /\ proc[report.old].stage = "dead" /\ proc[report.new].by \in Threads
    BY DEF ProcessInv, Reloading
  <2>2. proc[report.new].kind = "fresh"
    BY <2>1 DEF ProcessInv, Origins
  <2>3. CASE proc[report.new].by = "reload"
    BY <2>1, <2>2, <2>3 DEF ProcessInv, Reloading
  <2> QED
    BY <2>1, <2>2, <2>3, ProcessBasics
<1>2. ProcessInv => ServesThisInstall
  BY DEF ProcessInv, StaleGone, ServesThisInstall, Listeners, Stage
<1>3. ProcessInv => InstallPrevails
  BY <1>1, <1>2 DEF InstallPrevails
<1> QED
  BY <1>3, ProcessRuns, PTL

-----------------------------------------------------------------------------
(* The geometry of a terminal.                                             *)

IsThread(t) == t = [kind |-> t.kind, who |-> t.who, grid |-> t.grid, pc |-> t.pc]
Numbered == /\ Requests = 1..Cardinality(Requests) /\ Cardinality(Requests) \in Nat
            /\ threads = [i \in Requests |-> threads[i]] /\ \A i \in Requests : IsThread(threads[i])

GeoTypes ==
    /\ page \in [Pages -> {"new", "visible", "hidden", "closed"}] /\ conns \in [Pages -> Nat] /\ drops \in Nat
    /\ fit = [v \in Pages |-> fit[v]] /\ viewers = [v \in DOMAIN viewers |-> viewers[v]]
    /\ cooling \in BOOLEAN

\* The requests are served one after the other.
OneServed == \A i, j \in Requests : ~ Over(i) /\ ~ Over(j) => i = j

\* The minimum the registered grids ask for.
Agreed == Effective(Range(viewers))
Begins(i, kind, v) == threads[i].pc = "begin" /\ threads[i].kind = kind /\ threads[i].who = v

\* What a request is about, while it is served.
Serving ==
    \A i \in Requests : LET t == threads[i] IN
        /\ t.kind \in {"resize", "release", "redraw"} /\ t.who \in Pages
        /\ t.pc \in {"begin", "effective", "resize", "set", "ioctl", "restore", "over"}
        /\ t.kind = "redraw" => t.pc \in {"begin", "restore", "over"}
        /\ t.pc = "begin" /\ t.kind = "resize" => page[t.who] = "visible" /\ t.grid = fit[t.who]
        /\ t.pc = "begin" /\ t.kind = "release" => (drops = 0 => page[t.who] # "visible")
        /\ t.pc \in {"begin", "effective", "resize", "set"} => pty = term /\ ~ cooling
        /\ t.pc \in {"resize", "set", "ioctl"} => DOMAIN viewers # {} /\ t.grid = Agreed
        /\ t.pc = "ioctl" => term = t.grid
        /\ t.pc = "restore" \/ (t.pc = "begin" /\ t.kind = "redraw") => (DOMAIN viewers # {} => term = Agreed)

\* And between two of them.
Settled == (\A i \in Requests : Over(i)) => pty = term /\ (DOMAIN viewers # {} => term = Agreed)

\* The registered grids are those of the pages in view, up to the request
\* that is served.
Registered ==
    /\ \A v \in DOMAIN viewers :
          /\ v \in Pages
          /\ page[v] = "visible" \/ \E i \in Requests : Begins(i, "release", v)
          /\ viewers[v] = fit[v] \/ \E i \in Requests : Begins(i, "resize", v)
    /\ drops = 0 => \A v \in Visible :
          v \in DOMAIN viewers \/ \E i \in Requests : Begins(i, "resize", v)

\* While no connection was dropped, a page in view has its stream.
Streamed ==
    /\ \A v \in Pages : page[v] = "new" => conns[v] = 0
    /\ drops = 0 => \A v \in Pages : Loaded(v) => conns[v] = 1

GeoInv == GeoTypes /\ Numbered /\ OneServed /\ Serving /\ Settled /\ Registered /\ Streamed

\* A request comes when the one before is handled.
LEMMA Spawned ==
    ASSUME GeoInv, Serial, Spaced, NEW kind, NEW v, NEW grid, Spawn(kind, v, grid)
    PROVE  /\ Numbered' /\ NextId \in Requests' /\ threads'[NextId] = Thread(kind, v, grid) /\ ~ cooling
           /\ \A i \in Requests' : i # NextId => i \in Requests /\ threads'[i] = threads[i]
           /\ \A i \in Requests : Over(i)
<1> DEFINE n == Cardinality(Requests)
<1>1. n \in Nat /\ Requests = 1..n /\ NextId = n + 1
  BY DEF GeoInv, Numbered, NextId
<1>2. /\ threads' = [i \in 1..(n + 1) |-> IF i = n + 1 THEN Thread(kind, v, grid) ELSE threads[i]]
      /\ ~ cooling /\ \A i \in Requests : Over(i)
  BY <1>1 DEF Spawn
<1> HIDE DEF n
<1>3. Requests' = 1..(n + 1)
  BY <1>2 DEF Requests
<1>4. Cardinality(1..(n + 1)) = n + 1
  BY <1>1, FS_Interval
<1>5. IsThread(Thread(kind, v, grid))
  BY DEF IsThread, Thread
<1>6. Numbered'
  <2>1. Requests' = 1..Cardinality(Requests') /\ Cardinality(Requests') \in Nat
    BY <1>1, <1>3, <1>4
  <2>2. threads' = [i \in Requests' |-> threads'[i]]
    BY <1>2, <1>3
  <2>3. \A i \in Requests' : IsThread(threads'[i])
    BY <1>1, <1>2, <1>3, <1>5 DEF GeoInv, Numbered
  <2> QED
    BY <2>1, <2>2, <2>3 DEF Numbered
<1> QED
  BY <1>1, <1>2, <1>3, <1>6

LEMMA ClientKeeps ==
    ASSUME GeoInv, Serial, Spaced, NEW v \in Pages, NEW kind \in {"resize", "release", "redraw"}, NEW grid,
           Spawn(kind, v, grid), UNCHANGED <<server, drops>>, GeoTypes', Streamed',
           \A w \in Pages : w # v => page'[w] = page[w] /\ fit'[w] = fit[w],
           kind = "resize" => page'[v] = "visible" /\ grid = fit'[v],
           kind = "release" => /\ fit'[v] = fit[v] /\ (drops = 0 => page'[v] # "visible")
                               /\ page'[v] = "visible" => page[v] = "visible",
           kind = "redraw" => page'[v] = page[v] /\ fit'[v] = fit[v]
    PROVE  GeoInv'
<1>0. PICK n : n = NextId
  OBVIOUS
<1>1. /\ Numbered' /\ n \in Requests' /\ threads'[n] = Thread(kind, v, grid) /\ ~ cooling
      /\ \A i \in Requests' : i # n => i \in Requests /\ threads'[i] = threads[i]
      /\ \A i \in Requests : Over(i)
  BY <1>0, Spawned
<1>2. UNCHANGED <<viewers, term, cooling, pty>> /\ Agreed' = Agreed
  BY DEF server, Agreed
<1>3. /\ threads'[n].kind = kind /\ threads'[n].who = v /\ threads'[n].grid = grid /\ threads'[n].pc = "begin"
  BY <1>1 DEF Thread
<1>4. \A i \in Requests' : i # n => i \in Requests /\ threads'[i].pc = "over" /\ threads[i].pc = "over"
  BY <1>1 DEF Over
<1>5. OneServed'
  BY <1>3, <1>4 DEF OneServed, Over
<1>6. pty = term /\ (DOMAIN viewers # {} => term = Agreed)
  BY <1>1 DEF GeoInv, Settled
<1>7. Serving'
  <2> SUFFICES ASSUME NEW i \in Requests'
               PROVE  LET t == threads'[i] IN
        /\ t.kind \in {"resize", "release", "redraw"} /\ t.who \in Pages
        /\ t.pc \in {"begin", "effective", "resize", "set", "ioctl", "restore", "over"}
        /\ t.kind = "redraw" => t.pc \in {"begin", "restore", "over"}
        /\ t.pc = "begin" /\ t.kind = "resize" => page'[t.who] = "visible" /\ t.grid = fit'[t.who]
        /\ t.pc = "begin" /\ t.kind = "release" => (drops' = 0 => page'[t.who] # "visible")
        /\ t.pc \in {"begin", "effective", "resize", "set"} => pty' = term' /\ ~ cooling'
        /\ t.pc \in {"resize", "set", "ioctl"} => DOMAIN viewers' # {} /\ t.grid = Agreed'
        /\ t.pc = "ioctl" => term' = t.grid
        /\ t.pc = "restore" \/ (t.pc = "begin" /\ t.kind = "redraw") => (DOMAIN viewers' # {} => term' = Agreed')
    BY DEF Serving
  <2>1. CASE i = n
    BY <1>1, <1>2, <1>3, <1>6, <2>1
  <2>2. CASE i # n
    BY <1>1, <1>4, <2>2 DEF GeoInv, Serving
  <2> QED
    BY <2>1, <2>2
<1>8. Settled'
  BY <1>1, <1>3 DEF Settled, Over
<1>9. Registered'
  <2>1. \A w \in DOMAIN viewers : w \in Pages /\ page[w] = "visible" /\ viewers[w] = fit[w]
    BY <1>1 DEF GeoInv, Registered, Begins, Over
  <2>2. drops = 0 => \A w \in Visible : w \in DOMAIN viewers
    BY <1>1 DEF GeoInv, Registered, Begins, Over
  <2>3. Begins(n, kind, v)'
    BY <1>1, <1>3 DEF Begins
  <2>4. ASSUME NEW w \in DOMAIN viewers'
        PROVE  /\ w \in Pages
               /\ page'[w] = "visible" \/ (kind = "release" /\ w = v)
               /\ viewers'[w] = fit'[w] \/ (kind = "resize" /\ w = v)
    BY <1>2, <2>1
  <2>5. ASSUME drops' = 0, NEW w \in Pages, page'[w] = "visible"
        PROVE  w \in DOMAIN viewers' \/ (kind = "resize" /\ w = v)
    <3>1. drops = 0 /\ (w # v => w \in Visible)
      BY <2>5 DEF Visible
    <3>2. w = v /\ kind = "redraw" => w \in Visible
      BY <2>5 DEF Visible
    <3> QED
      BY <1>2, <2>2, <2>5, <3>1, <3>2
  <2> QED
    BY <1>1, <2>3, <2>4, <2>5 DEF Registered, Visible
<1> QED
  BY <1>1, <1>5, <1>7, <1>8, <1>9 DEF GeoInv

-----------------------------------------------------------------------------
(* The server's threads.                                                   *)

\* The request goes on to `to`.
Advances(i, to, grid) ==
    /\ Numbered' /\ Requests' = Requests
    /\ threads'[i].kind = threads[i].kind /\ threads'[i].who = threads[i].who
    /\ threads'[i].grid = grid /\ threads'[i].pc = to
    /\ \A j \in Requests : j # i => threads'[j] = threads[j]

LEMMA Advanced ==
    ASSUME GeoInv, NEW i \in Requests, NEW to, NEW grid,
           \/ threads' = [threads EXCEPT ![i].pc = to] /\ grid = threads[i].grid
           \/ threads' = [threads EXCEPT ![i].pc = to, ![i].grid = grid]
    PROVE  Advances(i, to, grid)
<1>1. /\ threads = [j \in Requests |-> threads[j]] /\ \A j \in Requests : IsThread(threads[j])
      /\ Requests = 1..Cardinality(Requests) /\ Cardinality(Requests) \in Nat
  BY DEF GeoInv, Numbered
<1>2. Requests' = Requests /\ threads' = [j \in Requests |-> threads'[j]]
  BY <1>1 DEF Requests
<1>3. /\ threads'[i].kind = threads[i].kind /\ threads'[i].who = threads[i].who
      /\ threads'[i].grid = grid /\ threads'[i].pc = to /\ IsThread(threads'[i])
  BY ZenonT(60), <1>1 DEF IsThread
<1>4. \A j \in Requests : j # i => threads'[j] = threads[j]
  BY <1>1
<1>5. Numbered'
  BY <1>1, <1>2, <1>3, <1>4 DEF Numbered
<1> QED
  BY <1>2, <1>3, <1>4, <1>5 DEF Advances

\* Every page in view is registered, with what it fits, and no other.
InOrder == /\ \A v \in DOMAIN viewers : v \in Pages /\ page[v] = "visible" /\ viewers[v] = fit[v]
           /\ drops = 0 => Visible \subseteq DOMAIN viewers

LEMMA OrderedBy ==
    ASSUME GeoInv, NEW i \in Requests, ~ Over(i), threads[i].pc # "begin" \/ threads[i].kind = "redraw"
    PROVE  InOrder
<1>1. \A j \in Requests, v \in Pages : ~ Begins(j, "release", v) /\ ~ Begins(j, "resize", v)
  BY DEF GeoInv, OneServed, Over, Begins
<1> QED
  BY <1>1 DEF GeoInv, Registered, InOrder, Visible

LEMMA ServeKeeps ==
    ASSUME GeoInv, NEW i \in Requests, ~ Over(i), NEW to \in {"effective", "resize", "set", "ioctl", "restore", "over"},
           NEW grid, Advances(i, to, grid), UNCHANGED client,
           viewers' = [v \in DOMAIN viewers' |-> viewers'[v]], cooling' \in BOOLEAN, InOrder',
           threads[i].kind = "redraw" => to \in {"restore", "over"},
           to \in {"effective", "resize", "set", "over"} => pty' = term',
           to \in {"effective", "resize", "set"} => ~ cooling',
           to \in {"resize", "set", "ioctl"} => DOMAIN viewers' # {} /\ grid = Agreed',
           to = "ioctl" => term' = grid,
           to \in {"restore", "over"} /\ DOMAIN viewers' # {} => term' = Agreed'
    PROVE  GeoInv'
<1> USE DEF Advances
<1>1. UNCHANGED <<page, fit, conns, drops>> /\ GeoTypes'
  BY DEF client, GeoInv, GeoTypes
<1>2. \A j \in Requests : j # i => threads[j].pc = "over" /\ threads'[j] = threads[j]
  BY DEF GeoInv, OneServed, Over
<1>3. OneServed'
  BY <1>2 DEF OneServed, Over
<1>4. Serving'
  <2> SUFFICES ASSUME NEW j \in Requests
               PROVE  LET t == threads'[j] IN
        /\ t.kind \in {"resize", "release", "redraw"} /\ t.who \in Pages
        /\ t.pc \in {"begin", "effective", "resize", "set", "ioctl", "restore", "over"}
        /\ t.kind = "redraw" => t.pc \in {"begin", "restore", "over"}
        /\ t.pc = "begin" /\ t.kind = "resize" => page'[t.who] = "visible" /\ t.grid = fit'[t.who]
        /\ t.pc = "begin" /\ t.kind = "release" => (drops' = 0 => page'[t.who] # "visible")
        /\ t.pc \in {"begin", "effective", "resize", "set"} => pty' = term' /\ ~ cooling'
        /\ t.pc \in {"resize", "set", "ioctl"} => DOMAIN viewers' # {} /\ t.grid = Agreed'
        /\ t.pc = "ioctl" => term' = t.grid
        /\ t.pc = "restore" \/ (t.pc = "begin" /\ t.kind = "redraw") => (DOMAIN viewers' # {} => term' = Agreed')
    BY DEF Serving
  <2>1. /\ threads[j].kind \in {"resize", "release", "redraw"} /\ threads[j].who \in Pages
    BY DEF GeoInv, Serving
  <2>2. CASE j = i
    BY <2>1, <2>2
  <2>3. CASE j # i
    BY <1>2, <2>1, <2>3
  <2> QED
    BY <2>2, <2>3
<1>5. Settled'
  BY DEF Settled, Over
<1>6. Registered'
  BY <1>1 DEF InOrder, Registered, Visible
<1>7. Streamed'
  BY <1>1 DEF GeoInv, Streamed, Loaded
<1> QED
  BY <1>1, <1>3, <1>4, <1>5, <1>6, <1>7 DEF GeoInv

LEMMA StepRegister ==
    ASSUME GeoInv, NEW i \in Requests, Register(i) PROVE GeoInv'
<1> DEFINE w == threads[i].who
<1>1. /\ threads[i].pc = "begin" /\ threads[i].kind = "resize" /\ ~ Over(i)
      /\ viewers' = [v \in DOMAIN viewers \cup {w} |-> IF v = w THEN threads[i].grid ELSE viewers[v]]
      /\ UNCHANGED client /\ UNCHANGED <<page, fit, conns, drops, term, cooling, pty>>
      /\ threads' = [threads EXCEPT ![i].pc = "effective"]
  BY DEF Register, Reached, Goto, Over, client
<1>2. w \in Pages /\ page[w] = "visible" /\ threads[i].grid = fit[w] /\ pty = term /\ ~ cooling
  BY <1>1 DEF GeoInv, Serving
<1>3. Advances(i, "effective", threads[i].grid)
  BY <1>1, Advanced
<1> HIDE DEF w
<1>4. \A j \in Requests, v \in Pages : ~ Begins(j, "release", v) /\ (Begins(j, "resize", v) => v = w)
  BY <1>1 DEF GeoInv, OneServed, Over, Begins, w
<1>5. InOrder'
  BY <1>1, <1>2, <1>4 DEF GeoInv, Registered, InOrder, Visible
<1>6. viewers' = [v \in DOMAIN viewers' |-> viewers'[v]] /\ cooling' \in BOOLEAN
  BY <1>1 DEF GeoInv, GeoTypes
<1> QED
  BY <1>1, <1>2, <1>3, <1>5, <1>6, ServeKeeps

LEMMA StepRelease ==
    ASSUME GeoInv, NEW i \in Requests, Release(i) PROVE GeoInv'
<1> DEFINE w == threads[i].who
           left == DOMAIN viewers \ {w}
           to == IF left = {} THEN "over" ELSE "effective"
<1>1. /\ threads[i].pc = "begin" /\ threads[i].kind = "release" /\ ~ Over(i)
      /\ viewers' = [v \in left |-> viewers[v]]
      /\ UNCHANGED client /\ UNCHANGED <<page, fit, conns, drops, term, cooling, pty>>
      /\ threads' = [threads EXCEPT ![i].pc = to]
  BY DEF Release, Reached, Goto, Over, client, Restrict
<1>2. w \in Pages /\ (drops = 0 => page[w] # "visible") /\ pty = term /\ ~ cooling
  BY <1>1 DEF GeoInv, Serving
<1>3. Advances(i, to, threads[i].grid)
  BY <1>1, Advanced
<1>4. (to = "over" /\ DOMAIN viewers' = {}) \/ to = "effective"
  BY <1>1
<1>5. DOMAIN viewers' = DOMAIN viewers \ {w} /\ \A v \in DOMAIN viewers' : viewers'[v] = viewers[v]
  BY <1>1
<1>6. viewers' = [v \in DOMAIN viewers' |-> viewers'[v]] /\ cooling' \in BOOLEAN
  BY <1>1 DEF GeoInv, GeoTypes
<1> HIDE DEF w, to, left
<1>7. \A j \in Requests, v \in Pages : ~ Begins(j, "resize", v) /\ (Begins(j, "release", v) => v = w)
  BY <1>1 DEF GeoInv, OneServed, Over, Begins, w
<1>8. InOrder'
  BY <1>1, <1>2, <1>5, <1>7 DEF GeoInv, Registered, InOrder, Visible
<1> QED
  BY <1>1, <1>2, <1>3, <1>4, <1>6, <1>8, ServeKeeps

LEMMA StepApplies ==
    ASSUME GeoInv, NEW i \in Requests, ApplyEffective(i) PROVE GeoInv'
<1>1. /\ threads[i].pc = "effective" /\ ~ Over(i) /\ threads[i].kind # "redraw"
      /\ UNCHANGED client /\ UNCHANGED <<page, fit, drops, viewers, term, cooling, pty>>
  BY DEF ApplyEffective, Reached, Over, client, server, GeoInv, Serving
<1>2. pty = term /\ ~ cooling /\ InOrder
  BY <1>1, OrderedBy DEF GeoInv, Serving
<1>3. InOrder' /\ viewers' = [v \in DOMAIN viewers' |-> viewers'[v]] /\ cooling' \in BOOLEAN /\ Agreed' = Agreed
  BY <1>1, <1>2 DEF InOrder, Visible, GeoInv, GeoTypes, Agreed
<1>4. viewers = <<>> <=> DOMAIN viewers = {}
  BY DEF GeoInv, GeoTypes
<1>5. CASE viewers = <<>>
  <2>1. Advances(i, "over", threads[i].grid)
    BY <1>5, Advanced DEF ApplyEffective, Goto
  <2> QED
    BY <1>1, <1>2, <1>3, <1>4, <1>5, <2>1, ServeKeeps
<1>6. CASE viewers # <<>>
  <2>1. threads' = [threads EXCEPT ![i].pc = "resize", ![i].grid = Agreed]
    BY <1>6 DEF ApplyEffective, Agreed
  <2>2. Advances(i, "resize", Agreed)
    BY <2>1, Advanced
  <2> QED
    BY <1>1, <1>2, <1>3, <1>4, <1>6, <2>2, ServeKeeps
<1> QED
  BY <1>5, <1>6

\* resize, in its three steps: it keeps what is registered.
LEMMA StepResizes ==
    ASSUME GeoInv, NEW i \in Requests, Resize(i) \/ SetTerm(i) \/ Ioctl(i) PROVE GeoInv'
<1> DEFINE g == threads[i].grid
<1>1. /\ threads[i].pc \in {"resize", "set", "ioctl"} /\ ~ Over(i) /\ threads[i].kind # "redraw"
      /\ UNCHANGED client /\ UNCHANGED <<page, fit, drops, viewers>>
  BY DEF Resize, SetTerm, Ioctl, Reached, Over, client, server, GeoInv, Serving
<1>2. InOrder /\ DOMAIN viewers # {} /\ g = Agreed
  BY <1>1, OrderedBy DEF GeoInv, Serving
<1>3. InOrder' /\ viewers' = [v \in DOMAIN viewers' |-> viewers'[v]] /\ Agreed' = Agreed
  BY <1>1, <1>2 DEF InOrder, Visible, GeoInv, GeoTypes, Agreed
<1>4. CASE Resize(i)
  <2>1. PICK to \in {"over", "set"} : to = IF term = g \/ cooling THEN "over" ELSE "set"
    OBVIOUS
  <2>2. threads' = [threads EXCEPT ![i].pc = to] /\ UNCHANGED <<term, cooling, pty>> /\ threads[i].pc = "resize"
    BY <1>4, <2>1 DEF Resize, Goto, Reached, server
  <2>3. Advances(i, to, g)
    BY <2>2, Advanced
  <2>4. pty = term /\ ~ cooling /\ (to = "over" => term = g) /\ cooling' \in BOOLEAN
    BY <2>1, <2>2 DEF GeoInv, Serving, GeoTypes
  <2> HIDE DEF g
  <2> QED
    BY <1>1, <1>2, <1>3, <2>2, <2>3, <2>4, ServeKeeps
<1>5. CASE SetTerm(i)
  <2>1. threads' = [threads EXCEPT ![i].pc = "ioctl"] /\ term' = g /\ cooling' = TRUE
    BY <1>5 DEF SetTerm, Goto
  <2>2. Advances(i, "ioctl", g)
    BY <2>1, Advanced
  <2> HIDE DEF g
  <2> QED
    BY <1>1, <1>2, <1>3, <2>1, <2>2, ServeKeeps
<1>6. CASE Ioctl(i)
  <2>1. /\ threads' = [threads EXCEPT ![i].pc = "over"] /\ pty' = g /\ UNCHANGED <<term, cooling>>
        /\ threads[i].pc = "ioctl"
    BY <1>6 DEF Ioctl, Goto, Reached
  <2>2. Advances(i, "over", g)
    BY <2>1, Advanced
  <2>3. term = g /\ cooling' \in BOOLEAN
    BY <2>1 DEF GeoInv, Serving, GeoTypes
  <2> HIDE DEF g
  <2> QED
    BY <1>1, <1>2, <1>3, <2>1, <2>2, <2>3, ServeKeeps
<1> QED
  BY <1>4, <1>5, <1>6

LEMMA StepRedraws ==
    ASSUME GeoInv, NEW i \in Requests, Shrink(i) \/ Restore(i) PROVE GeoInv'
<1> DEFINE g == threads[i].grid
<1>1. /\ (threads[i].pc = "begin" /\ threads[i].kind = "redraw") \/ threads[i].pc = "restore"
      /\ ~ Over(i) /\ UNCHANGED client /\ UNCHANGED <<page, fit, drops, viewers, term, cooling>>
  BY DEF Shrink, Restore, Reached, Over, client
<1>2. InOrder /\ (DOMAIN viewers # {} => term = Agreed)
  BY <1>1, OrderedBy DEF GeoInv, Serving
<1>3. /\ InOrder' /\ viewers' = [v \in DOMAIN viewers' |-> viewers'[v]] /\ cooling' \in BOOLEAN
      /\ Agreed' = Agreed
  BY <1>1, <1>2 DEF InOrder, Visible, GeoInv, GeoTypes, Agreed
<1>4. PICK to \in {"over", "restore"} : threads' = [threads EXCEPT ![i].pc = to] /\ (to = "over" => pty' = term)
  <2>1. CASE Shrink(i)
    BY <2>1 DEF Shrink, Goto, Reached, GeoInv, Serving
  <2>2. CASE Restore(i)
    BY <2>2 DEF Restore, Goto
  <2> QED
    BY <2>1, <2>2
<1>5. Advances(i, to, g)
  BY <1>4, Advanced
<1> HIDE DEF g
<1> QED
  BY <1>1, <1>2, <1>3, <1>4, <1>5, ServeKeeps

-----------------------------------------------------------------------------
(* The pages.                                                              *)

\* What the page script changes of a page, and how many streams it has then.
LEMMA PagesStep ==
    ASSUME GeoInv, NEW v \in Pages, NEW p \in {"new", "visible", "hidden", "closed"}, NEW g, NEW c \in Nat,
           page' = [page EXCEPT ![v] = p], conns' = [conns EXCEPT ![v] = c],
           fit' = [fit EXCEPT ![v] = g] \/ (fit' = fit /\ g = fit[v]),
           UNCHANGED <<viewers, cooling>>, drops' \in Nat, drops' >= drops,
           p = "new" => c = 0,
           drops' = 0 /\ p \in {"visible", "hidden"} => c = 1
    PROVE  /\ GeoTypes' /\ Streamed' /\ page'[v] = p /\ fit'[v] = g
           /\ \A w \in Pages : w # v => page'[w] = page[w] /\ fit'[w] = fit[w]
<1> USE DEF GeoInv, GeoTypes
<1>1. /\ page'[v] = p /\ fit'[v] = g /\ conns'[v] = c
      /\ \A w \in Pages : w # v => page'[w] = page[w] /\ fit'[w] = fit[w] /\ conns'[w] = conns[w]
  OBVIOUS
<1>2. fit' = [w \in Pages |-> fit'[w]]
  OBVIOUS
<1>3. GeoTypes'
  BY <1>2
<1>4. Streamed'
  BY <1>1 DEF Streamed, Loaded
<1> QED
  BY <1>1, <1>3, <1>4

LEMMA SamePage ==
    ASSUME GeoInv, NEW v \in Pages
    PROVE  /\ page = [page EXCEPT ![v] = page[v]] /\ fit = [fit EXCEPT ![v] = fit[v]]
           /\ conns = [conns EXCEPT ![v] = conns[v]] /\ conns[v] \in Nat
           /\ page[v] \in {"new", "visible", "hidden", "closed"}
           /\ page[v] = "new" => conns[v] = 0
           /\ drops = 0 /\ page[v] \in {"visible", "hidden"} => conns[v] = 1
BY DEF GeoInv, GeoTypes, Streamed, Loaded

LEMMA StepClient ==
    ASSUME GeoInv, Serial, Spaced, NEW v \in Pages, Client(v) PROVE GeoInv'
<1>1. drops \in Nat /\ drops >= drops
  BY DEF GeoInv, GeoTypes
<1>2. CASE Open(v)
  <2>1. PICK grid \in Grids : fit' = [fit EXCEPT ![v] = grid] /\ Spawn("resize", v, grid)
    BY <1>2 DEF Open
  <2>2. /\ page[v] = "new" /\ page' = [page EXCEPT ![v] = "visible"] /\ conns' = [conns EXCEPT ![v] = conns[v] + 1]
        /\ UNCHANGED <<drops, server>> /\ UNCHANGED <<viewers, cooling>>
    BY <1>2 DEF Open, server
  <2>3. conns[v] + 1 = 1
    BY <2>2, SamePage
  <2>4. conns' = [conns EXCEPT ![v] = 1]
    BY <2>2, <2>3
  <2>5. /\ GeoTypes' /\ Streamed' /\ page'[v] = "visible" /\ fit'[v] = grid
        /\ \A w \in Pages : w # v => page'[w] = page[w] /\ fit'[w] = fit[w]
    BY <1>1, <2>1, <2>2, <2>4, PagesStep
  <2> QED
    BY <2>1, <2>2, <2>5, ClientKeeps
<1>3. CASE Refit(v)
  <2>1. PICK grid \in Grids : fit' = [fit EXCEPT ![v] = grid] /\ Spawn("resize", v, grid)
    BY <1>3 DEF Refit
  <2>2. page[v] = "visible" /\ UNCHANGED <<page, conns, drops, server>> /\ UNCHANGED <<viewers, cooling>>
    BY <1>3 DEF Refit, server
  <2>3. /\ page' = [page EXCEPT ![v] = "visible"] /\ conns' = [conns EXCEPT ![v] = conns[v]] /\ conns[v] \in Nat
        /\ drops = 0 => conns[v] = 1
    BY <2>2, SamePage
  <2>4. /\ GeoTypes' /\ Streamed' /\ page'[v] = "visible" /\ fit'[v] = grid
        /\ \A w \in Pages : w # v => page'[w] = page[w] /\ fit'[w] = fit[w]
    BY <1>1, <2>1, <2>2, <2>3, PagesStep
  <2> QED
    BY <2>1, <2>2, <2>4, ClientKeeps
<1>4. CASE Claim(v)
  <2>1. /\ Spawn("resize", v, fit[v]) /\ Loaded(v) /\ page' = [page EXCEPT ![v] = "visible"]
        /\ UNCHANGED <<fit, conns, drops, server>> /\ UNCHANGED <<viewers, cooling>>
    BY <1>4 DEF Claim, server
  <2>2. /\ conns' = [conns EXCEPT ![v] = conns[v]] /\ conns[v] \in Nat
        /\ drops = 0 => conns[v] = 1
    BY <2>1, SamePage DEF Loaded
  <2>3. /\ GeoTypes' /\ Streamed' /\ page'[v] = "visible" /\ fit'[v] = fit[v]
        /\ \A w \in Pages : w # v => page'[w] = page[w] /\ fit'[w] = fit[w]
    BY ZenonT(60), <1>1, <2>1, <2>2, PagesStep
  <2> QED
    BY <2>1, <2>3, ClientKeeps
<1>5. CASE Hide(v) \/ Leave(v)
  <2>1. PICK p \in {"hidden", "closed"} : page' = [page EXCEPT ![v] = p]
    BY <1>5 DEF Hide, Leave
  <2>2. /\ Spawn("release", v, fit[v]) /\ Loaded(v)
        /\ UNCHANGED <<fit, conns, drops, server>> /\ UNCHANGED <<viewers, cooling>>
    BY <1>5 DEF Hide, Leave, Loaded, server
  <2>3. /\ conns' = [conns EXCEPT ![v] = conns[v]] /\ conns[v] \in Nat
        /\ drops = 0 => conns[v] = 1
    BY <2>2, SamePage DEF Loaded
  <2>4. /\ GeoTypes' /\ Streamed' /\ page'[v] = p /\ fit'[v] = fit[v]
        /\ \A w \in Pages : w # v => page'[w] = page[w] /\ fit'[w] = fit[w]
    <3>1. /\ p \in {"new", "visible", "hidden", "closed"} /\ p # "new" /\ drops' \in Nat /\ drops' >= drops
          /\ drops' = 0 => conns[v] = 1
      BY <1>1, <2>1, <2>2, <2>3
    <3>2. UNCHANGED <<viewers, cooling>> /\ fit' = fit
      BY <2>2
    <3> QED
      BY <2>1, <2>3, <3>1, <3>2, PagesStep
  <2> QED
    BY <2>2, <2>4, ClientKeeps
<1>6. CASE Reconnect(v)
  <2>1. /\ Loaded(v) /\ drops' = drops + 1 /\ conns' = [conns EXCEPT ![v] = conns[v] + 1]
        /\ UNCHANGED <<page, fit, threads, viewers, term, cooling, pty>>
    BY <1>6 DEF Reconnect, server
  <2>6. /\ page' = [page EXCEPT ![v] = page[v]] /\ fit' = [fit EXCEPT ![v] = fit[v]] /\ conns[v] + 1 \in Nat
        /\ page[v] \in {"new", "visible", "hidden", "closed"} /\ page[v] # "new"
        /\ drops' \in Nat /\ drops' >= drops /\ drops' # 0
    BY <1>1, <2>1, SamePage DEF Loaded
  <2>2. GeoTypes' /\ Streamed' /\ drops' # 0
    BY <2>1, <2>6, PagesStep
  <2>3. Numbered' /\ OneServed' /\ Settled'
    BY <2>1 DEF GeoInv, Numbered, OneServed, Settled, Requests, Over, Agreed
  <2>4. Serving'
    BY <2>1, <2>2 DEF GeoInv, Serving, Requests, Agreed
  <2>5. Registered'
    BY <2>1, <2>2 DEF GeoInv, Registered, Requests, Begins
  <2> QED
    BY <2>2, <2>3, <2>4, <2>5 DEF GeoInv
<1>7. CASE AskRedraw(v)
  <2>1. Spawn("redraw", v, fit[v]) /\ UNCHANGED <<page, fit, conns, drops, server>> /\ UNCHANGED <<viewers, cooling>>
    BY <1>7 DEF AskRedraw, client, server
  <2>2. GeoTypes' /\ Streamed'
    BY <1>1, <2>1, PagesStep, SamePage
  <2> QED
    BY <2>1, <2>2, ClientKeeps
<1>8. CASE StreamEnds(v)
  <2>1. /\ Spawn("release", v, fit[v]) /\ conns' = [conns EXCEPT ![v] = conns[v] - 1] /\ Broken(v)
        /\ UNCHANGED <<page, fit, drops, server>> /\ UNCHANGED <<viewers, cooling>>
    BY <1>8 DEF StreamEnds, server
  <2>2. conns[v] - 1 \in Nat /\ page[v] # "new" /\ (drops = 0 => page[v] \notin {"visible", "hidden"})
    BY <2>1, SamePage DEF Broken, Loaded
  <2>4. /\ page' = [page EXCEPT ![v] = page[v]] /\ fit' = [fit EXCEPT ![v] = fit[v]]
        /\ page[v] \in {"new", "visible", "hidden", "closed"}
    BY <2>1, SamePage
  <2>3. GeoTypes' /\ Streamed'
    BY <1>1, <2>1, <2>2, <2>4, PagesStep
  <2> QED
    BY <2>1, <2>2, <2>3, ClientKeeps
<1> QED
  BY <1>2, <1>3, <1>4, <1>5, <1>6, <1>7, <1>8 DEF Client

-----------------------------------------------------------------------------
LEMMA GeoInvInit == ASSUME GeoInit PROVE GeoInv
<1> USE DEF GeoInit
<1>1. Requests = {} /\ DOMAIN viewers = {}
  BY DEF Requests
<1>2. GeoTypes
  <2>1. fit = [v \in Pages |-> fit[v]]
    OBVIOUS
  <2>2. viewers = [v \in DOMAIN viewers |-> viewers[v]]
    OBVIOUS
  <2> QED
    BY <2>1, <2>2 DEF GeoTypes
<1>3. Numbered
  <2>1. Requests = 1..0 /\ Cardinality(Requests) = 0
    BY <1>1, FS_EmptySet
  <2>2. threads = [i \in Requests |-> threads[i]]
    BY <1>1
  <2> QED
    BY <1>1, <2>1, <2>2 DEF Numbered
<1>4. OneServed /\ Serving /\ Settled
  BY <1>1 DEF OneServed, Serving, Settled
<1>5. Registered /\ Streamed
  BY <1>1 DEF Registered, Streamed, Visible, Loaded
<1> QED
  BY <1>2, <1>3, <1>4, <1>5 DEF GeoInv

LEMMA GeoInvNext ==
    ASSUME Serial, Spaced, GeoInv, [GeoNext]_geoVars PROVE GeoInv'
<1>1. ASSUME NEW i \in Requests, Serve(i) PROVE GeoInv'
  BY <1>1, StepRegister, StepRelease, StepApplies, StepResizes, StepRedraws DEF Serve
<1>2. CASE CoolDown \/ UNCHANGED geoVars
  <2>1. /\ UNCHANGED <<page, fit, conns, drops, threads, viewers, term, pty>>
        /\ cooling' = FALSE \/ cooling' = cooling
    BY <1>2 DEF CoolDown, geoVars, client, server
  <2>2. GeoTypes' /\ Numbered' /\ OneServed' /\ Settled' /\ Streamed'
    BY <2>1 DEF GeoInv, GeoTypes, Numbered, OneServed, Settled, Streamed, Requests, Over, Agreed, Loaded
  <2>3. Serving'
    BY <2>1 DEF GeoInv, Serving, Requests, Agreed
  <2>4. Registered'
    BY <2>1 DEF GeoInv, Registered, Requests, Begins, Visible
  <2> QED
    BY <2>2, <2>3, <2>4 DEF GeoInv
<1> QED
  BY <1>1, <1>2, StepClient DEF GeoNext

\* Once every request is handled, the pages in view, and only they, are
\* registered, and the terminal has the largest grid all of them can show
\* (pty_host.py, viewer_resize, viewer_release and _apply_effective), for any
\* pages and grids, if requests are served one after the other and are
\* further apart than the debounce time.
THEOREM GridAsFitted ==
    ASSUME Serial, Spaced PROVE GeoSpec => []GridFitsViewers
<1>1. GeoInv => GridFitsViewers
  <2> SUFFICES ASSUME GeoInv, Quiet PROVE EveryScreenFits /\ VisibleCount
    BY DEF GridFitsViewers, EveryScreenFits, VisibleCount
  <2>1. /\ pty = term /\ (DOMAIN viewers # {} => term = Agreed)
        /\ \A v \in DOMAIN viewers : v \in Visible /\ viewers[v] = fit[v]
        /\ drops = 0 => Visible \subseteq DOMAIN viewers
    BY DEF GeoInv, Settled, Registered, Begins, Over, Quiet, Visible
  <2>2. VisibleCount
    BY <2>1 DEF VisibleCount
  <2>3. ASSUME drops = 0, Visible # {} PROVE pty = Effective({fit[v] : v \in Visible})
    <3>1. DOMAIN viewers = Visible
      BY <2>1, <2>3
    <3>2. Range(viewers) = {fit[v] : v \in Visible}
      BY <2>1, <3>1 DEF Range
    <3> QED
      BY <2>1, <2>3, <3>1, <3>2 DEF Agreed
  <2> QED
    BY <2>2, <2>3 DEF EveryScreenFits
<1>2. GeoInit => GeoInv
  BY GeoInvInit
<1>3. GeoInv /\ [GeoNext]_geoVars => GeoInv'
  BY GeoInvNext
<1> QED
  BY <1>1, <1>2, <1>3, PTL DEF GeoSpec

-----------------------------------------------------------------------------
(* The frames of the terminal cockpit.                                     *)

Fields == {"screen", "items", "selected", "project", "card", "priority", "session", "pending", "form",
           "expanded", "view", "collapsed", "accounts"}
Frame(u) == u = [x \in Fields |-> u[x]]

ProjectRows == RowsOf("mode", <<"resume", "fresh">>) \o RowsOf("page", <<"backlog", "vision", "receipts">>)
Choosing == {"accounts", "launch_form"}
OriginScreens == {"project", "card", "backlog", "fleet_review", "projection_sync", "projects"}

\* While the owner picks the account and the form, the frame holds the choice
\* that led there.
HoldsChoice(u, m) ==
    /\ u.project = m.project /\ u.pending.mode = m.mode /\ u.pending.card = m.card
    /\ u.pending.prompt = m.prompt /\ u.pending.origin \in OriginScreens

Choice(u, m) ==
    /\ u.screen \in Choosing => HoldsChoice(u, m)
    /\ u.screen = "launch_form" => u.form = m.form

\* The pages of a project lead to none of these screens.
Listed(u) == u.screen = "project" => u.items = ProjectRows /\ u.selected \in Nat

MeantFields == {"project", "mode", "card", "prompt", "form"}
MeantFrame(m) == m = [x \in MeantFields |-> m[x]]

UIInv == Frame(ui) /\ MeantFrame(meant) /\ Choice(ui, meant) /\ Listed(ui) /\ LaunchedAsChosen

\* Two frames with the same choices.
Carries(u, v) == v.project = u.project /\ v.pending = u.pending /\ v.form = u.form

LEMMA JoinedAre ==
    ASSUME NEW T, NEW s \in Seq(T), NEW t \in Seq(T)
    PROVE  /\ Len(s \o t) = Len(s) + Len(t)
           /\ \A i \in 1..(Len(s) + Len(t)) : (s \o t)[i] = IF i <= Len(s) THEN s[i] ELSE t[i - Len(s)]
OBVIOUS

LEMMA ProjectRowsAre ==
    /\ Len(ProjectRows) = 5 /\ Len(ProjectRows) \in Nat
    /\ \A i \in 1..5 : ProjectRows[i][1] = "page" => ProjectRows[i][2] \in {"backlog", "vision", "receipts"}
<1> DEFINE a == <<"resume", "fresh">>
           b == <<"backlog", "vision", "receipts">>
           m == RowsOf("mode", a)
           p == RowsOf("page", b)
           T == {Row("mode", a[i]) : i \in 1..2} \cup {Row("page", b[i]) : i \in 1..3}
<1>1. Len(a) = 2 /\ Len(b) = 3
  OBVIOUS
<1>2. \A i \in 1..3 : b[i] \in {"backlog", "vision", "receipts"}
  OBVIOUS
<1>3. /\ m \in Seq(T) /\ Len(m) = 2
      /\ \A i \in 1..2 : m[i] = Row("mode", a[i])
  <2>1. \A i \in 1..2 : Row("mode", a[i]) \in T
    OBVIOUS
  <2> HIDE DEF a, b, T
  <2>2. m = [i \in 1..2 |-> Row("mode", a[i])]
    BY <1>1 DEF RowsOf
  <2> HIDE DEF m, p
  <2> QED
    BY <2>1, <2>2
<1>4. /\ p \in Seq(T) /\ Len(p) = 3
      /\ \A i \in 1..3 : p[i] = Row("page", b[i])
  <2>1. \A i \in 1..3 : Row("page", b[i]) \in T
    OBVIOUS
  <2> HIDE DEF a, b, T
  <2>2. p = [i \in 1..3 |-> Row("page", b[i])]
    BY <1>1 DEF RowsOf
  <2> HIDE DEF m, p
  <2> QED
    BY <2>1, <2>2
<1>5. /\ \A i \in 1..2 : m[i][1] = "mode"
      /\ \A i \in 1..3 : p[i][2] \in {"backlog", "vision", "receipts"}
  BY <1>2, <1>3, <1>4 DEF Row
<1>6. ProjectRows = m \o p
  BY DEF ProjectRows
<1> HIDE DEF m, p, T
<1>7. /\ Len(m \o p) = 5
      /\ \A i \in 1..5 : (m \o p)[i] = IF i <= 2 THEN m[i] ELSE p[i - 2]
  <2>1. /\ Len(m \o p) = Len(m) + Len(p)
        /\ \A i \in 1..(Len(m) + Len(p)) : (m \o p)[i] = IF i <= Len(m) THEN m[i] ELSE p[i - Len(m)]
    BY <1>3, <1>4, JoinedAre
  <2> QED
    BY <1>3, <1>4, <2>1
<1>8. ASSUME NEW i \in 1..5, ProjectRows[i][1] = "page"
      PROVE  ProjectRows[i][2] \in {"backlog", "vision", "receipts"}
  <2>1. i > 2
    BY <1>5, <1>6, <1>7, <1>8
  <2>2. i - 2 \in 1..3 /\ ProjectRows[i] = p[i - 2]
    BY <1>6, <1>7, <2>1
  <2> QED
    BY <1>5, <2>2
<1> QED
  BY <1>6, <1>7, <1>8

LEMMA FrameField ==
    ASSUME NEW u, Frame(u), NEW f \in Fields, NEW x
    PROVE  /\ Frame([u EXCEPT ![f] = x]) /\ [u EXCEPT ![f] = x][f] = x
           /\ \A g \in Fields : g # f => [u EXCEPT ![f] = x][g] = u[g]
BY DEF Frame

LEMMA HomeIs == Frame(Home) /\ Home.screen = "projects"
BY DEF Home, Frame, Fields

\* _refresh_items and _show change the rows, the cursor and the screen.
LEMMA RefreshedIs ==
    ASSUME NEW u, Frame(u), NEW v \in Refreshed(u)
    PROVE  /\ Frame(v) /\ Carries(u, v) /\ v.screen = u.screen /\ v.items \in Rows(u)
           /\ u.screen # "settings" => v.selected = u.selected
<1>1. PICK rows \in Rows(u) :
          v = [u EXCEPT !.items = rows,
                        !.selected = IF u.screen = "settings" THEN PostureRow(conf.posture) ELSE @]
  BY DEF Refreshed
<1>2. /\ Frame(v) /\ v.items = rows /\ \A g \in Fields \ {"items", "selected"} : v[g] = u[g]
      /\ u.screen # "settings" => v.selected = u.selected
  BY <1>1 DEF Frame, Fields
<1> QED
  BY <1>2 DEF Carries, Fields

LEMMA ShownIs ==
    ASSUME NEW u, Frame(u), NEW screen, NEW v \in Shown(u, screen)
    PROVE  Frame(v) /\ Carries(u, v) /\ v.screen = screen /\ Listed(v)
<1> DEFINE w == [u EXCEPT !.screen = screen, !.selected = 0]
<1>1. Frame(w) /\ Carries(u, w) /\ w.screen = screen /\ w.selected = 0
  BY DEF Frame, Fields, Carries
<1>2. PICK x \in Refreshed(w) : v = IF screen = "launch_form" THEN [x EXCEPT !.selected = Len(x.items) - 1] ELSE x
  BY DEF Shown
<1>3. /\ Frame(x) /\ Carries(w, x) /\ x.screen = screen /\ x.items \in Rows(w)
      /\ screen # "settings" => x.selected = 0
  <2> HIDE DEF w
  <2> QED
    BY <1>1, RefreshedIs
<1>4. Frame(v) /\ Carries(x, v) /\ v.screen = screen /\ (screen # "launch_form" => v = x)
  BY <1>2, <1>3 DEF Frame, Fields, Carries
<1>5. Listed(v)
  <2> SUFFICES ASSUME screen = "project" PROVE v.items = ProjectRows /\ v.selected \in Nat
    BY <1>4 DEF Listed
  <2>1. Rows(w) = {ProjectRows}
    <3> HIDE DEF w
    <3> QED
      BY <1>1 DEF Rows, ProjectRows
  <2> QED
    BY <1>3, <1>4, <2>1
<1> QED
  BY <1>1, <1>3, <1>4, <1>5 DEF Carries

-----------------------------------------------------------------------------
(* What a key does.  u is the frame, its cursor on the row acted on.       *)

\* Another screen with the choices so far, when it is none of the two, or one
\* goes back from the second to the first.
LEMMA ShowsKeeps ==
    ASSUME UIInv, result.kind = Unset, NEW u, Frame(u), NEW screen, Shows(u, screen),
           screen \in Choosing => screen = "accounts" /\ HoldsChoice(u, meant)
    PROVE  UIInv'
<1>1. ui' \in Shown(u, screen) /\ UNCHANGED <<result, meant>>
  BY DEF Shows
<1>2. Frame(ui') /\ Carries(u, ui') /\ ui'.screen = screen /\ Listed(ui')
  BY <1>1, ShownIs
<1>3. Choice(ui', meant)
  BY <1>2 DEF Choice, Carries, HoldsChoice, Choosing
<1> QED
  BY <1>1, <1>2, <1>3 DEF UIInv, LaunchedAsChosen

\* The owner decides what to launch.
LEMMA PreparesKeeps ==
    ASSUME UIInv, result.kind = Unset, NEW u, Frame(u), NEW project, NEW mode, NEW card, NEW prompt,
           Prepares(u, project, mode, card, prompt),
           u.project = project, u.pending.mode = mode, u.pending.card = card, u.pending.prompt = prompt,
           u.pending.origin \in OriginScreens
    PROVE  UIInv'
<1>1. /\ ui' \in Shown(u, "accounts") /\ UNCHANGED result
      /\ meant' = [project |-> project, mode |-> mode, card |-> card, prompt |-> prompt, form |-> NoForm]
  BY DEF Prepares
<1>2. Frame(ui') /\ Carries(u, ui') /\ ui'.screen = "accounts" /\ Listed(ui')
  BY <1>1, ShownIs
<1>3. /\ MeantFrame(meant') /\ meant'.project = project /\ meant'.mode = mode /\ meant'.card = card
      /\ meant'.prompt = prompt
  BY <1>1 DEF MeantFrame, MeantFields
<1>4. Choice(ui', meant')
  BY <1>2, <1>3 DEF Choice, Carries, HoldsChoice
<1> QED
  BY <1>1, <1>2, <1>3, <1>4 DEF UIInv, LaunchedAsChosen, Unset

\* The same screen, with the choices so far.
LEMMA StaysKeeps ==
    ASSUME UIInv, result.kind = Unset, NEW u, Choice(u, meant), u.screen # "project",
           Frame(ui'), Carries(u, ui'), ui'.screen = u.screen, UNCHANGED <<result, meant>>
    PROVE  UIInv'
<1>1. Choice(ui', meant) /\ Listed(ui')
  BY DEF Choice, Carries, HoldsChoice, Listed
<1> QED
  BY <1>1 DEF UIInv, LaunchedAsChosen

LEMMA RefreshesKeeps ==
    ASSUME UIInv, result.kind = Unset, NEW u, Frame(u), Choice(u, meant), u.screen # "project",
           Refreshes(u) \/ RefreshesClamped(u)
    PROVE  UIInv'
<1>1. UNCHANGED <<result, meant>> /\ \E v \in Refreshed(u) : ui' = v \/ ui' = Clamped(v)
  BY DEF Refreshes, RefreshesClamped
<1>2. PICK v \in Refreshed(u) : ui' = v \/ ui' = Clamped(v)
  BY <1>1
<1>3. Frame(v) /\ Carries(u, v) /\ v.screen = u.screen
  BY RefreshedIs
<1>4. Frame(ui') /\ Carries(u, ui') /\ ui'.screen = u.screen
  BY <1>2, <1>3 DEF Clamped, Frame, Fields, Carries
<1> QED
  BY <1>1, <1>4, StaysKeeps

\* The frame ends with something else than a launch.
LEMMA LeavesKeeps ==
    ASSUME UIInv, NEW r, Leaves(r), r.kind # "launch" PROVE UIInv'
BY DEF UIInv, Leaves, LaunchedAsChosen

\* Of the launch form.
LEMMA FormKeeps ==
    ASSUME UIInv, result.kind = Unset, NEW u, Frame(u), Choice(u, meant), u.screen = "launch_form",
           NEW kind, NEW value, LaunchForm(u, kind, value)
    PROVE  UIInv'
<1>1. HoldsChoice(u, meant) /\ u.form = meant.form
  BY DEF Choice, Choosing
<1>2. ASSUME NEW x, Refreshes([u EXCEPT !.expanded = x]) PROVE UIInv'
  <2> DEFINE w == [u EXCEPT !.expanded = x]
  <2>1. Frame(w) /\ Carries(u, w) /\ w.screen = u.screen
    BY DEF Frame, Fields, Carries
  <2>2. Refreshes(w)
    BY <1>2
  <2> HIDE DEF w
  <2>3. Choice(w, meant)
    BY <1>1, <2>1 DEF Choice, HoldsChoice, Carries
  <2> QED
    BY <2>1, <2>2, <2>3, RefreshesKeeps
<1>3. CASE /\ ui' \in Refreshed([u EXCEPT !.form[kind] = value, !.expanded = Unset])
           /\ meant' = [meant EXCEPT !.form[kind] = value] /\ UNCHANGED result
  <2> DEFINE w == [u EXCEPT !.form[kind] = value, !.expanded = Unset]
  <2>1. /\ Frame(w) /\ w.form = [u.form EXCEPT ![kind] = value] /\ w.screen = "launch_form"
        /\ w.project = u.project /\ w.pending = u.pending
    BY DEF Frame, Fields
  <2>2. ui' \in Refreshed(w)
    BY <1>3
  <2> HIDE DEF w
  <2>3. Frame(ui') /\ Carries(w, ui') /\ ui'.screen = "launch_form"
    BY <2>1, <2>2, RefreshedIs
  <2>4. /\ MeantFrame(meant') /\ meant'.form = [meant.form EXCEPT ![kind] = value]
        /\ meant'.project = meant.project /\ meant'.mode = meant.mode /\ meant'.card = meant.card
        /\ meant'.prompt = meant.prompt
    BY <1>3 DEF UIInv, MeantFrame, MeantFields
  <2>5. Choice(ui', meant') /\ Listed(ui')
    BY <1>1, <2>1, <2>3, <2>4 DEF Choice, HoldsChoice, Carries, Listed
  <2> QED
    BY <1>3, <2>3, <2>4, <2>5 DEF UIInv, LaunchedAsChosen, Unset
<1>4. CASE ui' = u /\ UNCHANGED <<result, meant>>
  <2>1. Carries(u, ui')
    BY <1>4 DEF Carries
  <2> QED
    BY <1>4, <2>1, StaysKeeps
<1>5. CASE Leaves([kind |-> "launch", project |-> u.project, launch |-> u.pending, form |-> u.form])
  BY <1>1, <1>5 DEF Leaves, UIInv, LaunchedAsChosen, HoldsChoice
<1> QED
  BY <1>2, <1>3, <1>4, <1>5 DEF LaunchForm

LEMMA AccountKeeps ==
    ASSUME UIInv, result.kind = Unset, NEW u, Frame(u), Choice(u, meant), u.screen = "accounts",
           NEW account, PicksAccount(u, account)
    PROVE  UIInv'
<1>1. PICK form : /\ ui' \in Shown([u EXCEPT !.form = form, !.expanded = Unset], "launch_form")
                  /\ meant' = [meant EXCEPT !.form = form] /\ UNCHANGED result
  BY DEF PicksAccount
<1> DEFINE w == [u EXCEPT !.form = form, !.expanded = Unset]
<1>2. Frame(w) /\ w.form = form /\ w.project = u.project /\ w.pending = u.pending
  BY DEF Frame, Fields
<1>3. ui' \in Shown(w, "launch_form")
  BY <1>1
<1> HIDE DEF w
<1>4. Frame(ui') /\ Carries(w, ui') /\ ui'.screen = "launch_form" /\ Listed(ui')
  BY <1>2, <1>3, ShownIs
<1>5. /\ MeantFrame(meant') /\ meant'.form = form
      /\ meant'.project = meant.project /\ meant'.mode = meant.mode /\ meant'.card = meant.card
      /\ meant'.prompt = meant.prompt
  BY <1>1 DEF UIInv, MeantFrame, MeantFields
<1>6. HoldsChoice(u, meant)
  BY DEF Choice, Choosing
<1>7. Choice(ui', meant')
  BY <1>2, <1>4, <1>5, <1>6 DEF Choice, HoldsChoice, Carries
<1> QED
  BY <1>1, <1>4, <1>5, <1>7 DEF UIInv, LaunchedAsChosen, Unset

-----------------------------------------------------------------------------
(* Enter on a row, and the other keys.                                     *)

\* Another screen, after what only another screen looks at is set.
LEMMA SetsAndShows ==
    ASSUME UIInv, result.kind = Unset, NEW u, Frame(u), NEW f \in Fields, NEW x, NEW screen,
           screen \notin Choosing, Shows([u EXCEPT ![f] = x], screen)
    PROVE  UIInv'
<1> DEFINE w == [u EXCEPT ![f] = x]
<1>1. Frame(w) /\ Shows(w, screen)
  BY FrameField
<1> HIDE DEF w
<1> QED
  BY <1>1, ShowsKeeps

LEMMA ProjectsKeep ==
    ASSUME UIInv, result.kind = Unset, NEW u, Frame(u), NEW kind, NEW value, OnProjects(u, kind, value)
    PROVE  UIInv'
<1>1. CASE Shows([u EXCEPT !.project = value], "project")
  BY <1>1, SetsAndShows DEF Fields, Choosing
<1>2. CASE kind \in {"fleet_review", "projection_sync"} /\ Shows(u, kind)
  BY <1>2, ShowsKeeps DEF Choosing
<1>3. CASE Leaves([kind |-> "remote_start"])
  BY <1>3, LeavesKeeps
<1>4. CASE Leaves([kind |-> "campaign"])
  BY <1>4, LeavesKeeps
<1> QED
  BY <1>1, <1>2, <1>3, <1>4 DEF OnProjects

LEMMA BacklogKeeps ==
    ASSUME UIInv, result.kind = Unset, NEW u, Frame(u), u.screen = "backlog",
           NEW kind, NEW value, OnBacklog(u, kind, value)
    PROVE  UIInv'
<1>1. CASE Shows([u EXCEPT !.card = value], "card")
  BY <1>1, SetsAndShows DEF Fields, Choosing
<1>2. ASSUME NEW x, RefreshesClamped([u EXCEPT !.collapsed = x]) PROVE UIInv'
  <2> DEFINE w == [u EXCEPT !.collapsed = x]
  <2>1. Frame(w) /\ w.screen = "backlog" /\ RefreshesClamped(w)
    BY <1>2 DEF Frame, Fields
  <2> HIDE DEF w
  <2>2. Choice(w, meant)
    BY <2>1 DEF Choice, Choosing
  <2> QED
    BY <2>1, <2>2, RefreshesKeeps
<1> QED
  BY <1>1, <1>2 DEF OnBacklog

LEMMA SettingsKeep ==
    ASSUME UIInv, result.kind = Unset, NEW u, Frame(u), u.screen = "settings",
           NEW kind, NEW value, OnSettings(u, kind, value)
    PROVE  UIInv'
<1>1. PICK x : ui' = [u EXCEPT !.selected = x] /\ UNCHANGED <<result, meant>>
  BY DEF OnSettings
<1>2. Frame(ui') /\ Carries(u, ui') /\ ui'.screen = u.screen
  BY <1>1 DEF Frame, Fields, Carries
<1>3. Choice(u, meant)
  BY DEF Choice, Choosing
<1> QED
  BY <1>1, <1>2, <1>3, StaysKeeps

LEMMA SessionKeeps ==
    ASSUME UIInv, result.kind = Unset, NEW u, Frame(u), NEW value, OnSession(u, value)
    PROVE  UIInv'
<1>1. CASE value \in {"attach", "restore"} /\ Leaves([kind |-> value, session |-> u.session])
  BY <1>1, LeavesKeeps
<1>2. CASE Shows(u, "confirm") \/ Shows(u, "sessions")
  BY <1>2, ShowsKeeps DEF Choosing
<1> QED
  BY <1>1, <1>2 DEF OnSession

LEMMA RefinesKeep ==
    ASSUME UIInv, result.kind = Unset, NEW u, Frame(u), StartsRefinePass(u) PROVE UIInv'
<1> DEFINE launch == [NoLaunch EXCEPT !.mode = "refine", !.origin = "backlog"]
           w == [u EXCEPT !.pending = launch]
<1>1. launch.mode = "refine" /\ launch.card = Unset /\ launch.prompt = Unset /\ launch.origin = "backlog"
  BY DEF NoLaunch
<1>2. Prepares(w, u.project, "refine", Unset, Unset)
  BY DEF StartsRefinePass
<1>3. Frame(w) /\ w.project = u.project /\ w.pending = launch
  BY DEF Frame, Fields
<1> HIDE DEF launch, w
<1> QED
  BY <1>1, <1>2, <1>3, PreparesKeeps DEF OriginScreens

LEMMA ActivatesKeeps ==
    ASSUME UIInv, result.kind = Unset, NEW u, Frame(u), Choice(u, meant), NEW kind, NEW value,
           u.screen = "project" /\ kind = "page" => value \in {"backlog", "vision", "receipts"},
           Activates(u, kind, value)
    PROVE  UIInv'
<1>1. CASE u.screen = "projects" /\ OnProjects(u, kind, value)
  BY <1>1, ProjectsKeep
<1>2. CASE PicksMode(u, value)
  <2> DEFINE launch == [NoLaunch EXCEPT !.mode = value, !.origin = "project"]
           w == [u EXCEPT !.pending = launch]
  <2>1. launch.mode = value /\ launch.card = Unset /\ launch.prompt = Unset /\ launch.origin = "project"
    BY DEF NoLaunch
  <2>2. Prepares(w, u.project, value, Unset, Unset)
    BY <1>2 DEF PicksMode
  <2>3. Frame(w) /\ w.project = u.project /\ w.pending = launch
    BY DEF Frame, Fields
  <2> HIDE DEF launch, w
  <2> QED
    BY <2>1, <2>2, <2>3, PreparesKeeps DEF OriginScreens
<1>3. CASE u.screen = "project" /\ kind = "page" /\ Shows(u, value)
  BY <1>3, ShowsKeeps DEF Choosing
<1>4. CASE u.screen = "backlog" /\ OnBacklog(u, kind, value)
  BY <1>4, BacklogKeeps
<1>5. CASE Shows(u, "receipt") \/ Shows(u, "session")
  BY <1>5, ShowsKeeps DEF Choosing
<1>6. CASE u.screen \in {"backlog_fields", "toggles"} /\ RefreshesClamped(u)
  BY <1>6, RefreshesKeeps
<1>7. CASE Shows([u EXCEPT !.priority = Unset], "backlog")
  BY <1>7, SetsAndShows DEF Fields, Choosing
<1>8. CASE ResumesCard(u)
  <2> DEFINE launch == [NoLaunch EXCEPT !.mode = "resume", !.card = u.card, !.origin = "card"]
           w == [u EXCEPT !.pending = launch]
  <2>1. launch.mode = "resume" /\ launch.card = u.card /\ launch.prompt = Unset /\ launch.origin = "card"
    BY DEF NoLaunch
  <2>2. Prepares(w, u.project, "resume", u.card, Unset)
    BY <1>8 DEF ResumesCard
  <2>3. Frame(w) /\ w.project = u.project /\ w.pending = launch
    BY DEF Frame, Fields
  <2> HIDE DEF launch, w
  <2> QED
    BY <2>1, <2>2, <2>3, PreparesKeeps DEF OriginScreens
<1>9. CASE u.screen = "accounts" /\ PicksAccount(u, value)
  BY <1>9, AccountKeeps
<1>10. CASE u.screen = "launch_form" /\ LaunchForm(u, kind, value)
  BY <1>10, FormKeeps
<1>11. CASE u.screen = "settings" /\ OnSettings(u, kind, value)
  BY <1>11, SettingsKeep
<1>12. CASE u.screen \in {"fleet_review", "projection_sync"} /\ AsksCurator(u, value)
  <2> DEFINE prompt == IF u.screen = "projection_sync" THEN "projections" ELSE Unset
  <2> DEFINE launch == [NoLaunch EXCEPT !.mode = "resume", !.prompt = prompt, !.origin = u.screen]
           w == [u EXCEPT !.project = value, !.pending = launch]
  <2>1. launch.mode = "resume" /\ launch.card = Unset /\ launch.prompt = prompt /\ launch.origin = u.screen
    BY DEF NoLaunch
  <2>2. Prepares(w, value, "resume", Unset, prompt)
    BY <1>12 DEF AsksCurator
  <2>3. Frame(w) /\ w.project = value /\ w.pending = launch
    BY DEF Frame, Fields
  <2> HIDE DEF launch, w
  <2> QED
    BY <1>12, <2>1, <2>2, <2>3, PreparesKeeps DEF OriginScreens
<1>13. CASE Shows([u EXCEPT !.session = value], "session")
  BY <1>13, SetsAndShows DEF Fields, Choosing
<1>14. CASE OnSession(u, value)
  BY <1>14, SessionKeeps
<1>15. CASE Leaves([kind |-> "stop", session |-> u.session])
  BY <1>15, LeavesKeeps
<1> QED
  BY <1>1, <1>2, <1>3, <1>4, <1>5, <1>6, <1>7, <1>8, <1>9, <1>10, <1>11, <1>12, <1>13, <1>14, <1>15
     DEF Activates

LEMMA EnterKeeps ==
    ASSUME UIInv, result.kind = Unset, Enter \/ \E i \in 1..Len(ui.items) : ClicksRow(i)
    PROVE  UIInv'
<1> USE DEF UIInv
<1>1. CASE Leaves([kind |-> "crash"])
  BY <1>1, LeavesKeeps
<1>2. CASE ui.selected < Len(ui.items) /\ Activates(ui, ui.items[ui.selected + 1][1], ui.items[ui.selected + 1][2])
  <2> DEFINE kind == ui.items[ui.selected + 1][1]
             value == ui.items[ui.selected + 1][2]
  <2>1. ui.screen = "project" /\ kind = "page" => value \in {"backlog", "vision", "receipts"}
    BY SMTT(30), <1>2, ProjectRowsAre DEF Listed
  <2> HIDE DEF kind, value
  <2> QED
    BY <1>2, <2>1, ActivatesKeeps DEF kind, value
<1>3. ASSUME NEW i \in 1..Len(ui.items), ClicksRow(i) PROVE UIInv'
  <2> DEFINE u == [ui EXCEPT !.selected = i - 1]
             kind == ui.items[i][1]
             value == ui.items[i][2]
  <2>1. Frame(u) /\ Carries(ui, u) /\ u.screen = ui.screen
    BY DEF Frame, Fields, Carries
  <2>2. ui.screen = "project" /\ kind = "page" => value \in {"backlog", "vision", "receipts"}
    BY <1>3, ProjectRowsAre DEF Listed
  <2>3. Activates(u, kind, value)
    BY <1>3 DEF ClicksRow
  <2> HIDE DEF u, kind, value
  <2>4. Choice(u, meant)
    BY <2>1 DEF Choice, Carries, HoldsChoice
  <2> QED
    BY <2>1, <2>2, <2>3, <2>4, ActivatesKeeps
<1> QED
  BY <1>1, <1>2, <1>3 DEF Enter

LEMMA BackKeeps ==
    ASSUME UIInv, result.kind = Unset, Back PROVE UIInv'
<1> USE DEF UIInv
<1>1. CASE Shows([ui EXCEPT !.project = Unset], "projects")
  BY <1>1, SetsAndShows DEF Fields, Choosing
<1>2. CASE ui.screen = "accounts" /\ Shows(ui, ui.pending.origin)
  BY <1>2, ShowsKeeps DEF Choosing, Choice, HoldsChoice, OriginScreens
<1>3. CASE ui.screen = "launch_form" /\ Refreshes([ui EXCEPT !.expanded = Unset])
  <2> DEFINE w == [ui EXCEPT !.expanded = Unset]
  <2>1. Frame(w) /\ Carries(ui, w) /\ w.screen = "launch_form"
    BY <1>3 DEF Frame, Fields, Carries
  <2>2. Refreshes(w)
    BY <1>3
  <2> HIDE DEF w
  <2>3. Choice(w, meant)
    BY <1>3, <2>1 DEF Choice, HoldsChoice, Carries
  <2> QED
    BY <2>1, <2>2, <2>3, RefreshesKeeps
<1>4. CASE ui.screen = "launch_form" /\ Shows(ui, "accounts")
  BY <1>4, ShowsKeeps DEF Choosing, Choice
<1>5. CASE \E x : Shows([ui EXCEPT !.priority = x], UpFrom(ui.screen))
  BY <1>5, SetsAndShows DEF Fields, Choosing, UpFrom, UpFromMachine
<1> QED
  BY <1>1, <1>2, <1>3, <1>4, <1>5 DEF Back

LEMMA PressesKeep ==
    ASSUME UIInv, result.kind = Unset, Presses PROVE UIInv'
<1> USE DEF UIInv
<1>1. ASSUME NEW screen \in {"sessions", "settings", "mission", "toggles", "fleet_review", "backlog_fields"},
             Shows(ui, screen)
      PROVE  UIInv'
  BY <1>1, ShowsKeeps DEF Choosing
<1>2. ASSUME NEW x, Shows([ui EXCEPT !.priority = x], "card_priority") PROVE UIInv'
  BY <1>2, SetsAndShows DEF Fields, Choosing
<1>3. CASE StartsRefinePass(ui)
  BY <1>3, RefinesKeep
<1>4. ASSUME ui.screen = "backlog", NEW view, Refreshes([ui EXCEPT !.view = view, !.selected = 0]) PROVE UIInv'
  <2> DEFINE w == [ui EXCEPT !.view = view, !.selected = 0]
  <2>1. Frame(w) /\ w.screen = "backlog" /\ Refreshes(w)
    BY <1>4 DEF Frame, Fields
  <2> HIDE DEF w
  <2>2. Choice(w, meant)
    BY <2>1 DEF Choice, Choosing
  <2> QED
    BY <2>1, <2>2, RefreshesKeeps
<1>5. CASE Leaves([kind |-> "edit", project |-> ui.project, card |-> ui.card])
  BY <1>5, LeavesKeeps
<1> QED
  BY <1>1, <1>2, <1>3, <1>4, <1>5 DEF Presses

LEMMA MovesKeep ==
    ASSUME UIInv, result.kind = Unset, Moves \/ RefreshesUsage PROVE UIInv'
<1> USE DEF UIInv
<1>1. ASSUME NEW row \in 1..Len(ui.items), ui' = [ui EXCEPT !.selected = row - 1], UNCHANGED <<result, meant>>
      PROVE  UIInv'
  <2>1. Frame(ui') /\ Carries(ui, ui') /\ ui'.screen = ui.screen /\ ui'.items = ui.items /\ ui'.selected = row - 1
    BY <1>1 DEF Frame, Fields, Carries
  <2>2. Listed(ui')
    BY <2>1, ProjectRowsAre DEF Listed
  <2>3. Choice(ui', meant)
    BY <2>1 DEF Choice, HoldsChoice, Carries
  <2> QED
    BY <1>1, <2>1, <2>2, <2>3 DEF LaunchedAsChosen
<1>2. ASSUME NEW accounts,
             LET u == [ui EXCEPT !.accounts = accounts]
             IN  IF ui.screen = "accounts" THEN RefreshesClamped(u)
                                           ELSE ui' = u /\ UNCHANGED <<result, conf, meant>>
      PROVE  UIInv'
  <2> DEFINE w == [ui EXCEPT !.accounts = accounts]
  <2>1. /\ Frame(w) /\ Carries(ui, w) /\ w.screen = ui.screen /\ w.items = ui.items
        /\ w.selected = ui.selected
    BY DEF Frame, Fields, Carries
  <2>2. IF ui.screen = "accounts" THEN RefreshesClamped(w) ELSE ui' = w /\ UNCHANGED <<result, meant>>
    BY <1>2
  <2> HIDE DEF w
  <2>3. Choice(w, meant) /\ Listed(w)
    BY <2>1 DEF Choice, HoldsChoice, Carries, Listed
  <2>4. CASE ui.screen = "accounts"
    BY <2>1, <2>2, <2>3, <2>4, RefreshesKeeps
  <2>5. CASE ui.screen # "accounts"
    BY <2>1, <2>2, <2>3, <2>5 DEF LaunchedAsChosen
  <2> QED
    BY <2>4, <2>5
<1> QED
  BY <1>1, <1>2 DEF Moves, RefreshesUsage

LEMMA NextFrameKeeps ==
    ASSUME UIInv, NextFrame PROVE UIInv'
<1> USE DEF UIInv
<1>1. result'.kind # "launch"
  BY DEF NextFrame, Unset
<1>2. CASE ui' \in Shown(Home, "projects") /\ UNCHANGED meant
  <2>1. Frame(ui') /\ ui'.screen = "projects" /\ Listed(ui')
    BY <1>2, ShownIs, HomeIs
  <2> QED
    BY <1>1, <1>2, <2>1 DEF Choice, Choosing, LaunchedAsChosen
<1>3. CASE /\ ui' \in Shown([Home EXCEPT !.project = Cockpit,
                 !.pending = [mode |-> "resume", card |-> Unset, prompt |-> "campaign", origin |-> "projects"]],
                            "accounts")
           /\ meant' = [project |-> Cockpit, mode |-> "resume", card |-> Unset, prompt |-> "campaign",
                        form |-> NoForm]
  <2> DEFINE w == [Home EXCEPT !.project = Cockpit,
                     !.pending = [mode |-> "resume", card |-> Unset, prompt |-> "campaign", origin |-> "projects"]]
  <2>1. /\ Frame(w) /\ w.project = Cockpit
        /\ w.pending = [mode |-> "resume", card |-> Unset, prompt |-> "campaign", origin |-> "projects"]
    BY HomeIs DEF Frame, Fields
  <2>2. ui' \in Shown(w, "accounts")
    BY <1>3
  <2> HIDE DEF w
  <2>3. Frame(ui') /\ Carries(w, ui') /\ ui'.screen = "accounts" /\ Listed(ui')
    BY <2>1, <2>2, ShownIs
  <2>4. /\ MeantFrame(meant') /\ meant'.project = Cockpit /\ meant'.mode = "resume" /\ meant'.card = Unset
        /\ meant'.prompt = "campaign"
    BY <1>3 DEF MeantFrame, MeantFields
  <2>5. Choice(ui', meant')
    BY <2>1, <2>3, <2>4 DEF Choice, HoldsChoice, Carries, OriginScreens
  <2> QED
    BY <1>1, <2>3, <2>4, <2>5 DEF LaunchedAsChosen
<1> QED
  BY <1>2, <1>3 DEF NextFrame

LEMMA UIInvInit == UIInit => UIInv
<1> SUFFICES ASSUME UIInit PROVE UIInv
  OBVIOUS
<1>1. Frame(ui) /\ ui.screen = "projects" /\ Listed(ui)
  BY ShownIs, HomeIs DEF UIInit
<1>2. MeantFrame(meant) /\ result.kind = Unset
  BY DEF UIInit, MeantFrame, MeantFields
<1> QED
  BY <1>1, <1>2 DEF UIInv, Choice, Choosing, LaunchedAsChosen, Unset

LEMMA UIInvNext == UIInv /\ [UINext]_uiVars => UIInv'
<1> SUFFICES ASSUME UIInv, [UINext]_uiVars PROVE UIInv'
  OBVIOUS
<1>1. CASE result.kind = Unset /\ (Enter \/ \E i \in 1..Len(ui.items) : ClicksRow(i))
  BY <1>1, EnterKeeps
<1>2. CASE result.kind = Unset /\ (Back \/ Presses \/ Moves \/ RefreshesUsage)
  BY <1>2, BackKeeps, PressesKeep, MovesKeep
<1>3. CASE NextFrame
  BY <1>3, NextFrameKeeps
<1>4. CASE UNCHANGED uiVars
  BY <1>4 DEF uiVars, UIInv, LaunchedAsChosen
<1> QED
  BY <1>1, <1>2, <1>3, <1>4 DEF UINext

\* _exit_launch hands over what the owner chose last: the project, the mode,
\* the card or prompt and the form, for any projects, cards, accounts and
\* rows, and whatever was chosen and left before in the frame.
THEOREM LaunchesAsChosen == UISpec => []LaunchedAsChosen
<1>1. UIInv => LaunchedAsChosen
  BY DEF UIInv
<1> QED
  BY <1>1, UIInvInit, UIInvNext, PTL DEF UISpec
=============================================================================
