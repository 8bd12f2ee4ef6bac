-------------------------- MODULE SessionRun_proofs --------------------------
(***************************************************************************)
(* Proofs about SessionRun for every set of sessions and observers,        *)
(* whether or not registry operations overlap and processes are killed.    *)
(***************************************************************************)
EXTENDS SessionRun, TLAPS

\* A process in the middle of an operation has asked for it, and a save that
\* has emptied the file has something to write.
CallsPending ==
    \A p \in Procs : /\ phase[p] # "idle" => ~ Free(p)
                     /\ phase[p] = "truncated" => ~ Nothing(call[p], snap[p])

\* An observer that has killed a session knows which.
AimsTaken == \A o \in Observers : opc[o] \in {"killed", "noting"} => aim[o] # NoAim

\* A runner that is under way is alive, and one past its agent's end knows how
\* the agent ended.
RunsCoherent ==
    \A s \in Sessions :
        /\ rpc[s] \notin {"off", "done", "dead"} => Runner(s) \in alive
        /\ rpc[s] \in {"launched", "running"} /\ Child(s) \notin alive
              => outcome[s] # "none"
        /\ rpc[s] \in {"evidence", "status"} => outcome[s] # "none"

TypeInv == TypeOK /\ CallsPending /\ AimsTaken /\ RunsCoherent

-----------------------------------------------------------------------------
(* The edits keep the shape of the file.                                   *)

LEMMA MergeType ==
    ASSUME NEW row \in Row, NEW fields \in Fields
    PROVE  Merge(row, fields) \in Row
<1>1. ASSUME NEW S, NEW old \in S, NEW new \in S \cup {Keep}
      PROVE  Pick(new, old) \in S
  BY <1>1 DEF Pick
<1>2. /\ Pick(fields.status, row.status) \in Statuses
      /\ Pick(fields.pid, row.pid) \in PidKinds
      /\ Pick(fields.reason, row.reason) \in Reasons
      /\ Pick(fields.delivery, row.delivery) \in Verdicts
  BY <1>1 DEF Row, Fields
<1>3. row.target \in Targets
  BY DEF Row
<1> QED
  BY <1>2, <1>3 DEF Merge, Row

LEMMA JudgedType ==
    ASSUME NEW row \in Row, NEW result \in Outcomes, NEW live
    PROVE  Judged(row, result, live) \in Row
<1>1. \A status : Classify(status) \in Verdicts
  BY DEF Classify, Verdicts
<1>2. ASSUME NEW status \in Statuses, NEW delivery \in Verdicts,
             NEW reason \in Reasons
      PROVE  [row EXCEPT !.status = status, !.delivery = delivery,
                         !.reason = reason] \in Row
  BY <1>2 DEF Row
<1>3. /\ result # "none" => result \in Statuses
      /\ "stale" \in Statuses /\ "vanished" \in Reasons /\ row.reason \in Reasons
  BY DEF Row, Outcomes, Statuses, Terminal, Running, Reasons
<1>4. CASE row.status \in Terminal \/ (result = "none" /\ live)
  BY <1>4 DEF Judged
<1>5. CASE row.status \notin Terminal /\ result # "none"
  <2>1. Judged(row, result, live) = [row EXCEPT !.status = result,
            !.delivery = Classify(result), !.reason = row.reason]
    BY <1>5 DEF Judged, Row
  <2>2. /\ result \in Statuses /\ Classify(result) \in Verdicts
        /\ row.reason \in Reasons
    BY <1>1, <1>3, <1>5
  <2>3. [row EXCEPT !.status = result, !.delivery = Classify(result),
                    !.reason = row.reason] \in Row
    BY <1>2, <2>2
  <2> QED
    BY <2>1, <2>3
<1>6. CASE row.status \notin Terminal /\ result = "none" /\ ~ live
  <2>1. PICK reason \in {"vanished", row.reason} :
            Judged(row, result, live) = [row EXCEPT !.status = "stale",
                !.delivery = Classify("stale"), !.reason = reason]
    BY <1>6 DEF Judged
  <2>2. /\ "stale" \in Statuses /\ Classify("stale") \in Verdicts
        /\ reason \in Reasons
    BY <1>1, <1>3
  <2>3. [row EXCEPT !.status = "stale", !.delivery = Classify("stale"),
                    !.reason = reason] \in Row
    BY <1>2, <2>2
  <2> QED
    BY <2>1, <2>3
<1> QED
  BY <1>4, <1>5, <1>6

LEMMA EditedType ==
    ASSUME NEW c \in Calls, NEW book, IsBook(book), ~ Nothing(c, book)
    PROVE  IsBook(Edited(c, book))
<1>1. CASE c \in [op: {"upsert"}, sid: Sessions, row: Row]
  BY <1>1 DEF Edited, PutRow, IsBook
<1>2. CASE c \in [op: {"update"}, sid: Sessions, fields: Fields]
  <2>1. /\ c.op = "update" /\ c.sid \in Sessions /\ c.fields \in Fields
        /\ c.sid \in DOMAIN book
    BY <1>2 DEF Nothing
  <2>2. Merge(book[c.sid], c.fields) \in Row
    BY <2>1, MergeType DEF IsBook
  <2>3. Edited(c, book) = PutRow(book, c.sid, Merge(book[c.sid], c.fields))
    BY <2>1 DEF Edited
  <2> QED
    BY <2>1, <2>2, <2>3 DEF PutRow, IsBook
<1>3. CASE c \in {Reconcile, Prune, Idle}
  BY <1>3 DEF Edited, DropRows, IsBook, Reconcile, Prune, Idle
<1> QED
  BY <1>1, <1>2, <1>3 DEF Calls

LEMMA VisibleType == RegistryTypeOK => IsBook(Visible)
BY DEF RegistryTypeOK, FileTypeOK, Visible, NoRows, IsBook

-----------------------------------------------------------------------------
(* The steps of a registry operation.                                      *)

LEMMA OperateType ==
    ASSUME RegistryTypeOK, CallsPending, NEW p \in Procs, Operate(p)
    PROVE  RegistryTypeOK' /\ CallsPending'
<1> USE DEF RegistryTypeOK, FileTypeOK, WorldTypeOK, CallsPending, Free
<1>1. IsBook(NoRows) /\ Idle \in Calls
  BY DEF NoRows, IsBook, Calls, Idle
<1>2. CASE Load(p)
  BY <1>2, VisibleType DEF Load
<1>3. CASE ReadResults(p)
  BY <1>3 DEF ReadResults
<1>4. CASE Judge(p)
  <2> DEFINE judged == [s \in DOMAIN snap[p] |->
                           Judged(snap[p][s], seen[p][s],
                                  <<s, snap[p][s].pid>> \in alive)]
  <2>1. \A s \in DOMAIN snap[p] : s \in Sessions /\ snap[p][s] \in Row
                                  /\ seen[p][s] \in Outcomes
    BY DEF IsBook
  <2>2. IsBook(judged)
    <3>1. \A s \in DOMAIN snap[p] : judged[s] \in Row
      BY <2>1, JudgedType
    <3>2. DOMAIN judged = DOMAIN snap[p] /\ DOMAIN snap[p] \subseteq Sessions
      BY <2>1
    <3> QED
      BY <3>1, <3>2 DEF IsBook
  <2>3. /\ snap' = [snap EXCEPT ![p] = IF judged # snap[p] THEN judged
                                       ELSE NoRows]
        /\ datum' = [s \in Sessions |-> IF Confirmed(p, s) /\ datum[s] # "none"
                                        THEN "reconcile" ELSE datum[s]]
        /\ phase' = [phase EXCEPT ![p] = IF judged # snap[p] THEN "judged"
                                         ELSE "idle"]
        /\ call' = [call EXCEPT ![p] = IF judged # snap[p] THEN @ ELSE Idle]
        /\ seen' = [seen EXCEPT ![p] = [s \in Sessions |-> "none"]]
        /\ phase[p] = "read"
        /\ UNCHANGED <<rows, file, results, alive>>
    BY <1>4 DEF Judge
  <2> HIDE DEF judged
  <2>4. DOMAIN snap' = Procs /\ \A q \in Procs : IsBook(snap'[q])
    BY <2>2, <2>3, <1>1
  <2>5. call' \in [Procs -> Calls]
    BY <2>3, <1>1
  <2>6. datum' \in [Sessions -> {"none", "launched", "executor", "reconcile"}]
    BY <2>3
  <2>7. /\ phase' \in [Procs -> {"idle", "loaded", "read", "judged", "truncated"}]
        /\ seen' \in [Procs -> [Sessions -> Outcomes]]
    BY <2>3 DEF Outcomes
  <2>8. CallsPending'
    BY <2>3
  <2> QED
    BY <2>3, <2>4, <2>5, <2>6, <2>7, <2>8
<1>5. CASE NoChange(p)
  BY <1>1, <1>5 DEF NoChange
<1>6. CASE Truncate(p)
  BY <1>6 DEF Truncate, Ready, Nothing
<1>7. CASE Write(p)
  <2>1. IsBook(Edited(call[p], snap[p]))
    BY <1>7, EditedType DEF Write
  <2> QED
    BY <1>1, <1>7, <2>1 DEF Write
<1> QED
  BY <1>2, <1>3, <1>4, <1>5, <1>6, <1>7 DEF Operate

-----------------------------------------------------------------------------
(* What the actors do to the registry: they ask, they die.                 *)

LEMMA AskType ==
    ASSUME FileTypeOK, CallsPending, NEW p \in Procs, Free(p),
           NEW c \in Calls, Ask(p, c)
    PROVE  FileTypeOK' /\ CallsPending'
BY DEF FileTypeOK, CallsPending, Free, Ask

LEMMA AbandonType ==
    ASSUME FileTypeOK, CallsPending, NEW gone, Abandon(gone)
    PROVE  FileTypeOK' /\ CallsPending'
<1>1. /\ IsBook(NoRows) /\ Idle \in Calls
      /\ [s \in Sessions |-> "none"] \in [Sessions -> Outcomes]
  BY DEF NoRows, IsBook, Calls, Idle, Outcomes
<1> QED
  BY <1>1 DEF FileTypeOK, CallsPending, Free, Abandon

LEMMA IdleType ==
    ASSUME FileTypeOK, CallsPending, UNCHANGED registryVars
    PROVE  FileTypeOK' /\ CallsPending'
BY DEF FileTypeOK, CallsPending, Free, registryVars

LEMMA FieldsType ==
    /\ NoFields \in Fields
    /\ \A why \in Reasons : [NoFields EXCEPT !.reason = why] \in Fields
    /\ \A st \in Statuses : [NoFields EXCEPT !.status = st] \in Fields
    /\ [NoFields EXCEPT !.pid = "child"] \in Fields
    /\ \A st : [NoFields EXCEPT !.reason = "natural",
                                !.delivery = Classify(st)] \in Fields
BY DEF NoFields, Fields, Keep, PidKinds, Verdicts, Classify, Reasons

LEMMA CallsType ==
    /\ Reconcile \in Calls /\ Prune \in Calls
    /\ \A s \in Sessions, f \in Fields : Update(s, f) \in Calls
    /\ \A s \in Sessions, st \in Statuses : SetStatus(s, st) \in Calls
    /\ \A s \in Sessions, why \in Reasons : SetReason(s, why) \in Calls
    /\ \A s \in Sessions, row \in Row : Upsert(s, row) \in Calls
BY FieldsType DEF Calls, Reconcile, Prune, Update, SetStatus, SetReason, Upsert

LEMMA ProcessesType ==
    ASSUME NEW s \in Sessions
    PROVE  /\ Launcher(s) \in Procs /\ Runner(s) \in Procs
           /\ {Launcher(s), Runner(s), Child(s)} \subseteq Sessions \X PidKinds
           /\ \A t \in Sessions : /\ Launcher(s) # Runner(t)
                                  /\ Launcher(s) # Child(t)
                                  /\ Runner(s) # Child(t)
                                  /\ s # t => Runner(s) # Runner(t)
                                              /\ Child(s) # Child(t)
BY DEF Procs, Launcher, Runner, Child, PidKinds

-----------------------------------------------------------------------------
(* Every step of an actor keeps the invariant.                             *)

LEMMA LaunchType ==
    ASSUME TypeInv, NEW s \in Sessions, Launch(s)
    PROVE  TypeInv'
<1> USE DEF TypeInv, TypeOK, RegistryTypeOK, WorldTypeOK, ActorTypeOK,
            AimsTaken, RunsCoherent, LauncherAt, Pcs
<1> USE ProcessesType
<1>1. CASE Register(s)
  <2>1. Fresh(s, "launcher", "tmux") \in Row
    BY DEF Fresh, Row, Running, Statuses, PidKinds, Reasons, Verdicts, Targets
  <2>2. FileTypeOK' /\ CallsPending'
    BY <1>1, <2>1, AskType, CallsType DEF Register
  <2> QED
    BY <1>1, <2>2 DEF Register
<1>2. CASE NewPane(s)
  BY <1>2, IdleType DEF NewPane
<1>3. CASE NewPaneFails(s)
  <2>1. FileTypeOK' /\ CallsPending'
    BY <1>3, AskType, CallsType DEF NewPaneFails, Reasons
  <2> QED
    BY <1>3, <2>1 DEF NewPaneFails
<1>4. CASE Poll(s)
  <2>1. FileTypeOK' /\ CallsPending'
    BY <1>4, AskType, CallsType DEF Poll
  <2> QED
    BY <1>4, <2>1 DEF Poll
<1>5. CASE Confirm(s)
  BY <1>5, IdleType DEF Confirm
<1>6. CASE PollAgain(s)
  BY <1>6, IdleType DEF PollAgain
<1>7. CASE Undo(s)
  BY <1>7, AbandonType DEF Undo, Kill
<1>8. CASE UndoReason(s)
  <2>1. FileTypeOK' /\ CallsPending'
    BY <1>8, AskType, CallsType DEF UndoReason, Reasons
  <2> QED
    BY <1>8, <2>1 DEF UndoReason
<1>9. CASE UndoStatus(s)
  <2>1. FileTypeOK' /\ CallsPending'
    BY <1>9, AskType, CallsType DEF UndoStatus, Statuses, Terminal
  <2> QED
    BY <1>9, <2>1 DEF UndoStatus
<1>10. CASE LaunchFailed(s)
  BY <1>10, IdleType DEF LaunchFailed
<1> QED
  BY <1>1, <1>2, <1>3, <1>4, <1>5, <1>6, <1>7, <1>8, <1>9, <1>10 DEF Launch

LEMMA RunType ==
    ASSUME TypeInv, NEW s \in Sessions, Run(s)
    PROVE  TypeInv'
<1> USE DEF TypeInv, TypeOK, RegistryTypeOK, WorldTypeOK, ActorTypeOK,
            AimsTaken, RunsCoherent, RunnerAt, Pcs
<1> USE ProcessesType
<1>1. CASE StartForeground(s)
  BY <1>1, IdleType DEF StartForeground
<1>2. CASE Look(s)
  <2>1. FileTypeOK' /\ CallsPending'
    BY <1>2, AskType, CallsType DEF Look
  <2>2. CASE RunnerAt(s, "start", "handoff")
    BY <1>2, <2>1, <2>2 DEF Look
  <2>3. CASE RunnerAt(s, "execute", "lookup")
    BY <1>2, <2>1, <2>3 DEF Look
  <2> QED
    BY <1>2, <2>2, <2>3 DEF Look
<1>3. CASE Handoff(s)
  <2>1. Visible[s] \in Row /\ s \in DOMAIN Visible
    BY <1>3, VisibleType DEF Handoff, IsBook
  <2>2. [Visible[s] EXCEPT !.pid = "runner", !.status = Running] \in Row
    BY <2>1 DEF Row, Statuses, PidKinds
  <2>3. FileTypeOK' /\ CallsPending'
    BY <1>3, <2>2, AskType, CallsType DEF Handoff
  <2> QED
    BY <1>3, <2>3 DEF Handoff
<1>4. CASE HandoffRefused(s)
  BY <1>4, IdleType DEF HandoffRefused
<1>5. CASE WriteReady(s)
  BY <1>5, IdleType DEF WriteReady
<1>6. CASE Adopt(s)
  <2>1. Fresh(s, "runner", "local") \in Row
    BY DEF Fresh, Row, Running, Statuses, PidKinds, Reasons, Verdicts, Targets
  <2>2. FileTypeOK' /\ CallsPending'
    BY <1>6, <2>1, AskType, IdleType, CallsType DEF Adopt
  <2> QED
    BY <1>6, <2>2 DEF Adopt
<1>7. CASE Spawn(s)
  <2>1. LivenessPid(s) \in Fields
    BY FieldsType DEF LivenessPid
  <2>2. FileTypeOK' /\ CallsPending'
    BY <1>7, <2>1, AskType, CallsType DEF Spawn
  <2> QED
    BY <1>7, <2>2 DEF Spawn
<1>8. CASE SpawnFails(s)
  <2>1. FileTypeOK' /\ CallsPending'
    BY <1>8, AskType, CallsType DEF SpawnFails, Reasons
  <2> QED
    BY <1>8, <2>1 DEF SpawnFails
<1>9. CASE SpawnFailed(s)
  <2>1. FileTypeOK' /\ CallsPending'
    BY <1>9, AskType, CallsType DEF SpawnFailed, Statuses, Terminal
  <2> QED
    BY <1>9, <2>1 DEF SpawnFailed
<1>10. CASE RecordLaunch(s)
  BY <1>10, IdleType DEF RecordLaunch
<1>11. CASE AgentEvent(s)
  <2>1. FileTypeOK' /\ CallsPending'
    BY <1>11, AskType, CallsType, FieldsType DEF AgentEvent
  <2> QED
    BY <1>11, <2>1 DEF AgentEvent
<1>12. CASE RecordEvidence(s)
  <2>1. FileTypeOK' /\ CallsPending'
    BY <1>12, AskType, CallsType, FieldsType DEF RecordEvidence
  <2> QED
    BY <1>12, <2>1 DEF RecordEvidence
<1>13. CASE RecordStatus(s)
  <2>1. outcome[s] \in Statuses
    BY <1>13 DEF RecordStatus, Outcomes, Statuses, Terminal
  <2>2. FileTypeOK' /\ CallsPending'
    BY <1>13, <2>1, AskType, CallsType DEF RecordStatus
  <2> QED
    BY <1>13, <2>2 DEF RecordStatus
<1>14. CASE LogResult(s)
  BY <1>14, IdleType DEF LogResult
<1>15. CASE RecordCompletion(s)
  BY <1>15, IdleType DEF RecordCompletion
<1>16. CASE RunnerExits(s)
  BY <1>16, IdleType DEF RunnerExits
<1> QED
  BY <1>1, <1>2, <1>3, <1>4, <1>5, <1>6, <1>7, <1>8,
     <1>9, <1>10, <1>11, <1>12, <1>13, <1>14, <1>15, <1>16 DEF Run

LEMMA ObserveType ==
    ASSUME TypeInv, NEW o \in Observers, Observe(o)
    PROVE  TypeInv'
<1> USE DEF TypeInv, TypeOK, RegistryTypeOK, WorldTypeOK, ActorTypeOK,
            AimsTaken, RunsCoherent, ObserverAt, Pcs
<1> USE ProcessesType
<1>0. o \in Procs
  BY DEF Procs
<1>1. CASE List(o)
  <2>1. FileTypeOK' /\ CallsPending'
    BY <1>1, AskType, CallsType, <1>0 DEF List
  <2> QED
    BY <1>1, <2>1 DEF List
<1>2. CASE Done(o)
  BY <1>2, IdleType DEF Done
<1>3. CASE PruneAll(o)
  <2>1. FileTypeOK' /\ CallsPending'
    BY <1>3, AskType, CallsType, <1>0 DEF PruneAll
  <2> QED
    BY <1>3, <2>1 DEF PruneAll
<1>4. ASSUME NEW s \in Sessions, Stop(o, s)
      PROVE  TypeInv'
  <2>1. FileTypeOK' /\ CallsPending'
    BY <1>4, AbandonType DEF Stop
  <2>2. /\ aim' \in [Observers -> [why: {"stopped", "orphan-reaped"},
                                     sid: Sessions] \cup {NoAim}]
        /\ AimsTaken'
    BY <1>4 DEF Stop, NoAim
  <2>3. rpc' \in [Sessions -> Pcs] /\ RunsCoherent'
    BY <1>4 DEF Stop, Kill
  <2> QED
    BY <1>4, <2>1, <2>2, <2>3 DEF Stop, Kill
<1>5. ASSUME NEW s \in Sessions, Reap(o, s)
      PROVE  TypeInv'
  <2>1. FileTypeOK' /\ CallsPending'
    BY <1>5, AbandonType DEF Reap
  <2>2. /\ aim' \in [Observers -> [why: {"stopped", "orphan-reaped"},
                                     sid: Sessions] \cup {NoAim}]
        /\ AimsTaken'
    BY <1>5 DEF Reap, NoAim
  <2>3. rpc' \in [Sessions -> Pcs] /\ RunsCoherent'
    BY <1>5 DEF Reap, Kill
  <2> QED
    BY <1>5, <2>1, <2>2, <2>3 DEF Reap, Kill
<1>6. CASE NoteReason(o)
  <2>1. aim[o].sid \in Sessions /\ aim[o].why \in Reasons
    BY <1>6 DEF NoteReason, Reasons
  <2>2. FileTypeOK' /\ CallsPending'
    BY <1>0, <1>6, <2>1, AskType, CallsType DEF NoteReason
  <2> QED
    BY <1>6, <2>2 DEF NoteReason
<1>7. CASE NoteStatus(o)
  <2>1. aim[o].sid \in Sessions
    BY <1>7 DEF NoteStatus
  <2>2. FileTypeOK' /\ CallsPending'
    BY <1>0, <1>7, <2>1, AskType, CallsType DEF NoteStatus, Statuses, Terminal
  <2> QED
    BY <1>7, <2>2 DEF NoteStatus
<1> QED
  BY <1>1, <1>2, <1>3, <1>4, <1>5, <1>6, <1>7 DEF Observe

LEMMA WorldType ==
    ASSUME TypeInv, NEW s \in Sessions,
           ChildExits(s) \/ RunnerCrashes(s) \/ LauncherCrashes(s)
    PROVE  TypeInv'
<1> USE DEF TypeInv, TypeOK, RegistryTypeOK, WorldTypeOK, ActorTypeOK,
            AimsTaken, RunsCoherent, Pcs
<1> USE ProcessesType
<1>1. CASE ChildExits(s)
  <2>1. PICK how \in {"exited", "failed"} : outcome' = [outcome EXCEPT ![s] = how]
    BY <1>1 DEF ChildExits
  <2>2. /\ FileTypeOK' /\ CallsPending'
        /\ alive' = alive \ {Child(s)}
        /\ UNCHANGED <<results, datum, lpc, rpc, opc, aim, ready, handed, hosted>>
    BY <1>1, IdleType DEF ChildExits
  <2>3. WorldTypeOK' /\ ActorTypeOK' /\ AimsTaken'
    BY <2>1, <2>2 DEF Outcomes
  <2>4. \A t \in Sessions : outcome'[t] = outcome[t] \/ outcome'[t] # "none"
    BY <2>1
  <2>5. RunsCoherent'
    BY <2>1, <2>2, <2>4
  <2> QED
    BY <2>2, <2>3, <2>5
<1>2. CASE RunnerCrashes(s)
  BY <1>2, AbandonType DEF RunnerCrashes
<1>3. CASE LauncherCrashes(s)
  BY <1>3, AbandonType DEF LauncherCrashes
<1> QED
  BY <1>1, <1>2, <1>3

LEMMA ObserverCrashType ==
    ASSUME TypeInv, NEW o \in Observers, ObserverCrashes(o)
    PROVE  TypeInv'
BY AbandonType, ProcessesType
   DEF TypeInv, TypeOK, RegistryTypeOK, WorldTypeOK, ActorTypeOK, AimsTaken,
       RunsCoherent, ObserverCrashes

LEMMA WorkType ==
    ASSUME TypeInv, NEW p \in Procs, Work(p)
    PROVE  TypeInv'
<1>1. RegistryTypeOK' /\ CallsPending'
  BY OperateType DEF Work, TypeInv, TypeOK
<1>2. UNCHANGED actorVars /\ UNCHANGED alive
  BY DEF Work, Operate, Load, ReadResults, Judge, NoChange, Truncate, Write
<1> QED
  BY <1>1, <1>2 DEF TypeInv, TypeOK, ActorTypeOK, AimsTaken, RunsCoherent, actorVars

LEMMA NextType == TypeInv /\ [Next]_vars => TypeInv'
<1> SUFFICES ASSUME TypeInv, [Next]_vars PROVE TypeInv'
  OBVIOUS
<1>1. ASSUME NEW p \in Procs, Work(p) PROVE TypeInv'
  BY <1>1, WorkType
<1>2. ASSUME NEW s \in Sessions, Launch(s) PROVE TypeInv'
  BY <1>2, LaunchType
<1>3. ASSUME NEW s \in Sessions, Run(s) PROVE TypeInv'
  BY <1>3, RunType
<1>4. ASSUME NEW s \in Sessions,
             ChildExits(s) \/ RunnerCrashes(s) \/ LauncherCrashes(s)
      PROVE  TypeInv'
  BY <1>4, WorldType
<1>5. ASSUME NEW o \in Observers, Observe(o) \/ ObserverCrashes(o) PROVE TypeInv'
  BY <1>5, ObserveType, ObserverCrashType
<1>6. CASE UNCHANGED vars
  BY <1>6, IdleType DEF vars, actorVars, TypeInv, TypeOK, RegistryTypeOK,
     WorldTypeOK, ActorTypeOK, AimsTaken, RunsCoherent
<1> QED
  BY <1>1, <1>2, <1>3, <1>4, <1>5, <1>6 DEF Next

LEMMA InitType == Init => TypeInv
<1> SUFFICES ASSUME Init PROVE TypeInv
  OBVIOUS
<1>1. FileTypeOK /\ CallsPending
  BY DEF Init, RegistryInit, FileTypeOK, CallsPending, IsBook, NoRows, Calls,
         Outcomes
<1>2. /\ results \in [Sessions -> Outcomes]
      /\ datum \in [Sessions -> {"none", "launched", "executor", "reconcile"}]
  BY DEF Init, RegistryInit, Outcomes
<1>3. alive \in SUBSET (Sessions \X PidKinds)
  BY DEF Init
<1>4. lpc \in [Sessions -> {"new", "registered", "await", "poll", "confirm",
                            "undo", "undone", "failing", "gone"}]
  BY DEF Init
<1>5. rpc \in [Sessions -> Pcs] /\ outcome \in [Sessions -> Outcomes]
  BY DEF Init, Pcs, Outcomes
<1>6. ActorTypeOK
  BY <1>4, <1>5 DEF Init, ActorTypeOK
<1>7. AimsTaken /\ RunsCoherent
  BY DEF Init, AimsTaken, RunsCoherent
<1> QED
  BY <1>1, <1>2, <1>3, <1>6, <1>7 DEF TypeInv, TypeOK, RegistryTypeOK, WorldTypeOK

\* Rows, calls, snapshots, logs, datums and controls keep their types, whoever
\* overlaps with whom and whoever is killed.
THEOREM TypeCorrect == Spec => []TypeOK
<1>1. TypeInv => TypeOK
  BY DEF TypeInv
<1> QED
  BY <1>1, InitType, NextType, PTL DEF Spec

-----------------------------------------------------------------------------
(* Datums are completed on evidence.                                       *)

\* What a reconcile read from the logs is still there when it uses it, and a
\* runner that is about to complete its datum has logged its result.
SeenInResults ==
    \A p \in Procs, s \in Sessions : seen[p][s] # "none" => results[s] # "none"
LoggedHasResult == \A s \in Sessions : rpc[s] = "logged" => results[s] # "none"

EvidenceInv == TypeInv /\ DatumHasEvidence /\ SeenInResults /\ LoggedHasResult

\* No registry operation adds or removes a result; only Judge completes a datum.
LEMMA WorkEvidence ==
    ASSUME EvidenceInv, NEW p \in Procs, Work(p)
    PROVE  DatumHasEvidence' /\ SeenInResults' /\ LoggedHasResult'
<1> USE DEF EvidenceInv, DatumHasEvidence, SeenInResults, LoggedHasResult
<1>0. /\ seen \in [Procs -> [Sessions -> Outcomes]]
      /\ datum \in [Sessions -> {"none", "launched", "executor", "reconcile"}]
  BY DEF TypeInv, TypeOK, RegistryTypeOK, FileTypeOK, WorldTypeOK
<1>1. UNCHANGED results /\ UNCHANGED rpc
  BY DEF Work, Operate, Load, ReadResults, Judge, NoChange, Truncate, Write,
         actorVars
<1>2. CASE ReadResults(p)
  BY <1>0, <1>1, <1>2 DEF ReadResults
<1>3. CASE Judge(p)
  <2>1. \A s \in Sessions : datum'[s] # datum[s] => seen[p][s] # "none"
    BY <1>0, <1>3 DEF Judge, Confirmed
  <2>2. datum' \in [Sessions -> {"none", "launched", "executor", "reconcile"}]
    BY <1>0, <1>3 DEF Judge
  <2>3. seen' = [seen EXCEPT ![p] = [s \in Sessions |-> "none"]]
    BY <1>3 DEF Judge
  <2>4. DatumHasEvidence'
    BY <1>1, <2>1
  <2>5. SeenInResults'
    BY <1>0, <1>1, <2>3
  <2> QED
    BY <1>1, <2>4, <2>5
<1>4. CASE Load(p) \/ NoChange(p) \/ Truncate(p) \/ Write(p)
  BY <1>1, <1>4 DEF Load, NoChange, Truncate, Write
<1> QED
  BY <1>2, <1>3, <1>4 DEF Work, Operate

\* A step that leaves results and datums alone, reads no log and takes no
\* runner to "logged".
LEMMA QuietEvidence ==
    ASSUME EvidenceInv, UNCHANGED <<results, datum>>,
           \A p \in Procs, s \in Sessions :
               seen'[p][s] = seen[p][s] \/ seen'[p][s] = "none",
           \A s \in Sessions : rpc'[s] = "logged" => rpc[s] = "logged"
    PROVE  DatumHasEvidence' /\ SeenInResults' /\ LoggedHasResult'
BY DEF EvidenceInv, DatumHasEvidence, SeenInResults, LoggedHasResult

LEMMA AbandonQuiet ==
    ASSUME NEW gone, Abandon(gone)
    PROVE  \A p \in Procs, s \in Sessions :
               seen'[p][s] = seen[p][s] \/ seen'[p][s] = "none"
BY DEF Abandon

LEMMA LaunchEvidence ==
    ASSUME EvidenceInv, NEW s \in Sessions, Launch(s)
    PROVE  DatumHasEvidence' /\ SeenInResults' /\ LoggedHasResult'
<1>1. rpc \in [Sessions -> Pcs]
  BY DEF EvidenceInv, TypeInv, TypeOK, ActorTypeOK
<1>2. UNCHANGED <<results, datum>>
  BY DEF Launch, Register, NewPane, NewPaneFails, Poll, Confirm, PollAgain,
         Undo, UndoReason, UndoStatus, LaunchFailed
<1>3. \A t \in Sessions : rpc'[t] = "logged" => rpc[t] = "logged"
  BY <1>1 DEF Launch, Register, NewPane, NewPaneFails, Poll, Confirm, PollAgain,
         Undo, UndoReason, UndoStatus, LaunchFailed, Kill
<1>4. \A p \in Procs, t \in Sessions :
          seen'[p][t] = seen[p][t] \/ seen'[p][t] = "none"
  BY AbandonQuiet DEF Launch, Register, NewPane, NewPaneFails, Poll, Confirm,
         PollAgain, Undo, UndoReason, UndoStatus, LaunchFailed, Ask, registryVars
<1> QED
  BY <1>2, <1>3, <1>4, QuietEvidence

LEMMA RunEvidence ==
    ASSUME EvidenceInv, NEW s \in Sessions, Run(s)
    PROVE  DatumHasEvidence' /\ SeenInResults' /\ LoggedHasResult'
<1>1. /\ rpc \in [Sessions -> Pcs]
      /\ results \in [Sessions -> Outcomes]
      /\ datum \in [Sessions -> {"none", "launched", "executor", "reconcile"}]
      /\ rpc[s] \in {"evidence", "status"} => outcome[s] # "none"
  BY DEF EvidenceInv, TypeInv, TypeOK, RegistryTypeOK, WorldTypeOK, ActorTypeOK,
         RunsCoherent
<1>2. CASE LogResult(s)
  BY <1>1, <1>2 DEF LogResult, RunnerAt, registryVars, EvidenceInv,
     DatumHasEvidence, SeenInResults, LoggedHasResult
<1>3. CASE RecordCompletion(s)
  BY <1>1, <1>3 DEF RecordCompletion, RunnerAt, registryVars, EvidenceInv,
     DatumHasEvidence, SeenInResults, LoggedHasResult
<1>4. CASE RecordLaunch(s)
  BY <1>1, <1>4 DEF RecordLaunch, RunnerAt, registryVars, EvidenceInv,
     DatumHasEvidence, SeenInResults, LoggedHasResult
<1>5. CASE \/ StartForeground(s) \/ Look(s) \/ Handoff(s) \/ HandoffRefused(s)
           \/ WriteReady(s) \/ Adopt(s) \/ Spawn(s) \/ SpawnFails(s)
           \/ SpawnFailed(s) \/ AgentEvent(s) \/ RecordEvidence(s)
           \/ RecordStatus(s) \/ RunnerExits(s)
  <2>1. UNCHANGED <<results, datum, seen>>
    BY <1>5 DEF StartForeground, Look, Handoff, HandoffRefused, WriteReady,
       Adopt, Spawn, SpawnFails, SpawnFailed, AgentEvent, RecordEvidence,
       RecordStatus, RunnerExits, Ask, registryVars
  <2>2. \A t \in Sessions : rpc'[t] = "logged" => rpc[t] = "logged"
    BY <1>1, <1>5 DEF StartForeground, Look, Handoff, HandoffRefused,
       WriteReady, Adopt, Spawn, SpawnFails, SpawnFailed, AgentEvent,
       RecordEvidence, RecordStatus, RunnerExits, RunnerAt
  <2> QED
    BY <2>1, <2>2, QuietEvidence
<1> QED
  BY <1>2, <1>3, <1>4, <1>5 DEF Run

LEMMA OtherEvidence ==
    ASSUME EvidenceInv,
           \/ \E s \in Sessions : \/ ChildExits(s) \/ RunnerCrashes(s)
                                  \/ LauncherCrashes(s)
           \/ \E o \in Observers : Observe(o) \/ ObserverCrashes(o)
           \/ UNCHANGED vars
    PROVE  DatumHasEvidence' /\ SeenInResults' /\ LoggedHasResult'
<1>1. rpc \in [Sessions -> Pcs]
  BY DEF EvidenceInv, TypeInv, TypeOK, ActorTypeOK
<1>2. UNCHANGED <<results, datum>>
  BY DEF ChildExits, RunnerCrashes, LauncherCrashes, ObserverCrashes, Observe,
         List, Done, PruneAll, NoteReason, NoteStatus, Stop, Reap, vars
<1>3. \A t \in Sessions : rpc'[t] = "logged" => rpc[t] = "logged"
  BY <1>1 DEF ChildExits, RunnerCrashes, LauncherCrashes, ObserverCrashes,
         Observe, List, Done, PruneAll, NoteReason, NoteStatus, Stop, Reap,
         Kill, vars, actorVars
<1>4. \A p \in Procs, t \in Sessions :
          seen'[p][t] = seen[p][t] \/ seen'[p][t] = "none"
  BY AbandonQuiet DEF ChildExits, RunnerCrashes, LauncherCrashes,
         ObserverCrashes, Observe, List, Done, PruneAll, NoteReason, NoteStatus,
         Stop, Reap, Ask, vars, registryVars
<1> QED
  BY <1>2, <1>3, <1>4, QuietEvidence

\* No interleaving of launchers, runners and observers, no overlap of registry
\* operations and no kill completes a datum without a result in the log.
THEOREM CompletedOnEvidence == Spec => []DatumHasEvidence
<1>1. Init => EvidenceInv
  BY InitType DEF Init, RegistryInit, EvidenceInv, DatumHasEvidence,
     SeenInResults, LoggedHasResult
<1>2. EvidenceInv /\ [Next]_vars => EvidenceInv'
  <2> SUFFICES ASSUME EvidenceInv, [Next]_vars PROVE EvidenceInv'
    OBVIOUS
  <2>1. TypeInv'
    BY NextType DEF EvidenceInv
  <2>2. DatumHasEvidence' /\ SeenInResults' /\ LoggedHasResult'
    BY WorkEvidence, LaunchEvidence, RunEvidence, OtherEvidence DEF Next
  <2> QED
    BY <2>1, <2>2 DEF EvidenceInv
<1>3. EvidenceInv => DatumHasEvidence
  BY DEF EvidenceInv
<1> QED
  BY <1>1, <1>2, <1>3, PTL DEF Spec

-----------------------------------------------------------------------------
(* What the registry says, when its operations do not overlap.             *)

Idles == {"off", "done", "dead"}
Before == {"off", "start", "handoff", "handing"}

\* The controls of a session: its launcher, its runner, its agent.
RunOrdered(s) ==
    /\ s \notin Workers => lpc[s] = "gone"
    /\ lpc[s] \in {"new", "registered"} => rpc[s] = "off"
    /\ lpc[s] \in {"undo", "undone", "failing"} => rpc[s] \in Idles
    /\ Runner(s) \in alive <=> rpc[s] \notin Idles
    /\ Child(s) \in alive => rpc[s] \in {"launched", "running", "dead"}
    /\ hosted[s] => rpc[s] \notin Before \cup {"execute", "lookup"}
    /\ s \in handed => rpc[s] \notin Before
    /\ s \in Workers /\ rpc[s] \notin Before \cup {"dead"} => s \in handed
    /\ results[s] # "none" => rpc[s] \in {"logged", "closing", "done", "dead"}

\* What a launcher asks of the registry ...
LauncherAsks(s) ==
    \/ Free(Launcher(s))
    \/ lpc[s] = "registered" /\ call[Launcher(s)] = Upsert(s, Fresh(s, "launcher", "tmux"))
    \/ lpc[s] \in {"confirm", "poll"} /\ call[Launcher(s)] = Reconcile
    \/ lpc[s] = "undone" /\ call[Launcher(s)] = SetReason(s, "launch-error")
    \/ lpc[s] = "failing" /\ call[Launcher(s)] = SetStatus(s, "failed")

\* ... a runner ...
Handed(row, s) == /\ row \in Row /\ row.status = Running /\ row.pid = "runner"
                  /\ row.target = "tmux" => s \in Workers
RunnerAsks(s) ==
    \/ Free(Runner(s))
    \/ rpc[s] \in {"handoff", "lookup"} /\ call[Runner(s)] = Reconcile
    \/ /\ rpc[s] = "handing"
       /\ \E row \in Row : Handed(row, s) /\ call[Runner(s)] = Upsert(s, row)
    \/ /\ rpc[s] = "spawn" /\ ~ hosted[s]
       /\ call[Runner(s)] = Upsert(s, Fresh(s, "runner", "local"))
    \/ rpc[s] = "launched" /\ call[Runner(s)] = Update(s, LivenessPid(s))
    \/ rpc[s] = "unspawned" /\ call[Runner(s)] = SetReason(s, "launch-error")
    \/ /\ rpc[s] = "closing" /\ results[s] = "none"
       /\ call[Runner(s)] = SetStatus(s, "failed")
    \/ rpc[s] = "running" /\ call[Runner(s)] = Update(s, NoFields)
    \/ /\ rpc[s] = "evidence"
       /\ call[Runner(s)] = Update(s, [NoFields EXCEPT !.reason = "natural",
                                          !.delivery = Classify(outcome[s])])
    \/ rpc[s] = "status" /\ call[Runner(s)] = SetStatus(s, outcome[s])

\* ... and an observer: whom it reaps has no runner left.
ObserverAsks(o) ==
    /\ aim[o].why = "orphan-reaped" => rpc[aim[o].sid] = "dead"
    /\ \/ call[o] \in {Idle, Reconcile, Prune}
       \/ \E s \in Sessions :
             \/ call[o] = SetReason(s, "stopped") \/ call[o] = SetReason(s, "orphan-reaped")
             \/ call[o] = SetStatus(s, "stopped")
             \/ call[o] = SetStatus(s, "orphaned") /\ rpc[s] = "dead"

\* One operation at a time, on the file as it is; a save has emptied it.
OneOperates ==
    /\ \A p, q \in Procs : phase[p] # "idle" /\ phase[q] # "idle" => p = q
    /\ \A p \in Procs :
          IF phase[p] = "truncated" THEN file = "empty"
          ELSE phase[p] # "idle" =>
                  /\ DOMAIN snap[p] = DOMAIN Visible
                  /\ \A s \in DOMAIN Visible : snap[p][s].target = Visible[s].target

\* The row of a session, in the file or in the copy of it that is about to be
\* written: whose it is; that a handed-off worker's names the runner and says
\* stale only of a dead one, and nothing worse while the agent works; that it
\* has the end and the verdict that were recorded, unless somebody disturbed
\* it; and that a launcher that undoes disturbs before it fails.
Recorded(s) == rpc[s] = "status" /\ Free(Runner(s))
Evidenced(s) == rpc[s] = "status" \/ (rpc[s] = "evidence" /\ Free(Runner(s)))
HasHanded(s) == s \in handed \/ (rpc[s] = "handing" /\ Free(Runner(s)))
Undoing(s) == lpc[s] = "failing" \/ (lpc[s] = "undone" /\ Free(Launcher(s)))
Adopted(s) == rpc[s] = "launched" \/ (rpc[s] = "spawn" /\ Free(Runner(s)))

RowOwned(s, row) ==
    /\ row.target = "tmux" => s \in Workers
    /\ hosted[s] => row.target = "tmux"
    /\ Adopted(s) /\ ~ hosted[s] => row.target = "local"
RowLives(s, row) ==
    row.target = "tmux" /\ HasHanded(s) =>
        /\ row.pid = "runner" /\ (row.status = "stale" => Runner(s) \notin alive)
        /\ rpc[s] \in {"handing", "execute", "lookup", "spawn", "launched", "running"}
              => row.status \in {Running, "stopped", "stale"}
RowEnds(s, row) ==
    /\ Recorded(s) => row.status \in Terminal /\ (Undisturbed(row) => row.status = outcome[s])
    /\ results[s] # "none" =>
          row.status \in Terminal /\ (Undisturbed(row) => row.status = results[s])
    /\ hosted[s] /\ Evidenced(s) => row.delivery = Classify(outcome[s])
    /\ hosted[s] /\ results[s] # "none" => row.delivery = Classify(results[s])
    /\ Undoing(s) /\ results[s] # "none" => row.reason \notin {"none", "natural", "vanished"}
RowStands(s, row) == RowOwned(s, row) /\ RowLives(s, row) /\ RowEnds(s, row)

BooksStand ==
    /\ \A s \in DOMAIN Visible : RowStands(s, Visible[s])
    /\ \A p \in Procs : phase[p] # "idle" => \A s \in DOMAIN snap[p] : RowStands(s, snap[p][s])

\* Whoever judges has asked for a reconcile.
Judging == \A p \in Procs : phase[p] \in {"read", "judged"} => call[p] = Reconcile

RunInv ==
    /\ EvidenceInv /\ Judging
    /\ \A s \in Sessions : RunOrdered(s) /\ LauncherAsks(s) /\ RunnerAsks(s)
    /\ \A o \in Observers : ObserverAsks(o)
    /\ OneOperates /\ BooksStand

-----------------------------------------------------------------------------
(* The processes, and what they ask.                                       *)

\* No two processes are the same, and no observer is a launcher or a runner.
LEMMA ProcessesApart ==
    ASSUME NEW s \in Sessions
    PROVE  /\ Launcher(s) \in Procs /\ Runner(s) \in Procs
           /\ Launcher(s) \notin Observers /\ Runner(s) \notin Observers
           /\ \A t \in Sessions : /\ Launcher(s) # Runner(t) /\ Child(s) # Runner(t)
                                  /\ Child(s) # Launcher(t)
                                  /\ Launcher(s) = Launcher(t) => s = t
                                  /\ Runner(s) = Runner(t) => s = t
                                  /\ Child(s) = Child(t) => s = t
  BY OverlapAssumption DEF Launcher, Runner, Child, Procs

\* Whatever is asked for is something, and an edit is one of a kind.
LEMMA AsksAreBusy ==
    /\ Reconcile # Idle /\ Prune # Idle
    /\ \A s, row : Upsert(s, row) # Idle
    /\ \A s, fields : Update(s, fields) # Idle
  BY DEF Reconcile, Prune, Upsert, Update, Idle

LEMMA AskStep ==
    ASSUME FileTypeOK, NEW p \in Procs, NEW c, Ask(p, c)
    PROVE  /\ call'[p] = c /\ \A q \in Procs : q # p => call'[q] = call[q]
           /\ UNCHANGED <<rows, file, phase, snap, seen>>
  BY DEF Ask, FileTypeOK

\* Nothing of a session changes that its rows and its calls depend on.
Same(s) ==
    /\ rpc'[s] = rpc[s] /\ lpc'[s] = lpc[s] /\ results'[s] = results[s]
    /\ outcome'[s] = outcome[s] /\ hosted'[s] = hosted[s] /\ (s \in handed' <=> s \in handed)
    /\ (Runner(s) \in alive' <=> Runner(s) \in alive) /\ (Child(s) \in alive' <=> Child(s) \in alive)
    /\ call'[Runner(s)] = call[Runner(s)] /\ call'[Launcher(s)] = call[Launcher(s)]

LEMMA SameStands ==
    ASSUME NEW s \in Sessions, Same(s)
    PROVE  /\ RunOrdered(s) => RunOrdered(s)'
           /\ LauncherAsks(s) => LauncherAsks(s)'
           /\ RunnerAsks(s) => RunnerAsks(s)'
           /\ \A row : RowStands(s, row) => RowStands(s, row)'
<1> USE DEF Same
<1>1. RunOrdered(s) => RunOrdered(s)'
  BY DEF RunOrdered
<1>2. LauncherAsks(s) => LauncherAsks(s)'
  BY DEF LauncherAsks, Free
<1>3. RunnerAsks(s) => RunnerAsks(s)'
  BY DEF RunnerAsks, Free, LivenessPid, Handed
<1>4. ASSUME NEW row, RowStands(s, row) PROVE RowStands(s, row)'
  <2>1. RowOwned(s, row)'
    BY <1>4 DEF RowStands, RowOwned, Adopted, Free
  <2>2. RowLives(s, row)'
    BY <1>4 DEF RowStands, RowLives, HasHanded, Free
  <2>3. RowEnds(s, row)'
    BY <1>4 DEF RowStands, RowEnds, Recorded, Evidenced, Undoing, Free
  <2> QED
    BY <2>1, <2>2, <2>3 DEF RowStands
<1> QED
  BY <1>1, <1>2, <1>3, <1>4

\* The rows of s that are on file, or about to be.
InBooks(s, row) ==
    \/ s \in DOMAIN Visible /\ row = Visible[s]
    \/ \E p \in Procs : phase[p] # "idle" /\ s \in DOMAIN snap[p] /\ row = snap[p][s]

\* The file stands as it is, and so do the copies that are not dropped.
FilesKept ==
    /\ UNCHANGED <<rows, file>>
    /\ \A p \in Procs : (phase'[p] = phase[p] /\ snap'[p] = snap[p]) \/ phase'[p] = "idle"

LEMMA FilesStand ==
    ASSUME FilesKept
    PROVE  /\ OneOperates => OneOperates'
           /\ \A s, row : InBooks(s, row)' => InBooks(s, row)
<1>1. Visible' = Visible
  BY DEF FilesKept, Visible
<1>2. OneOperates => OneOperates'
  BY <1>1 DEF FilesKept, OneOperates
<1>3. \A s, row : InBooks(s, row)' => InBooks(s, row)
  BY <1>1 DEF FilesKept, InBooks
<1> QED
  BY <1>2, <1>3

LEMMA AskKeepsFiles ==
    ASSUME NEW p, NEW c, Ask(p, c) \/ UNCHANGED registryVars
    PROVE  FilesKept
  BY DEF Ask, FilesKept, registryVars

LEMMA AbandonKeepsFiles ==
    ASSUME FileTypeOK, NEW gone, Abandon(gone)
    PROVE  /\ FilesKept
           /\ \A p \in Procs : call'[p] = (IF p \in gone THEN Idle ELSE call[p])
  BY DEF Abandon, FilesKept, FileTypeOK

\* A step of s: it is in order after it, its rows stand, the other sessions and
\* the files are as they were.
SessionSteps(s) ==
    /\ FilesKept
    /\ \A t \in Sessions : t # s => Same(t)
    /\ RunOrdered(s)' /\ LauncherAsks(s)' /\ RunnerAsks(s)'
    /\ \A row \in Row : RowStands(s, row) /\ InBooks(s, row) => RowStands(s, row)'

\* The observers are at what they were, and the dead stay dead.
ObserversStand ==
    /\ aim' = aim /\ \A o \in Observers : call'[o] = call[o]
    /\ \A t \in Sessions : rpc[t] = "dead" => rpc'[t] = "dead"

LEMMA RunTypes ==
    ASSUME RunInv
    PROVE  /\ FileTypeOK /\ alive \subseteq Sessions \X PidKinds
           /\ results \in [Sessions -> Outcomes] /\ outcome \in [Sessions -> Outcomes]
           /\ hosted \in [Sessions -> BOOLEAN] /\ handed \subseteq Sessions
           /\ lpc \in [Sessions -> {"new", "registered", "await", "poll", "confirm",
                                    "undo", "undone", "failing", "gone"}]
           /\ rpc \in [Sessions -> Pcs] /\ RunsCoherent /\ OneOperates
           /\ \A s \in Sessions : RunOrdered(s) /\ LauncherAsks(s) /\ RunnerAsks(s)
  BY DEF RunInv, EvidenceInv, TypeInv, TypeOK, RegistryTypeOK, WorldTypeOK, ActorTypeOK

-----------------------------------------------------------------------------
(* The steps of launchers and runners, one by one.                         *)

LEMMA StepRegister ==
    ASSUME RunInv, NEW s \in Sessions, Register(s) PROVE SessionSteps(s) /\ ObserversStand
<1>1. /\ s \in Workers
      /\ lpc[s] = "new"
      /\ Free(Launcher(s))
      /\ lpc'[s] = "registered"
      /\ rpc'[s] = rpc[s]
      /\ alive' = alive \cup {Launcher(s)}
      /\ results'[s] = results[s]
      /\ outcome'[s] = outcome[s]
      /\ hosted'[s] = hosted[s]
      /\ handed' = handed
  BY RunTypes DEF Register, LauncherAt
<1>2. Ask(Launcher(s), Upsert(s, Fresh(s, "launcher", "tmux")))
  BY DEF Register
<1>3. /\ call'[Launcher(s)] = Upsert(s, Fresh(s, "launcher", "tmux"))
      /\ \A p \in Procs : p # Launcher(s) => call'[p] = call[p]
      /\ FilesKept
  BY <1>2, RunTypes, ProcessesApart, AskStep, AskKeepsFiles
<1>4. \A t \in Sessions : t # s => Same(t)
  BY <1>1, <1>3, RunTypes, ProcessesApart DEF Register, LauncherAt, Same
<1>5. ObserversStand
  BY <1>1, <1>3, <1>4, RunTypes, ProcessesApart
     DEF Register, ObserversStand, Same, Procs, Idles, RunOrdered
<1>6. RunOrdered(s) /\ LauncherAsks(s) /\ RunnerAsks(s) /\ RunsCoherent
  BY RunTypes
<1>7. RunOrdered(s)'
  BY <1>1, <1>6, ProcessesApart, RunTypes DEF RunOrdered, Idles, Before
<1>8. LauncherAsks(s)'
  BY <1>1, <1>3, <1>6, ProcessesApart DEF LauncherAsks, Free
<1>9. RunnerAsks(s)'
  BY <1>1, <1>3, <1>6, ProcessesApart DEF RunnerAsks, Free, LivenessPid, Handed
<1>10. ASSUME NEW row \in Row, RowStands(s, row) PROVE RowStands(s, row)'
  <2>1. RowOwned(s, row)'
    BY <1>1, <1>3, <1>6, <1>10, ProcessesApart, AsksAreBusy
       DEF RowStands, RowOwned, Adopted, Free, RunOrdered, Before
  <2>2. RowLives(s, row)'
    BY <1>1, <1>3, <1>6, <1>10, ProcessesApart, AsksAreBusy
       DEF RowStands, RowLives, HasHanded, Free, RunOrdered, Before, Idles
  <2>3. RowEnds(s, row)'
    BY <1>1, <1>3, <1>6, <1>10, ProcessesApart, AsksAreBusy
       DEF RowStands, RowEnds, Recorded, Evidenced, Undoing, Free, RunOrdered, Before, Idles,
           SetReason, SetStatus
  <2> QED
    BY <2>1, <2>2, <2>3 DEF RowStands
<1> QED
  BY <1>3, <1>4, <1>5, <1>7, <1>8, <1>9, <1>10 DEF SessionSteps

LEMMA StepNewPane ==
    ASSUME RunInv, NEW s \in Sessions, NewPane(s) PROVE SessionSteps(s) /\ ObserversStand
<1>1. /\ lpc[s] = "registered"
      /\ Free(Launcher(s))
      /\ lpc'[s] = "await"
      /\ rpc'[s] = "start"
      /\ alive' = alive \cup {Runner(s)}
      /\ results'[s] = results[s]
      /\ outcome'[s] = outcome[s]
      /\ hosted'[s] = hosted[s]
      /\ handed' = handed
  BY RunTypes DEF NewPane, LauncherAt
<1>2. UNCHANGED registryVars
  BY DEF NewPane
<1>3. call' = call /\ FilesKept
  BY <1>2, AskKeepsFiles DEF registryVars
<1>4. \A t \in Sessions : t # s => Same(t)
  BY <1>1, <1>3, RunTypes, ProcessesApart DEF NewPane, LauncherAt, Same
<1>5. ObserversStand
  BY <1>1, <1>3, <1>4, RunTypes, ProcessesApart
     DEF NewPane, ObserversStand, Same, Procs, Idles, RunOrdered
<1>6. RunOrdered(s) /\ LauncherAsks(s) /\ RunnerAsks(s) /\ RunsCoherent
  BY RunTypes
<1>7. RunOrdered(s)'
  BY <1>1, <1>6, ProcessesApart, RunTypes DEF RunOrdered, Idles, Before
<1>8. LauncherAsks(s)'
  BY <1>1, <1>3, <1>6, ProcessesApart DEF LauncherAsks, Free
<1>9. RunnerAsks(s)'
  BY <1>1, <1>3, <1>6 DEF RunnerAsks, Free, RunOrdered
<1>10. ASSUME NEW row \in Row, RowStands(s, row) PROVE RowStands(s, row)'
  <2>1. RowOwned(s, row)'
    BY <1>1, <1>3, <1>6, <1>10, ProcessesApart, AsksAreBusy
       DEF RowStands, RowOwned, Adopted, Free, RunOrdered, Before
  <2>2. RowLives(s, row)'
    BY <1>1, <1>3, <1>6, <1>10, ProcessesApart, AsksAreBusy
       DEF RowStands, RowLives, HasHanded, Free, RunOrdered, Before, Idles
  <2>3. RowEnds(s, row)'
    BY <1>1, <1>3, <1>6, <1>10, ProcessesApart, AsksAreBusy
       DEF RowStands, RowEnds, Recorded, Evidenced, Undoing, Free, RunOrdered, Before, Idles,
           SetReason, SetStatus
  <2> QED
    BY <2>1, <2>2, <2>3 DEF RowStands
<1> QED
  BY <1>3, <1>4, <1>5, <1>7, <1>8, <1>9, <1>10 DEF SessionSteps

LEMMA StepNewPaneFails ==
    ASSUME RunInv, NEW s \in Sessions, NewPaneFails(s) PROVE SessionSteps(s) /\ ObserversStand
<1>1. /\ lpc[s] = "registered"
      /\ Free(Launcher(s))
      /\ lpc'[s] = "undone"
      /\ rpc'[s] = rpc[s]
      /\ alive' = alive
      /\ results'[s] = results[s]
      /\ outcome'[s] = outcome[s]
      /\ hosted'[s] = hosted[s]
      /\ handed' = handed
  BY RunTypes DEF NewPaneFails, LauncherAt
<1>2. Ask(Launcher(s), SetReason(s, "launch-error"))
  BY DEF NewPaneFails
<1>3. /\ call'[Launcher(s)] = SetReason(s, "launch-error")
      /\ \A p \in Procs : p # Launcher(s) => call'[p] = call[p]
      /\ FilesKept
  BY <1>2, RunTypes, ProcessesApart, AskStep, AskKeepsFiles
<1>4. \A t \in Sessions : t # s => Same(t)
  BY <1>1, <1>3, RunTypes, ProcessesApart DEF NewPaneFails, LauncherAt, Same
<1>5. ObserversStand
  BY <1>1, <1>3, <1>4, RunTypes, ProcessesApart
     DEF NewPaneFails, ObserversStand, Same, Procs, Idles, RunOrdered
<1>6. RunOrdered(s) /\ LauncherAsks(s) /\ RunnerAsks(s) /\ RunsCoherent
  BY RunTypes
<1>7. RunOrdered(s)'
  BY <1>1, <1>6, ProcessesApart, RunTypes DEF RunOrdered, Idles, Before
<1>8. LauncherAsks(s)'
  BY <1>1, <1>3, <1>6, ProcessesApart DEF LauncherAsks, Free
<1>9. RunnerAsks(s)'
  BY <1>1, <1>3, <1>6, ProcessesApart DEF RunnerAsks, Free, LivenessPid, Handed
<1>10. ASSUME NEW row \in Row, RowStands(s, row) PROVE RowStands(s, row)'
  <2>1. RowOwned(s, row)'
    BY <1>1, <1>3, <1>6, <1>10, ProcessesApart, AsksAreBusy
       DEF RowStands, RowOwned, Adopted, Free, RunOrdered, Before
  <2>2. RowLives(s, row)'
    BY <1>1, <1>3, <1>6, <1>10, ProcessesApart, AsksAreBusy
       DEF RowStands, RowLives, HasHanded, Free, RunOrdered, Before, Idles
  <2>3. RowEnds(s, row)'
    BY <1>1, <1>3, <1>6, <1>10, ProcessesApart, AsksAreBusy
       DEF RowStands, RowEnds, Recorded, Evidenced, Undoing, Free, RunOrdered, Before, Idles,
           SetReason, SetStatus
  <2> QED
    BY <2>1, <2>2, <2>3 DEF RowStands
<1> QED
  BY <1>3, <1>4, <1>5, <1>7, <1>8, <1>9, <1>10 DEF SessionSteps

LEMMA StepPoll ==
    ASSUME RunInv, NEW s \in Sessions, Poll(s) PROVE SessionSteps(s) /\ ObserversStand
<1>1. /\ lpc[s] = "await"
      /\ Free(Launcher(s))
      /\ lpc'[s] \in {"confirm", "poll"}
      /\ rpc'[s] = rpc[s]
      /\ alive' = alive
      /\ results'[s] = results[s]
      /\ outcome'[s] = outcome[s]
      /\ hosted'[s] = hosted[s]
      /\ handed' = handed
  BY RunTypes DEF Poll, LauncherAt
<1>2. Ask(Launcher(s), Reconcile)
  BY DEF Poll
<1>3. /\ call'[Launcher(s)] = Reconcile
      /\ \A p \in Procs : p # Launcher(s) => call'[p] = call[p]
      /\ FilesKept
  BY <1>2, RunTypes, ProcessesApart, AskStep, AskKeepsFiles
<1>4. \A t \in Sessions : t # s => Same(t)
  BY <1>1, <1>3, RunTypes, ProcessesApart DEF Poll, LauncherAt, Same
<1>5. ObserversStand
  BY <1>1, <1>3, <1>4, RunTypes, ProcessesApart
     DEF Poll, ObserversStand, Same, Procs, Idles, RunOrdered
<1>6. RunOrdered(s) /\ LauncherAsks(s) /\ RunnerAsks(s) /\ RunsCoherent
  BY RunTypes
<1>7. RunOrdered(s)'
  BY <1>1, <1>6, ProcessesApart, RunTypes DEF RunOrdered, Idles, Before
<1>8. LauncherAsks(s)'
  BY <1>1, <1>3, <1>6, ProcessesApart DEF LauncherAsks, Free
<1>9. RunnerAsks(s)'
  BY <1>1, <1>3, <1>6, ProcessesApart DEF RunnerAsks, Free, LivenessPid, Handed
<1>10. ASSUME NEW row \in Row, RowStands(s, row) PROVE RowStands(s, row)'
  <2>1. RowOwned(s, row)'
    BY <1>1, <1>3, <1>6, <1>10, ProcessesApart, AsksAreBusy
       DEF RowStands, RowOwned, Adopted, Free, RunOrdered, Before
  <2>2. RowLives(s, row)'
    BY <1>1, <1>3, <1>6, <1>10, ProcessesApart, AsksAreBusy
       DEF RowStands, RowLives, HasHanded, Free, RunOrdered, Before, Idles
  <2>3. RowEnds(s, row)'
    BY <1>1, <1>3, <1>6, <1>10, ProcessesApart, AsksAreBusy
       DEF RowStands, RowEnds, Recorded, Evidenced, Undoing, Free, RunOrdered, Before, Idles,
           SetReason, SetStatus
  <2> QED
    BY <2>1, <2>2, <2>3 DEF RowStands
<1> QED
  BY <1>3, <1>4, <1>5, <1>7, <1>8, <1>9, <1>10 DEF SessionSteps

LEMMA StepConfirm ==
    ASSUME RunInv, NEW s \in Sessions, Confirm(s) PROVE SessionSteps(s) /\ ObserversStand
<1>1. /\ lpc[s] = "confirm"
      /\ Free(Launcher(s))
      /\ lpc'[s] = "gone"
      /\ rpc'[s] = rpc[s]
      /\ alive' = alive \ {Launcher(s)}
      /\ results'[s] = results[s]
      /\ outcome'[s] = outcome[s]
      /\ hosted'[s] = hosted[s]
      /\ handed' = handed
  BY RunTypes DEF Confirm, LauncherAt
<1>2. UNCHANGED registryVars
  BY DEF Confirm
<1>3. call' = call /\ FilesKept
  BY <1>2, AskKeepsFiles DEF registryVars
<1>4. \A t \in Sessions : t # s => Same(t)
  BY <1>1, <1>3, RunTypes, ProcessesApart DEF Confirm, LauncherAt, Same
<1>5. ObserversStand
  BY <1>1, <1>3, <1>4, RunTypes, ProcessesApart
     DEF Confirm, ObserversStand, Same, Procs, Idles, RunOrdered
<1>6. RunOrdered(s) /\ LauncherAsks(s) /\ RunnerAsks(s) /\ RunsCoherent
  BY RunTypes
<1>7. RunOrdered(s)'
  BY <1>1, <1>6, ProcessesApart, RunTypes DEF RunOrdered, Idles, Before
<1>8. LauncherAsks(s)'
  BY <1>1, <1>3, <1>6, ProcessesApart DEF LauncherAsks, Free
<1>9. RunnerAsks(s)'
  BY <1>1, <1>3, <1>6, ProcessesApart DEF RunnerAsks, Free, LivenessPid, Handed
<1>10. ASSUME NEW row \in Row, RowStands(s, row) PROVE RowStands(s, row)'
  <2>1. RowOwned(s, row)'
    BY <1>1, <1>3, <1>6, <1>10, ProcessesApart, AsksAreBusy
       DEF RowStands, RowOwned, Adopted, Free, RunOrdered, Before
  <2>2. RowLives(s, row)'
    BY <1>1, <1>3, <1>6, <1>10, ProcessesApart, AsksAreBusy
       DEF RowStands, RowLives, HasHanded, Free, RunOrdered, Before, Idles
  <2>3. RowEnds(s, row)'
    BY <1>1, <1>3, <1>6, <1>10, ProcessesApart, AsksAreBusy
       DEF RowStands, RowEnds, Recorded, Evidenced, Undoing, Free, RunOrdered, Before, Idles,
           SetReason, SetStatus
  <2> QED
    BY <2>1, <2>2, <2>3 DEF RowStands
<1> QED
  BY <1>3, <1>4, <1>5, <1>7, <1>8, <1>9, <1>10 DEF SessionSteps

LEMMA StepPollAgain ==
    ASSUME RunInv, NEW s \in Sessions, PollAgain(s) PROVE SessionSteps(s) /\ ObserversStand
<1>1. /\ lpc[s] = "poll"
      /\ Free(Launcher(s))
      /\ lpc'[s] = "await"
      /\ rpc'[s] = rpc[s]
      /\ alive' = alive
      /\ results'[s] = results[s]
      /\ outcome'[s] = outcome[s]
      /\ hosted'[s] = hosted[s]
      /\ handed' = handed
  BY RunTypes DEF PollAgain, LauncherAt
<1>2. UNCHANGED registryVars
  BY DEF PollAgain
<1>3. call' = call /\ FilesKept
  BY <1>2, AskKeepsFiles DEF registryVars
<1>4. \A t \in Sessions : t # s => Same(t)
  BY <1>1, <1>3, RunTypes, ProcessesApart DEF PollAgain, LauncherAt, Same
<1>5. ObserversStand
  BY <1>1, <1>3, <1>4, RunTypes, ProcessesApart
     DEF PollAgain, ObserversStand, Same, Procs, Idles, RunOrdered
<1>6. RunOrdered(s) /\ LauncherAsks(s) /\ RunnerAsks(s) /\ RunsCoherent
  BY RunTypes
<1>7. RunOrdered(s)'
  BY <1>1, <1>6, ProcessesApart, RunTypes DEF RunOrdered, Idles, Before
<1>8. LauncherAsks(s)'
  BY <1>1, <1>3, <1>6, ProcessesApart DEF LauncherAsks, Free
<1>9. RunnerAsks(s)'
  BY <1>1, <1>3, <1>6, ProcessesApart DEF RunnerAsks, Free, LivenessPid, Handed
<1>10. ASSUME NEW row \in Row, RowStands(s, row) PROVE RowStands(s, row)'
  <2>1. RowOwned(s, row)'
    BY <1>1, <1>3, <1>6, <1>10, ProcessesApart, AsksAreBusy
       DEF RowStands, RowOwned, Adopted, Free, RunOrdered, Before
  <2>2. RowLives(s, row)'
    BY <1>1, <1>3, <1>6, <1>10, ProcessesApart, AsksAreBusy
       DEF RowStands, RowLives, HasHanded, Free, RunOrdered, Before, Idles
  <2>3. RowEnds(s, row)'
    BY <1>1, <1>3, <1>6, <1>10, ProcessesApart, AsksAreBusy
       DEF RowStands, RowEnds, Recorded, Evidenced, Undoing, Free, RunOrdered, Before, Idles,
           SetReason, SetStatus
  <2> QED
    BY <2>1, <2>2, <2>3 DEF RowStands
<1> QED
  BY <1>3, <1>4, <1>5, <1>7, <1>8, <1>9, <1>10 DEF SessionSteps

LEMMA StepUndoReason ==
    ASSUME RunInv, NEW s \in Sessions, UndoReason(s) PROVE SessionSteps(s) /\ ObserversStand
<1>1. /\ lpc[s] = "undo"
      /\ Free(Launcher(s))
      /\ lpc'[s] = "undone"
      /\ rpc'[s] = rpc[s]
      /\ alive' = alive
      /\ results'[s] = results[s]
      /\ outcome'[s] = outcome[s]
      /\ hosted'[s] = hosted[s]
      /\ handed' = handed
  BY RunTypes DEF UndoReason, LauncherAt
<1>2. Ask(Launcher(s), SetReason(s, "launch-error"))
  BY DEF UndoReason
<1>3. /\ call'[Launcher(s)] = SetReason(s, "launch-error")
      /\ \A p \in Procs : p # Launcher(s) => call'[p] = call[p]
      /\ FilesKept
  BY <1>2, RunTypes, ProcessesApart, AskStep, AskKeepsFiles
<1>4. \A t \in Sessions : t # s => Same(t)
  BY <1>1, <1>3, RunTypes, ProcessesApart DEF UndoReason, LauncherAt, Same
<1>5. ObserversStand
  BY <1>1, <1>3, <1>4, RunTypes, ProcessesApart
     DEF UndoReason, ObserversStand, Same, Procs, Idles, RunOrdered
<1>6. RunOrdered(s) /\ LauncherAsks(s) /\ RunnerAsks(s) /\ RunsCoherent
  BY RunTypes
<1>7. RunOrdered(s)'
  BY <1>1, <1>6, ProcessesApart, RunTypes DEF RunOrdered, Idles, Before
<1>8. LauncherAsks(s)'
  BY <1>1, <1>3, <1>6, ProcessesApart DEF LauncherAsks, Free
<1>9. RunnerAsks(s)'
  BY <1>1, <1>3, <1>6, ProcessesApart DEF RunnerAsks, Free, LivenessPid, Handed
<1>10. ASSUME NEW row \in Row, RowStands(s, row) PROVE RowStands(s, row)'
  <2>1. RowOwned(s, row)'
    BY <1>1, <1>3, <1>6, <1>10, ProcessesApart, AsksAreBusy
       DEF RowStands, RowOwned, Adopted, Free, RunOrdered, Before
  <2>2. RowLives(s, row)'
    BY <1>1, <1>3, <1>6, <1>10, ProcessesApart, AsksAreBusy
       DEF RowStands, RowLives, HasHanded, Free, RunOrdered, Before, Idles
  <2>3. RowEnds(s, row)'
    BY <1>1, <1>3, <1>6, <1>10, ProcessesApart, AsksAreBusy
       DEF RowStands, RowEnds, Recorded, Evidenced, Undoing, Free, RunOrdered, Before, Idles,
           SetReason, SetStatus
  <2> QED
    BY <2>1, <2>2, <2>3 DEF RowStands
<1> QED
  BY <1>3, <1>4, <1>5, <1>7, <1>8, <1>9, <1>10 DEF SessionSteps

LEMMA StepUndoStatus ==
    ASSUME RunInv, NEW s \in Sessions, UndoStatus(s) PROVE SessionSteps(s) /\ ObserversStand
<1>1. /\ lpc[s] = "undone"
      /\ Free(Launcher(s))
      /\ lpc'[s] = "failing"
      /\ rpc'[s] = rpc[s]
      /\ alive' = alive
      /\ results'[s] = results[s]
      /\ outcome'[s] = outcome[s]
      /\ hosted'[s] = hosted[s]
      /\ handed' = handed
  BY RunTypes DEF UndoStatus, LauncherAt
<1>2. Ask(Launcher(s), SetStatus(s, "failed"))
  BY DEF UndoStatus
<1>3. /\ call'[Launcher(s)] = SetStatus(s, "failed")
      /\ \A p \in Procs : p # Launcher(s) => call'[p] = call[p]
      /\ FilesKept
  BY <1>2, RunTypes, ProcessesApart, AskStep, AskKeepsFiles
<1>4. \A t \in Sessions : t # s => Same(t)
  BY <1>1, <1>3, RunTypes, ProcessesApart DEF UndoStatus, LauncherAt, Same
<1>5. ObserversStand
  BY <1>1, <1>3, <1>4, RunTypes, ProcessesApart
     DEF UndoStatus, ObserversStand, Same, Procs, Idles, RunOrdered
<1>6. RunOrdered(s) /\ LauncherAsks(s) /\ RunnerAsks(s) /\ RunsCoherent
  BY RunTypes
<1>7. RunOrdered(s)'
  BY <1>1, <1>6, ProcessesApart, RunTypes DEF RunOrdered, Idles, Before
<1>8. LauncherAsks(s)'
  BY <1>1, <1>3, <1>6, ProcessesApart DEF LauncherAsks, Free
<1>9. RunnerAsks(s)'
  BY <1>1, <1>3, <1>6, ProcessesApart DEF RunnerAsks, Free, LivenessPid, Handed
<1>10. ASSUME NEW row \in Row, RowStands(s, row) PROVE RowStands(s, row)'
  <2>1. RowOwned(s, row)'
    BY <1>1, <1>3, <1>6, <1>10, ProcessesApart, AsksAreBusy
       DEF RowStands, RowOwned, Adopted, Free, RunOrdered, Before
  <2>2. RowLives(s, row)'
    BY <1>1, <1>3, <1>6, <1>10, ProcessesApart, AsksAreBusy
       DEF RowStands, RowLives, HasHanded, Free, RunOrdered, Before, Idles
  <2>3. RowEnds(s, row)'
    BY <1>1, <1>3, <1>6, <1>10, ProcessesApart, AsksAreBusy
       DEF RowStands, RowEnds, Recorded, Evidenced, Undoing, Free, RunOrdered, Before, Idles,
           SetReason, SetStatus
  <2> QED
    BY <2>1, <2>2, <2>3 DEF RowStands
<1> QED
  BY <1>3, <1>4, <1>5, <1>7, <1>8, <1>9, <1>10 DEF SessionSteps

LEMMA StepLaunchFailed ==
    ASSUME RunInv, NEW s \in Sessions, LaunchFailed(s) PROVE SessionSteps(s) /\ ObserversStand
<1>1. /\ lpc[s] = "failing"
      /\ Free(Launcher(s))
      /\ lpc'[s] = "gone"
      /\ rpc'[s] = rpc[s]
      /\ alive' = alive \ {Launcher(s)}
      /\ results'[s] = results[s]
      /\ outcome'[s] = outcome[s]
      /\ hosted'[s] = hosted[s]
      /\ handed' = handed
  BY RunTypes DEF LaunchFailed, LauncherAt
<1>2. UNCHANGED registryVars
  BY DEF LaunchFailed
<1>3. call' = call /\ FilesKept
  BY <1>2, AskKeepsFiles DEF registryVars
<1>4. \A t \in Sessions : t # s => Same(t)
  BY <1>1, <1>3, RunTypes, ProcessesApart DEF LaunchFailed, LauncherAt, Same
<1>5. ObserversStand
  BY <1>1, <1>3, <1>4, RunTypes, ProcessesApart
     DEF LaunchFailed, ObserversStand, Same, Procs, Idles, RunOrdered
<1>6. RunOrdered(s) /\ LauncherAsks(s) /\ RunnerAsks(s) /\ RunsCoherent
  BY RunTypes
<1>7. RunOrdered(s)'
  BY <1>1, <1>6, ProcessesApart, RunTypes DEF RunOrdered, Idles, Before
<1>8. LauncherAsks(s)'
  BY <1>1, <1>3, <1>6, ProcessesApart DEF LauncherAsks, Free
<1>9. RunnerAsks(s)'
  BY <1>1, <1>3, <1>6, ProcessesApart DEF RunnerAsks, Free, LivenessPid, Handed
<1>10. ASSUME NEW row \in Row, RowStands(s, row) PROVE RowStands(s, row)'
  <2>1. RowOwned(s, row)'
    BY <1>1, <1>3, <1>6, <1>10, ProcessesApart, AsksAreBusy
       DEF RowStands, RowOwned, Adopted, Free, RunOrdered, Before
  <2>2. RowLives(s, row)'
    BY <1>1, <1>3, <1>6, <1>10, ProcessesApart, AsksAreBusy
       DEF RowStands, RowLives, HasHanded, Free, RunOrdered, Before, Idles
  <2>3. RowEnds(s, row)'
    BY <1>1, <1>3, <1>6, <1>10, ProcessesApart, AsksAreBusy
       DEF RowStands, RowEnds, Recorded, Evidenced, Undoing, Free, RunOrdered, Before, Idles,
           SetReason, SetStatus
  <2> QED
    BY <2>1, <2>2, <2>3 DEF RowStands
<1> QED
  BY <1>3, <1>4, <1>5, <1>7, <1>8, <1>9, <1>10 DEF SessionSteps

LEMMA StepStartForeground ==
    ASSUME RunInv, NEW s \in Sessions, StartForeground(s) PROVE SessionSteps(s) /\ ObserversStand
<1>1. /\ s \notin Workers
      /\ rpc[s] = "off"
      /\ Free(Runner(s))
      /\ lpc'[s] = lpc[s]
      /\ rpc'[s] = "execute"
      /\ alive' = alive \cup {Runner(s)}
      /\ results'[s] = results[s]
      /\ outcome'[s] = outcome[s]
      /\ hosted'[s] = hosted[s]
      /\ handed' = handed
  BY RunTypes DEF StartForeground, RunnerAt
<1>2. UNCHANGED registryVars
  BY DEF StartForeground
<1>3. call' = call /\ FilesKept
  BY <1>2, AskKeepsFiles DEF registryVars
<1>4. \A t \in Sessions : t # s => Same(t)
  BY <1>1, <1>3, RunTypes, ProcessesApart DEF StartForeground, RunnerAt, Same
<1>5. ObserversStand
  BY <1>1, <1>3, <1>4, RunTypes, ProcessesApart
     DEF StartForeground, ObserversStand, Same, Procs, Idles, RunOrdered
<1>6. RunOrdered(s) /\ LauncherAsks(s) /\ RunnerAsks(s) /\ RunsCoherent
  BY RunTypes
<1>7. RunOrdered(s)'
  BY <1>1, <1>6, ProcessesApart, RunTypes DEF RunOrdered, Idles, Before
<1>8. LauncherAsks(s)'
  BY <1>1, <1>3, <1>6, ProcessesApart DEF LauncherAsks, Free
<1>9. RunnerAsks(s)'
  BY <1>1, <1>3, <1>6, ProcessesApart DEF RunnerAsks, Free, LivenessPid, Handed
<1>10. ASSUME NEW row \in Row, RowStands(s, row) PROVE RowStands(s, row)'
  <2>1. RowOwned(s, row)'
    BY <1>1, <1>3, <1>6, <1>10, ProcessesApart, AsksAreBusy
       DEF RowStands, RowOwned, Adopted, Free, RunOrdered, Before
  <2>2. RowLives(s, row)'
    BY <1>1, <1>3, <1>6, <1>10, ProcessesApart, AsksAreBusy
       DEF RowStands, RowLives, HasHanded, Free, RunOrdered, Before, Idles
  <2>3. RowEnds(s, row)'
    BY <1>1, <1>3, <1>6, <1>10, ProcessesApart, AsksAreBusy
       DEF RowStands, RowEnds, Recorded, Evidenced, Undoing, Free, RunOrdered, Before, Idles,
           SetReason, SetStatus
  <2> QED
    BY <2>1, <2>2, <2>3 DEF RowStands
<1> QED
  BY <1>3, <1>4, <1>5, <1>7, <1>8, <1>9, <1>10 DEF SessionSteps

LEMMA StepLook ==
    ASSUME RunInv, NEW s \in Sessions, Look(s) PROVE SessionSteps(s) /\ ObserversStand
<1>1. /\ \/ (rpc[s] = "start" /\ rpc'[s] = "handoff")
         \/ (rpc[s] = "execute" /\ rpc'[s] = "lookup")
      /\ Free(Runner(s))
      /\ lpc'[s] = lpc[s]
      /\ alive' = alive
      /\ results'[s] = results[s]
      /\ outcome'[s] = outcome[s]
      /\ hosted'[s] = hosted[s]
      /\ handed' = handed
  <2>1. CASE RunnerAt(s, "start", "handoff")
    BY <2>1, RunTypes DEF Look, RunnerAt
  <2>2. CASE RunnerAt(s, "execute", "lookup")
    BY <2>2, RunTypes DEF Look, RunnerAt
  <2> QED
    BY <2>1, <2>2 DEF Look
<1>2. Ask(Runner(s), Reconcile)
  BY DEF Look
<1>3. /\ call'[Runner(s)] = Reconcile
      /\ \A p \in Procs : p # Runner(s) => call'[p] = call[p]
      /\ FilesKept
  BY <1>2, RunTypes, ProcessesApart, AskStep, AskKeepsFiles
<1>4. \A t \in Sessions : t # s => Same(t)
  BY <1>1, <1>3, RunTypes, ProcessesApart DEF Look, RunnerAt, Same
<1>5. ObserversStand
  BY <1>1, <1>3, <1>4, RunTypes, ProcessesApart
     DEF Look, ObserversStand, Same, Procs, Idles, RunOrdered
<1>6. RunOrdered(s) /\ LauncherAsks(s) /\ RunnerAsks(s) /\ RunsCoherent
  BY RunTypes
<1>7. RunOrdered(s)'
  BY <1>1, <1>6, ProcessesApart, RunTypes DEF RunOrdered, Idles, Before
<1>8. LauncherAsks(s)'
  BY <1>1, <1>3, <1>6, ProcessesApart DEF LauncherAsks, Free
<1>9. RunnerAsks(s)'
  BY <1>1, <1>3, <1>6, ProcessesApart DEF RunnerAsks, Free, LivenessPid, Handed
<1>10. ASSUME NEW row \in Row, RowStands(s, row) PROVE RowStands(s, row)'
  <2>1. RowOwned(s, row)'
    BY <1>1, <1>3, <1>6, <1>10, ProcessesApart, AsksAreBusy
       DEF RowStands, RowOwned, Adopted, Free, RunOrdered, Before
  <2>2. RowLives(s, row)'
    BY <1>1, <1>3, <1>6, <1>10, ProcessesApart, AsksAreBusy
       DEF RowStands, RowLives, HasHanded, Free, RunOrdered, Before, Idles
  <2>3. RowEnds(s, row)'
    BY <1>1, <1>3, <1>6, <1>10, ProcessesApart, AsksAreBusy
       DEF RowStands, RowEnds, Recorded, Evidenced, Undoing, Free, RunOrdered, Before, Idles,
           SetReason, SetStatus
  <2> QED
    BY <2>1, <2>2, <2>3 DEF RowStands
<1> QED
  BY <1>3, <1>4, <1>5, <1>7, <1>8, <1>9, <1>10 DEF SessionSteps

LEMMA StepHandoffRefused ==
    ASSUME RunInv, NEW s \in Sessions, HandoffRefused(s) PROVE SessionSteps(s) /\ ObserversStand
<1>1. /\ rpc[s] = "handoff"
      /\ Free(Runner(s))
      /\ lpc'[s] = lpc[s]
      /\ rpc'[s] = "dead"
      /\ alive' = alive \ {Runner(s)}
      /\ results'[s] = results[s]
      /\ outcome'[s] = outcome[s]
      /\ hosted'[s] = hosted[s]
      /\ handed' = handed
  BY RunTypes DEF HandoffRefused, RunnerAt
<1>2. UNCHANGED registryVars
  BY DEF HandoffRefused
<1>3. call' = call /\ FilesKept
  BY <1>2, AskKeepsFiles DEF registryVars
<1>4. \A t \in Sessions : t # s => Same(t)
  BY <1>1, <1>3, RunTypes, ProcessesApart DEF HandoffRefused, RunnerAt, Same
<1>5. ObserversStand
  BY <1>1, <1>3, <1>4, RunTypes, ProcessesApart
     DEF HandoffRefused, ObserversStand, Same, Procs, Idles, RunOrdered
<1>6. RunOrdered(s) /\ LauncherAsks(s) /\ RunnerAsks(s) /\ RunsCoherent
  BY RunTypes
<1>7. RunOrdered(s)'
  BY <1>1, <1>6, ProcessesApart, RunTypes DEF RunOrdered, Idles, Before
<1>8. LauncherAsks(s)'
  BY <1>1, <1>3, <1>6, ProcessesApart DEF LauncherAsks, Free
<1>9. RunnerAsks(s)'
  BY <1>1, <1>3, <1>6, ProcessesApart DEF RunnerAsks, Free, LivenessPid, Handed
<1>10. ASSUME NEW row \in Row, RowStands(s, row) PROVE RowStands(s, row)'
  <2>1. RowOwned(s, row)'
    BY <1>1, <1>3, <1>6, <1>10, ProcessesApart, AsksAreBusy
       DEF RowStands, RowOwned, Adopted, Free, RunOrdered, Before
  <2>2. RowLives(s, row)'
    BY <1>1, <1>3, <1>6, <1>10, ProcessesApart, AsksAreBusy
       DEF RowStands, RowLives, HasHanded, Free, RunOrdered, Before, Idles
  <2>3. RowEnds(s, row)'
    BY <1>1, <1>3, <1>6, <1>10, ProcessesApart, AsksAreBusy
       DEF RowStands, RowEnds, Recorded, Evidenced, Undoing, Free, RunOrdered, Before, Idles,
           SetReason, SetStatus
  <2> QED
    BY <2>1, <2>2, <2>3 DEF RowStands
<1> QED
  BY <1>3, <1>4, <1>5, <1>7, <1>8, <1>9, <1>10 DEF SessionSteps

LEMMA StepWriteReady ==
    ASSUME RunInv, NEW s \in Sessions, WriteReady(s) PROVE SessionSteps(s) /\ ObserversStand
<1>1. /\ rpc[s] = "handing"
      /\ Free(Runner(s))
      /\ lpc'[s] = lpc[s]
      /\ rpc'[s] = "execute"
      /\ alive' = alive
      /\ results'[s] = results[s]
      /\ outcome'[s] = outcome[s]
      /\ hosted'[s] = hosted[s]
      /\ handed' = handed \cup {s}
  BY RunTypes DEF WriteReady, RunnerAt
<1>2. UNCHANGED registryVars
  BY DEF WriteReady
<1>3. call' = call /\ FilesKept
  BY <1>2, AskKeepsFiles DEF registryVars
<1>4. \A t \in Sessions : t # s => Same(t)
  BY <1>1, <1>3, RunTypes, ProcessesApart DEF WriteReady, RunnerAt, Same
<1>5. ObserversStand
  BY <1>1, <1>3, <1>4, RunTypes, ProcessesApart
     DEF WriteReady, ObserversStand, Same, Procs, Idles, RunOrdered
<1>6. RunOrdered(s) /\ LauncherAsks(s) /\ RunnerAsks(s) /\ RunsCoherent
  BY RunTypes
<1>7. RunOrdered(s)'
  BY <1>1, <1>6, ProcessesApart, RunTypes DEF RunOrdered, Idles, Before
<1>8. LauncherAsks(s)'
  BY <1>1, <1>3, <1>6, ProcessesApart DEF LauncherAsks, Free
<1>9. RunnerAsks(s)'
  BY <1>1, <1>3, <1>6, ProcessesApart DEF RunnerAsks, Free, LivenessPid, Handed
<1>10. ASSUME NEW row \in Row, RowStands(s, row) PROVE RowStands(s, row)'
  <2>1. RowOwned(s, row)'
    BY <1>1, <1>3, <1>6, <1>10, ProcessesApart, AsksAreBusy
       DEF RowStands, RowOwned, Adopted, Free, RunOrdered, Before
  <2>2. RowLives(s, row)'
    BY <1>1, <1>3, <1>6, <1>10, ProcessesApart, AsksAreBusy
       DEF RowStands, RowLives, HasHanded, Free, RunOrdered, Before, Idles
  <2>3. RowEnds(s, row)'
    BY <1>1, <1>3, <1>6, <1>10, ProcessesApart, AsksAreBusy
       DEF RowStands, RowEnds, Recorded, Evidenced, Undoing, Free, RunOrdered, Before, Idles,
           SetReason, SetStatus
  <2> QED
    BY <2>1, <2>2, <2>3 DEF RowStands
<1> QED
  BY <1>3, <1>4, <1>5, <1>7, <1>8, <1>9, <1>10 DEF SessionSteps

LEMMA StepSpawn ==
    ASSUME RunInv, NEW s \in Sessions, Spawn(s) PROVE SessionSteps(s) /\ ObserversStand
<1>1. /\ rpc[s] = "spawn"
      /\ Free(Runner(s))
      /\ lpc'[s] = lpc[s]
      /\ rpc'[s] = "launched"
      /\ alive' = alive \cup {Child(s)}
      /\ results'[s] = results[s]
      /\ outcome'[s] = outcome[s]
      /\ hosted'[s] = hosted[s]
      /\ handed' = handed
  BY RunTypes DEF Spawn, RunnerAt
<1>2. Ask(Runner(s), Update(s, LivenessPid(s)))
  BY DEF Spawn
<1>3. /\ call'[Runner(s)] = Update(s, LivenessPid(s))
      /\ \A p \in Procs : p # Runner(s) => call'[p] = call[p]
      /\ FilesKept
  BY <1>2, RunTypes, ProcessesApart, AskStep, AskKeepsFiles
<1>4. \A t \in Sessions : t # s => Same(t)
  BY <1>1, <1>3, RunTypes, ProcessesApart DEF Spawn, RunnerAt, Same
<1>5. ObserversStand
  BY <1>1, <1>3, <1>4, RunTypes, ProcessesApart
     DEF Spawn, ObserversStand, Same, Procs, Idles, RunOrdered
<1>6. RunOrdered(s) /\ LauncherAsks(s) /\ RunnerAsks(s) /\ RunsCoherent
  BY RunTypes
<1>7. RunOrdered(s)'
  BY <1>1, <1>6, ProcessesApart, RunTypes DEF RunOrdered, Idles, Before
<1>8. LauncherAsks(s)'
  BY <1>1, <1>3, <1>6, ProcessesApart DEF LauncherAsks, Free
<1>9. RunnerAsks(s)'
  BY <1>1, <1>3, <1>6, ProcessesApart DEF RunnerAsks, Free, LivenessPid, Handed
<1>10. ASSUME NEW row \in Row, RowStands(s, row) PROVE RowStands(s, row)'
  <2>1. RowOwned(s, row)'
    BY <1>1, <1>3, <1>6, <1>10, ProcessesApart, AsksAreBusy
       DEF RowStands, RowOwned, Adopted, Free, RunOrdered, Before
  <2>2. RowLives(s, row)'
    BY <1>1, <1>3, <1>6, <1>10, ProcessesApart, AsksAreBusy
       DEF RowStands, RowLives, HasHanded, Free, RunOrdered, Before, Idles
  <2>3. RowEnds(s, row)'
    BY <1>1, <1>3, <1>6, <1>10, ProcessesApart, AsksAreBusy
       DEF RowStands, RowEnds, Recorded, Evidenced, Undoing, Free, RunOrdered, Before, Idles,
           SetReason, SetStatus
  <2> QED
    BY <2>1, <2>2, <2>3 DEF RowStands
<1> QED
  BY <1>3, <1>4, <1>5, <1>7, <1>8, <1>9, <1>10 DEF SessionSteps

LEMMA StepSpawnFails ==
    ASSUME RunInv, NEW s \in Sessions, SpawnFails(s) PROVE SessionSteps(s) /\ ObserversStand
<1>1. /\ rpc[s] = "spawn"
      /\ Free(Runner(s))
      /\ lpc'[s] = lpc[s]
      /\ rpc'[s] = "unspawned"
      /\ alive' = alive
      /\ results'[s] = results[s]
      /\ outcome'[s] = outcome[s]
      /\ hosted'[s] = hosted[s]
      /\ handed' = handed
  BY RunTypes DEF SpawnFails, RunnerAt
<1>2. Ask(Runner(s), SetReason(s, "launch-error"))
  BY DEF SpawnFails
<1>3. /\ call'[Runner(s)] = SetReason(s, "launch-error")
      /\ \A p \in Procs : p # Runner(s) => call'[p] = call[p]
      /\ FilesKept
  BY <1>2, RunTypes, ProcessesApart, AskStep, AskKeepsFiles
<1>4. \A t \in Sessions : t # s => Same(t)
  BY <1>1, <1>3, RunTypes, ProcessesApart DEF SpawnFails, RunnerAt, Same
<1>5. ObserversStand
  BY <1>1, <1>3, <1>4, RunTypes, ProcessesApart
     DEF SpawnFails, ObserversStand, Same, Procs, Idles, RunOrdered
<1>6. RunOrdered(s) /\ LauncherAsks(s) /\ RunnerAsks(s) /\ RunsCoherent
  BY RunTypes
<1>7. RunOrdered(s)'
  BY <1>1, <1>6, ProcessesApart, RunTypes DEF RunOrdered, Idles, Before
<1>8. LauncherAsks(s)'
  BY <1>1, <1>3, <1>6, ProcessesApart DEF LauncherAsks, Free
<1>9. RunnerAsks(s)'
  BY <1>1, <1>3, <1>6, ProcessesApart DEF RunnerAsks, Free, LivenessPid, Handed
<1>10. ASSUME NEW row \in Row, RowStands(s, row) PROVE RowStands(s, row)'
  <2>1. RowOwned(s, row)'
    BY <1>1, <1>3, <1>6, <1>10, ProcessesApart, AsksAreBusy
       DEF RowStands, RowOwned, Adopted, Free, RunOrdered, Before
  <2>2. RowLives(s, row)'
    BY <1>1, <1>3, <1>6, <1>10, ProcessesApart, AsksAreBusy
       DEF RowStands, RowLives, HasHanded, Free, RunOrdered, Before, Idles
  <2>3. RowEnds(s, row)'
    BY <1>1, <1>3, <1>6, <1>10, ProcessesApart, AsksAreBusy
       DEF RowStands, RowEnds, Recorded, Evidenced, Undoing, Free, RunOrdered, Before, Idles,
           SetReason, SetStatus
  <2> QED
    BY <2>1, <2>2, <2>3 DEF RowStands
<1> QED
  BY <1>3, <1>4, <1>5, <1>7, <1>8, <1>9, <1>10 DEF SessionSteps

LEMMA StepSpawnFailed ==
    ASSUME RunInv, NEW s \in Sessions, SpawnFailed(s) PROVE SessionSteps(s) /\ ObserversStand
<1>1. /\ rpc[s] = "unspawned"
      /\ Free(Runner(s))
      /\ lpc'[s] = lpc[s]
      /\ rpc'[s] = "closing"
      /\ alive' = alive
      /\ results'[s] = results[s]
      /\ outcome'[s] = outcome[s]
      /\ hosted'[s] = hosted[s]
      /\ handed' = handed
  BY RunTypes DEF SpawnFailed, RunnerAt
<1>2. Ask(Runner(s), SetStatus(s, "failed"))
  BY DEF SpawnFailed
<1>3. /\ call'[Runner(s)] = SetStatus(s, "failed")
      /\ \A p \in Procs : p # Runner(s) => call'[p] = call[p]
      /\ FilesKept
  BY <1>2, RunTypes, ProcessesApart, AskStep, AskKeepsFiles
<1>4. \A t \in Sessions : t # s => Same(t)
  BY <1>1, <1>3, RunTypes, ProcessesApart DEF SpawnFailed, RunnerAt, Same
<1>5. ObserversStand
  BY <1>1, <1>3, <1>4, RunTypes, ProcessesApart
     DEF SpawnFailed, ObserversStand, Same, Procs, Idles, RunOrdered
<1>6. RunOrdered(s) /\ LauncherAsks(s) /\ RunnerAsks(s) /\ RunsCoherent
  BY RunTypes
<1>7. RunOrdered(s)'
  BY <1>1, <1>6, ProcessesApart, RunTypes DEF RunOrdered, Idles, Before
<1>8. LauncherAsks(s)'
  BY <1>1, <1>3, <1>6, ProcessesApart DEF LauncherAsks, Free
<1>9. RunnerAsks(s)'
  BY <1>1, <1>3, <1>6 DEF RunnerAsks, RunOrdered
<1>10. ASSUME NEW row \in Row, RowStands(s, row) PROVE RowStands(s, row)'
  <2>1. RowOwned(s, row)'
    BY <1>1, <1>3, <1>6, <1>10, ProcessesApart, AsksAreBusy
       DEF RowStands, RowOwned, Adopted, Free, RunOrdered, Before
  <2>2. RowLives(s, row)'
    BY <1>1, <1>3, <1>6, <1>10, ProcessesApart, AsksAreBusy
       DEF RowStands, RowLives, HasHanded, Free, RunOrdered, Before, Idles
  <2>3. RowEnds(s, row)'
    BY <1>1, <1>3, <1>6, <1>10, ProcessesApart, AsksAreBusy
       DEF RowStands, RowEnds, Recorded, Evidenced, Undoing, Free, RunOrdered, Before, Idles,
           SetReason, SetStatus
  <2> QED
    BY <2>1, <2>2, <2>3 DEF RowStands
<1> QED
  BY <1>3, <1>4, <1>5, <1>7, <1>8, <1>9, <1>10 DEF SessionSteps

LEMMA StepRecordLaunch ==
    ASSUME RunInv, NEW s \in Sessions, RecordLaunch(s) PROVE SessionSteps(s) /\ ObserversStand
<1>1. /\ rpc[s] = "launched"
      /\ Free(Runner(s))
      /\ lpc'[s] = lpc[s]
      /\ rpc'[s] = "running"
      /\ alive' = alive
      /\ results'[s] = results[s]
      /\ outcome'[s] = outcome[s]
      /\ hosted'[s] = hosted[s]
      /\ handed' = handed
  BY RunTypes DEF RecordLaunch, RunnerAt
<1>2. UNCHANGED registryVars
  BY DEF RecordLaunch
<1>3. call' = call /\ FilesKept
  BY <1>2, AskKeepsFiles DEF registryVars
<1>4. \A t \in Sessions : t # s => Same(t)
  BY <1>1, <1>3, RunTypes, ProcessesApart DEF RecordLaunch, RunnerAt, Same
<1>5. ObserversStand
  BY <1>1, <1>3, <1>4, RunTypes, ProcessesApart
     DEF RecordLaunch, ObserversStand, Same, Procs, Idles, RunOrdered
<1>6. RunOrdered(s) /\ LauncherAsks(s) /\ RunnerAsks(s) /\ RunsCoherent
  BY RunTypes
<1>7. RunOrdered(s)'
  BY <1>1, <1>6, ProcessesApart, RunTypes DEF RunOrdered, Idles, Before
<1>8. LauncherAsks(s)'
  BY <1>1, <1>3, <1>6, ProcessesApart DEF LauncherAsks, Free
<1>9. RunnerAsks(s)'
  BY <1>1, <1>3, <1>6, ProcessesApart DEF RunnerAsks, Free, LivenessPid, Handed
<1>10. ASSUME NEW row \in Row, RowStands(s, row) PROVE RowStands(s, row)'
  <2>1. RowOwned(s, row)'
    BY <1>1, <1>3, <1>6, <1>10, ProcessesApart, AsksAreBusy
       DEF RowStands, RowOwned, Adopted, Free, RunOrdered, Before
  <2>2. RowLives(s, row)'
    BY <1>1, <1>3, <1>6, <1>10, ProcessesApart, AsksAreBusy
       DEF RowStands, RowLives, HasHanded, Free, RunOrdered, Before, Idles
  <2>3. RowEnds(s, row)'
    BY <1>1, <1>3, <1>6, <1>10, ProcessesApart, AsksAreBusy
       DEF RowStands, RowEnds, Recorded, Evidenced, Undoing, Free, RunOrdered, Before, Idles,
           SetReason, SetStatus
  <2> QED
    BY <2>1, <2>2, <2>3 DEF RowStands
<1> QED
  BY <1>3, <1>4, <1>5, <1>7, <1>8, <1>9, <1>10 DEF SessionSteps

LEMMA StepAgentEvent ==
    ASSUME RunInv, NEW s \in Sessions, AgentEvent(s) PROVE SessionSteps(s) /\ ObserversStand
<1>1. /\ rpc[s] = "running"
      /\ Free(Runner(s))
      /\ lpc'[s] = lpc[s]
      /\ rpc'[s] = "running"
      /\ alive' = alive
      /\ results'[s] = results[s]
      /\ outcome'[s] = outcome[s]
      /\ hosted'[s] = hosted[s]
      /\ handed' = handed
  BY RunTypes DEF AgentEvent, RunnerAt
<1>2. Ask(Runner(s), Update(s, NoFields))
  BY DEF AgentEvent
<1>3. /\ call'[Runner(s)] = Update(s, NoFields)
      /\ \A p \in Procs : p # Runner(s) => call'[p] = call[p]
      /\ FilesKept
  BY <1>2, RunTypes, ProcessesApart, AskStep, AskKeepsFiles
<1>4. \A t \in Sessions : t # s => Same(t)
  BY <1>1, <1>3, RunTypes, ProcessesApart DEF AgentEvent, RunnerAt, Same
<1>5. ObserversStand
  BY <1>1, <1>3, <1>4, RunTypes, ProcessesApart
     DEF AgentEvent, ObserversStand, Same, Procs, Idles, RunOrdered
<1>6. RunOrdered(s) /\ LauncherAsks(s) /\ RunnerAsks(s) /\ RunsCoherent
  BY RunTypes
<1>7. RunOrdered(s)'
  BY <1>1, <1>6, ProcessesApart, RunTypes DEF RunOrdered, Idles, Before
<1>8. LauncherAsks(s)'
  BY <1>1, <1>3, <1>6, ProcessesApart DEF LauncherAsks, Free
<1>9. RunnerAsks(s)'
  BY <1>1, <1>3, <1>6, ProcessesApart DEF RunnerAsks, Free, LivenessPid, Handed
<1>10. ASSUME NEW row \in Row, RowStands(s, row) PROVE RowStands(s, row)'
  <2>1. RowOwned(s, row)'
    BY <1>1, <1>3, <1>6, <1>10, ProcessesApart, AsksAreBusy
       DEF RowStands, RowOwned, Adopted, Free, RunOrdered, Before
  <2>2. RowLives(s, row)'
    BY <1>1, <1>3, <1>6, <1>10, ProcessesApart, AsksAreBusy
       DEF RowStands, RowLives, HasHanded, Free, RunOrdered, Before, Idles
  <2>3. RowEnds(s, row)'
    BY <1>1, <1>3, <1>6, <1>10, ProcessesApart, AsksAreBusy
       DEF RowStands, RowEnds, Recorded, Evidenced, Undoing, Free, RunOrdered, Before, Idles,
           SetReason, SetStatus
  <2> QED
    BY <2>1, <2>2, <2>3 DEF RowStands
<1> QED
  BY <1>3, <1>4, <1>5, <1>7, <1>8, <1>9, <1>10 DEF SessionSteps

LEMMA StepRecordEvidence ==
    ASSUME RunInv, NEW s \in Sessions, RecordEvidence(s) PROVE SessionSteps(s) /\ ObserversStand
<1>1. /\ rpc[s] = "running"
      /\ Free(Runner(s))
      /\ Child(s) \notin alive
      /\ lpc'[s] = lpc[s]
      /\ rpc'[s] = "evidence"
      /\ alive' = alive
      /\ results'[s] = results[s]
      /\ outcome'[s] = outcome[s]
      /\ hosted'[s] = hosted[s]
      /\ handed' = handed
  BY RunTypes DEF RecordEvidence, RunnerAt
<1>2. Ask(Runner(s), Update(s, [NoFields EXCEPT !.reason = "natural", !.delivery = Classify(outcome[s])]))
  BY DEF RecordEvidence
<1>3. /\ call'[Runner(s)] = Update(s, [NoFields EXCEPT !.reason = "natural", !.delivery = Classify(outcome[s])])
      /\ \A p \in Procs : p # Runner(s) => call'[p] = call[p]
      /\ FilesKept
  BY <1>2, RunTypes, ProcessesApart, AskStep, AskKeepsFiles
<1>4. \A t \in Sessions : t # s => Same(t)
  BY <1>1, <1>3, RunTypes, ProcessesApart DEF RecordEvidence, RunnerAt, Same
<1>5. ObserversStand
  BY <1>1, <1>3, <1>4, RunTypes, ProcessesApart
     DEF RecordEvidence, ObserversStand, Same, Procs, Idles, RunOrdered
<1>6. RunOrdered(s) /\ LauncherAsks(s) /\ RunnerAsks(s) /\ RunsCoherent
  BY RunTypes
<1>7. RunOrdered(s)'
  BY <1>1, <1>6, ProcessesApart, RunTypes DEF RunOrdered, Idles, Before
<1>8. LauncherAsks(s)'
  BY <1>1, <1>3, <1>6, ProcessesApart DEF LauncherAsks, Free
<1>9. RunnerAsks(s)'
  BY <1>1, <1>3, <1>6, ProcessesApart DEF RunnerAsks, Free, LivenessPid, Handed
<1>10. ASSUME NEW row \in Row, RowStands(s, row) PROVE RowStands(s, row)'
  <2>1. RowOwned(s, row)'
    BY <1>1, <1>3, <1>6, <1>10, ProcessesApart, AsksAreBusy
       DEF RowStands, RowOwned, Adopted, Free, RunOrdered, Before
  <2>2. RowLives(s, row)'
    BY <1>1, <1>3, <1>6, <1>10, ProcessesApart, AsksAreBusy
       DEF RowStands, RowLives, HasHanded, Free, RunOrdered, Before, Idles
  <2>3. RowEnds(s, row)'
    BY <1>1, <1>3, <1>6, <1>10, ProcessesApart, AsksAreBusy
       DEF RowStands, RowEnds, Recorded, Evidenced, Undoing, Free, RunOrdered, Before, Idles,
           SetReason, SetStatus
  <2> QED
    BY <2>1, <2>2, <2>3 DEF RowStands
<1> QED
  BY <1>3, <1>4, <1>5, <1>7, <1>8, <1>9, <1>10 DEF SessionSteps

LEMMA StepRecordStatus ==
    ASSUME RunInv, NEW s \in Sessions, RecordStatus(s) PROVE SessionSteps(s) /\ ObserversStand
<1>1. /\ rpc[s] = "evidence"
      /\ Free(Runner(s))
      /\ lpc'[s] = lpc[s]
      /\ rpc'[s] = "status"
      /\ alive' = alive
      /\ results'[s] = results[s]
      /\ outcome'[s] = outcome[s]
      /\ hosted'[s] = hosted[s]
      /\ handed' = handed
  BY RunTypes DEF RecordStatus, RunnerAt
<1>2. Ask(Runner(s), SetStatus(s, outcome[s]))
  BY DEF RecordStatus
<1>3. /\ call'[Runner(s)] = SetStatus(s, outcome[s])
      /\ \A p \in Procs : p # Runner(s) => call'[p] = call[p]
      /\ FilesKept
  BY <1>2, RunTypes, ProcessesApart, AskStep, AskKeepsFiles
<1>4. \A t \in Sessions : t # s => Same(t)
  BY <1>1, <1>3, RunTypes, ProcessesApart DEF RecordStatus, RunnerAt, Same
<1>5. ObserversStand
  BY <1>1, <1>3, <1>4, RunTypes, ProcessesApart
     DEF RecordStatus, ObserversStand, Same, Procs, Idles, RunOrdered
<1>6. RunOrdered(s) /\ LauncherAsks(s) /\ RunnerAsks(s) /\ RunsCoherent
  BY RunTypes
<1>7. RunOrdered(s)'
  BY <1>1, <1>6, ProcessesApart, RunTypes DEF RunOrdered, Idles, Before
<1>8. LauncherAsks(s)'
  BY <1>1, <1>3, <1>6, ProcessesApart DEF LauncherAsks, Free
<1>9. RunnerAsks(s)'
  BY <1>1, <1>3, <1>6, ProcessesApart DEF RunnerAsks, Free, LivenessPid, Handed
<1>10. ASSUME NEW row \in Row, RowStands(s, row) PROVE RowStands(s, row)'
  <2>1. RowOwned(s, row)'
    BY <1>1, <1>3, <1>6, <1>10, ProcessesApart, AsksAreBusy
       DEF RowStands, RowOwned, Adopted, Free, RunOrdered, Before
  <2>2. RowLives(s, row)'
    BY <1>1, <1>3, <1>6, <1>10, ProcessesApart, AsksAreBusy
       DEF RowStands, RowLives, HasHanded, Free, RunOrdered, Before, Idles
  <2>3. RowEnds(s, row)'
    BY <1>1, <1>3, <1>6, <1>10, ProcessesApart, AsksAreBusy
       DEF RowStands, RowEnds, Recorded, Evidenced, Undoing, Free, RunOrdered, Before, Idles,
           SetReason, SetStatus
  <2> QED
    BY <2>1, <2>2, <2>3 DEF RowStands
<1> QED
  BY <1>3, <1>4, <1>5, <1>7, <1>8, <1>9, <1>10 DEF SessionSteps

LEMMA StepLogResult ==
    ASSUME RunInv, NEW s \in Sessions, LogResult(s) PROVE SessionSteps(s) /\ ObserversStand
<1>1. /\ rpc[s] = "status"
      /\ Free(Runner(s))
      /\ lpc'[s] = lpc[s]
      /\ rpc'[s] = "logged"
      /\ alive' = alive
      /\ results'[s] = outcome[s]
      /\ outcome'[s] = outcome[s]
      /\ hosted'[s] = hosted[s]
      /\ handed' = handed
  BY RunTypes DEF LogResult, RunnerAt
<1>2. UNCHANGED registryVars
  BY DEF LogResult
<1>3. call' = call /\ FilesKept
  BY <1>2, AskKeepsFiles DEF registryVars
<1>4. \A t \in Sessions : t # s => Same(t)
  BY <1>1, <1>3, RunTypes, ProcessesApart DEF LogResult, RunnerAt, Same
<1>5. ObserversStand
  BY <1>1, <1>3, <1>4, RunTypes, ProcessesApart
     DEF LogResult, ObserversStand, Same, Procs, Idles, RunOrdered
<1>6. RunOrdered(s) /\ LauncherAsks(s) /\ RunnerAsks(s) /\ RunsCoherent
  BY RunTypes
<1>7. RunOrdered(s)'
  BY <1>1, <1>6, ProcessesApart, RunTypes DEF RunOrdered, Idles, Before
<1>8. LauncherAsks(s)'
  BY <1>1, <1>3, <1>6, ProcessesApart DEF LauncherAsks, Free
<1>9. RunnerAsks(s)'
  BY <1>1, <1>3, <1>6, ProcessesApart DEF RunnerAsks, Free, LivenessPid, Handed
<1>10. ASSUME NEW row \in Row, RowStands(s, row) PROVE RowStands(s, row)'
  <2>1. RowOwned(s, row)'
    BY <1>1, <1>3, <1>6, <1>10, ProcessesApart, AsksAreBusy
       DEF RowStands, RowOwned, Adopted, Free, RunOrdered, Before
  <2>2. RowLives(s, row)'
    BY <1>1, <1>3, <1>6, <1>10, ProcessesApart, AsksAreBusy
       DEF RowStands, RowLives, HasHanded, Free, RunOrdered, Before, Idles
  <2>3. RowEnds(s, row)'
    BY <1>1, <1>3, <1>6, <1>10, ProcessesApart, AsksAreBusy
       DEF RowStands, RowEnds, Recorded, Evidenced, Undoing, Free, RunOrdered, Before, Idles,
           SetReason, SetStatus
  <2> QED
    BY <2>1, <2>2, <2>3 DEF RowStands
<1> QED
  BY <1>3, <1>4, <1>5, <1>7, <1>8, <1>9, <1>10 DEF SessionSteps

LEMMA StepRecordCompletion ==
    ASSUME RunInv, NEW s \in Sessions, RecordCompletion(s) PROVE SessionSteps(s) /\ ObserversStand
<1>1. /\ rpc[s] = "logged"
      /\ Free(Runner(s))
      /\ lpc'[s] = lpc[s]
      /\ rpc'[s] = "closing"
      /\ alive' = alive
      /\ results'[s] = results[s]
      /\ outcome'[s] = outcome[s]
      /\ hosted'[s] = hosted[s]
      /\ handed' = handed
  BY RunTypes DEF RecordCompletion, RunnerAt
<1>2. UNCHANGED registryVars
  BY DEF RecordCompletion
<1>3. call' = call /\ FilesKept
  BY <1>2, AskKeepsFiles DEF registryVars
<1>4. \A t \in Sessions : t # s => Same(t)
  BY <1>1, <1>3, RunTypes, ProcessesApart DEF RecordCompletion, RunnerAt, Same
<1>5. ObserversStand
  BY <1>1, <1>3, <1>4, RunTypes, ProcessesApart
     DEF RecordCompletion, ObserversStand, Same, Procs, Idles, RunOrdered
<1>6. RunOrdered(s) /\ LauncherAsks(s) /\ RunnerAsks(s) /\ RunsCoherent
  BY RunTypes
<1>7. RunOrdered(s)'
  BY <1>1, <1>6, ProcessesApart, RunTypes DEF RunOrdered, Idles, Before
<1>8. LauncherAsks(s)'
  BY <1>1, <1>3, <1>6, ProcessesApart DEF LauncherAsks, Free
<1>9. RunnerAsks(s)'
  BY <1>1, <1>3, <1>6, ProcessesApart DEF RunnerAsks, Free, LivenessPid, Handed
<1>10. ASSUME NEW row \in Row, RowStands(s, row) PROVE RowStands(s, row)'
  <2>1. RowOwned(s, row)'
    BY <1>1, <1>3, <1>6, <1>10, ProcessesApart, AsksAreBusy
       DEF RowStands, RowOwned, Adopted, Free, RunOrdered, Before
  <2>2. RowLives(s, row)'
    BY <1>1, <1>3, <1>6, <1>10, ProcessesApart, AsksAreBusy
       DEF RowStands, RowLives, HasHanded, Free, RunOrdered, Before, Idles
  <2>3. RowEnds(s, row)'
    BY <1>1, <1>3, <1>6, <1>10, ProcessesApart, AsksAreBusy
       DEF RowStands, RowEnds, Recorded, Evidenced, Undoing, Free, RunOrdered, Before, Idles,
           SetReason, SetStatus
  <2> QED
    BY <2>1, <2>2, <2>3 DEF RowStands
<1> QED
  BY <1>3, <1>4, <1>5, <1>7, <1>8, <1>9, <1>10 DEF SessionSteps

LEMMA StepRunnerExits ==
    ASSUME RunInv, NEW s \in Sessions, RunnerExits(s) PROVE SessionSteps(s) /\ ObserversStand
<1>1. /\ rpc[s] = "closing"
      /\ Free(Runner(s))
      /\ lpc'[s] = lpc[s]
      /\ rpc'[s] = "done"
      /\ alive' = alive \ {Runner(s)}
      /\ results'[s] = results[s]
      /\ outcome'[s] = outcome[s]
      /\ hosted'[s] = hosted[s]
      /\ handed' = handed
  BY RunTypes DEF RunnerExits, RunnerAt
<1>2. UNCHANGED registryVars
  BY DEF RunnerExits
<1>3. call' = call /\ FilesKept
  BY <1>2, AskKeepsFiles DEF registryVars
<1>4. \A t \in Sessions : t # s => Same(t)
  BY <1>1, <1>3, RunTypes, ProcessesApart DEF RunnerExits, RunnerAt, Same
<1>5. ObserversStand
  BY <1>1, <1>3, <1>4, RunTypes, ProcessesApart
     DEF RunnerExits, ObserversStand, Same, Procs, Idles, RunOrdered
<1>6. RunOrdered(s) /\ LauncherAsks(s) /\ RunnerAsks(s) /\ RunsCoherent
  BY RunTypes
<1>7. RunOrdered(s)'
  BY <1>1, <1>6, ProcessesApart, RunTypes DEF RunOrdered, Idles, Before
<1>8. LauncherAsks(s)'
  BY <1>1, <1>3, <1>6, ProcessesApart DEF LauncherAsks, Free
<1>9. RunnerAsks(s)'
  BY <1>1, <1>3, <1>6, ProcessesApart DEF RunnerAsks, Free, LivenessPid, Handed
<1>10. ASSUME NEW row \in Row, RowStands(s, row) PROVE RowStands(s, row)'
  <2>1. RowOwned(s, row)'
    BY <1>1, <1>3, <1>6, <1>10, ProcessesApart, AsksAreBusy
       DEF RowStands, RowOwned, Adopted, Free, RunOrdered, Before
  <2>2. RowLives(s, row)'
    BY <1>1, <1>3, <1>6, <1>10, ProcessesApart, AsksAreBusy
       DEF RowStands, RowLives, HasHanded, Free, RunOrdered, Before, Idles
  <2>3. RowEnds(s, row)'
    BY <1>1, <1>3, <1>6, <1>10, ProcessesApart, AsksAreBusy
       DEF RowStands, RowEnds, Recorded, Evidenced, Undoing, Free, RunOrdered, Before, Idles,
           SetReason, SetStatus
  <2> QED
    BY <2>1, <2>2, <2>3 DEF RowStands
<1> QED
  BY <1>3, <1>4, <1>5, <1>7, <1>8, <1>9, <1>10 DEF SessionSteps

\* A runner that is killed, with or without its agent, leaves its session in order.
LEMMA KilledSteps ==
    ASSUME RunInv, NEW s \in Sessions, Abandon({Runner(s)}),
           rpc' = [rpc EXCEPT ![s] = IF Runner(s) \in alive THEN "dead" ELSE @],
           alive' = alive \ {Runner(s), Child(s)} \/ alive' = alive \ {Runner(s)},
           lpc' = lpc
              \/ (lpc' = [lpc EXCEPT ![s] = "undo"] /\ Free(Launcher(s)) /\ s \in Workers
                    /\ lpc[s] \in {"await", "confirm", "poll"}),
           UNCHANGED <<results, outcome, hosted, handed>>
    PROVE  /\ SessionSteps(s) /\ rpc'[s] \in Idles
           /\ \A o \in Observers : call'[o] = call[o]
           /\ \A t \in Sessions : rpc[t] = "dead" => rpc'[t] = "dead"
<1>1. /\ rpc'[s] = (IF Runner(s) \in alive THEN "dead" ELSE rpc[s])
      /\ lpc'[s] = lpc[s] \/ (lpc'[s] = "undo" /\ s \in Workers)
      /\ Runner(s) \notin alive' /\ (Child(s) \in alive' => Child(s) \in alive)
      /\ results'[s] = results[s] /\ outcome'[s] = outcome[s] /\ hosted'[s] = hosted[s]
      /\ handed' = handed
  BY RunTypes, ProcessesApart
<1>2. /\ FilesKept /\ call'[Runner(s)] = Idle
      /\ \A p \in Procs : p # Runner(s) => call'[p] = call[p]
  BY RunTypes, AbandonKeepsFiles, ProcessesApart
<1>3. \A t \in Sessions : t # s => Same(t)
  BY <1>2, RunTypes, ProcessesApart DEF Same
<1>4. RunOrdered(s) /\ LauncherAsks(s) /\ RunnerAsks(s)
  BY RunTypes
<1>5. RunOrdered(s)' /\ rpc'[s] \in Idles
  BY <1>1, <1>4, RunTypes DEF RunOrdered, Idles, Before
<1>6. LauncherAsks(s)'
  BY <1>2, <1>4, RunTypes, ProcessesApart DEF LauncherAsks, Free
<1>7. RunnerAsks(s)'
  BY <1>2 DEF RunnerAsks, Free
<1>8. ASSUME NEW row \in Row, RowStands(s, row) PROVE RowStands(s, row)'
  <2>1. RowOwned(s, row)'
    BY <1>1, <1>5, <1>8 DEF RowStands, RowOwned, Adopted, Idles
  <2>2. RowLives(s, row)'
    BY <1>1, <1>5, <1>8 DEF RowStands, RowLives, HasHanded, Idles
  <2>3. Undoing(s)' => Undoing(s)
    BY <1>1, <1>2, ProcessesApart DEF Undoing, Free
  <2>4. RowEnds(s, row)'
    BY <1>1, <1>5, <1>8, <2>3 DEF RowStands, RowEnds, Recorded, Evidenced, Idles
  <2> QED
    BY <2>1, <2>2, <2>4 DEF RowStands
<1>9. \A o \in Observers : call'[o] = call[o]
  BY <1>2, ProcessesApart DEF Procs
<1>10. \A t \in Sessions : rpc[t] = "dead" => rpc'[t] = "dead"
  BY RunTypes
<1> QED
  BY <1>2, <1>3, <1>5, <1>6, <1>7, <1>8, <1>9, <1>10 DEF SessionSteps

LEMMA StepUndo ==
    ASSUME RunInv, NEW s \in Sessions, Undo(s) PROVE SessionSteps(s) /\ ObserversStand
<1>1. /\ lpc' = [lpc EXCEPT ![s] = "undo"] /\ Free(Launcher(s))
      /\ lpc[s] \in {"await", "confirm", "poll"}
      /\ UNCHANGED <<results, aim, handed, outcome, hosted>>
      /\ Kill(s) /\ Abandon({Runner(s)})
  BY DEF Undo, GaveUp
<1>2. s \in Workers
  BY <1>1, RunTypes DEF RunOrdered
<1> QED
  BY <1>1, <1>2, KilledSteps DEF Kill, ObserversStand

LEMMA StepRunnerCrashes ==
    ASSUME RunInv, NEW s \in Sessions, RunnerCrashes(s) PROVE SessionSteps(s) /\ ObserversStand
<1>1. /\ rpc' = [rpc EXCEPT ![s] = IF Runner(s) \in alive THEN "dead" ELSE @]
      /\ alive' = alive \ {Runner(s)} /\ lpc' = lpc /\ Abandon({Runner(s)})
      /\ UNCHANGED <<results, aim, handed, outcome, hosted>>
  BY DEF RunnerCrashes
<1> QED
  BY <1>1, KilledSteps DEF ObserversStand

LEMMA StepLauncherCrashes ==
    ASSUME RunInv, NEW s \in Sessions, LauncherCrashes(s) PROVE SessionSteps(s) /\ ObserversStand
<1>1. /\ lpc'[s] = "gone" /\ rpc' = rpc /\ alive' = alive \ {Launcher(s)}
      /\ results'[s] = results[s] /\ outcome'[s] = outcome[s] /\ hosted'[s] = hosted[s]
      /\ handed' = handed
  BY RunTypes DEF LauncherCrashes
<1>2. /\ FilesKept /\ call'[Launcher(s)] = Idle
      /\ \A p \in Procs : p # Launcher(s) => call'[p] = call[p]
  BY RunTypes, AbandonKeepsFiles, ProcessesApart DEF LauncherCrashes
<1>3. \A t \in Sessions : t # s => Same(t)
  BY <1>1, <1>2, RunTypes, ProcessesApart DEF LauncherCrashes, Same
<1>4. RunOrdered(s) /\ LauncherAsks(s) /\ RunnerAsks(s)
  BY RunTypes
<1>5. RunOrdered(s)'
  BY <1>1, <1>4, ProcessesApart DEF RunOrdered
<1>6. LauncherAsks(s)'
  BY <1>2 DEF LauncherAsks, Free
<1>7. RunnerAsks(s)'
  BY <1>1, <1>2, <1>4, ProcessesApart DEF RunnerAsks, Free, LivenessPid
<1>8. ASSUME NEW row \in Row, RowStands(s, row) PROVE RowStands(s, row)'
  <2>1. RowOwned(s, row)'
    BY <1>1, <1>2, <1>8, ProcessesApart DEF RowStands, RowOwned, Adopted, Free
  <2>2. RowLives(s, row)'
    BY <1>1, <1>2, <1>8, ProcessesApart DEF RowStands, RowLives, HasHanded, Free
  <2>3. RowEnds(s, row)'
    BY <1>1, <1>2, <1>8, ProcessesApart DEF RowStands, RowEnds, Recorded, Evidenced, Undoing, Free
  <2> QED
    BY <2>1, <2>2, <2>3 DEF RowStands
<1>9. ObserversStand
  BY <1>1, <1>2, ProcessesApart DEF ObserversStand, LauncherCrashes, Procs
<1> QED
  BY <1>2, <1>3, <1>5, <1>6, <1>7, <1>8, <1>9 DEF SessionSteps

LEMMA StepChildExits ==
    ASSUME RunInv, NEW s \in Sessions, ChildExits(s) PROVE SessionSteps(s) /\ ObserversStand
<1>1. /\ lpc' = lpc /\ rpc' = rpc /\ alive' = alive \ {Child(s)} /\ Child(s) \in alive
      /\ results' = results /\ hosted' = hosted /\ handed' = handed /\ aim' = aim
      /\ Runner(s) \in alive => rpc[s] = "running"
      /\ \A t \in Sessions : t # s => outcome'[t] = outcome[t]
  BY RunTypes DEF ChildExits
<1>2. call' = call /\ FilesKept
  BY AskKeepsFiles DEF ChildExits, registryVars
<1>3. \A t \in Sessions : t # s => Same(t)
  BY <1>1, <1>2, ProcessesApart DEF Same
<1>4. RunOrdered(s) /\ LauncherAsks(s) /\ RunnerAsks(s)
  BY RunTypes
<1>5. rpc[s] \in {"running", "dead"}
  BY <1>1, <1>4 DEF RunOrdered, Idles
<1>6. RunOrdered(s)'
  BY <1>1, <1>4, ProcessesApart DEF RunOrdered
<1>7. LauncherAsks(s)'
  BY <1>1, <1>2, <1>4 DEF LauncherAsks, Free
<1>8. RunnerAsks(s)'
  BY <1>1, <1>2, <1>4, <1>5 DEF RunnerAsks, Free
<1>9. ASSUME NEW row \in Row, RowStands(s, row) PROVE RowStands(s, row)'
  <2>1. RowOwned(s, row)'
    BY <1>1, <1>2, <1>9 DEF RowStands, RowOwned, Adopted, Free
  <2>2. RowLives(s, row)'
    BY <1>1, <1>2, <1>9, ProcessesApart DEF RowStands, RowLives, HasHanded, Free
  <2>3. RowEnds(s, row)'
    BY <1>1, <1>2, <1>5, <1>9 DEF RowStands, RowEnds, Recorded, Evidenced, Undoing, Free
  <2> QED
    BY <2>1, <2>2, <2>3 DEF RowStands
<1> QED
  BY <1>1, <1>2, <1>3, <1>6, <1>7, <1>8, <1>9 DEF SessionSteps, ObserversStand

LEMMA StepHandoff ==
    ASSUME RunInv, NEW s \in Sessions, Handoff(s) PROVE SessionSteps(s) /\ ObserversStand
<1> DEFINE fresh == [Visible[s] EXCEPT !.pid = "runner", !.status = Running]
<1>1. /\ rpc[s] = "handoff" /\ Free(Runner(s)) /\ rpc'[s] = "handing"
      /\ \A t \in Sessions : t # s => rpc'[t] = rpc[t]
      /\ UNCHANGED <<results, alive, lpc, aim, handed, outcome, hosted>>
      /\ s \in DOMAIN Visible /\ Ask(Runner(s), Upsert(s, fresh))
  BY RunTypes DEF Handoff, RunnerAt
<1>2. /\ call'[Runner(s)] = Upsert(s, fresh)
      /\ \A p \in Procs : p # Runner(s) => call'[p] = call[p]
      /\ FilesKept
  BY <1>1, RunTypes, ProcessesApart, AskStep, AskKeepsFiles
<1>3. fresh \in Row /\ fresh.status = Running /\ fresh.pid = "runner"
      /\ fresh.target = Visible[s].target
  <2>1. Visible[s] \in Row
    BY <1>1, VisibleType DEF RunInv, EvidenceInv, TypeInv, TypeOK, IsBook
  <2> QED
    BY <2>1 DEF Row, Statuses, PidKinds
<1>4. fresh.target = "tmux" => s \in Workers
  BY <1>1, <1>3 DEF RunInv, BooksStand, RowStands, RowOwned
<1> HIDE DEF fresh
<1>5. \A t \in Sessions : t # s => Same(t)
  BY <1>1, <1>2, ProcessesApart DEF Same
<1>6. RunOrdered(s) /\ LauncherAsks(s) /\ RunnerAsks(s)
  BY RunTypes
<1>7. RunOrdered(s)'
  BY <1>1, <1>6 DEF RunOrdered, Idles, Before
<1>8. LauncherAsks(s)'
  BY <1>1, <1>2, <1>6, ProcessesApart DEF LauncherAsks, Free
<1>9. RunnerAsks(s)'
  BY <1>1, <1>2, <1>3, <1>4 DEF RunnerAsks, Handed
<1>10. /\ s \notin handed /\ ~ hosted[s] /\ results[s] = "none"
       /\ call'[Runner(s)] # Idle
  BY <1>1, <1>2, <1>6, AsksAreBusy DEF RunOrdered, Before
<1>11. ASSUME NEW row \in Row, RowStands(s, row) PROVE RowStands(s, row)'
  <2>1. RowOwned(s, row)'
    BY <1>1, <1>10, <1>11 DEF RowStands, RowOwned, Adopted
  <2>2. RowLives(s, row)'
    BY <1>1, <1>10 DEF RowLives, HasHanded, Free
  <2>3. RowEnds(s, row)'
    BY <1>1, <1>10 DEF RowEnds, Recorded, Evidenced
  <2> QED
    BY <2>1, <2>2, <2>3 DEF RowStands
<1>12. ObserversStand
  BY <1>1, <1>2, ProcessesApart DEF ObserversStand, Procs
<1> QED
  BY <1>2, <1>5, <1>7, <1>8, <1>9, <1>11, <1>12 DEF SessionSteps

\* Every row of s that is about, on file or in a copy, is of one target.
LEMMA OneTarget ==
    ASSUME RunInv, NEW s \in Sessions, NEW row \in Row, InBooks(s, row), s \in DOMAIN Visible
    PROVE  row.target = Visible[s].target
BY RunTypes DEF InBooks, OneOperates, Visible, NoRows

LEMMA StepAdopt ==
    ASSUME RunInv, NEW s \in Sessions, Adopt(s) PROVE SessionSteps(s) /\ ObserversStand
<1>1. /\ rpc[s] = "lookup" /\ Free(Runner(s)) /\ rpc'[s] = "spawn"
      /\ \A t \in Sessions : t # s => rpc'[t] = rpc[t] /\ hosted'[t] = hosted[t]
      /\ UNCHANGED <<results, alive, lpc, aim, handed, outcome>>
      /\ hosted'[s] = (s \in DOMAIN Visible /\ Visible[s].target = "tmux")
  BY RunTypes DEF Adopt, RunnerAt
<1>2. /\ IF s \in DOMAIN Visible THEN call'[Runner(s)] = Idle
         ELSE call'[Runner(s)] = Upsert(s, Fresh(s, "runner", "local"))
      /\ \A p \in Procs : p # Runner(s) => call'[p] = call[p]
      /\ FilesKept
  <2>1. CASE s \in DOMAIN Visible
    BY <1>1, <2>1, AskKeepsFiles DEF Adopt, registryVars, Free
  <2>2. CASE s \notin DOMAIN Visible
    BY <2>2, RunTypes, ProcessesApart, AskStep, AskKeepsFiles DEF Adopt
  <2> QED
    BY <2>1, <2>2
<1>3. \A t \in Sessions : t # s => Same(t)
  BY <1>1, <1>2, ProcessesApart DEF Same
<1>4. RunOrdered(s) /\ LauncherAsks(s) /\ RunnerAsks(s)
  BY RunTypes
<1>5. RunOrdered(s)'
  BY <1>1, <1>4 DEF RunOrdered, Idles, Before
<1>6. LauncherAsks(s)'
  BY <1>1, <1>2, <1>4, ProcessesApart DEF LauncherAsks, Free
<1>7. RunnerAsks(s)'
  BY <1>1, <1>2 DEF RunnerAsks, Free
<1>8. ASSUME NEW row \in Row, RowStands(s, row), InBooks(s, row) PROVE RowStands(s, row)'
  <2>1. RowOwned(s, row)'
    <3>1. row.target \in {"tmux", "local"}
      BY DEF Row, Targets
    <3>2. row.target = "tmux" => s \in Workers
      BY <1>8 DEF RowStands, RowOwned
    <3>3. CASE s \in DOMAIN Visible
      BY <1>1, <1>8, <3>1, <3>2, <3>3, OneTarget DEF RowOwned
    <3>4. CASE s \notin DOMAIN Visible
      BY <1>1, <1>2, <3>2, <3>4, AsksAreBusy DEF RowOwned, Adopted, Free
    <3> QED
      BY <3>3, <3>4
  <2>2. RowLives(s, row)'
    BY <1>1, <1>8 DEF RowStands, RowLives, HasHanded
  <2>3. RowEnds(s, row)'
    BY <1>1, <1>4 DEF RowEnds, Recorded, Evidenced, RunOrdered
  <2> QED
    BY <2>1, <2>2, <2>3 DEF RowStands
<1>9. ObserversStand
  BY <1>1, <1>2, ProcessesApart DEF ObserversStand, Procs
<1> QED
  BY <1>2, <1>3, <1>5, <1>6, <1>7, <1>8, <1>9 DEF SessionSteps

-----------------------------------------------------------------------------
(* A step that leaves the files alone, and every session's rows standing.  *)

Follows(t) ==
    /\ RunOrdered(t)' /\ LauncherAsks(t)' /\ RunnerAsks(t)'
    /\ \A row \in Row : RowStands(t, row) /\ InBooks(t, row) => RowStands(t, row)'

LEMMA SessionFollows ==
    ASSUME RunInv, NEW s \in Sessions, SessionSteps(s)
    PROVE  FilesKept /\ \A t \in Sessions : Follows(t)
<1>1. ASSUME NEW t \in Sessions, t # s PROVE Follows(t)
  <2>1. Same(t)
    BY <1>1 DEF SessionSteps
  <2> QED
    BY <1>1, <2>1, SameStands, RunTypes DEF Follows
<1> QED
  BY <1>1 DEF SessionSteps, Follows

LEMMA FilesFollow ==
    ASSUME RunInv, FilesKept, \A t \in Sessions : Follows(t)
    PROVE  /\ OneOperates' /\ BooksStand'
           /\ \A t \in Sessions : RunOrdered(t)' /\ LauncherAsks(t)' /\ RunnerAsks(t)'
<1>1. /\ DOMAIN Visible \subseteq Sessions /\ \A s \in DOMAIN Visible : Visible[s] \in Row
      /\ \A p \in Procs : DOMAIN snap[p] \subseteq Sessions /\ \A s \in DOMAIN snap[p] : snap[p][s] \in Row
  BY VisibleType DEF RunInv, EvidenceInv, TypeInv, TypeOK, RegistryTypeOK, FileTypeOK, IsBook
<1>2. OneOperates'
  BY FilesStand DEF RunInv
<1>3. ASSUME NEW s \in Sessions, NEW row \in Row, InBooks(s, row) PROVE RowStands(s, row)'
  <2>1. RowStands(s, row)
    BY <1>3 DEF RunInv, BooksStand, InBooks
  <2> QED
    BY <1>3, <2>1 DEF Follows
<1>4. Visible' = Visible
  BY DEF FilesKept, Visible
<1>5. ASSUME NEW s \in DOMAIN Visible' PROVE RowStands(s, Visible[s])'
  <2>1. s \in Sessions /\ Visible[s] \in Row /\ InBooks(s, Visible[s])
    BY <1>1, <1>4 DEF InBooks
  <2> QED
    BY <1>3, <1>4, <2>1 DEF RowStands, RowOwned, RowLives, RowEnds
<1>6. ASSUME NEW p \in Procs, phase'[p] # "idle", NEW s \in DOMAIN snap'[p]
      PROVE  RowStands(s, snap[p][s])'
  <2>1. snap'[p] = snap[p] /\ phase[p] # "idle"
    BY <1>6 DEF FilesKept
  <2>2. s \in Sessions /\ snap[p][s] \in Row /\ InBooks(s, snap[p][s])
    BY <1>1, <1>6, <2>1 DEF InBooks
  <2> QED
    BY <1>3, <2>1, <2>2 DEF RowStands, RowOwned, RowLives, RowEnds
<1>7. BooksStand'
  BY <1>5, <1>6 DEF BooksStand
<1> QED
  BY <1>2, <1>7 DEF Follows

LEMMA AimTypes ==
    ASSUME RunInv, NEW o \in Observers
    PROVE  /\ o \in Procs /\ aim \in [Observers -> [why: {"stopped", "orphan-reaped"}, sid: Sessions]
                                                    \cup {NoAim}]
           /\ aim[o].why = "orphan-reaped" => aim[o].sid \in Sessions
           /\ opc[o] \in {"killed", "noting"} =>
                 aim[o].sid \in Sessions /\ aim[o].why \in {"stopped", "orphan-reaped"}
           /\ ObserverAsks(o)
BY DEF RunInv, EvidenceInv, TypeInv, TypeOK, ActorTypeOK, AimsTaken, NoAim, Procs

\* An observer that was not disturbed asks for what it asked for.
LEMMA ObserverStays ==
    ASSUME RunInv, NEW o \in Observers, aim'[o] = aim[o], call'[o] = call[o],
           \A t \in Sessions : rpc[t] = "dead" => rpc'[t] = "dead"
    PROVE  ObserverAsks(o)'
BY AimTypes DEF ObserverAsks

LEMMA ObserverKills ==
    ASSUME RunInv, NEW o \in Observers, NEW s \in Sessions, Stop(o, s) \/ Reap(o, s)
    PROVE  FilesKept /\ (\A t \in Sessions : Follows(t)) /\ \A q \in Observers : ObserverAsks(q)'
<1>1. /\ Free(o) /\ Kill(s) /\ Abandon({Runner(s)})
      /\ UNCHANGED <<results, lpc, handed, outcome, hosted>>
  BY DEF Stop, Reap, ObserverAt
<1>2. /\ SessionSteps(s) /\ \A q \in Observers : call'[q] = call[q]
      /\ \A t \in Sessions : rpc[t] = "dead" => rpc'[t] = "dead"
  BY <1>1, KilledSteps DEF Kill
<1>3. /\ \A q \in Observers : q # o => aim'[q] = aim[q]
      /\ aim'[o].why = "orphan-reaped" => aim'[o].sid = s /\ rpc'[s] = "dead"
  BY AimTypes, RunTypes DEF Stop, Reap, Kill, PaneIdle
<1>4. ASSUME NEW q \in Observers, q # o PROVE ObserverAsks(q)'
  BY <1>2, <1>3, <1>4, ObserverStays
<1>5. ObserverAsks(o)'
  BY <1>1, <1>2, <1>3 DEF ObserverAsks, Free
<1> QED
  BY <1>2, <1>4, <1>5, SessionFollows

LEMMA ObserverAsksOrRests ==
    ASSUME RunInv, NEW o \in Observers,
           List(o) \/ Done(o) \/ PruneAll(o) \/ NoteReason(o) \/ NoteStatus(o) \/ ObserverCrashes(o)
    PROVE  FilesKept /\ (\A t \in Sessions : Follows(t)) /\ \A q \in Observers : ObserverAsks(q)'
<1>1. /\ UNCHANGED <<results, alive, lpc, rpc, handed, outcome, hosted>>
      /\ \A q \in Observers : q # o => aim'[q] = aim[q]
  BY AimTypes DEF List, Done, PruneAll, NoteReason, NoteStatus, ObserverCrashes
<1>2. FilesKept /\ \A p \in Procs : p # o => call'[p] = call[p]
  <2>1. CASE ObserverCrashes(o)
    BY <2>1, RunTypes, AbandonKeepsFiles DEF ObserverCrashes
  <2>2. CASE Done(o)
    BY <2>2, AskKeepsFiles DEF Done, registryVars
  <2>3. CASE List(o) \/ PruneAll(o) \/ NoteReason(o) \/ NoteStatus(o)
    BY <2>3, RunTypes, AimTypes, AskStep, AskKeepsFiles DEF List, PruneAll, NoteReason, NoteStatus
  <2> QED
    BY <2>1, <2>2, <2>3
<1>3. ASSUME NEW t \in Sessions PROVE Follows(t)
  <2>1. Same(t)
    BY <1>1, <1>2, ProcessesApart DEF Same
  <2> QED
    BY <2>1, SameStands, RunTypes DEF Follows
<1>4. ASSUME NEW q \in Observers, q # o PROVE ObserverAsks(q)'
  BY <1>1, <1>2, <1>4, AimTypes, ObserverStays
<1>5. ObserverAsks(o)'
  <2>1. CASE ObserverCrashes(o)
    BY <2>1, RunTypes, AbandonKeepsFiles, AimTypes DEF ObserverCrashes, ObserverAsks, NoAim
  <2>2. CASE Done(o)
    BY <2>2, AimTypes DEF Done, ObserverAsks, NoAim, registryVars
  <2>3. CASE List(o)
    BY <2>3, RunTypes, AimTypes, AskStep DEF List, ObserverAsks
  <2>4. CASE PruneAll(o)
    BY <2>4, RunTypes, AimTypes, AskStep DEF PruneAll, ObserverAsks
  <2>5. CASE NoteReason(o)
    <3>1. call'[o] = SetReason(aim[o].sid, aim[o].why) /\ aim' = aim /\ rpc' = rpc
          /\ opc[o] = "killed"
      BY <2>5, RunTypes, AimTypes, AskStep DEF NoteReason, ObserverAt
    <3> QED
      BY <3>1, AimTypes DEF ObserverAsks
  <2>6. CASE NoteStatus(o)
    <3>1. call'[o] = SetStatus(aim[o].sid, IF aim[o].why = "stopped" THEN "stopped" ELSE "orphaned")
          /\ aim' = aim /\ rpc' = rpc /\ opc[o] = "noting"
      BY <2>6, RunTypes, AimTypes, AskStep DEF NoteStatus, ObserverAt
    <3> QED
      BY <3>1, AimTypes DEF ObserverAsks
  <2> QED
    BY <2>1, <2>2, <2>3, <2>4, <2>5, <2>6
<1> QED
  BY <1>2, <1>3, <1>4, <1>5

-----------------------------------------------------------------------------
(* The actors keep the invariant.                                          *)

LEMMA ActorKeeps ==
    ASSUME RunInv, \/ \E s \in Sessions : \/ Launch(s) \/ Run(s) \/ ChildExits(s)
                                          \/ RunnerCrashes(s) \/ LauncherCrashes(s)
                   \/ \E o \in Observers : Observe(o) \/ ObserverCrashes(o)
    PROVE  /\ OneOperates' /\ BooksStand' /\ \A o \in Observers : ObserverAsks(o)'
           /\ \A t \in Sessions : RunOrdered(t)' /\ LauncherAsks(t)' /\ RunnerAsks(t)'
<1>1. ASSUME NEW s \in Sessions, Launch(s) PROVE SessionSteps(s) /\ ObserversStand
  BY <1>1, StepRegister, StepNewPane, StepNewPaneFails, StepPoll, StepConfirm, StepPollAgain,
     StepUndo, StepUndoReason, StepUndoStatus, StepLaunchFailed DEF Launch
<1>2. ASSUME NEW s \in Sessions, Run(s) PROVE SessionSteps(s) /\ ObserversStand
  BY <1>2, StepStartForeground, StepLook, StepHandoff, StepHandoffRefused, StepWriteReady,
     StepAdopt, StepSpawn, StepSpawnFails, StepSpawnFailed, StepRecordLaunch, StepAgentEvent,
     StepRecordEvidence, StepRecordStatus, StepLogResult, StepRecordCompletion, StepRunnerExits
     DEF Run
<1>3. ASSUME NEW s \in Sessions, SessionSteps(s), ObserversStand
      PROVE  FilesKept /\ (\A t \in Sessions : Follows(t)) /\ \A q \in Observers : ObserverAsks(q)'
  <2>1. ASSUME NEW q \in Observers PROVE ObserverAsks(q)'
    BY <1>3, ObserverStays DEF ObserversStand
  <2> QED
    BY <1>3, <2>1, SessionFollows
<1>4. FilesKept /\ (\A t \in Sessions : Follows(t)) /\ \A q \in Observers : ObserverAsks(q)'
  <2>1. CASE \E s \in Sessions : \/ Launch(s) \/ Run(s) \/ ChildExits(s)
                                 \/ RunnerCrashes(s) \/ LauncherCrashes(s)
    BY <2>1, <1>1, <1>2, <1>3, StepChildExits, StepRunnerCrashes, StepLauncherCrashes
  <2>2. CASE \E o \in Observers : Observe(o) \/ ObserverCrashes(o)
    BY <2>2, ObserverKills, ObserverAsksOrRests DEF Observe
  <2> QED
    BY <2>1, <2>2
<1> QED
  BY <1>4, FilesFollow

-----------------------------------------------------------------------------
(* The operations keep the invariant.                                      *)

\* The end of p's operation, for the sessions themselves.
Answered(p) ==
    /\ call' = [call EXCEPT ![p] = Idle]
    /\ UNCHANGED <<results, alive, actorVars>>

\* Is c an edit of the row of t?
Edits(c, t) == c.op \in {"upsert", "update"} /\ c.sid = t

LEMMA AsksAre ==
    /\ \A s, row : LET c == Upsert(s, row) IN c.op = "upsert" /\ c.sid = s /\ c.row = row
    /\ \A s, f : LET c == Update(s, f) IN c.op = "update" /\ c.sid = s /\ c.fields = f
    /\ Reconcile.op = "reconcile" /\ Prune.op = "prune" /\ Idle.op = "idle"
BY DEF Upsert, Update, Reconcile, Prune, Idle

LEMMA MergeNothing ==
    ASSUME NEW row, NEW m, m = Merge(row, NoFields)
    PROVE  /\ m.status = row.status /\ m.pid = row.pid /\ m.reason = row.reason
           /\ m.delivery = row.delivery /\ m.target = row.target
BY DEF Merge, NoFields, Pick

LEMMA MergeStatus ==
    ASSUME NEW row, NEW st, st # Keep, NEW m, m = Merge(row, [NoFields EXCEPT !.status = st])
    PROVE  /\ m.status = st /\ m.pid = row.pid /\ m.reason = row.reason
           /\ m.delivery = row.delivery /\ m.target = row.target
BY DEF Merge, NoFields, Pick

LEMMA MergeReason ==
    ASSUME NEW row, NEW why, why # Keep, NEW m, m = Merge(row, [NoFields EXCEPT !.reason = why])
    PROVE  /\ m.status = row.status /\ m.pid = row.pid /\ m.reason = why
           /\ m.delivery = row.delivery /\ m.target = row.target
BY DEF Merge, NoFields, Pick

LEMMA MergeChild ==
    ASSUME NEW row, NEW m, m = Merge(row, [NoFields EXCEPT !.pid = "child"])
    PROVE  /\ m.status = row.status /\ m.reason = row.reason
           /\ m.delivery = row.delivery /\ m.target = row.target
BY DEF Merge, NoFields, Pick, Keep

\* A session whose launcher and runner go on with what they were at.
LEMMA AnsweredOther ==
    ASSUME RunInv, NEW p \in Procs, Answered(p), NEW t \in Sessions,
           p # Launcher(t), p # Runner(t)
    PROVE  Same(t)
BY RunTypes, ProcessesApart DEF Answered, Same, actorVars, FileTypeOK

\* The facts that the answers below start from.
LEMMA AnsweredFacts ==
    ASSUME RunInv, NEW p \in Procs, Answered(p), NEW s \in Sessions
    PROVE  /\ rpc'[s] = rpc[s] /\ lpc'[s] = lpc[s] /\ results'[s] = results[s]
           /\ outcome'[s] = outcome[s] /\ hosted'[s] = hosted[s] /\ handed' = handed
           /\ alive' = alive
           /\ call'[p] = Idle /\ \A q \in Procs : q # p => call'[q] = call[q]
           /\ rpc[s] \in {"evidence", "status"} => outcome[s] \in {"exited", "failed"}
           /\ results[s] \in Outcomes /\ outcome[s] \in Outcomes
BY RunTypes DEF Answered, actorVars, FileTypeOK, RunsCoherent, Outcomes

LEMMA LauncherAnswered ==
    ASSUME RunInv, NEW s \in Sessions, Answered(Launcher(s)), ~ Free(Launcher(s)),
           NEW row \in Row, NEW m
    PROVE  LET c == call[Launcher(s)]
           IN /\ RowStands(s, row) /\ ~ Edits(c, s) => RowStands(s, row)'
              /\ RowStands(s, row) /\ c.op = "update" /\ m = Merge(row, c.fields) => RowStands(s, m)'
              /\ c.op = "upsert" /\ row = c.row => RowStands(s, row)'
              /\ Edits(c, s) \/ c.op \notin {"upsert", "update"}
<1> DEFINE c == call[Launcher(s)]
<1>1. /\ rpc'[s] = rpc[s] /\ lpc'[s] = lpc[s] /\ results'[s] = results[s]
      /\ outcome'[s] = outcome[s] /\ hosted'[s] = hosted[s] /\ handed' = handed
      /\ alive' = alive
      /\ call'[Launcher(s)] = Idle /\ call'[Runner(s)] = call[Runner(s)]
  BY AnsweredFacts, ProcessesApart
<1>2. RunOrdered(s) /\ LauncherAsks(s)
  BY RunTypes
<1>3. ASSUME NEW r, RowOwned(s, r), RowLives(s, r) PROVE RowOwned(s, r)' /\ RowLives(s, r)'
  BY <1>1, <1>3 DEF RowOwned, RowLives, Adopted, HasHanded, Free
<1>4. CASE lpc[s] = "registered" /\ c = Upsert(s, Fresh(s, "launcher", "tmux"))
  <2>1. c.op = "upsert" /\ c.sid = s /\ c.row = Fresh(s, "launcher", "tmux")
    BY <1>4, AsksAre
  <2>2. /\ s \in Workers /\ ~ hosted[s] /\ s \notin handed /\ results[s] = "none" /\ rpc[s] = "off"
    BY <1>2, <1>4 DEF RunOrdered, Before
  <2>3. ASSUME row = c.row PROVE RowStands(s, row)'
    <3>1. RowOwned(s, row)'
      BY <1>1, <2>2 DEF RowOwned, Adopted
    <3>2. RowLives(s, row)'
      BY <1>1, <2>2 DEF RowLives, HasHanded
    <3>3. RowEnds(s, row)'
      BY <1>1, <2>2 DEF RowEnds, Recorded, Evidenced
    <3> QED
      BY <3>1, <3>2, <3>3 DEF RowStands
  <2> QED
    BY <2>1, <2>3 DEF Edits
<1>5. CASE lpc[s] \in {"confirm", "poll"} /\ c = Reconcile
  <2>1. c.op = "reconcile"
    BY <1>5, AsksAre
  <2>2. ASSUME RowStands(s, row) PROVE RowStands(s, row)'
    <3>1. RowEnds(s, row)'
      BY <1>1, <1>5, <2>2 DEF RowStands, RowEnds, Recorded, Evidenced, Undoing, Free
    <3> QED
      BY <1>3, <2>2, <3>1 DEF RowStands
  <2> QED
    BY <2>1, <2>2 DEF Edits
<1>6. CASE lpc[s] = "undone" /\ c = SetReason(s, "launch-error")
  <2>1. c.op = "update" /\ c.sid = s /\ c.fields = [NoFields EXCEPT !.reason = "launch-error"]
    BY <1>6, AsksAre DEF SetReason
  <2>2. ASSUME m = Merge(row, c.fields)
        PROVE  /\ m.status = row.status /\ m.pid = row.pid /\ m.reason = "launch-error"
               /\ m.delivery = row.delivery /\ m.target = row.target
    BY SMTT(30), <2>1, <2>2, MergeReason DEF Keep
  <2>3. ASSUME RowStands(s, row), m = Merge(row, c.fields) PROVE RowStands(s, m)'
    <3>1. RowOwned(s, m) /\ RowLives(s, m)
      BY <2>2, <2>3 DEF RowStands, RowOwned, RowLives
    <3>2. RowEnds(s, m)'
      BY <1>1, <2>2, <2>3 DEF RowStands, RowEnds, Recorded, Evidenced, Undoing, Free, Undisturbed
    <3> QED
      BY <1>3, <3>1, <3>2 DEF RowStands
  <2> QED
    BY <2>1, <2>3 DEF Edits
<1>7. CASE lpc[s] = "failing" /\ c = SetStatus(s, "failed")
  <2>1. c.op = "update" /\ c.sid = s /\ c.fields = [NoFields EXCEPT !.status = "failed"]
    BY <1>7, AsksAre DEF SetStatus
  <2>2. ASSUME m = Merge(row, c.fields)
        PROVE  /\ m.status = "failed" /\ m.pid = row.pid /\ m.reason = row.reason
               /\ m.delivery = row.delivery /\ m.target = row.target
    BY <2>1, <2>2, MergeStatus DEF Keep
  <2>3. rpc[s] \in Idles
    BY <1>2, <1>7 DEF RunOrdered
  <2>4. ASSUME RowStands(s, row), m = Merge(row, c.fields) PROVE RowStands(s, m)'
    <3>1. RowOwned(s, m) /\ RowLives(s, m)
      BY <2>2, <2>3, <2>4 DEF RowStands, RowOwned, RowLives, Idles
    <3>2. RowEnds(s, m)'
      BY <1>1, <1>7, <2>2, <2>3, <2>4
         DEF RowStands, RowEnds, Recorded, Evidenced, Undoing, Free, Undisturbed, Idles, Terminal
    <3> QED
      BY <1>3, <3>1, <3>2 DEF RowStands
  <2> QED
    BY <2>1, <2>4 DEF Edits
<1> QED
  BY <1>2, <1>4, <1>5, <1>6, <1>7 DEF LauncherAsks

LEMMA ObserverAnswered ==
    ASSUME RunInv, NEW o \in Observers, Answered(o), NEW t \in Sessions, NEW row \in Row, NEW m
    PROVE  LET c == call[o]
           IN /\ RowStands(t, row) /\ ~ Edits(c, t) => RowStands(t, row)'
              /\ RowStands(t, row) /\ c.op = "update" /\ c.sid = t /\ m = Merge(row, c.fields)
                    => RowStands(t, m)'
              /\ c.op # "upsert"
<1> DEFINE c == call[o]
<1>1. Same(t)
  BY AnsweredOther, ProcessesApart DEF Procs
<1>2. \A r : RowStands(t, r) => RowStands(t, r)'
  BY <1>1, SameStands
<1>3. ObserverAsks(o)
  BY AimTypes
<1>4. CASE c \in {Idle, Reconcile, Prune}
  BY <1>2, <1>4, AsksAre DEF Edits
<1>5. CASE \E s \in Sessions : c = SetReason(s, "stopped") \/ c = SetReason(s, "orphan-reaped")
  <2>1. PICK why \in {"stopped", "orphan-reaped"} : \E s \in Sessions : c = SetReason(s, why)
    BY <1>5
  <2>2. c.op = "update" /\ c.fields = [NoFields EXCEPT !.reason = why]
    BY <2>1, AsksAre DEF SetReason
  <2>3. ASSUME m = Merge(row, c.fields)
        PROVE  /\ m.status = row.status /\ m.pid = row.pid /\ m.reason = why
               /\ m.delivery = row.delivery /\ m.target = row.target
    BY SMTT(30), <2>2, <2>3, MergeReason DEF Keep
  <2>4. RowStands(t, row) /\ m = Merge(row, c.fields) => RowStands(t, m)
    BY <2>3 DEF RowStands, RowOwned, RowLives, RowEnds, Undisturbed
  <2> QED
    BY <1>2, <2>2, <2>4
<1>6. CASE \E s \in Sessions : c = SetStatus(s, "stopped") \/ (c = SetStatus(s, "orphaned") /\ rpc[s] = "dead")
  <2>1. PICK st \in {"stopped", "orphaned"}, s \in Sessions :
            c = SetStatus(s, st) /\ (st = "orphaned" => rpc[s] = "dead")
    BY <1>6
  <2>2. c.op = "update" /\ c.sid = s /\ c.fields = [NoFields EXCEPT !.status = st]
    BY <2>1, AsksAre DEF SetStatus
  <2>3. ASSUME m = Merge(row, c.fields)
        PROVE  /\ m.status = st /\ m.pid = row.pid /\ m.reason = row.reason
               /\ m.delivery = row.delivery /\ m.target = row.target
    BY <2>2, <2>3, MergeStatus DEF Keep
  <2>4. RowStands(t, row) /\ t = s /\ m = Merge(row, c.fields) => RowStands(t, m)
    BY <2>1, <2>3 DEF RowStands, RowOwned, RowLives, RowEnds, Undisturbed, Terminal
  <2> QED
    BY <1>2, <2>2, <2>4 DEF Edits
<1> QED
  BY <1>3, <1>4, <1>5, <1>6 DEF ObserverAsks

LEMMA RunnerAnswered ==
    ASSUME RunInv, NEW s \in Sessions, Answered(Runner(s)), ~ Free(Runner(s)),
           NEW row \in Row, NEW m
    PROVE  LET c == call[Runner(s)]
           IN /\ RowStands(s, row) /\ ~ Edits(c, s) => RowStands(s, row)'
              /\ RowStands(s, row) /\ c.op = "update" /\ m = Merge(row, c.fields) => RowStands(s, m)'
              /\ c.op = "upsert" /\ row = c.row => RowStands(s, row)'
              /\ Edits(c, s) \/ c.op \notin {"upsert", "update"}
<1> DEFINE c == call[Runner(s)]
<1>1. /\ rpc'[s] = rpc[s] /\ lpc'[s] = lpc[s] /\ results'[s] = results[s]
      /\ outcome'[s] = outcome[s] /\ hosted'[s] = hosted[s] /\ handed' = handed
      /\ alive' = alive /\ call'[Runner(s)] = Idle /\ call'[Launcher(s)] = call[Launcher(s)]
  BY AnsweredFacts, ProcessesApart
<1>2. RunOrdered(s) /\ RunnerAsks(s)
  BY RunTypes
<1>3. ASSUME NEW r PROVE (Undoing(s)' <=> Undoing(s)) /\ (Undisturbed(r)' <=> Undisturbed(r))
  BY <1>1 DEF Undoing, Free, Undisturbed
<1>4. CASE rpc[s] \in {"handoff", "lookup"} /\ c = Reconcile
  <2>1. c.op = "reconcile"
    BY <1>4, AsksAre
  <2>2. ASSUME RowStands(s, row) PROVE RowStands(s, row)'
    <3>1. RowOwned(s, row)' /\ RowLives(s, row)'
      BY <1>1, <1>4, <2>2 DEF RowStands, RowOwned, RowLives, Adopted, HasHanded
    <3>2. RowEnds(s, row)'
      BY <1>1, <1>3, <1>4, <2>2 DEF RowStands, RowEnds, Recorded, Evidenced
    <3> QED
      BY <3>1, <3>2 DEF RowStands
  <2> QED
    BY <2>1, <2>2 DEF Edits
<1>5. CASE rpc[s] = "handing" /\ \E r \in Row : Handed(r, s) /\ c = Upsert(s, r)
  <2>1. PICK r : c = Upsert(s, r) /\ r.status = Running /\ r.pid = "runner"
                 /\ (r.target = "tmux" => rpc[s] = "handing" /\ s \in Workers)
    BY <1>5 DEF Handed, Fresh
  <2>2. c.op = "upsert" /\ c.sid = s /\ c.row = r
    BY <2>1, AsksAre
  <2>3. /\ ~ hosted[s] /\ results[s] = "none"
        /\ rpc[s] = "handing" \/ (rpc[s] = "spawn" /\ r.target # "tmux")
    BY <1>2, <1>5, <2>1 DEF RunOrdered, Before, Fresh
  <2>4. ASSUME row = c.row PROVE RowStands(s, row)'
    <3>1. RowOwned(s, row)'
      BY <1>1, <2>1, <2>2, <2>3, <2>4 DEF RowOwned, Adopted, Row, Targets
    <3>2. RowLives(s, row)'
      BY <1>1, <2>1, <2>2, <2>3, <2>4 DEF RowLives, HasHanded, Running
    <3>3. RowEnds(s, row)'
      BY <1>1, <2>3 DEF RowEnds, Recorded, Evidenced
    <3> QED
      BY <3>1, <3>2, <3>3 DEF RowStands
  <2> QED
    BY <2>2, <2>4 DEF Edits
<1>6. CASE rpc[s] = "spawn" /\ ~ hosted[s] /\ c = Upsert(s, Fresh(s, "runner", "local"))
  <2>1. PICK r : c = Upsert(s, r) /\ r.status = Running /\ r.pid = "runner"
                 /\ (r.target = "tmux" => rpc[s] = "handing" /\ s \in Workers)
    BY <1>6 DEF Handed, Fresh
  <2>2. c.op = "upsert" /\ c.sid = s /\ c.row = r
    BY <2>1, AsksAre
  <2>3. /\ ~ hosted[s] /\ results[s] = "none"
        /\ rpc[s] = "handing" \/ (rpc[s] = "spawn" /\ r.target # "tmux")
    BY <1>2, <1>6, <2>1 DEF RunOrdered, Before, Fresh
  <2>4. ASSUME row = c.row PROVE RowStands(s, row)'
    <3>1. RowOwned(s, row)'
      BY <1>1, <2>1, <2>2, <2>3, <2>4 DEF RowOwned, Adopted, Row, Targets
    <3>2. RowLives(s, row)'
      BY <1>1, <2>1, <2>2, <2>3, <2>4 DEF RowLives, HasHanded, Running
    <3>3. RowEnds(s, row)'
      BY <1>1, <2>3 DEF RowEnds, Recorded, Evidenced
    <3> QED
      BY <3>1, <3>2, <3>3 DEF RowStands
  <2> QED
    BY <2>2, <2>4 DEF Edits
<1>7. CASE rpc[s] = "launched" /\ c = Update(s, LivenessPid(s))
  <2>1. c.op = "update" /\ c.sid = s /\ c.fields = LivenessPid(s)
    BY <1>7, AsksAre
  <2>2. results[s] = "none" /\ Runner(s) \in alive
    BY <1>2, <1>7, AnsweredFacts DEF RunOrdered, Before, Idles
  <2>3. ASSUME RowStands(s, row), m = Merge(row, c.fields) PROVE RowStands(s, m)'
    <3>1. /\ m.target = row.target /\ m.delivery = row.delivery /\ m.status = row.status
          /\ m.reason = row.reason /\ (hosted[s] => m.pid = row.pid)
      BY <2>1, <2>2, <2>3, MergeNothing, MergeChild DEF Keep, LivenessPid
    <3>2. RowOwned(s, m)'
      BY <1>1, <1>7, <2>2, <2>3, <3>1 DEF RowStands, RowOwned, Adopted
    <3>3. RowLives(s, m)'
      BY <1>1, <1>7, <2>2, <2>3, <3>1 DEF RowStands, RowOwned, RowLives, HasHanded, Adopted
    <3>4. RowEnds(s, m)'
      BY <1>1, <1>3, <1>7, <2>2, <2>3, <3>1 DEF RowStands, RowEnds, Recorded, Evidenced, Terminal
    <3> QED
      BY <3>2, <3>3, <3>4 DEF RowStands
  <2> QED
    BY <2>1, <2>3 DEF Edits
<1>8. CASE rpc[s] = "unspawned" /\ c = SetReason(s, "launch-error")
  <2>1. c.op = "update" /\ c.sid = s /\ c.fields = [NoFields EXCEPT !.reason = "launch-error"]
    BY <1>8, AsksAre DEF SetReason
  <2>2. results[s] = "none" /\ Runner(s) \in alive
    BY <1>2, <1>8, AnsweredFacts DEF RunOrdered, Before, Idles
  <2>3. ASSUME RowStands(s, row), m = Merge(row, c.fields) PROVE RowStands(s, m)'
    <3>1. /\ m.target = row.target /\ m.delivery = row.delivery /\ m.status = row.status
          /\ m.pid = row.pid
      BY <2>1, <2>2, <2>3, MergeReason DEF Keep
    <3>2. RowOwned(s, m)'
      BY <1>1, <1>8, <2>2, <2>3, <3>1 DEF RowStands, RowOwned, Adopted
    <3>3. RowLives(s, m)'
      BY <1>1, <1>8, <2>2, <2>3, <3>1 DEF RowStands, RowOwned, RowLives, HasHanded, Adopted
    <3>4. RowEnds(s, m)'
      BY <1>1, <1>3, <1>8, <2>2, <2>3, <3>1 DEF RowStands, RowEnds, Recorded, Evidenced, Terminal
    <3> QED
      BY <3>2, <3>3, <3>4 DEF RowStands
  <2> QED
    BY <2>1, <2>3 DEF Edits
<1>9. CASE rpc[s] = "closing" /\ results[s] = "none" /\ c = SetStatus(s, "failed")
  <2>1. c.op = "update" /\ c.sid = s /\ c.fields = [NoFields EXCEPT !.status = "failed"]
    BY <1>9, AsksAre DEF SetStatus
  <2>2. results[s] = "none" /\ Runner(s) \in alive
    BY <1>2, <1>9, AnsweredFacts DEF RunOrdered, Before, Idles
  <2>3. ASSUME RowStands(s, row), m = Merge(row, c.fields) PROVE RowStands(s, m)'
    <3>1. /\ m.target = row.target /\ m.delivery = row.delivery /\ m.status = "failed"
          /\ m.pid = row.pid
      BY <2>1, <2>2, <2>3, MergeStatus DEF Keep
    <3>2. RowOwned(s, m)'
      BY <1>1, <1>9, <2>2, <2>3, <3>1 DEF RowStands, RowOwned, Adopted
    <3>3. RowLives(s, m)'
      BY <1>1, <1>9, <2>2, <2>3, <3>1 DEF RowStands, RowOwned, RowLives, HasHanded, Adopted
    <3>4. RowEnds(s, m)'
      BY <1>1, <1>3, <1>9, <2>2, <2>3, <3>1 DEF RowStands, RowEnds, Recorded, Evidenced, Terminal
    <3> QED
      BY <3>2, <3>3, <3>4 DEF RowStands
  <2> QED
    BY <2>1, <2>3 DEF Edits
<1>10. CASE rpc[s] = "running" /\ c = Update(s, NoFields)
  <2>1. c.op = "update" /\ c.sid = s /\ c.fields = NoFields
    BY <1>10, AsksAre
  <2>2. results[s] = "none" /\ Runner(s) \in alive
    BY <1>2, <1>10, AnsweredFacts DEF RunOrdered, Before, Idles
  <2>3. ASSUME RowStands(s, row), m = Merge(row, c.fields) PROVE RowStands(s, m)'
    <3>1. /\ m.target = row.target /\ m.delivery = row.delivery /\ m.status = row.status
          /\ m.pid = row.pid /\ m.reason = row.reason
      BY <2>1, <2>2, <2>3, MergeNothing DEF Keep
    <3>2. RowOwned(s, m)'
      BY <1>1, <1>10, <2>2, <2>3, <3>1 DEF RowStands, RowOwned, Adopted
    <3>3. RowLives(s, m)'
      BY <1>1, <1>10, <2>2, <2>3, <3>1 DEF RowStands, RowOwned, RowLives, HasHanded, Adopted
    <3>4. RowEnds(s, m)'
      BY <1>1, <1>3, <1>10, <2>2, <2>3, <3>1 DEF RowStands, RowEnds, Recorded, Evidenced, Terminal
    <3> QED
      BY <3>2, <3>3, <3>4 DEF RowStands
  <2> QED
    BY <2>1, <2>3 DEF Edits
<1>11. CASE /\ rpc[s] = "evidence"
           /\ c = Update(s, [NoFields EXCEPT !.reason = "natural",
                                !.delivery = Classify(outcome[s])])
  <2>1. c.op = "update" /\ c.sid = s /\ c.fields = [NoFields EXCEPT !.reason = "natural", !.delivery = Classify(outcome[s])]
    BY <1>11, AsksAre
  <2>2. results[s] = "none" /\ Runner(s) \in alive
    BY <1>2, <1>11, AnsweredFacts DEF RunOrdered, Before, Idles
  <2>3. ASSUME RowStands(s, row), m = Merge(row, c.fields) PROVE RowStands(s, m)'
    <3>1. /\ m.target = row.target /\ m.delivery = Classify(outcome[s]) /\ m.status = row.status
          /\ m.pid = row.pid /\ m.reason = "natural"
      <4>1. Classify(outcome[s]) # Keep
        BY DEF Classify, Keep
      <4> QED
        BY <2>1, <2>3, <4>1 DEF Merge, NoFields, Pick, Keep
    <3>2. RowOwned(s, m)'
      BY <1>1, <1>11, <2>2, <2>3, <3>1 DEF RowStands, RowOwned, Adopted
    <3>3. RowLives(s, m)'
      BY <1>1, <1>11, <2>2, <2>3, <3>1 DEF RowStands, RowOwned, RowLives, HasHanded, Adopted
    <3>4. RowEnds(s, m)'
      BY <1>1, <1>3, <1>11, <2>2, <2>3, <3>1 DEF RowStands, RowEnds, Recorded, Evidenced, Terminal
    <3> QED
      BY <3>2, <3>3, <3>4 DEF RowStands
  <2> QED
    BY <2>1, <2>3 DEF Edits
<1>12. CASE rpc[s] = "status" /\ c = SetStatus(s, outcome[s])
  <2>1. c.op = "update" /\ c.sid = s /\ c.fields = [NoFields EXCEPT !.status = outcome[s]]
    BY <1>12, AsksAre DEF SetStatus
  <2>2. results[s] = "none" /\ outcome[s] \in {"exited", "failed"}
    BY <1>2, <1>12, AnsweredFacts, ProcessesApart DEF RunOrdered, Before, Idles
  <2>3. ASSUME RowStands(s, row), m = Merge(row, c.fields) PROVE RowStands(s, m)'
    <3>1. /\ m.target = row.target /\ m.delivery = row.delivery /\ m.status = outcome[s]
          /\ m.pid = row.pid
      BY <2>1, <2>2, <2>3, MergeStatus DEF Keep
    <3>2. RowOwned(s, m)'
      BY <1>1, <1>12, <2>2, <2>3, <3>1 DEF RowStands, RowOwned, Adopted
    <3>3. RowLives(s, m)'
      BY <1>1, <1>12, <2>2, <2>3, <3>1 DEF RowStands, RowOwned, RowLives, HasHanded, Adopted
    <3>4. RowEnds(s, m)'
      BY <1>1, <1>3, <1>12, <2>2, <2>3, <3>1 DEF RowStands, RowEnds, Recorded, Evidenced, Terminal
    <3> QED
      BY <3>2, <3>3, <3>4 DEF RowStands
  <2> QED
    BY <2>1, <2>3 DEF Edits
<1> QED
  BY <1>2, <1>4, <1>5, <1>6, <1>7, <1>8, <1>9, <1>10, <1>11, <1>12 DEF RunnerAsks

\* Whoever ends an operation, the rows it does not edit stand, and so does the
\* row that it edits, as edited.
LEMMA AnsweredStands ==
    ASSUME RunInv, NEW p \in Procs, ~ Free(p), Answered(p),
           NEW t \in Sessions, NEW row \in Row, NEW m
    PROVE  LET c == call[p]
           IN /\ RowStands(t, row) /\ ~ Edits(c, t) => RowStands(t, row)'
              /\ RowStands(t, row) /\ c.op = "update" /\ c.sid = t /\ m = Merge(row, c.fields)
                    => RowStands(t, m)'
              /\ c.op = "upsert" /\ c.sid = t /\ row = c.row => RowStands(t, row)'
<1> DEFINE c == call[p]
<1>1. CASE p \in Observers
  BY <1>1, ObserverAnswered
<1>2. ASSUME NEW s \in Sessions, p = Launcher(s) \/ p = Runner(s)
      PROVE  /\ RowStands(t, row) /\ ~ Edits(c, t) => RowStands(t, row)'
             /\ RowStands(t, row) /\ c.op = "update" /\ c.sid = t /\ m = Merge(row, c.fields)
                   => RowStands(t, m)'
             /\ c.op = "upsert" /\ c.sid = t /\ row = c.row => RowStands(t, row)'
  <2>1. CASE t = s
    BY <1>2, <2>1, LauncherAnswered, RunnerAnswered
  <2>2. CASE t # s
    <3>1. Same(t)
      BY <1>2, <2>2, AnsweredOther, ProcessesApart
    <3>2. RowStands(t, row) => RowStands(t, row)'
      BY <3>1, SameStands
    <3>3. c.op \in {"update", "upsert"} => c.sid = s
      BY <1>2, LauncherAnswered, RunnerAnswered DEF Edits
    <3> QED
      BY <2>2, <3>2, <3>3
  <2> QED
    BY <2>1, <2>2
<1>3. p \in Observers \/ \E s \in Sessions : p = Launcher(s) \/ p = Runner(s)
  BY DEF Procs, Launcher, Runner
<1> QED
  BY <1>1, <1>2, <1>3

\* Whoever works, sessions and observers go on with what they were at.
LEMMA WorkKeepsAsks ==
    ASSUME RunInv, NEW p \in Procs, Work(p)
    PROVE  /\ \A o \in Observers : ObserverAsks(o)'
           /\ \A t \in Sessions : RunOrdered(t)' /\ LauncherAsks(t)' /\ RunnerAsks(t)'
<1>1. UNCHANGED <<results, alive, actorVars>>
  BY DEF Work, Operate, Load, ReadResults, Judge, NoChange, Truncate, Write
<1>2. \A q \in Procs : call'[q] = call[q] \/ call'[q] = Idle
  BY RunTypes DEF Work, Operate, Load, ReadResults, Judge, NoChange, Truncate, Write, FileTypeOK
<1>3. ASSUME NEW o \in Observers PROVE ObserverAsks(o)'
  BY <1>1, <1>2, AimTypes DEF ObserverAsks, actorVars
<1>4. ASSUME NEW t \in Sessions PROVE RunOrdered(t)' /\ LauncherAsks(t)' /\ RunnerAsks(t)'
  <2>1. RunOrdered(t)'
    BY <1>1, RunTypes DEF RunOrdered, actorVars
  <2>2. LauncherAsks(t)'
    BY <1>1, <1>2, RunTypes, ProcessesApart DEF LauncherAsks, Free, actorVars
  <2>3. RunnerAsks(t)'
    <3>1. CASE call'[Runner(t)] = Idle
      BY <3>1 DEF RunnerAsks, Free
    <3>2. CASE call'[Runner(t)] = call[Runner(t)]
      BY ZenonT(60), <1>1, <3>2, RunTypes DEF RunnerAsks, Free, actorVars, LivenessPid
    <3> QED
      BY <1>2, <3>1, <3>2, ProcessesApart
  <2> QED
    BY <2>1, <2>2, <2>3
<1> QED
  BY <1>3, <1>4

LEMMA StepJudging ==
    ASSUME RunInv, [Next]_vars PROVE Judging'
<1>0. Judging /\ FileTypeOK /\ CallsPending
  BY RunTypes DEF RunInv, EvidenceInv, TypeInv
<1>1. ASSUME NEW p \in Procs, Work(p) PROVE Judging'
  <2>1. CASE ReadResults(p)
    <3>1. call[p] = Reconcile
      BY <1>0, <2>1 DEF ReadResults, FileTypeOK, Calls, Reconcile, Prune, Idle
    <3> QED
      BY <1>0, <2>1, <3>1 DEF ReadResults, Judging, FileTypeOK
  <2>2. CASE Load(p) \/ Judge(p) \/ NoChange(p) \/ Truncate(p) \/ Write(p)
    BY <1>0, <2>2 DEF Load, Judge, NoChange, Truncate, Write, Judging, FileTypeOK
  <2> QED
    BY <1>1, <2>1, <2>2 DEF Work, Operate
<1>2. ASSUME NEW p \in Procs, Free(p), NEW c, Ask(p, c) PROVE Judging'
  BY <1>0, <1>2 DEF Ask, Judging, CallsPending, FileTypeOK
<1>3. ASSUME NEW gone, Abandon(gone) PROVE Judging'
  BY <1>0, <1>3 DEF Abandon, Judging
<1>4. ASSUME UNCHANGED registryVars PROVE Judging'
  BY <1>0, <1>4 DEF Judging, registryVars
<1>5. ASSUME NEW s \in Sessions, Launch(s) PROVE Judging'
  BY <1>2, <1>3, <1>4, <1>5, ProcessesApart
     DEF Launch, LauncherAt, Register, NewPane, NewPaneFails, Poll, Confirm, PollAgain, Undo,
         UndoReason, UndoStatus, LaunchFailed
<1>6. ASSUME NEW s \in Sessions, Run(s) PROVE Judging'
  BY <1>2, <1>4, <1>6, ProcessesApart
     DEF Run, RunnerAt, StartForeground, Look, Handoff, HandoffRefused, WriteReady, Adopt, Spawn,
         SpawnFails, SpawnFailed, RecordLaunch, AgentEvent, RecordEvidence, RecordStatus,
         LogResult, RecordCompletion, RunnerExits
<1>7. ASSUME NEW s \in Sessions, ChildExits(s) \/ RunnerCrashes(s) \/ LauncherCrashes(s)
      PROVE  Judging'
  BY <1>3, <1>4, <1>7 DEF ChildExits, RunnerCrashes, LauncherCrashes
<1>8. ASSUME NEW o \in Observers, Observe(o) \/ ObserverCrashes(o) PROVE Judging'
  BY <1>2, <1>3, <1>4, <1>8, AimTypes
    
        DEF Observe, ObserverAt, List, Done, PruneAll, NoteReason, NoteStatus, Stop, Reap,
            ObserverCrashes
<1>9. CASE UNCHANGED vars
  BY <1>4, <1>9 DEF vars
<1> QED
  BY <1>1, <1>5, <1>6, <1>7, <1>8, <1>9 DEF Next

\* A reconcile only judges what stands: where there is a result the row is
\* already at its end, and a runner at its end is alive and in the row.
LEMMA JudgedStands ==
    ASSUME RunInv, NEW p \in Procs, NEW s \in Sessions, NEW row \in Row, RowStands(s, row),
           NEW m, m = Judged(row, seen[p][s], <<s, row.pid>> \in alive)
    PROVE  RowStands(s, m)
<1>1. seen[p][s] # "none" => results[s] # "none"
  BY DEF RunInv, EvidenceInv, SeenInResults
<1>2. results[s] # "none" => row.status \in Terminal
  BY DEF RowStands, RowEnds
<1>3. CASE row.status \in Terminal \/ <<s, row.pid>> \in alive
  BY <1>1, <1>2, <1>3 DEF Judged
<1>4. CASE row.status \notin Terminal /\ <<s, row.pid>> \notin alive
  <2>1. /\ m.status = "stale" /\ m.pid = row.pid /\ m.target = row.target
        /\ results[s] = "none"
    BY <1>1, <1>2, <1>4 DEF Judged, Row
  <2>2. RowOwned(s, m)
    BY <2>1 DEF RowStands, RowOwned
  <2>3. RowLives(s, m)
    BY <1>4, <2>1 DEF RowStands, RowLives, Runner
  <2>4. ~ Recorded(s)
    BY <1>4 DEF RowStands, RowEnds
  <2>5. ~ (hosted[s] /\ Evidenced(s))
    <3>1. SUFFICES ASSUME hosted[s], Evidenced(s) PROVE FALSE
      OBVIOUS
    <3>2. row.target = "tmux" /\ s \in Workers
      BY <3>1 DEF RowStands, RowOwned
    <3>3. rpc[s] \in {"evidence", "status"}
      BY <3>1 DEF Evidenced
    <3>4. s \in handed /\ Runner(s) \in alive
      BY <3>2, <3>3, RunTypes DEF RunOrdered, Before, Idles
    <3>5. row.pid = "runner"
      BY <3>2, <3>4 DEF RowStands, RowLives, HasHanded
    <3> QED
      BY <1>4, <3>4, <3>5 DEF Runner
  <2>6. RowEnds(s, m)
    BY <2>1, <2>4, <2>5 DEF RowEnds
  <2> QED
    BY <2>2, <2>3, <2>6 DEF RowStands
<1> QED
  BY <1>3, <1>4

LEMMA BooksNext ==
    ASSUME \A s, row : InBooks(s, row)' => RowStands(s, row)'
    PROVE  BooksStand'
<1>1. ASSUME NEW s \in DOMAIN Visible' PROVE RowStands(s, Visible[s])'
  BY <1>1 DEF InBooks, RowStands, RowOwned, RowLives, RowEnds, Undisturbed
<1>2. ASSUME NEW p \in Procs, phase'[p] # "idle", NEW s \in DOMAIN snap'[p]
      PROVE  RowStands(s, snap[p][s])'
  BY <1>2 DEF InBooks, RowStands, RowOwned, RowLives, RowEnds, Undisturbed
<1> QED
  BY <1>1, <1>2 DEF BooksStand

LEMMA InBooksTyped ==
    ASSUME RunInv, NEW s, NEW row, InBooks(s, row)
    PROVE  s \in Sessions /\ row \in Row /\ RowStands(s, row)
<1>1. /\ DOMAIN Visible \subseteq Sessions /\ \A t \in DOMAIN Visible : Visible[t] \in Row
      /\ \A p \in Procs : DOMAIN snap[p] \subseteq Sessions /\ \A t \in DOMAIN snap[p] : snap[p][t] \in Row
  BY VisibleType DEF RunInv, EvidenceInv, TypeInv, TypeOK, RegistryTypeOK, FileTypeOK, IsBook
<1> QED
  BY <1>1 DEF RunInv, BooksStand, InBooks

LEMMA WorkKeepsBooks ==
    ASSUME RunInv, ~ Overlap, NEW p \in Procs, Work(p)
    PROVE  OneOperates' /\ BooksStand'
<1>1. /\ FileTypeOK /\ OneOperates /\ CallsPending /\ Judging
      /\ UNCHANGED <<results, alive, actorVars>>
  BY RunTypes DEF Work, Operate, Load, ReadResults, Judge, NoChange, Truncate, Write,
     RunInv, EvidenceInv, TypeInv
<1>2. ASSUME call' = call, NEW s \in Sessions, NEW row, RowStands(s, row) PROVE RowStands(s, row)'
  <2>1. Same(s)
    BY <1>1, <1>2 DEF Same, actorVars
  <2> QED
    BY <1>2, <2>1, SameStands
<1>3. phase[p] # "idle" => \A q \in Procs : q # p => phase[q] = "idle"
  BY <1>1 DEF OneOperates
<1>4. CASE Load(p)
  <2>1. /\ call' = call /\ Visible' = Visible
        /\ \A q \in Procs : phase[q] = "idle"
        /\ phase'[p] = "loaded" /\ snap'[p] = Visible
        /\ \A q \in Procs : q # p => phase'[q] = "idle"
    BY <1>1, <1>4 DEF Load, Visible, FileTypeOK
  <2>2. ASSUME NEW s, NEW row, InBooks(s, row)' PROVE RowStands(s, row)'
    <3>1. InBooks(s, row)
      BY <2>1, <2>2 DEF InBooks
    <3> QED
      BY <1>2, <2>1, <3>1, InBooksTyped
  <2>3. OneOperates'
    BY <2>1 DEF OneOperates
  <2> QED
    BY <2>2, <2>3, BooksNext
<1>5. CASE ReadResults(p)
  <2>1. /\ call' = call /\ Visible' = Visible /\ snap' = snap
        /\ phase[p] = "loaded" /\ phase'[p] = "read"
        /\ \A q \in Procs : q # p => phase'[q] = phase[q]
    BY <1>1, <1>5 DEF ReadResults, Visible, FileTypeOK
  <2>2. ASSUME NEW s, NEW row, InBooks(s, row)' PROVE RowStands(s, row)'
    <3>1. InBooks(s, row)
      BY <2>1, <2>2 DEF InBooks
    <3> QED
      BY <1>2, <2>1, <3>1, InBooksTyped
  <2>3. OneOperates'
    BY <1>1, <1>3, <2>1 DEF OneOperates
  <2> QED
    BY <2>2, <2>3, BooksNext
<1>6. CASE Judge(p)
  <2> DEFINE judged == [s \in DOMAIN snap[p] |-> Judged(snap[p][s], seen[p][s],
                                                        <<s, snap[p][s].pid>> \in alive)]
  <2>1. /\ phase[p] = "read" /\ call[p] = Reconcile /\ Visible' = Visible
        /\ \A q \in Procs : q # p => phase'[q] = phase[q] /\ snap'[q] = snap[q]
        /\ \/ call' = call /\ phase'[p] = "judged" /\ snap'[p] = judged
           \/ call' = [call EXCEPT ![p] = Idle] /\ phase'[p] = "idle"
    BY <1>1, <1>6 DEF Judge, Judging, Visible, FileTypeOK
  <2>2. ASSUME NEW s \in DOMAIN snap[p]
        PROVE  judged[s].target = snap[p][s].target /\ RowStands(s, judged[s])
    <3>1. s \in Sessions /\ snap[p][s] \in Row /\ RowStands(s, snap[p][s])
      BY <2>1, <2>2, InBooksTyped DEF InBooks
    <3>2. judged[s] = Judged(snap[p][s], seen[p][s], <<s, snap[p][s].pid>> \in alive)
      OBVIOUS
    <3>3. judged[s].target = snap[p][s].target
      BY <3>1, <3>2 DEF Judged, Row
    <3> HIDE DEF judged
    <3> QED
      BY <3>1, <3>2, <3>3, JudgedStands
  <2>3. DOMAIN judged = DOMAIN snap[p]
    OBVIOUS
  <2> HIDE DEF judged
  <2>4. CASE call' = call /\ phase'[p] = "judged" /\ snap'[p] = judged
    <3>1. ASSUME NEW s, NEW row, InBooks(s, row)' PROVE RowStands(s, row)'
      <4>1. InBooks(s, row) \/ (s \in DOMAIN snap[p] /\ row = judged[s])
        BY <2>1, <2>3, <2>4, <3>1 DEF InBooks
      <4>2. CASE InBooks(s, row)
        BY <1>2, <2>4, <4>2, InBooksTyped
      <4>3. CASE s \in DOMAIN snap[p] /\ row = judged[s]
        <5>1. s \in Sessions
          BY <2>1, <4>3, InBooksTyped DEF InBooks
        <5> QED
          BY <1>2, <2>2, <2>4, <4>3, <5>1
      <4> QED
        BY <4>1, <4>2, <4>3
    <3>2. OneOperates'
      BY <1>1, <1>3, <2>1, <2>2, <2>3, <2>4 DEF OneOperates
    <3> QED
      BY <3>1, <3>2, BooksNext
  <2>5. CASE call' = [call EXCEPT ![p] = Idle] /\ phase'[p] = "idle"
    <3>1. ~ Free(p) /\ Answered(p)
      BY <1>1, <2>1, <2>5, AsksAreBusy DEF Answered, Free
    <3>2. \A t : ~ Edits(call[p], t)
      BY <2>1, AsksAre DEF Edits
    <3>3. ASSUME NEW s, NEW row, InBooks(s, row)' PROVE RowStands(s, row)'
      <4>1. InBooks(s, row)
        BY <2>1, <2>5, <3>3 DEF InBooks
      <4> QED
        BY <3>1, <3>2, <4>1, InBooksTyped, AnsweredStands
    <3>4. OneOperates'
      BY <1>1, <1>3, <2>1, <2>5 DEF OneOperates
    <3> QED
      BY <3>3, <3>4, BooksNext
  <2> QED
    BY <2>1, <2>4, <2>5
<1>7. CASE NoChange(p)
  <2>1. /\ phase[p] = "loaded" /\ Nothing(call[p], snap[p]) /\ Visible' = Visible
        /\ phase'[p] = "idle" /\ Answered(p) /\ ~ Free(p)
        /\ \A q \in Procs : q # p => phase'[q] = "idle"
    BY <1>1, <1>3, <1>7 DEF NoChange, Answered, Visible, FileTypeOK, CallsPending
  <2>2. DOMAIN snap[p] = DOMAIN Visible
    BY <1>1, <2>1 DEF OneOperates
  <2>3. ASSUME NEW s, NEW row, InBooks(s, row)' PROVE RowStands(s, row)'
    <3>1. s \in DOMAIN Visible /\ InBooks(s, row)
      BY <2>1, <2>3 DEF InBooks
    <3>2. ~ Edits(call[p], s)
      BY <2>1, <2>2, <3>1 DEF Nothing, Edits
    <3> QED
      BY <2>1, <3>1, <3>2, InBooksTyped, AnsweredStands
  <2>4. OneOperates'
    BY <2>1 DEF OneOperates
  <2> QED
    BY <2>3, <2>4, BooksNext
<1>8. CASE Truncate(p)
  <2>1. /\ call' = call /\ DOMAIN Visible' = {} /\ snap' = snap /\ file' = "empty"
        /\ phase[p] # "idle" /\ phase'[p] = "truncated"
        /\ \A q \in Procs : q # p => phase'[q] = phase[q]
    BY <1>1, <1>8 DEF Truncate, Ready, Visible, NoRows, FileTypeOK
  <2>2. ASSUME NEW s, NEW row, InBooks(s, row)' PROVE RowStands(s, row)'
    <3>1. InBooks(s, row)
      BY <2>1, <2>2 DEF InBooks
    <3> QED
      BY <1>2, <2>1, <3>1, InBooksTyped
  <2>3. OneOperates'
    BY <1>3, <2>1 DEF OneOperates
  <2> QED
    BY <2>2, <2>3, BooksNext
<1>9. CASE Write(p)
  <2> DEFINE book == snap[p] c == call[p]
  <2>1. /\ phase[p] = "truncated" /\ Visible' = Edited(c, book)
        /\ phase'[p] = "idle" /\ Answered(p) /\ ~ Free(p) /\ ~ Nothing(c, book)
        /\ \A q \in Procs : q # p => phase'[q] = "idle"
    BY <1>1, <1>3, <1>9 DEF Write, Answered, Visible, FileTypeOK, CallsPending, OneOperates
  <2>2. c \in Calls
    BY <1>1 DEF FileTypeOK
  <2> HIDE DEF c
  <2>3. ASSUME NEW s, NEW row, InBooks(s, row)' PROVE RowStands(s, row)'
    <3>1. s \in DOMAIN Edited(c, book) /\ row = Edited(c, book)[s]
      BY <2>1, <2>3 DEF InBooks
    <3>2. \/ s \in DOMAIN book /\ row = book[s] /\ ~ Edits(c, s)
          \/ s = c.sid /\ c.op = "upsert" /\ row = c.row
          \/ s = c.sid /\ c.op = "update" /\ s \in DOMAIN book
             /\ row = Merge(book[s], c.fields)
      <4>1. CASE c.op = "upsert"
        BY <3>1, <4>1 DEF Edited, PutRow, Edits
      <4>2. CASE c.op = "update"
        BY <2>1, <3>1, <4>2 DEF Edited, PutRow, Edits, Nothing
      <4>3. CASE c.op = "prune"
        BY <3>1, <4>3 DEF Edited, DropRows, Edits
      <4>4. CASE c.op \notin {"upsert", "update", "prune"}
        BY <3>1, <4>4 DEF Edited, Edits
      <4> QED
        BY <4>1, <4>2, <4>3, <4>4
    <3>3. CASE s \in DOMAIN book /\ row = book[s] /\ ~ Edits(c, s)
      <4>1. s \in Sessions /\ row \in Row /\ RowStands(s, row)
        BY <2>1, <3>3, InBooksTyped DEF InBooks
      <4> QED
        BY <2>1, <3>3, <4>1, AnsweredStands DEF c
    <3>4. CASE s = c.sid /\ c.op = "upsert" /\ row = c.row
      <4>1. s \in Sessions /\ row \in Row
        BY <2>2, <3>4 DEF Calls, Reconcile, Prune, Idle
      <4> QED
        BY <2>1, <3>4, <4>1, AnsweredStands DEF c
    <3>5. CASE s = c.sid /\ c.op = "update" /\ s \in DOMAIN book
               /\ row = Merge(book[s], c.fields)
      <4>1. PICK old : old = book[s]
        OBVIOUS
      <4>2. s \in Sessions /\ old \in Row /\ RowStands(s, old)
        BY <2>1, <3>5, <4>1, InBooksTyped DEF InBooks
      <4> QED
        BY <2>1, <3>5, <4>1, <4>2, AnsweredStands DEF c
    <3> QED
      BY <3>2, <3>3, <3>4, <3>5
  <2>4. OneOperates'
    BY <2>1 DEF OneOperates
  <2> QED
    BY <2>3, <2>4, BooksNext
<1> QED
  BY <1>1, <1>4, <1>5, <1>6, <1>7, <1>8, <1>9 DEF Work, Operate

LEMMA RunInvInit == Init => RunInv
<1> SUFFICES ASSUME Init PROVE RunInv
  OBVIOUS
<1>1. TypeInv /\ EvidenceInv
  BY InitType DEF Init, RegistryInit, EvidenceInv, DatumHasEvidence, SeenInResults, LoggedHasResult
<1>2. /\ \A p \in Procs : call[p] = Idle /\ phase[p] = "idle"
      /\ DOMAIN Visible = {} /\ alive = {} /\ handed = {}
      /\ \A s \in Sessions : /\ rpc[s] = "off" /\ ~ hosted[s] /\ results[s] = "none"
                             /\ lpc[s] = (IF s \in Workers THEN "new" ELSE "gone")
      /\ \A o \in Observers : aim[o] = NoAim
  BY DEF Init, RegistryInit, Visible, NoRows
<1>3. ASSUME NEW s \in Sessions PROVE RunOrdered(s) /\ LauncherAsks(s) /\ RunnerAsks(s)
  BY <1>2, ProcessesApart DEF RunOrdered, LauncherAsks, RunnerAsks, Free, Idles, Before
<1>4. ASSUME NEW o \in Observers PROVE ObserverAsks(o)
  BY <1>2 DEF ObserverAsks, NoAim, Procs
<1>5. Judging /\ OneOperates /\ BooksStand
  BY <1>2 DEF Judging, OneOperates, BooksStand
<1> QED
  BY <1>1, <1>3, <1>4, <1>5 DEF RunInv

LEMMA RunInvNext ==
    ASSUME ~ Overlap, RunInv, [Next]_vars PROVE RunInv'
<1>1. EvidenceInv'
  BY NextType, WorkEvidence, LaunchEvidence, RunEvidence, OtherEvidence
     DEF RunInv, EvidenceInv, Next
<1>2. Judging'
  BY StepJudging
<1>3. /\ OneOperates' /\ BooksStand' /\ \A o \in Observers : ObserverAsks(o)'
      /\ \A t \in Sessions : RunOrdered(t)' /\ LauncherAsks(t)' /\ RunnerAsks(t)'
  <2>1. CASE \E p \in Procs : Work(p)
    BY <2>1, WorkKeepsAsks, WorkKeepsBooks
  <2>2. CASE \/ \E s \in Sessions : \/ Launch(s) \/ Run(s) \/ ChildExits(s)
                                    \/ RunnerCrashes(s) \/ LauncherCrashes(s)
             \/ \E o \in Observers : Observe(o) \/ ObserverCrashes(o)
    BY <2>2, ActorKeeps
  <2>3. CASE UNCHANGED vars
    <3>1. /\ FilesKept /\ \A t \in Sessions : Same(t)
          /\ UNCHANGED <<aim, call, rpc>>
      BY <2>3 DEF vars, registryVars, actorVars, FilesKept, Same
    <3>2. \A t \in Sessions : Follows(t)
      BY <3>1, SameStands, RunTypes DEF Follows
    <3>3. \A o \in Observers : ObserverAsks(o)'
      BY <3>1, ObserverStays
    <3> QED
      BY <3>1, <3>2, <3>3, FilesFollow
  <2> QED
    BY <2>1, <2>2, <2>3 DEF Next
<1> QED
  BY <1>1, <1>2, <1>3 DEF RunInv

\* When no two registry operations overlap, the invariant holds.
LEMMA RunInvariant == ASSUME ~ Overlap PROVE Spec => []RunInv
<1>1. RunInv /\ [Next]_vars => RunInv'
  BY RunInvNext
<1> QED
  BY <1>1, RunInvInit, PTL DEF Spec

\* The row of a run whose result is in its run-event log has that result as its
\* status, unless somebody stopped, reaped or undid the session: on a machine on
\* which no two registry operations overlap (SessionRun_overlap refutes it where
\* they do), for every set of sessions and observers and whoever is killed.
THEOREM ListedAsLogged == ASSUME ~ Overlap PROVE Spec => []StatusStands
<1>1. RunInv => StatusStands
  BY VisibleType
     DEF RunInv, EvidenceInv, TypeInv, TypeOK, IsBook, BooksStand, RowStands, RowEnds,
         StatusStands
<1> QED
  BY <1>1, RunInvariant, PTL

\* For a tmux worker the delivery verdict is the one of that status, and no
\* reconcile overwrites it.
THEOREM VerdictAsLogged == ASSUME ~ Overlap PROVE Spec => []WorkerVerdictStands
<1>1. RunInv => WorkerVerdictStands
  BY DEF RunInv, BooksStand, RowStands, RowEnds, WorkerVerdictStands
<1> QED
  BY <1>1, RunInvariant, PTL

\* No worker that handed off its pid is listed as stale while its runner lives.
THEOREM LivingNotStale == ASSUME ~ Overlap PROVE Spec => []NoFalseDeath
<1>1. RunInv => NoFalseDeath
  BY DEF RunInv, BooksStand, RowStands, RowLives, HasHanded, NoFalseDeath
<1> QED
  BY <1>1, RunInvariant, PTL

\* reap_orphans never ends an agent that is still at work, unless its owner has
\* asked for the session to stop.
THEOREM ReapingSpares == ASSUME ~ Overlap PROVE Spec => ReapSparesTheLiving
<1>1. ASSUME RunInv, NEW s \in Sessions, NEW o \in Observers, Reap(o, s),
             Visible[s].status # "stopped"
      PROVE  Child(s) \notin alive
  <2>1. SUFFICES ASSUME Child(s) \in alive PROVE FALSE
    OBVIOUS
  <2>2. /\ Runner(s) \in alive /\ rpc[s] \notin {"launched", "dead"}
        /\ s \in DOMAIN Visible /\ Visible[s].target = "tmux"
        /\ ~ (Visible[s].status = Running /\ <<s, Visible[s].pid>> \in alive)
    BY <1>1 DEF Reap, PaneIdle, Abandoned
  <2>3. rpc[s] = "running" /\ RowStands(s, Visible[s])
    BY <1>1, <2>1, <2>2, RunTypes DEF RunOrdered, RunInv, BooksStand
  <2>4. s \in Workers
    BY <2>2, <2>3 DEF RowStands, RowOwned
  <2>5. s \in handed
    BY <1>1, <2>3, <2>4, RunTypes DEF RunOrdered, Before
  <2>6. /\ Visible[s].pid = "runner" /\ Visible[s].status \in {Running, "stopped"}
    BY <2>2, <2>3, <2>5 DEF RowStands, RowLives, HasHanded
  <2> QED
    BY <1>1, <2>2, <2>6 DEF Runner
<1>2. RunInv /\ [Next]_vars =>
         [\A s \in Sessions : (\E o \in Observers : Reap(o, s)) /\ Visible[s].status # "stopped"
              => Child(s) \notin alive]_vars
  BY <1>1
<1> QED
  BY <1>2, RunInvariant, PTL DEF Spec, ReapSparesTheLiving
=============================================================================
