---------------------------- MODULE RegistryFile ----------------------------
(***************************************************************************)
(* ~/.horus/registry.json and the operations of horus/registry.py on it.   *)
(* The file has no lock: every operation loads the whole file, edits its   *)
(* copy and writes the whole file back (truncate, then write), so an       *)
(* operation of one process is four steps and any other process may act    *)
(* between them.                                                           *)
(*                                                                         *)
(* A process p asks for an operation by setting call[p]; the actions below *)
(* carry it out and set call[p] back to Idle.  Overlap = FALSE is the      *)
(* machine on which no two operations happen to overlap.                   *)
(***************************************************************************)
EXTENDS FiniteSets

CONSTANTS Sessions,   \* Horus session ids, the keys of the file
          Observers,  \* cockpits and `horus sessions` calls
          Overlap     \* may two registry operations overlap in time?

\* The processes that use the registry: per session the process that launches
\* it and the one that runs its agent, and the observers.
Procs == (Sessions \X {"launcher", "runner"}) \cup Observers

ASSUME OverlapAssumption ==
    Overlap \in BOOLEAN /\ Observers \cap (Sessions \X {"launcher", "runner"}) = {}

VARIABLES rows,     \* the sessions written by the last complete save
          file,     \* "ok", "empty" (truncated by a save) or "garbled"
          call,     \* call[p]: the operation p is executing, or Idle
          phase,    \* phase[p]: how far p is with it
          snap,     \* snap[p]: p's copy of the sessions
          seen,     \* seen[p]: the results p read from the run-event logs
          results,  \* results[s]: last result event in s's run-event log
          alive,    \* <<session, kind>> of the live processes rows may name
          datum     \* datum[s]: who wrote the completion of s's datum

registryVars == <<rows, file, call, phase, snap, seen>>

-----------------------------------------------------------------------------
Running  == "running"
Terminal == {"exited", "failed", "orphaned", "stale", "stopped"}
Statuses == Terminal \cup {Running}
PidKinds == {"launcher", "runner", "child"}
Reasons  == {"none", "natural", "vanished", "launch-error", "stopped",
             "orphan-reaped"}
Verdicts == {"unknown", "delivery-ready", "blocked"}
Targets  == {"tmux", "local"}      \* "local": no session host knows the row

Row  == [status: Statuses, pid: PidKinds, reason: Reasons,
         delivery: Verdicts, target: Targets]
IsBook(b) == DOMAIN b \subseteq Sessions /\ b \in [DOMAIN b -> Row]
NoRows == [s \in {} |-> s]

\* The verdict on a delivery dispatch whose branch was pushed beyond its base.
Classify(status) ==
    IF status = "exited" THEN "delivery-ready"
    ELSE IF status \in {"failed", "stale", "stopped"} THEN "blocked"
    ELSE "unknown"

-----------------------------------------------------------------------------
(* The edits.                                                              *)

Keep == "keep"      \* a field that an update does not mention
Fields == [status: Statuses \cup {Keep}, pid: PidKinds \cup {Keep},
           reason: Reasons \cup {Keep}, delivery: Verdicts \cup {Keep}]
NoFields == [status |-> Keep, pid |-> Keep, reason |-> Keep, delivery |-> Keep]

Pick(new, old) == IF new = Keep THEN old ELSE new

Merge(row, fields) ==
    [status   |-> Pick(fields.status, row.status),
     pid      |-> Pick(fields.pid, row.pid),
     reason   |-> Pick(fields.reason, row.reason),
     delivery |-> Pick(fields.delivery, row.delivery),
     target   |-> row.target]

PutRow(book, s, row) ==
    [t \in DOMAIN book \cup {s} |-> IF t = s THEN row ELSE book[t]]

DropRows(book, gone) == [t \in DOMAIN book \ gone |-> book[t]]

\* Mutant: reconcile trusts the logs alone and never probes a pid.
Judged_NoProbe(row, result, live) ==
    IF row.status \in Terminal \/ result = "none" THEN row
    ELSE [row EXCEPT !.status = result, !.delivery = Classify(result)]

\* reconcile() on one row, given the result it found in the run-event log and
\* whether the row's pid is a live process.
Judged(row, result, live) ==
    IF row.status \in Terminal THEN row
    ELSE IF result # "none"
         THEN [row EXCEPT !.status = result, !.delivery = Classify(result)]
    ELSE IF live THEN row
    ELSE [row EXCEPT !.status = "stale", !.delivery = Classify("stale"),
                     !.reason = IF row.target = "tmux" THEN "vanished" ELSE @]

Upsert(s, row)    == [op |-> "upsert", sid |-> s, row |-> row]
Update(s, fields) == [op |-> "update", sid |-> s, fields |-> fields]
SetStatus(s, st)  == Update(s, [NoFields EXCEPT !.status = st])
Reconcile         == [op |-> "reconcile"]
Prune             == [op |-> "prune"]
Idle              == [op |-> "idle"]

Calls == [op: {"upsert"}, sid: Sessions, row: Row]
         \cup [op: {"update"}, sid: Sessions, fields: Fields]
         \cup {Reconcile, Prune, Idle}

\* What the caller saves, computed from its own copy.  (The copy of a
\* reconcile was already judged row by row.)
Edited(c, book) ==
    CASE c.op = "upsert" -> PutRow(book, c.sid, c.row)
      [] c.op = "update" -> PutRow(book, c.sid, Merge(book[c.sid], c.fields))
      [] c.op = "prune"  -> DropRows(book, {s \in DOMAIN book :
                                                book[s].status \in Terminal})
      [] OTHER           -> book

\* update/set_status return without saving when the row is not there, prune
\* when no row is terminal.
Nothing(c, book) ==
    \/ c.op = "update" /\ c.sid \notin DOMAIN book
    \/ c.op = "prune"  /\ \A s \in DOMAIN book : book[s].status \notin Terminal

-----------------------------------------------------------------------------
(* The steps of an operation.                                              *)

\* What a reader gets: an empty or unparseable file reads as no sessions.
Visible == IF file = "ok" THEN rows ELSE NoRows

Free(p) == call[p] = Idle

Ask(p, c) == /\ call' = [call EXCEPT ![p] = c]
             /\ UNCHANGED <<rows, file, phase, snap, seen>>

Load(p) ==
    /\ ~ Free(p) /\ phase[p] = "idle"
    /\ Overlap \/ \A q \in Procs : phase[q] = "idle"
    /\ snap' = [snap EXCEPT ![p] = Visible]
    /\ phase' = [phase EXCEPT ![p] = "loaded"]
    /\ UNCHANGED <<rows, file, call, seen, results, alive, datum>>

\* reconcile: look for a terminal result in each row's run-event log ...
ReadResults(p) ==
    /\ phase[p] = "loaded" /\ call[p].op = "reconcile"
    /\ seen' = [seen EXCEPT ![p] = results]
    /\ phase' = [phase EXCEPT ![p] = "read"]
    /\ UNCHANGED <<rows, file, call, snap, results, alive, datum>>

\* Mutant: a dead pid alone counts as a confirmed exit.
Confirmed_ByDeadPid(p, s) ==
    /\ s \in DOMAIN snap[p] /\ snap[p][s].status \notin Terminal
    /\ seen[p][s] # "none" \/ <<s, snap[p][s].pid>> \notin alive

\* The rows whose terminal result p has just found.
Confirmed(p, s) == /\ s \in DOMAIN snap[p]
                   /\ snap[p][s].status \notin Terminal
                   /\ seen[p][s] # "none"

\* ... then probe the pids of the others, gather the delivery evidence, and
\* complete the datum of every row that had a result.
Judge(p) ==
    LET Decide(s) == Judged(snap[p][s], seen[p][s],
                            <<s, snap[p][s].pid>> \in alive)
        judged == [s \in DOMAIN snap[p] |-> Decide(s)]
        dirty  == judged # snap[p]
    IN /\ phase[p] = "read"
       /\ snap' = [snap EXCEPT ![p] = IF dirty THEN judged ELSE NoRows]
       /\ datum' = [s \in Sessions |-> IF Confirmed(p, s) /\ datum[s] # "none"
                                       THEN "reconcile" ELSE datum[s]]
       /\ phase' = [phase EXCEPT ![p] = IF dirty THEN "judged" ELSE "idle"]
       /\ call' = [call EXCEPT ![p] = IF dirty THEN @ ELSE Idle]
       /\ seen' = [seen EXCEPT ![p] = [s \in Sessions |-> "none"]]
       /\ UNCHANGED <<rows, file, results, alive>>

Ready(p) == \/ phase[p] = "judged"
            \/ phase[p] = "loaded" /\ call[p].op # "reconcile"

NoChange(p) ==
    /\ phase[p] = "loaded" /\ Nothing(call[p], snap[p])
    /\ call' = [call EXCEPT ![p] = Idle]
    /\ phase' = [phase EXCEPT ![p] = "idle"]
    /\ snap' = [snap EXCEPT ![p] = NoRows]
    /\ UNCHANGED <<rows, file, seen, results, alive, datum>>

\* write_text opens the file for writing, which empties it ...
Truncate(p) ==
    /\ Ready(p) /\ ~ Nothing(call[p], snap[p])
    /\ file' = "empty"
    /\ phase' = [phase EXCEPT ![p] = "truncated"]
    /\ UNCHANGED <<rows, call, snap, seen, results, alive, datum>>

\* ... and then writes the new text from offset 0.  Over the text of another
\* save that landed in between, a shorter text leaves the other one's tail.
Write(p) ==
    /\ phase[p] = "truncated"
    /\ rows' = Edited(call[p], snap[p])
    /\ file' \in (IF file = "empty" THEN {"ok"} ELSE {"ok", "garbled"})
    /\ call' = [call EXCEPT ![p] = Idle]
    /\ phase' = [phase EXCEPT ![p] = "idle"]
    /\ snap' = [snap EXCEPT ![p] = NoRows]
    /\ UNCHANGED <<seen, results, alive, datum>>

Operate(p) == \/ Load(p) \/ ReadResults(p) \/ Judge(p)
              \/ NoChange(p) \/ Truncate(p) \/ Write(p)

\* The processes of gone die wherever they are; a save they had begun is lost.
Abandon(gone) ==
    /\ call'  = [p \in Procs |-> IF p \in gone THEN Idle ELSE call[p]]
    /\ phase' = [p \in Procs |-> IF p \in gone THEN "idle" ELSE phase[p]]
    /\ snap'  = [p \in Procs |-> IF p \in gone THEN NoRows ELSE snap[p]]
    /\ seen'  = [p \in Procs |-> IF p \in gone
                                 THEN [s \in Sessions |-> "none"] ELSE seen[p]]
    /\ UNCHANGED <<rows, file>>

-----------------------------------------------------------------------------
RegistryInit ==
    /\ rows = NoRows /\ file = "ok"
    /\ call  = [p \in Procs |-> Idle]
    /\ phase = [p \in Procs |-> "idle"]
    /\ snap  = [p \in Procs |-> NoRows]
    /\ seen  = [p \in Procs |-> [s \in Sessions |-> "none"]]
    /\ results = [s \in Sessions |-> "none"]
    /\ datum   = [s \in Sessions |-> "none"]

Outcomes == {"none", "exited", "failed"}

FileTypeOK ==
    /\ IsBook(rows)
    /\ file \in {"ok", "empty", "garbled"}
    /\ call \in [Procs -> Calls]
    /\ phase \in [Procs -> {"idle", "loaded", "read", "judged", "truncated"}]
    /\ DOMAIN snap = Procs /\ \A p \in Procs : IsBook(snap[p])
    /\ seen \in [Procs -> [Sessions -> Outcomes]]

WorldTypeOK ==
    /\ results \in [Sessions -> Outcomes]
    /\ alive \in SUBSET (Sessions \X PidKinds)
    /\ datum \in [Sessions -> {"none", "launched", "executor", "reconcile"}]

RegistryTypeOK == FileTypeOK /\ WorldTypeOK
=============================================================================
