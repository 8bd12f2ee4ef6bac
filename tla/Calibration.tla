------------------------------ MODULE Calibration ------------------------------
(***************************************************************************)
(* The measurements of worker runs (horus/datums.py): rows of one JSON     *)
(* file that every writer loads, edits and saves whole, the usage readings *)
(* they carry, and what the report says a run has consumed on an account   *)
(* of its own.  All runs are workers of one agent on one account.          *)
(***************************************************************************)
EXTENDS Integers, FiniteSets

CONSTANTS Tasks,      \* the worker runs, each with its executor
          Project,    \* Project[r]: where run r works
          Clerk,      \* whoever reports, closes and reconciles: a model value
          MaxClock,   \* bound: seconds
          MaxUse,     \* bound: percentage points consumed
          MaxClerk,   \* bound: the commands of the clerk
          Overlaps    \* may operations on the file overlap?

ASSUME CalibrationAssumption ==
    /\ Clerk \notin Tasks /\ MaxClock \in Nat /\ MaxUse \in Nat /\ MaxClerk \in Nat
    /\ Overlaps \in BOOLEAN

VARIABLES clock,     \* the second it is
          used, own, \* the account's consumption, and that of each run
          datums,    \* datums.json: the row of each run, or NoRow
          torn,      \* is the file emptied and not yet filled?
          phase,     \* phase[r]: "new", "started", "running", "ended", "over", "dead"
          ended,     \* ended[r]: when the registry had its result, or None
          hand,      \* hand[p]: the store operation p is in
          errands,   \* the commands of the clerk so far
          mixed      \* <<r, q>>: q consumed while r's row was open

calVars == <<clock, used, own, datums, torn, phase, ended, hand, errands, mixed>>

None == 0 - 1
NoRow == [at |-> None, end |-> None, pre |-> None, post |-> None, late |-> FALSE, outcome |-> FALSE]
NoRows == [r \in Tasks |-> NoRow]
Quiet == [op |-> "none", task |-> Clerk, rows |-> NoRows]
Writers == Tasks \cup {Clerk}

CalInit ==
    /\ clock = 0 /\ used = 0 /\ own = [r \in Tasks |-> 0]
    /\ datums = NoRows /\ torn = FALSE
    /\ phase = [r \in Tasks |-> "new"] /\ ended = [r \in Tasks |-> None]
    /\ hand = [p \in Writers |-> Quiet] /\ errands = 0 /\ mixed = {}

-----------------------------------------------------------------------------
(* The account, and the time.                                              *)

SecondPasses ==
    /\ clock < MaxClock /\ clock' = clock + 1
    /\ UNCHANGED <<used, own, datums, torn, phase, ended, hand, errands, mixed>>

\* Is r's row open?
Open(r) == datums[r].at # None /\ datums[r].end = None

Consumes(r) ==
    /\ phase[r] = "running" /\ hand[r].op = "none" /\ used < MaxUse
    /\ used' = used + 1 /\ own' = [own EXCEPT ![r] = @ + 1]
    /\ mixed' = IF Open(r) THEN mixed \cup {<<q, r>> : q \in {q \in Tasks \ {r} : Open(q)}}
                           ELSE mixed
    /\ UNCHANGED <<clock, datums, torn, phase, ended, hand, errands>>

-----------------------------------------------------------------------------
(* The store: load, edit, empty the file, fill it.                         *)

Loaded == IF torn THEN NoRows ELSE datums
Free(p) == Overlaps \/ \A q \in Writers \ {p} : hand[q].op = "none"

Takes(p, op, r, new) ==
    /\ hand[p].op = "none" /\ Free(p)
    /\ hand' = [hand EXCEPT ![p] = [op |-> op, task |-> r, rows |-> new]]

Passes(p, op) == hand' = [hand EXCEPT ![p].op = op]

\* save: the file is emptied, and then it has what was in hand.
Empties(p) ==
    /\ hand[p].op = "save" /\ torn' = TRUE /\ Passes(p, "fill")
    /\ UNCHANGED <<clock, used, own, datums, phase, ended, errands, mixed>>

Fills(p) ==
    /\ hand[p].op = "fill" /\ torn' = FALSE /\ datums' = hand[p].rows
    /\ hand' = [hand EXCEPT ![p] = Quiet]
    /\ UNCHANGED <<clock, used, own, phase, ended, errands, mixed>>

-----------------------------------------------------------------------------
(* A run's executor.                                                       *)

\* The agent is spawned and the launch reading taken; it is in NoRows until
\* record_launch has it.
Starts(r) ==
    /\ phase[r] = "new" /\ phase' = [phase EXCEPT ![r] = "started"]
    /\ hand' = [hand EXCEPT ![r].rows[r].pre = used]
    /\ UNCHANGED <<clock, used, own, datums, torn, ended, errands, mixed>>

\* Mutant: the row of a relaunch starts without an outcome.
RecordLaunch_Fresh(r) ==
    /\ phase[r] \in {"started", "running"}
    /\ LET row == [NoRow EXCEPT !.at = clock,
                     !.pre = IF phase[r] = "started" THEN hand[r].rows[r].pre ELSE datums[r].pre]
       IN Takes(r, "save", r, [Loaded EXCEPT ![r] = row])
    /\ datums[r].at = None \/ own[r] = 0
    /\ phase' = [phase EXCEPT ![r] = "running"]
    /\ mixed' = {pair \in mixed : r # pair[1]}
    /\ UNCHANGED <<clock, used, own, datums, torn, ended, errands>>

\* record_launch, when the agent is spawned and when its session starts: the
\* row is stamped anew, and an outcome it has is carried over.  A session has
\* consumed nothing when it starts.
RecordLaunch(r) ==
    /\ phase[r] \in {"started", "running"}
    /\ LET row == [NoRow EXCEPT !.at = clock,
                     !.pre = IF phase[r] = "started" THEN hand[r].rows[r].pre ELSE datums[r].pre,
                     !.outcome = Loaded[r].outcome]
       IN Takes(r, "save", r, [Loaded EXCEPT ![r] = row])
    /\ datums[r].at = None \/ own[r] = 0
    /\ phase' = [phase EXCEPT ![r] = "running"]
    /\ mixed' = {pair \in mixed : r # pair[1]}
    /\ UNCHANGED <<clock, used, own, datums, torn, ended, errands>>

\* The agent ends: the registry and the log have the result first.
Finishes(r) ==
    /\ phase[r] = "running" /\ hand[r].op = "none"
    /\ phase' = [phase EXCEPT ![r] = "ended"] /\ ended' = [ended EXCEPT ![r] = clock]
    /\ UNCHANGED <<clock, used, own, datums, torn, hand, errands, mixed>>

\* record_completion stamps the row it loaded ...
Completes(p, r) ==
    /\ hand[p].op = "none" /\ Loaded[r].at # None
    /\ Takes(p, "read", r, [Loaded EXCEPT ![r].end = clock])

CompletesOwn(r) ==
    /\ phase[r] = "ended"
    /\ IF Loaded[r].at = None THEN UNCHANGED hand ELSE Completes(r, r)
    /\ phase' = [phase EXCEPT ![r] = "over"]
    /\ UNCHANGED <<clock, used, own, datums, torn, ended, errands, mixed>>

\* ... then asks the provider what the account has used, and saves.
ReadsUsage(p) ==
    /\ hand[p].op = "read"
    /\ hand' = [hand EXCEPT ![p].op = "save", ![p].rows[hand[p].task].post = used,
                         ![p].rows[hand[p].task].late = FALSE]
    /\ UNCHANGED <<clock, used, own, datums, torn, phase, ended, errands, mixed>>

Killed(r) ==
    /\ phase[r] \in {"started", "running", "ended"} /\ hand[r].op # "fill"
    /\ phase' = [phase EXCEPT ![r] = "dead"] /\ hand' = [hand EXCEPT ![r] = Quiet]
    /\ UNCHANGED <<clock, used, own, datums, torn, ended, errands, mixed>>

-----------------------------------------------------------------------------
(* The clerk's commands.                                                   *)

Errand == errands < MaxClerk /\ errands' = errands + 1

\* `horus datum close`: the outcome, and for a row without one a reading.
Closes(r) ==
    /\ Errand /\ Loaded[r].at # None
    /\ LET row == [Loaded[r] EXCEPT !.outcome = TRUE,
                                    !.post = IF @ = None THEN used ELSE @,
                                    !.late = (Loaded[r].post = None \/ @)]
       IN Takes(Clerk, "save", r, [Loaded EXCEPT ![r] = row])
    /\ UNCHANGED <<clock, used, own, datums, torn, phase, ended, mixed>>

\* The registry finds a run dead whose result is in the log.
ClosesDead(r) ==
    /\ Errand /\ phase[r] = "dead" /\ ended[r] # None /\ Completes(Clerk, r)
    /\ UNCHANGED <<clock, used, own, datums, torn, phase, ended, mixed>>

\* reconcile_missing_completions, which each report begins with.
Reconciled(r, row) ==
    IF row.at # None /\ row.end = None /\ ended[r] # None
      THEN [row EXCEPT !.end = ended[r]] ELSE row
Reconciles ==
    LET new == [r \in Tasks |-> Reconciled(r, Loaded[r])] IN
    /\ Errand /\ new # Loaded /\ Takes(Clerk, "save", Clerk, new)
    /\ UNCHANGED <<clock, used, own, datums, torn, phase, ended, mixed>>

-----------------------------------------------------------------------------
Executor(r) == Starts(r) \/ RecordLaunch(r) \/ Finishes(r) \/ CompletesOwn(r)
Saves(p) == ReadsUsage(p) \/ Empties(p) \/ Fills(p)

CalNext ==
    \/ SecondPasses \/ Reconciles
    \/ \E r \in Tasks : Consumes(r) \/ Executor(r) \/ Killed(r) \/ Closes(r) \/ ClosesDead(r)
    \/ \E p \in Writers : Saves(p)

CalSpec == CalInit /\ [][CalNext]_calVars

-----------------------------------------------------------------------------
(* What the report says.                                                   *)

\* Mutant: a run nobody has seen end is over.
End_Forgotten(r) == IF datums[r].end # None THEN datums[r].end
                    ELSE IF ended[r] # None THEN ended[r] ELSE datums[r].at

\* _effective_interval: a run without proof of its end is not over.
End(r) == IF datums[r].end # None THEN datums[r].end
          ELSE IF ended[r] # None THEN ended[r] ELSE clock

Overlap(r, q) == datums[r].at <= End(q) /\ datums[q].at <= End(r)

\* usage_accounting among the rows the report is about.
Observed(r, shown) ==
    /\ datums[r].pre # None /\ datums[r].post # None
    /\ \A q \in shown \ {r} : datums[q].at # None => ~Overlap(r, q)

Recorded == {r \in Tasks : datums[r].at # None}

\* The rows of a report on one project.
ShownFor(place) == {r \in Recorded : Project[r] = place}

-----------------------------------------------------------------------------
(* Properties.                                                             *)

Rows == [at : None..MaxClock, end : None..MaxClock, pre : None..MaxUse,
         post : None..MaxUse, late : BOOLEAN, outcome : BOOLEAN]
CalTypeOK ==
    /\ clock \in 0..MaxClock /\ used \in 0..MaxUse
    /\ own \in [Tasks -> 0..MaxUse] /\ errands \in 0..MaxClerk
    /\ datums \in [Tasks -> Rows] /\ ended \in [Tasks -> None..MaxClock]
    /\ phase \in [Tasks -> {"new", "started", "running", "ended", "over", "dead"}]
    /\ hand \in [Writers -> [op : {"none", "read", "save", "fill"}, task : Writers,
                             rows : [Tasks -> Rows]]]
    /\ torn \in BOOLEAN /\ mixed \subseteq Tasks \X Tasks

\* A report over all rows calls no run isolated during which another worker
\* consumed with its row open, unless the owner closed the row before it was
\* complete.
IsolatedIsAlone ==
    \A r \in Recorded : Observed(r, Recorded) /\ ~datums[r].late =>
        \A pair \in mixed : r # pair[1]

\* A row is never lost, an outcome the owner gave never taken back, and a run
\* that is over stays over until it is launched again.
RowsKept ==
    [][\A r \in Recorded :
         /\ datums'[r].at # None
         /\ datums[r].outcome => datums'[r].outcome
         /\ datums[r].end # None => datums'[r].end # None \/ phase[r] = "running"]_calVars

\* What the documentation says of the report: a delta it shows is the run's.
ObservedIsOwn ==
    \A r \in Recorded : \A place \in {Project[q] : q \in Tasks} :
        Observed(r, ShownFor(place)) =>
            datums[r].post - datums[r].pre <= own[r]
=============================================================================
