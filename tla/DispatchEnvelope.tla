--------------------------- MODULE DispatchEnvelope ---------------------------
(***************************************************************************)
(* Standing dispatch envelopes (horus/envelope.py) and the unattended      *)
(* dispatches they bound (cmd_run and its helpers in horus/cli.py).        *)
(*                                                                         *)
(* An envelope is a file of bounds that only create and revoke write, and  *)
(* a ledger to which every authorized dispatch appends a line.  Nothing    *)
(* locks either: a dispatch loads the bounds, validates them against the   *)
(* ledger and appends its own line in three steps, with a usage read, a    *)
(* worktree and a second usage read in between.                            *)
(***************************************************************************)
EXTENDS Integers, FiniteSets

CONSTANTS Runs,          \* the unattended dispatches, one session id each
          Cards,         \* the cards they may name
          Allowed,       \* the cards the envelope names
          MaxAttempts,   \* max_attempts_per_card
          MaxPerDay,     \* max_dispatches_per_day
          Expires,       \* the last day of the envelope
          LastDay,       \* bound on the clock, in days
          Slots,         \* how many dispatches may be under way at once
          MaxTears       \* bound on the appends a crash tears

ASSUME EnvelopeAssumption ==
    /\ IsFiniteSet(Runs) /\ Allowed \subseteq Cards
    /\ MaxAttempts \in Nat \ {0} /\ MaxPerDay \in Nat \ {0}
    /\ Expires \in Nat /\ LastDay \in Nat
    /\ Slots \in Nat \ {0} /\ MaxTears \in Nat

VARIABLES file,      \* <name>.toml: "absent", "torn" (empty), "live" or "revoked"
          floor,     \* the file's usage_floor is above zero
          owner,     \* the owner's command: "none", "creating" or "revoking"
          rows,      \* the readable lines of <name>.jsonl, by session id
          ragged,    \* does <name>.jsonl end in a torn line?
          today,     \* the UTC day
          run,       \* run[r]: where dispatch r stands
          tears      \* appends torn so far

envFiles == <<file, floor, owner>>
ledger   == <<rows, ragged, tears>>
envVars  == <<envFiles, ledger, today, run>>

\* What the usage signal of an account can say.  A reading may be too old to
\* refuse on ("stale"), and there may be none.
Readings == {"fine", "low", "spent", "stale", "unknown"}

Stages == {"idle", "loaded", "authorized", "placed", "recorded",
           "running", "refused", "dead"}

NoRun == [pc |-> "idle", card |-> "none", grounded |-> FALSE, day |-> 0]

\* Dispatches between the load of the envelope and their launch.
UnderWay == {r \in Runs : run[r].pc \in {"loaded", "authorized", "placed", "recorded"}}
Authorized == {r \in Runs : run[r].pc \in {"authorized", "placed"}}
Launched == {r \in Runs : run[r].pc = "running"}

RowsOf(c) == {e \in rows : e.card = c}
RowsOn(d) == {e \in rows : e.day = d}

EnvInit ==
    /\ file = "absent" /\ floor = FALSE /\ owner = "none"
    /\ rows = {} /\ ragged = FALSE /\ tears = 0 /\ today = 0
    /\ run = [r \in Runs |-> NoRun]

Goes(r, pc) == run' = [run EXCEPT ![r].pc = pc]

-----------------------------------------------------------------------------
(* The owner.  _write truncates the file and then fills it.                *)

\* create refuses a name whose file exists, readable or not, and bounds that
\* are already past; Open is its truncation.
CreateEnvelope ==
    /\ owner = "none" /\ file = "absent" /\ today <= Expires /\ Allowed # {}
    /\ file' = "torn" /\ owner' = "creating" /\ floor' \in BOOLEAN
    /\ UNCHANGED <<ledger, today, run>>

\* Mutant: a file that does not parse gets the default bounds.
Readable_Defaults == file # "absent"

Readable == file \in {"live", "revoked"}

\* revoke rewrites what it could load; of an unreadable file it says so.
RevokeEnvelope ==
    /\ owner = "none" /\ Readable
    /\ file' = "torn" /\ owner' = "revoking"
    /\ UNCHANGED <<floor, ledger, today, run>>

WriteEnvelope ==
    /\ owner # "none"
    /\ file' = IF owner = "creating" THEN "live" ELSE "revoked"
    /\ owner' = "none"
    /\ UNCHANGED <<floor, ledger, today, run>>

\* The owner's command dies between the truncation and the write.
OwnerDies ==
    /\ owner # "none" /\ owner' = "none"
    /\ UNCHANGED <<file, floor, ledger, today, run>>

NextDay ==
    /\ today < LastDay /\ today' = today + 1
    /\ UNCHANGED <<envFiles, ledger, run>>

-----------------------------------------------------------------------------
(* A dispatch.                                                             *)

\* _envelope_guard up to the load: an unreadable envelope refuses.  The copy
\* it loads is the one it will validate; grounded is its revoked flag.
LoadEnvelope(r, c) ==
    /\ run[r].pc = "idle" /\ Cardinality(UnderWay) < Slots
    /\ run' = [run EXCEPT ![r] = [pc |-> IF Readable THEN "loaded" ELSE "refused",
                                  card |-> c, grounded |-> file = "revoked",
                                  day |-> today]]
    /\ UNCHANGED <<envFiles, ledger, today>>

\* The floor binds only when the owner set one, and then unknown refuses.
BelowFloor(reading) == floor /\ reading \in {"low", "spent", "stale", "unknown"}

\* Mutant: one attempt too many.
WithinSpend_OneMore(c) ==
    /\ Cardinality(RowsOf(c)) <= MaxAttempts
    /\ Cardinality(RowsOn(today)) <= MaxPerDay

\* spend derives the counts from the readable rows.
WithinSpend(c) ==
    /\ Cardinality(RowsOf(c)) < MaxAttempts
    /\ Cardinality(RowsOn(today)) < MaxPerDay

Permitted(r, reading) ==
    /\ ~ run[r].grounded
    /\ today <= Expires
    /\ run[r].card \in Allowed
    /\ WithinSpend(run[r].card)
    /\ ~ BelowFloor(reading)

\* The card lookup, the usage read and validate.  The card may be gone from
\* the backlog, or carry a tier the envelope does not list (fits).
Validate(r) ==
    /\ run[r].pc = "loaded"
    /\ \E fits \in BOOLEAN, reading \in Readings :
          Goes(r, IF fits /\ Permitted(r, reading) THEN "authorized" ELSE "refused")
    /\ UNCHANGED <<envFiles, ledger, today>>

\* The preflight refuses a window that is spent by a reading of now; with
\* --refuse-on-unknown (critical) it refuses an unknown one.
PreflightRefuses(reading, critical) ==
    reading = "spent" \/ (reading = "unknown" /\ critical)

\* The posture checks, the run's own worktree, and the preflight: each may
\* refuse, and none has spent anything yet.
Place(r) ==
    /\ run[r].pc = "authorized"
    /\ \E ready, critical \in BOOLEAN, reading \in Readings :
          Goes(r, IF ready /\ ~ PreflightRefuses(reading, critical)
                    THEN "placed" ELSE "refused")
    /\ UNCHANGED <<envFiles, ledger, today>>

Row(r) == [run |-> r, card |-> run[r].card, day |-> today]

\* record_dispatch appends a line.  Behind a torn line it becomes part of it,
\* and neither is readable.
Record(r) ==
    /\ run[r].pc = "placed"
    /\ run' = [run EXCEPT ![r].pc = "recorded", ![r].day = today]
    /\ rows' = IF ragged THEN rows ELSE rows \cup {Row(r)}
    /\ ragged' = FALSE
    /\ UNCHANGED <<envFiles, today, tears>>

\* The launch: a pane, or the agent in this process.  It may be refused, and
\* the attempt stays spent.
Launch(r) ==
    /\ run[r].pc = "recorded" /\ \E ok \in BOOLEAN : Goes(r, IF ok THEN "running" ELSE "refused")
    /\ UNCHANGED <<envFiles, ledger, today>>

\* A dispatch killed between two of its steps.
RunDies(r) ==
    /\ r \in UnderWay /\ Goes(r, "dead")
    /\ UNCHANGED <<envFiles, ledger, today>>

\* A machine that goes down within the append leaves half a line.
AppendTears(r) ==
    /\ run[r].pc = "placed" /\ tears < MaxTears
    /\ Goes(r, "dead") /\ ragged' = TRUE /\ tears' = tears + 1
    /\ UNCHANGED <<envFiles, rows, today>>

-----------------------------------------------------------------------------
EnvNext ==
    \/ CreateEnvelope \/ RevokeEnvelope \/ WriteEnvelope \/ OwnerDies \/ NextDay
    \/ \E r \in Runs, c \in Cards : LoadEnvelope(r, c)
    \/ \E r \in Runs : \/ Validate(r) \/ Place(r) \/ Record(r) \/ Launch(r)
                       \/ RunDies(r) \/ AppendTears(r)

EnvSpec == EnvInit /\ [][EnvNext]_envVars

-----------------------------------------------------------------------------
(* Properties.                                                             *)

EnvTypeOK ==
    /\ file \in {"absent", "torn", "live", "revoked"} /\ floor \in BOOLEAN
    /\ owner \in {"none", "creating", "revoking"}
    /\ rows \subseteq [run : Runs, card : Cards, day : 0..LastDay]
    /\ ragged \in BOOLEAN /\ tears \in 0..MaxTears /\ today \in 0..LastDay
    /\ run \in [Runs -> [pc : Stages, card : Cards \cup {"none"},
                         grounded : BOOLEAN, day : 0..LastDay]]

\* Dispatches whose append returned, by card and by day.
Spent == {r \in Runs : run[r].pc \in {"recorded", "running"}}
LaunchedFor(c) == {r \in Launched : run[r].card = c}
LaunchedOn(d) == {r \in Launched : run[r].day = d}

\* max_attempts_per_card bounds the launches for a card, but for the
\* dispatches that were under way together (each validates before the others
\* have appended) and the lines a crash tore.  One at a time, on a ledger
\* that was never torn, it is exact; a card the envelope does not name never
\* starts.
AttemptsBounded ==
    \A c \in Cards :
        Cardinality(LaunchedFor(c)) <=
            IF c \in Allowed THEN MaxAttempts + (Slots - 1) + tears ELSE 0

\* max_dispatches_per_day, across the midnights a dispatch may straddle: it is
\* validated on one day and its line may be dated the next.
DayBounded ==
    \A d \in 0..LastDay :
        Cardinality(LaunchedOn(d)) <= MaxPerDay + (Slots - 1) + tears

\* Both bounds of the envelope, as far as the code can hold them.
SpendBounded == AttemptsBounded /\ DayBounded

\* The ledger is the honest record of what was spent: each torn append loses
\* at most one other dispatch's line.
LedgerHonest ==
    /\ Cardinality({r \in Spent : \A e \in rows : e.run # r}) <= tears
    /\ \A e \in rows : run[e.run].card = e.card /\ run[e.run].day = e.day

\* What the owner was promised: see DispatchBudget.  A run asks when it loads
\* the bounds, so a revoked or unreadable file grounds every later one.
Phase == IF file = "live" THEN "open"
         ELSE IF file = "absent" \/ owner = "creating" THEN "unopened" ELSE "closed"

Asking == {r \in UnderWay : ~ run[r].grounded}

B == INSTANCE DispatchBudget WITH
        Asker <- Runs, Card <- Cards,
        Allowance <- [c \in Cards |->
            IF c \in Allowed THEN MaxAttempts + (Slots - 1) + MaxTears ELSE 0],
        phase <- Phase, asking <- Asking,
        started <- [c \in Cards |-> LaunchedFor(c)]

\* Dispatches implement the budget.
KeepsBudget == B!Budget

\* The bound as the module's documentation has it.
AttemptsExact ==
    \A c \in Cards : Cardinality(LaunchedFor(c)) <= MaxAttempts
=============================================================================
