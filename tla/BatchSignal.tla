------------------------------ MODULE BatchSignal ------------------------------
(***************************************************************************)
(* One push for a whole batch of scheduled dispatches (horus/batch.py),    *)
(* from what the timers, the envelope ledger and the datums say            *)
(* (horus/activity.py).  The worker that completes last sends it, or a     *)
(* deadline command; whoever creates the sentinel file first is the one.   *)
(***************************************************************************)
EXTENDS Integers, FiniteSets

CONSTANTS Legs,      \* the schedules tagged with the batch
          LegCard,   \* LegCard[l]: the card leg l dispatches
          Earlier,   \* the cards an earlier dispatch, long over, was for
          Deadline,  \* the deadline command, a model value
          Dying      \* may a caller die between its steps?

ASSUME BatchAssumption ==
    Dying \in BOOLEAN /\ Deadline \notin Legs /\ {"none", "earlier"} \cap Legs = {}

VARIABLES leg,       \* leg[l]: "armed", "cancelled", "fired" (no ledger row yet),
                     \* "refused", "dispatched" (a row), "running" (a datum),
                     \* "completed" (its datum is terminal)
          newest,    \* newest[c]: whose row is the newest for c on the ledger:
                     \* "none", "earlier" or a leg
          call,      \* call[e]: emit_if_complete of e: "no", "reporting",
                     \* "claiming", "sending", "over" or "dead"
          saw,       \* saw[e]: the legs e's report had as done, and as members
          sentinel,  \* does the sentinel file exist?
          sent       \* the pushes: who sent it, and did it say all is done?

batchVars == <<leg, newest, call, saw, sentinel, sent>>

Callers == Legs \cup {Deadline}
LegCards == {LegCard[l] : l \in Legs}
Blank == [done |-> {}, members |-> {}]

BatchInit ==
    /\ leg = [l \in Legs |-> "armed"]
    /\ newest = [c \in LegCards |-> IF c \in Earlier THEN "earlier" ELSE "none"]
    /\ call = [e \in Callers |-> "no"] /\ saw = [e \in Callers |-> Blank]
    /\ sentinel = FALSE /\ sent = {}

-----------------------------------------------------------------------------
(* The legs.                                                               *)

Turns(l, state) == leg' = [leg EXCEPT ![l] = state]

LegFires(l) == /\ leg[l] = "armed" /\ Turns(l, "fired")
               /\ UNCHANGED <<newest, call, saw, sentinel, sent>>

LegCancelled(l) == /\ leg[l] \in {"armed", "fired"} /\ Turns(l, "cancelled")
                   /\ UNCHANGED <<newest, call, saw, sentinel, sent>>

\* Mutant: the row does not say which card it is for.
LegRecorded_Unlinked(l) ==
    /\ leg[l] = "fired"
    /\ Turns(l, "dispatched") \/ Turns(l, "refused")
    /\ UNCHANGED <<newest, call, saw, sentinel, sent>>

\* The envelope authorizes the dispatch and its row is appended, or refuses.
LegRecorded(l) ==
    /\ leg[l] = "fired"
    /\ \/ Turns(l, "dispatched") /\ newest' = [newest EXCEPT ![LegCard[l]] = l]
       \/ Turns(l, "refused") /\ UNCHANGED newest
    /\ UNCHANGED <<call, saw, sentinel, sent>>

LegRuns(l) == /\ leg[l] = "dispatched" /\ Turns(l, "running")
              /\ UNCHANGED <<newest, call, saw, sentinel, sent>>

\* record_completion makes the datum terminal, and then the worker asks
\* whether the batch is over.
LegCompletes(l) ==
    /\ leg[l] = "running" /\ Turns(l, "completed")
    /\ call' = [call EXCEPT ![l] = "reporting"]
    /\ UNCHANGED <<newest, saw, sentinel, sent>>

DeadlineComes ==
    /\ call[Deadline] = "no" /\ call' = [call EXCEPT ![Deadline] = "reporting"]
    /\ UNCHANGED <<leg, newest, saw, sentinel, sent>>

-----------------------------------------------------------------------------
(* emit_if_complete.                                                       *)

HasFired(l) == leg[l] \notin {"armed", "cancelled"}
Members == {l \in Legs : leg[l] # "cancelled"}

\* outcome_glyph of the run a fired leg is linked to.  The link is by card,
\* to the newest row there is.
Terminal(row) == row = "earlier" \/ (row \in Legs /\ leg[row] = "completed")
Done == {l \in Members : HasFired(l) /\ Terminal(newest[LegCard[l]])}

Report(e) ==
    /\ call[e] = "reporting"
    /\ saw' = [saw EXCEPT ![e] = [done |-> Done, members |-> Members]]
    /\ call' = [call EXCEPT ![e] =
                  IF Members # {} /\ (Done = Members \/ e = Deadline)
                    THEN "claiming" ELSE "over"]
    /\ UNCHANGED <<leg, newest, sentinel, sent>>

\* Mutant: the sentinel is created without O_EXCL.
ClaimOnce_Shared(e) ==
    /\ call[e] = "claiming" /\ sentinel' = TRUE
    /\ call' = [call EXCEPT ![e] = "sending"]
    /\ UNCHANGED <<leg, newest, saw, sent>>

\* O_CREAT | O_EXCL: one caller creates the sentinel.
ClaimOnce(e) ==
    /\ call[e] = "claiming" /\ sentinel' = TRUE
    /\ call' = [call EXCEPT ![e] = IF sentinel THEN "over" ELSE "sending"]
    /\ UNCHANGED <<leg, newest, saw, sent>>

Send(e) ==
    /\ call[e] = "sending" /\ call' = [call EXCEPT ![e] = "over"]
    /\ sent' = sent \cup {[by |-> e, ok |-> saw[e].done = saw[e].members]}
    /\ UNCHANGED <<leg, newest, saw, sentinel>>

CallerDies(e) ==
    /\ Dying /\ call[e] \in {"reporting", "claiming", "sending"}
    /\ call' = [call EXCEPT ![e] = "dead"]
    /\ UNCHANGED <<leg, newest, saw, sentinel, sent>>

-----------------------------------------------------------------------------
Emits(e) == Report(e) \/ ClaimOnce(e) \/ Send(e)
Leg(l) == LegFires(l) \/ LegRecorded(l) \/ LegRuns(l) \/ LegCompletes(l)

BatchNext ==
    \/ DeadlineComes
    \/ \E l \in Legs : Leg(l) \/ LegCancelled(l)
    \/ \E e \in Callers : Emits(e) \/ CallerDies(e)

BatchSpec == BatchInit /\ [][BatchNext]_batchVars

-----------------------------------------------------------------------------
(* Properties.                                                             *)

BatchTypeOK ==
    /\ leg \in [Legs -> {"armed", "cancelled", "fired", "refused", "dispatched",
                         "running", "completed"}]
    /\ \A c \in LegCards : newest[c] \in Legs \cup {"none", "earlier"}
    /\ call \in [Callers -> {"no", "reporting", "claiming", "sending", "over", "dead"}]
    /\ saw \in [Callers -> [done : SUBSET Legs, members : SUBSET Legs]]
    /\ sentinel \in BOOLEAN /\ sent \subseteq [by : Callers, ok : BOOLEAN]

\* However many workers complete together, and the deadline with them, there
\* is one push.
SentOnce == Cardinality(sent) <= 1

\* A push that says the batch is done is right: each leg's own worker is.
DoneIsTrue ==
    \A push \in sent : push.ok =>
        \A l \in saw[push.by].members : leg[l] = "completed"

\* The owner gets one push, and can believe it.
OneTruePush == SentOnce /\ DoneIsTrue

\* A batch whose legs are all completed is signalled, unless a caller dies.
BatchIsSignalled ==
    (\A l \in Legs : leg[l] = "completed")
        ~> (sent # {} \/ \E e \in Callers : call[e] = "dead")
=============================================================================
