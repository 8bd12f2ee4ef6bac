------------------------------ MODULE Supervision ------------------------------
(***************************************************************************)
(* `horus supervise` (horus/supervise.py, with horus/mergewatch.py): after *)
(* a dispatched worker is done, a process with nobody watching verifies    *)
(* its pull request and merges it, or escalates and halts the scheduled    *)
(* dispatches that build on the failed card.  GitHub, the worker and the   *)
(* owner move between any two of its steps; the halts are commands of      *)
(* AwaySchedule, given one after the other.                                *)
(***************************************************************************)
EXTENDS AwaySchedule

CONSTANTS Supervisors,   \* the clerks that run `horus supervise`
          Cards,         \* the cards of the backlog
          Base,          \* the card whose delivery is supervised
          DependsOn,     \* DependsOn[c]: the cards c names in depends-on
          CardOf,        \* CardOf[s]: the card schedule s dispatches
          MaxAttempts,   \* bound on the dispatches of Base
          MaxHead        \* bound on the heads of a pull request

ASSUME SupervisionAssumption ==
    /\ Supervisors \subseteq Clerks /\ Base \in Cards /\ IsFiniteSet(Cards)
    /\ DependsOn \in [Cards -> SUBSET Cards] /\ \A s \in Scheds : CardOf[s] \in Cards
    /\ MaxAttempts \in Nat /\ MaxHead \in Nat \ {0}

VARIABLES grant,      \* the envelope of the dispatches: "none" (there is none),
                      \* "verify" or "merge" (merge_authority)
          based,      \* were they dispatched with a base and --expect-delivery?
          attempts,   \* the dispatches of Base on the ledger
          pr,         \* pr[k]: the pull request of the k-th dispatch
          ci,         \* ci[k]: its heads whose required checks are green
          sup,        \* sup[p]: where supervisor p stands
          shipped,    \* is the card of Base shipped?
          freed       \* the schedules a release has armed again

github  == <<pr, ci>>
origin  == <<grant, based>>
supVars == <<github, origin, attempts, sup, shipped, freed>>
allVars == <<awayVars, supVars>>

Attempts == 1..MaxAttempts
Heads == 1..MaxHead
NoPR == [state |-> "none", head |-> 1, by |-> "nobody"]
Off == [pc |-> "off", by |-> "none", k |-> 0, head |-> 0, probe |-> FALSE,
        left |-> {}, seen |-> {}]
Verdicts == {"merged", "verified", "noop", "escalated"}
Settled(p) == sup[p].pc \in Verdicts \cup {"off", "dead"}

\* The schedules have been created (BeginCreate to CreateEnable of
\* AwaySchedule) and wait for their slots.
ArmedInit ==
    /\ disk = [s \in Scheds |-> UnitFiles] /\ marked = {} /\ wanted = Scheds
    /\ armed = Scheds /\ stamp = [s \in Scheds |-> "early"]
    /\ service = [s \in Scheds |-> "idle"] /\ ran = [s \in Scheds |-> 0] /\ told = {}
    /\ due = {} /\ up = TRUE /\ crashes = 0
    /\ cmd = [p \in Clerks |-> Idle] /\ issued = 0
    /\ fate = [s \in Scheds |-> "scheduled"] /\ tangled = {}

SupInit ==
    /\ ArmedInit
    /\ grant \in {"none", "verify", "merge"} /\ based \in BOOLEAN
    /\ attempts = 0 /\ pr = [k \in Attempts |-> NoPR]
    /\ ci = [k \in Attempts |-> {}]
    /\ sup = [p \in Supervisors |-> Off]
    /\ shipped = FALSE /\ freed = {}

-----------------------------------------------------------------------------
(* The rest of the world.                                                  *)

\* Base is dispatched (again).
Dispatch ==
    /\ attempts < MaxAttempts /\ attempts' = attempts + 1
    /\ UNCHANGED <<awayVars, github, origin, sup, shipped, freed>>

\* A worker opens its pull request, or pushes another commit to it.
Push(k) ==
    /\ k <= attempts
    /\ \/ pr[k].state = "none" /\ pr' = [pr EXCEPT ![k].state = "open"]
       \/ /\ pr[k].state = "open" /\ pr[k].head < MaxHead
          /\ pr' = [pr EXCEPT ![k].head = @ + 1]
    /\ UNCHANGED <<awayVars, ci, origin, attempts, sup, shipped, freed>>

\* Checks that fail or never settle are those this step is not taken for.
ChecksPass(k) ==
    /\ pr[k].state # "none" /\ pr[k].head \notin ci[k]
    /\ ci' = [ci EXCEPT ![k] = @ \cup {pr[k].head}]
    /\ UNCHANGED <<awayVars, pr, origin, attempts, sup, shipped, freed>>

OwnerMerges(k) ==
    /\ pr[k].state = "open"
    /\ pr' = [pr EXCEPT ![k].state = "merged", ![k].by = "owner"]
    /\ UNCHANGED <<awayVars, ci, origin, attempts, sup, shipped, freed>>

-----------------------------------------------------------------------------
(* The gate.                                                               *)

Moves(p, pc) == sup' = [sup EXCEPT ![p].pc = pc]

\* Every card that depends on c, directly or through others.
ClosedOver(c, C) == \A d \in Cards : DependsOn[d] \cap (C \cup {c}) # {} => d \in C
\* Mutant: only the cards that name it.
Dependents_Direct(c) == {d \in Cards : c \in DependsOn[d]}

Dependents(c) == {d \in Cards : \A C \in SUBSET Cards : ClosedOver(c, C) => d \in C}

\* What halt_dependents is to halt, as the list shows it now.
ToHalt == {s \in Scheds : /\ Listed(s) /\ Shown(s) \in {"pending", "inert"}
                          /\ CardOf[s] \in Dependents(Base)}

\* What it should: the pending ones at the end of a chain of dependencies.
Chained(c) == \E n \in 1..Cardinality(Cards) : \E chain \in [0..n -> Cards] :
                 /\ chain[0] = Base /\ chain[n] = c
                 /\ \A i \in 1..n : chain[i - 1] \in DependsOn[chain[i]]
Pending == {s \in Scheds : /\ Listed(s) /\ Shown(s) \in {"pending", "inert"}
                           /\ Chained(CardOf[s])}

\* A delivery named by its session has a card only if an envelope authorized
\* it, and one named by its pull request has none: nothing is halted then.
HasCard(by) == by = "card" \/ (by = "session" /\ grant # "none")

\* _escalate_and_halt begins.
Halting(r) == LET Told(S) == IF HasCard(r.by) THEN S ELSE {}
              IN  [r EXCEPT !.pc = "halting", !.left = Told(ToHalt), !.seen = Told(Pending)]
Escalates(p) == sup' = [sup EXCEPT ![p] = Halting(@)]

\* --card names the newest dispatch on an envelope's ledger, a session id any,
\* and either may find nothing, or a dispatch that delivered nothing.
Resolve(p) ==
    /\ up /\ sup[p].pc = "off" /\ cmd[p] = Idle
    /\ \E by \in {"card", "session", "pr"}, k \in 0..attempts :
          LET found == [Off EXCEPT !.by = by, !.k = k]
              lost  == k = 0 \/ pr[k].state = "none"
          IN  /\ by = "card" => k = IF grant = "none" THEN 0 ELSE attempts
              /\ by = "session" /\ attempts > 0 => k > 0
              /\ by = "pr" => ~ lost
              /\ sup' = [sup EXCEPT ![p] = IF lost THEN Halting(found)
                                           ELSE [found EXCEPT !.pc = "resolved"]]
    /\ UNCHANGED <<awayVars, github, origin, attempts, shipped, freed>>

\* A bare pull request carries neither a base nor an authority.
Grounded(p) == based /\ sup[p].by # "pr"
MayMerge(p) == grant = "merge" /\ sup[p].by # "pr"

InStep(p, pc) == up /\ sup[p].pc = pc
Unmoved == UNCHANGED <<awayVars, github, origin, attempts, shipped, freed>>

\* _pr_state: merged already is a no-op.
LookMerged(p) ==
    /\ InStep(p, "resolved")
    /\ Moves(p, IF pr[sup[p].k].state = "merged" THEN "noop" ELSE "pinning")
    /\ Unmoved

\* resolve_target pins the head the pull request has now.
PinHead(p) ==
    /\ InStep(p, "pinning")
    /\ sup' = [sup EXCEPT ![p].pc = "watching", ![p].head = pr[sup[p].k].head]
    /\ Unmoved

Green(p) == sup[p].head \in ci[sup[p].k]

\* Mutant: the poll has no deadline.
Watch_Forever(p) ==
    /\ InStep(p, "watching")
    /\ IF Green(p) THEN Moves(p, "green") ELSE UNCHANGED sup
    /\ Unmoved

\* watch polls the checks of the pinned head until they settle or the time is
\* over.
Watch(p) ==
    /\ InStep(p, "watching")
    /\ IF Green(p) THEN Moves(p, "green") ELSE Escalates(p)
    /\ Unmoved

\* Mutant: a merge needs no probe.
Gate_Unprobed(p) ==
    /\ InStep(p, "green")
    /\ \/ Grounded(p) /\ Escalates(p)
       \/ ~ MayMerge(p) /\ Moves(p, "verified")
       \/ MayMerge(p) /\ IF Grounded(p) THEN Moves(p, "probing") ELSE Escalates(p)
    /\ Unmoved

\* The freshness gate, the merge authority, and its proofs: a delivery that was
\* dispatched with a base and expected, and a probe, if one was declared.
Gate(p) ==
    /\ InStep(p, "green")
    /\ \/ Grounded(p) /\ Escalates(p)
       \/ ~ MayMerge(p) /\ Moves(p, "verified")
       \/ /\ MayMerge(p)
          /\ \/ Grounded(p) /\ sup' = [sup EXCEPT ![p].pc = "probing", ![p].probe = TRUE]
             \/ Escalates(p)
    /\ Unmoved

Probe(p) ==
    /\ InStep(p, "probing") /\ (Moves(p, "merging") \/ Escalates(p)) /\ Unmoved

\* Mutant: a merge that succeeds is the end of it.
Merge_Only(p) ==
    LET k == sup[p].k IN
    /\ InStep(p, "merging")
    /\ \/ /\ pr[k].state = "open" /\ Moves(p, "merged")
          /\ pr' = [pr EXCEPT ![k].state = "merged", ![k].by = "supervisor"]
       \/ Escalates(p) /\ UNCHANGED pr
    /\ UNCHANGED <<awayVars, ci, origin, attempts, shipped, freed>>

\* gh merges by number: what it merges is the head of this moment.
Merge(p) ==
    LET k == sup[p].k IN
    /\ InStep(p, "merging")
    /\ \/ /\ pr[k].state = "open" /\ Moves(p, "closing")
          /\ pr' = [pr EXCEPT ![k].state = "merged", ![k].by = "supervisor"]
       \/ pr[k].state = "merged" /\ Moves(p, "closing") /\ UNCHANGED pr
       \/ Escalates(p) /\ UNCHANGED pr
    /\ UNCHANGED <<awayVars, ci, origin, attempts, shipped, freed>>

\* The continuity is closed (whatever comes of it) and the card shipped.
Ship(p) ==
    /\ InStep(p, "closing") /\ shipped' = TRUE /\ Moves(p, "merged")
    /\ UNCHANGED <<awayVars, github, origin, attempts, freed>>

-----------------------------------------------------------------------------
(* The andon: halt_dependents, one schedule after the other, then the push.*)

HaltNext(p) ==
    /\ InStep(p, "halting") /\ cmd[p] = Idle
    /\ \E s \in sup[p].left :
          /\ sup' = [sup EXCEPT ![p].left = @ \ {s}]
          /\ IF Listed(s)
               THEN /\ cmd' = [cmd EXCEPT ![p] = [op |-> "halt", on |-> s, pc |-> "systemctl"]]
                    /\ tangled' = IF Busy(s) THEN tangled \cup {s} ELSE tangled
               ELSE UNCHANGED <<cmd, tangled>>
    /\ UNCHANGED <<units, systemd, machine, fate, issued>>
    /\ UNCHANGED <<github, origin, attempts, shipped, freed>>

PushEscalation(p) ==
    /\ InStep(p, "halting") /\ sup[p].left = {} /\ cmd[p] = Idle
    /\ Moves(p, "escalated") /\ Unmoved

-----------------------------------------------------------------------------
\* A supervisor that dies is one of its commands that is cut short, or the
\* gate itself.
SupervisorDies(p) ==
    /\ "kill" \in Faults /\ ~ Settled(p) /\ cmd[p] = Idle
    /\ Moves(p, "dead") /\ Unmoved

Gating(p) ==
    \/ Resolve(p) \/ LookMerged(p) \/ PinHead(p) \/ Watch(p) \/ Gate(p)
    \/ Probe(p) \/ Merge(p) \/ Ship(p) \/ HaltNext(p) \/ PushEscalation(p)

\* The timers and the commands, and what they mean here.  The machine stays
\* up: what its going down does to a schedule is AwaySchedule's, and to a
\* supervisor no more than its death.
Timers == (\E s \in Scheds : Systemd(s) \/ SlotComes(s)) /\ UNCHANGED supVars

CommandStep(p) ==
    /\ Command(p)
    /\ freed' = IF cmd[p].op = "release" THEN freed \cup {cmd[p].on} ELSE freed
    /\ UNCHANGED <<github, origin, attempts, sup, shipped>>

CommandCut(p) ==
    /\ CommandDies(p)
    /\ IF p \in Supervisors THEN Moves(p, "dead") ELSE UNCHANGED sup
    /\ UNCHANGED <<github, origin, attempts, shipped, freed>>

OwnerIssues(p, s) == p \notin Supervisors /\ (BeginCancel(p, s) \/ BeginRelease(p, s)) /\ UNCHANGED supVars

SupNext ==
    \/ Timers \/ Dispatch
    \/ \E k \in Attempts : Push(k) \/ ChecksPass(k) \/ OwnerMerges(k)
    \/ \E p \in Clerks : CommandStep(p) \/ CommandCut(p)
    \/ \E p \in Clerks, s \in Scheds : OwnerIssues(p, s)
    \/ \E p \in Supervisors : Gating(p) \/ SupervisorDies(p)

\* The gate's steps end: the watch has a deadline, the probe a timeout.
SupFairness ==
    /\ \A s \in Scheds : WF_allVars(Systemd(s) /\ UNCHANGED supVars)
                         /\ WF_allVars(SlotComes(s) /\ UNCHANGED supVars)
    /\ \A p \in Clerks : WF_allVars(CommandStep(p))
    /\ \A p \in Supervisors : WF_allVars(Gating(p))

SupSpec == SupInit /\ [][SupNext]_allVars /\ SupFairness

-----------------------------------------------------------------------------
(* Properties.                                                             *)

SupTypeOK ==
    /\ AwayTypeOK
    /\ grant \in {"none", "verify", "merge"} /\ based \in BOOLEAN /\ attempts \in 0..MaxAttempts
    /\ pr \in [Attempts -> [state : {"none", "open", "merged"}, head : Heads,
                            by : {"nobody", "owner", "supervisor"}]]
    /\ ci \in [Attempts -> SUBSET Heads]
    /\ sup \in [Supervisors ->
          [pc : Verdicts \cup {"off", "dead", "resolved", "pinning", "watching", "green",
                               "probing", "merging", "closing", "halting"},
           by : {"none", "card", "session", "pr"}, k : 0..MaxAttempts, head : 0..MaxHead, probe : BOOLEAN,
           left : SUBSET Scheds, seen : SUBSET Scheds]]
    /\ shipped \in BOOLEAN /\ freed \subseteq Scheds

\* When a supervisor has escalated, no dispatch that builds on the failed card
\* and was pending is armed any more: it has been released since, or fired
\* before its halt, or a command on it was cut short.
AndonHolds ==
    \A p \in Supervisors : \A s \in sup[p].seen :
        sup[p].pc = "escalated" /\ s \notin freed \cup tangled => s \notin armed

\* Nothing is merged unattended without the owner's authority, a pinned base,
\* a probe, and green required checks on a head of that pull request.
MergedOnAuthority ==
    \A k \in Attempts : pr[k].by = "supervisor" =>
        /\ grant = "merge" /\ based
        /\ \E p \in Supervisors : /\ sup[p].k = k /\ sup[p].probe /\ sup[p].by # "pr"
                                  /\ sup[p].head \in ci[k]

\* A card is shipped only when one of its deliveries is in the base branch.
ShippedIsMerged == shipped => \E k \in Attempts : pr[k].state = "merged"

\* A supervisor comes to a verdict, whatever GitHub and the owner do.
ComesToVerdict ==
    \A p \in Supervisors : sup[p].pc # "off" ~> sup[p].pc \in Verdicts \cup {"dead"}

\* A delivery a supervisor merged is closed and its card shipped, unless the
\* supervisor dies in between: a second one takes the merge for done.
MergedIsShipped ==
    \A k \in Attempts :
        pr[k].by = "supervisor" ~> (shipped \/ \E p \in Supervisors : sup[p].pc = "dead")

\* What the documentation says of the merge: it is of the head that was
\* verified.
MergedWasVerified ==
    \A k \in Attempts : pr[k].by = "supervisor" =>
        \E p \in Supervisors : sup[p].k = k /\ sup[p].head = pr[k].head
=============================================================================
