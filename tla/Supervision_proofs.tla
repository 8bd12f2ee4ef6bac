-------------------------- MODULE Supervision_proofs --------------------------
(***************************************************************************)
(* What holds of the scheduled dispatches and of the supervisors, for any  *)
(* schedules, clerks, supervisors, cards and pull requests, and of the     *)
(* push of a batch, for any legs.  The first part is about AwaySchedule    *)
(* alone, the second about Supervision, the third about BatchSignal.       *)
(***************************************************************************)
EXTENDS Supervision, BatchSignal, FiniteSetTheorems, TLAPS

(* The timers.                                                             *)

\* A command is one of the four, at one of its steps.
CommandShaped(p) ==
    LET c == cmd[p] IN
    /\ c.op = "none" => c = Idle
    /\ c.op = "create" => c.on \in Scheds /\ c.pc \in UnitFiles \cup {"reload", "enable"}
    /\ c.op \in {"cancel", "halt", "release"} => c.on \in Scheds /\ c.pc \in {"systemctl", "files"}

\* A schedule is created once, by one command, and its slot comes after that.
CreatedOnce ==
    /\ \A p \in Clerks : cmd[p].op = "create" => fate[cmd[p].on] = "creating"
    /\ \A p, q \in Clerks : cmd[p].op = "create" /\ cmd[q].op = "create" /\ cmd[q].on = cmd[p].on => q = p
Unmade(s) ==
    /\ fate[s] \in {"new", "creating"} => s \notin due /\ ran[s] = 0 /\ stamp[s] # "late"
    /\ fate[s] = "creating" => \E p \in Clerks : cmd[p].op = "create" /\ cmd[p].on = s
    /\ fate[s] = "new" => /\ ~ Busy(s) /\ disk[s] = {}
                          /\ s \notin marked \cup armed \cup wanted

\* What has run is disarmed, and nothing arms it again: its stamp is from the
\* slot, or its units are gone for good.
Spent(s) ==
    /\ ran[s] <= 1
    /\ ran[s] > 0 => s \notin armed /\ (Listed(s) => stamp[s] = "late")
    /\ service[s] # "idle" => ran[s] > 0
    /\ fate[s] = "scheduled" /\ Listed(s) =>
          stamp[s] # "none" /\ (stamp[s] = "late" => ran[s] > 0)

\* A schedule whose commands were not cut and did not overlap.
Straight(s) ==
    s \notin tangled =>
        /\ \A p, q \in Clerks : cmd[p].on = s /\ cmd[q].on = s => p = q
        /\ fate[s] = "creating" => /\ s \notin marked \cup armed \cup wanted
                                   /\ \A p \in Clerks : cmd[p].on = s => cmd[p].op = "create"
        /\ fate[s] = "refused" /\ "timeout" \notin Faults =>
              disk[s] = {} /\ s \notin armed /\ ran[s] = 0 /\ ~ Busy(s)
        /\ "stuck" \notin Faults =>
              /\ s \in marked /\ ~ Releasing(s) => s \notin armed \cup wanted
              /\ \A p \in Clerks : /\ cmd[p].on = s /\ cmd[p].op = "halt" /\ cmd[p].pc = "files"
                                   => s \notin armed \cup wanted

AwayInv ==
    /\ AwayTypeOK
    /\ \A p \in Clerks : CommandShaped(p)
    /\ CreatedOnce
    /\ \A s \in Scheds : Unmade(s) /\ Spent(s) /\ Straight(s)

\* A command on a listed schedule begins, in whatever way it was asked for.
Opens(p, op, s) ==
    /\ cmd[p] = Idle /\ Listed(s) /\ issued' \in 0..MaxIssued
    /\ tangled' = IF Busy(s) THEN tangled \cup {s} ELSE tangled
    /\ cmd' = [cmd EXCEPT ![p] = [op |-> op, on |-> s, pc |-> "systemctl"]]
    /\ UNCHANGED <<units, systemd, machine, fate>>

\* A step that leaves t and its commands alone.
LEMMA StraightElsewhere ==
    ASSUME NEW t \in Scheds, Straight(t), disk'[t] = disk[t], fate'[t] = fate[t], ran'[t] = ran[t],
           t \in armed' <=> t \in armed, t \in wanted' <=> t \in wanted,
           t \in marked' <=> t \in marked, t \in tangled' <=> t \in tangled,
           \A q \in Clerks : cmd[q].on = t \/ cmd'[q].on = t => cmd'[q] = cmd[q]
    PROVE  Straight(t)'
BY DEF Straight, Busy, Releasing

-----------------------------------------------------------------------------
(* systemd, the slots and the machine.                                     *)

LEMMA FireKeeps == ASSUME AwayInv, NEW s \in Scheds, Fire(s) PROVE AwayInv'
<1> USE AwayAssumption DEF AwayInv, Fire, units, systemd, machine, records
<1>1. AwayTypeOK'
  BY DEF AwayTypeOK, UnitFiles
<1>2. ASSUME NEW q \in Clerks PROVE CommandShaped(q)'
  BY DEF AwayTypeOK, CommandShaped, Idle
<1>3. CreatedOnce'
  BY DEF AwayTypeOK, CommandShaped, CreatedOnce, Unmade, Busy
<1>4. ASSUME NEW t \in Scheds PROVE Unmade(t)'
  BY DEF AwayTypeOK, CommandShaped, CreatedOnce, Unmade, Busy, Listed
<1>5. ASSUME NEW t \in Scheds PROVE Spent(t)'
  BY DEF AwayTypeOK, CommandShaped, CreatedOnce, Unmade, Spent, Listed
<1>6. ASSUME NEW t \in Scheds PROVE Straight(t)'
  BY DEF AwayTypeOK, CommandShaped, CreatedOnce, Unmade, Spent, Straight, Busy, Listed, Releasing
<1> QED
  BY <1>1, <1>2, <1>3, <1>4, <1>5, <1>6

LEMMA LaunchesKeeps == ASSUME AwayInv, NEW s \in Scheds, Launches(s) PROVE AwayInv'
<1> USE AwayAssumption DEF AwayInv, Launches, units, systemd, machine, records
<1>1. AwayTypeOK'
  BY DEF AwayTypeOK, UnitFiles
<1>2. ASSUME NEW q \in Clerks PROVE CommandShaped(q)'
  BY DEF AwayTypeOK, CommandShaped, Idle
<1>3. CreatedOnce'
  BY DEF AwayTypeOK, CommandShaped, CreatedOnce, Unmade, Busy
<1>4. ASSUME NEW t \in Scheds PROVE Unmade(t)'
  BY DEF AwayTypeOK, CommandShaped, CreatedOnce, Unmade, Busy, Listed
<1>5. ASSUME NEW t \in Scheds PROVE Spent(t)'
  BY DEF AwayTypeOK, CommandShaped, CreatedOnce, Unmade, Spent, Listed
<1>6. ASSUME NEW t \in Scheds PROVE Straight(t)'
  BY DEF AwayTypeOK, CommandShaped, CreatedOnce, Unmade, Spent, Straight, Busy, Listed, Releasing
<1> QED
  BY <1>1, <1>2, <1>3, <1>4, <1>5, <1>6

LEMMA OnFailureKeeps == ASSUME AwayInv, NEW s \in Scheds, OnFailure(s) PROVE AwayInv'
<1> USE AwayAssumption DEF AwayInv, OnFailure, units, systemd, machine, records
<1>1. AwayTypeOK'
  BY DEF AwayTypeOK, UnitFiles
<1>2. ASSUME NEW q \in Clerks PROVE CommandShaped(q)'
  BY DEF AwayTypeOK, CommandShaped, Idle
<1>3. CreatedOnce'
  BY DEF AwayTypeOK, CommandShaped, CreatedOnce, Unmade, Busy
<1>4. ASSUME NEW t \in Scheds PROVE Unmade(t)'
  BY DEF AwayTypeOK, CommandShaped, CreatedOnce, Unmade, Busy, Listed
<1>5. ASSUME NEW t \in Scheds PROVE Spent(t)'
  BY DEF AwayTypeOK, CommandShaped, CreatedOnce, Unmade, Spent, Listed
<1>6. ASSUME NEW t \in Scheds PROVE Straight(t)'
  BY DEF AwayTypeOK, CommandShaped, CreatedOnce, Unmade, Spent, Straight, Busy, Listed, Releasing
<1> QED
  BY <1>1, <1>2, <1>3, <1>4, <1>5, <1>6

LEMMA SlotComesKeeps == ASSUME AwayInv, NEW s \in Scheds, SlotComes(s) PROVE AwayInv'
<1> USE AwayAssumption DEF AwayInv, SlotComes, units, systemd, machine, records
<1>1. AwayTypeOK'
  BY DEF AwayTypeOK, UnitFiles
<1>2. ASSUME NEW q \in Clerks PROVE CommandShaped(q)'
  BY DEF AwayTypeOK, CommandShaped, Idle
<1>3. CreatedOnce'
  BY DEF AwayTypeOK, CommandShaped, CreatedOnce, Unmade, Busy
<1>4. ASSUME NEW t \in Scheds PROVE Unmade(t)'
  BY DEF AwayTypeOK, CommandShaped, CreatedOnce, Unmade, Busy, Listed
<1>5. ASSUME NEW t \in Scheds PROVE Spent(t)'
  BY DEF AwayTypeOK, CommandShaped, CreatedOnce, Unmade, Spent, Listed
<1>6. ASSUME NEW t \in Scheds PROVE Straight(t)'
  BY DEF AwayTypeOK, CommandShaped, CreatedOnce, Unmade, Spent, Straight, Busy, Listed, Releasing
<1> QED
  BY <1>1, <1>2, <1>3, <1>4, <1>5, <1>6

LEMMA GoesDownKeeps == ASSUME AwayInv, GoesDown PROVE AwayInv'
<1> USE AwayAssumption DEF AwayInv, GoesDown, Cuts, Idle, units, systemd, machine, records
<1>1. AwayTypeOK'
  <2>1. disk' \in [Scheds -> SUBSET UnitFiles] /\ marked' \subseteq Scheds /\ wanted' \subseteq Scheds
    BY DEF AwayTypeOK, CommandShaped, UnitFiles
  <2>2. /\ armed' \subseteq Scheds /\ stamp' \in [Scheds -> {"none", "early", "late"}]
        /\ service' \in [Scheds -> {"idle", "running", "failed", "done"}]
        /\ ran' \in [Scheds -> Nat] /\ told' \subseteq Scheds /\ due' \subseteq Scheds
    BY DEF AwayTypeOK, CommandShaped
  <2>3. cmd' \in [Clerks ->
          [op : {"none", "create", "cancel", "halt", "release"}, on : Scheds \cup {"none"},
           pc : UnitFiles \cup {"reload", "enable", "systemctl", "files", "done"}]]
    BY DEF AwayTypeOK, CommandShaped, UnitFiles
  <2>4. fate' \in [Scheds -> {"new", "creating", "scheduled", "refused", "cancelled", "abandoned"}]
    BY DEF AwayTypeOK
  <2>5. tangled' \subseteq Scheds
    BY DEF AwayTypeOK
  <2>6. up' \in BOOLEAN
    OBVIOUS
  <2>7. crashes' \in 0..MaxCrashes /\ issued' \in 0..MaxIssued
    <3>1. crashes < MaxCrashes /\ crashes' = crashes + 1 /\ issued' = issued
      OBVIOUS
    <3>2. crashes \in 0..MaxCrashes /\ issued \in 0..MaxIssued /\ MaxCrashes \in Nat
      BY DEF AwayTypeOK
    <3> QED
      BY <3>1, <3>2
  <2> QED
    BY <2>1, <2>2, <2>3, <2>4, <2>5, <2>6, <2>7 DEF AwayTypeOK
<1>2. ASSUME NEW q \in Clerks PROVE CommandShaped(q)'
  BY DEF AwayTypeOK, CommandShaped, Idle
<1>3. CreatedOnce'
  BY DEF AwayTypeOK, CommandShaped, CreatedOnce, Unmade, Busy
<1>4. ASSUME NEW t \in Scheds PROVE Unmade(t)'
  BY DEF AwayTypeOK, CommandShaped, CreatedOnce, Unmade, Busy, Listed
<1>5. ASSUME NEW t \in Scheds PROVE Spent(t)'
  BY DEF AwayTypeOK, CommandShaped, CreatedOnce, Unmade, Spent, Listed
<1>6. ASSUME NEW t \in Scheds PROVE Straight(t)'
  BY DEF AwayTypeOK, CommandShaped, CreatedOnce, Unmade, Spent, Straight, Busy, Listed, Releasing
<1> QED
  BY <1>1, <1>2, <1>3, <1>4, <1>5, <1>6

LEMMA ComesUpKeeps == ASSUME AwayInv, ComesUp PROVE AwayInv'
<1> USE AwayAssumption DEF AwayInv, ComesUp, SlotLeft, units, systemd, machine, records
<1>1. AwayTypeOK'
  BY DEF AwayTypeOK, UnitFiles
<1>2. ASSUME NEW q \in Clerks PROVE CommandShaped(q)'
  BY DEF AwayTypeOK, CommandShaped, Idle
<1>3. CreatedOnce'
  BY DEF AwayTypeOK, CommandShaped, CreatedOnce, Unmade, Busy
<1>4. ASSUME NEW t \in Scheds PROVE Unmade(t)'
  BY DEF AwayTypeOK, CommandShaped, CreatedOnce, Unmade, Busy, Listed
<1>5. ASSUME NEW t \in Scheds PROVE Spent(t)'
  BY DEF AwayTypeOK, CommandShaped, CreatedOnce, Unmade, Spent, Listed
<1>6. ASSUME NEW t \in Scheds PROVE Straight(t)'
  BY DEF AwayTypeOK, CommandShaped, CreatedOnce, Unmade, Spent, Straight, Busy, Listed, Releasing
<1> QED
  BY <1>1, <1>2, <1>3, <1>4, <1>5, <1>6

-----------------------------------------------------------------------------
(* The commands, step by step.                                             *)

LEMMA BeginCreateKeeps ==
    ASSUME AwayInv, NEW p \in Clerks, NEW s \in Scheds, BeginCreate(p, s)
    PROVE  AwayInv'
<1> USE AwayAssumption DEF AwayInv, BeginCreate, Idle, units, systemd, machine, records
<1>1. AwayTypeOK'
  BY DEF AwayTypeOK, UnitFiles
<1>2. ASSUME NEW q \in Clerks PROVE CommandShaped(q)'
  <2>1. CASE q = p
    BY <2>1 DEF AwayTypeOK, CommandShaped, UnitFiles
  <2>2. CASE q # p
    BY <2>2 DEF AwayTypeOK, CommandShaped
  <2> QED
    BY <2>1, <2>2
<1>3. CreatedOnce'
  BY DEF AwayTypeOK, CommandShaped, CreatedOnce, Unmade, Busy
<1>4. ASSUME NEW t \in Scheds PROVE Unmade(t)'
  BY DEF AwayTypeOK, CommandShaped, CreatedOnce, Unmade, Busy, Listed
<1>5. ASSUME NEW t \in Scheds PROVE Spent(t)'
  BY DEF AwayTypeOK, CommandShaped, CreatedOnce, Unmade, Spent, Listed
<1>6. ASSUME NEW t \in Scheds PROVE Straight(t)'
  BY DEF AwayTypeOK, CommandShaped, CreatedOnce, Unmade, Spent, Straight, Busy, Listed, Releasing
<1> QED
  BY <1>1, <1>2, <1>3, <1>4, <1>5, <1>6

LEMMA WriteUnitKeeps == ASSUME AwayInv, NEW p \in Clerks, WriteUnit(p) PROVE AwayInv'
<1> USE AwayAssumption DEF AwayInv, WriteUnit, Steps, After, UnitFiles, units, systemd, machine,
   records
<1>1. AwayTypeOK'
  <2>1. disk' \in [Scheds -> SUBSET UnitFiles] /\ marked' \subseteq Scheds /\ wanted' \subseteq Scheds
    BY DEF AwayTypeOK, CommandShaped, UnitFiles
  <2>2. /\ armed' \subseteq Scheds /\ stamp' \in [Scheds -> {"none", "early", "late"}]
        /\ service' \in [Scheds -> {"idle", "running", "failed", "done"}]
        /\ ran' \in [Scheds -> Nat] /\ told' \subseteq Scheds /\ due' \subseteq Scheds
    BY DEF AwayTypeOK, CommandShaped
  <2>3. cmd' \in [Clerks ->
          [op : {"none", "create", "cancel", "halt", "release"}, on : Scheds \cup {"none"},
           pc : UnitFiles \cup {"reload", "enable", "systemctl", "files", "done"}]]
    BY DEF AwayTypeOK, CommandShaped, UnitFiles
  <2>4. /\ fate' \in [Scheds -> {"new", "creating", "scheduled", "refused", "cancelled", "abandoned"}]
        /\ tangled' \subseteq Scheds /\ up' \in BOOLEAN
        /\ crashes' \in 0..MaxCrashes /\ issued' \in 0..MaxIssued
    BY DEF AwayTypeOK, CommandShaped
  <2> QED
    BY <2>1, <2>2, <2>3, <2>4 DEF AwayTypeOK
<1>2. ASSUME NEW q \in Clerks PROVE CommandShaped(q)'
  BY DEF AwayTypeOK, CommandShaped, Idle
<1>3. CreatedOnce'
  BY DEF AwayTypeOK, CommandShaped, CreatedOnce, Unmade, Busy
<1>4. ASSUME NEW t \in Scheds PROVE Unmade(t)'
  BY DEF AwayTypeOK, CommandShaped, CreatedOnce, Unmade, Busy, Listed
<1>5. ASSUME NEW t \in Scheds PROVE Spent(t)'
  BY DEF AwayTypeOK, CommandShaped, CreatedOnce, Unmade, Spent, Listed
<1>6. ASSUME NEW t \in Scheds PROVE Straight(t)'
  BY DEF AwayTypeOK, CommandShaped, CreatedOnce, Unmade, Spent, Straight, Busy, Listed, Releasing
<1> QED
  BY <1>1, <1>2, <1>3, <1>4, <1>5, <1>6

LEMMA CreateReloadKeeps == ASSUME AwayInv, NEW p \in Clerks, CreateReload(p) PROVE AwayInv'
<1> USE AwayAssumption DEF AwayInv, CreateReload, At, Steps, Ends, Refuse, RemoveUnits, Idle,
   units, systemd, machine, records
<1>1. AwayTypeOK'
  BY SMTT(30) DEF AwayTypeOK, UnitFiles
<1>2. ASSUME NEW q \in Clerks PROVE CommandShaped(q)'
  BY DEF AwayTypeOK, CommandShaped, Idle
<1>3. CreatedOnce'
  <2>1. \A q \in Clerks \ {p} : cmd'[q] = cmd[q]
    BY DEF AwayTypeOK
  <2>2. \A q \in Clerks \ {p} : cmd[q].op = "create" => cmd[q].on # cmd[p].on
    BY DEF CreatedOnce
  <2>3. \/ cmd'[p].op = "none"
        \/ cmd'[p].op = "create" /\ cmd'[p].on = cmd[p].on /\ fate' = fate
    BY DEF AwayTypeOK
  <2>4. \A u \in Scheds \ {cmd[p].on} : fate'[u] = fate[u]
    BY DEF AwayTypeOK
  <2> QED
    BY <2>1, <2>2, <2>3, <2>4 DEF CreatedOnce, CommandShaped
<1>4. ASSUME NEW t \in Scheds PROVE Unmade(t)'
  BY SMTT(30) DEF AwayTypeOK, CommandShaped, CreatedOnce, Unmade, Busy, Listed
<1>5. ASSUME NEW t \in Scheds PROVE Spent(t)'
  BY DEF AwayTypeOK, CommandShaped, CreatedOnce, Unmade, Spent, Listed
<1>6. ASSUME NEW t \in Scheds PROVE Straight(t)'
  <2>1. CASE t = cmd[p].on
    <3>1. fate[t] = "creating" /\ ran[t] = 0
      BY <2>1 DEF CreatedOnce, Unmade
    <3>2. \A q \in Clerks \ {p} : cmd'[q] = cmd[q]
      BY DEF AwayTypeOK
    <3> QED
      BY <2>1, <3>1, <3>2 DEF AwayTypeOK, Straight, Busy, Listed, Releasing
  <2>2. CASE t # cmd[p].on
    <3>1. \A q \in Clerks : cmd[q].on = t \/ cmd'[q].on = t => cmd'[q] = cmd[q]
      BY <2>2 DEF AwayTypeOK
    <3>2. /\ disk'[t] = disk[t] /\ fate'[t] = fate[t] /\ ran'[t] = ran[t]
          /\ (t \in armed' <=> t \in armed) /\ (t \in wanted' <=> t \in wanted)
          /\ (t \in marked' <=> t \in marked) /\ (t \in tangled' <=> t \in tangled)
      BY <2>2 DEF AwayTypeOK
    <3> QED
      BY <3>1, <3>2, StraightElsewhere
  <2> QED
    BY <2>1, <2>2
<1> QED
  BY <1>1, <1>2, <1>3, <1>4, <1>5, <1>6

LEMMA CreateEnableKeeps == ASSUME AwayInv, NEW p \in Clerks, CreateEnable(p) PROVE AwayInv'
<1> USE AwayAssumption DEF AwayInv, CreateEnable, At, Ends, Refuse, RemoveUnits, Idle, EnableNow,
   Untouched, SlotLeft, units, systemd, machine, records
<1>1. AwayTypeOK'
  <2>1. disk' \in [Scheds -> SUBSET UnitFiles] /\ marked' \subseteq Scheds /\ wanted' \subseteq Scheds
    BY DEF AwayTypeOK, CommandShaped, UnitFiles
  <2>2. /\ armed' \subseteq Scheds /\ stamp' \in [Scheds -> {"none", "early", "late"}]
        /\ service' \in [Scheds -> {"idle", "running", "failed", "done"}]
        /\ ran' \in [Scheds -> Nat] /\ told' \subseteq Scheds /\ due' \subseteq Scheds
    BY DEF AwayTypeOK, CommandShaped
  <2>3. cmd' \in [Clerks ->
          [op : {"none", "create", "cancel", "halt", "release"}, on : Scheds \cup {"none"},
           pc : UnitFiles \cup {"reload", "enable", "systemctl", "files", "done"}]]
    BY DEF AwayTypeOK, CommandShaped, UnitFiles
  <2>4. /\ fate' \in [Scheds -> {"new", "creating", "scheduled", "refused", "cancelled", "abandoned"}]
        /\ tangled' \subseteq Scheds /\ up' \in BOOLEAN
        /\ crashes' \in 0..MaxCrashes /\ issued' \in 0..MaxIssued
    BY DEF AwayTypeOK, CommandShaped
  <2> QED
    BY <2>1, <2>2, <2>3, <2>4 DEF AwayTypeOK
<1>2. ASSUME NEW q \in Clerks PROVE CommandShaped(q)'
  BY DEF AwayTypeOK, CommandShaped, Idle
<1>3. CreatedOnce'
  BY SMTT(30) DEF AwayTypeOK, CommandShaped, CreatedOnce, Unmade, Busy
<1>4. ASSUME NEW t \in Scheds PROVE Unmade(t)'
  BY DEF AwayTypeOK, CommandShaped, CreatedOnce, Unmade, Busy, Listed
<1>5. ASSUME NEW t \in Scheds PROVE Spent(t)'
  BY DEF AwayTypeOK, CommandShaped, CreatedOnce, Unmade, Spent, Listed
<1>6. ASSUME NEW t \in Scheds PROVE Straight(t)'
  <2>1. CASE t = cmd[p].on
    <3>1. fate[t] = "creating" /\ ran[t] = 0
      BY <2>1 DEF CreatedOnce, Unmade
    <3>2. \A q \in Clerks \ {p} : cmd'[q] = cmd[q]
      BY DEF AwayTypeOK
    <3> QED
      BY <2>1, <3>1, <3>2 DEF AwayTypeOK, Straight, Busy, Listed, Releasing
  <2>2. CASE t # cmd[p].on
    <3>1. \A q \in Clerks : cmd[q].on = t \/ cmd'[q].on = t => cmd'[q] = cmd[q]
      BY <2>2 DEF AwayTypeOK
    <3>2. /\ disk'[t] = disk[t] /\ fate'[t] = fate[t] /\ ran'[t] = ran[t]
          /\ (t \in armed' <=> t \in armed) /\ (t \in wanted' <=> t \in wanted)
          /\ (t \in marked' <=> t \in marked) /\ (t \in tangled' <=> t \in tangled)
      BY <2>2 DEF AwayTypeOK
    <3> QED
      BY <3>1, <3>2, StraightElsewhere
  <2> QED
    BY <2>1, <2>2
<1> QED
  BY <1>1, <1>2, <1>3, <1>4, <1>5, <1>6

LEMMA OpensKeeps ==
    ASSUME AwayInv, NEW p \in Clerks, NEW op \in {"cancel", "halt", "release"}, NEW s \in
           Scheds, Opens(p, op, s)
    PROVE  AwayInv'
<1> USE AwayAssumption DEF AwayInv, Opens, Idle, units, systemd, machine, records
<1>1. AwayTypeOK'
  BY DEF AwayTypeOK, UnitFiles
<1>2. ASSUME NEW q \in Clerks PROVE CommandShaped(q)'
  BY DEF AwayTypeOK, CommandShaped, Idle
<1>3. CreatedOnce'
  BY DEF AwayTypeOK, CommandShaped, CreatedOnce, Unmade, Busy
<1>4. ASSUME NEW t \in Scheds PROVE Unmade(t)'
  BY DEF AwayTypeOK, CommandShaped, CreatedOnce, Unmade, Busy, Listed
<1>5. ASSUME NEW t \in Scheds PROVE Spent(t)'
  BY DEF AwayTypeOK, CommandShaped, CreatedOnce, Unmade, Spent, Listed
<1>6. ASSUME NEW t \in Scheds PROVE Straight(t)'
  <2>1. CASE t = s
    <3>1. /\ UNCHANGED <<fate, disk, ran, marked, armed, wanted>>
          /\ \A q \in Clerks \ {p} : cmd'[q] = cmd[q]
          /\ cmd'[p] = [op |-> op, on |-> s, pc |-> "systemctl"] /\ disk[s] # {}
      BY DEF AwayTypeOK, Listed
    <3>2. Busy(t) => t \in tangled'
      BY <2>1
    <3>3. fate[t] = "creating" => Busy(t)
      BY DEF Unmade, Busy
    <3> QED
      BY <2>1, <3>1, <3>2, <3>3 DEF Straight, Busy, Releasing
  <2>2. CASE t # s
    <3>1. \A q \in Clerks : cmd[q].on = t \/ cmd'[q].on = t => cmd'[q] = cmd[q]
      BY <2>2 DEF AwayTypeOK
    <3>2. /\ disk'[t] = disk[t] /\ fate'[t] = fate[t] /\ ran'[t] = ran[t]
          /\ (t \in armed' <=> t \in armed) /\ (t \in wanted' <=> t \in wanted)
          /\ (t \in marked' <=> t \in marked) /\ (t \in tangled' <=> t \in tangled)
      BY <2>2 DEF AwayTypeOK
    <3> QED
      BY <3>1, <3>2, StraightElsewhere
  <2> QED
    BY <2>1, <2>2
<1> QED
  BY <1>1, <1>2, <1>3, <1>4, <1>5, <1>6

LEMMA DisableKeeps ==
    ASSUME AwayInv, NEW p \in Clerks, NEW op \in {"cancel", "halt", "release"}, Disable(p, op)
    PROVE  AwayInv'
<1> USE AwayAssumption DEF AwayInv, Disable, At, Steps, Ends, Idle, DisableNow, Untouched, units,
   systemd, machine, records
<1>1. AwayTypeOK'
  <2>1. disk' \in [Scheds -> SUBSET UnitFiles] /\ marked' \subseteq Scheds /\ wanted' \subseteq Scheds
    BY DEF AwayTypeOK, CommandShaped, UnitFiles
  <2>2. /\ armed' \subseteq Scheds /\ stamp' \in [Scheds -> {"none", "early", "late"}]
        /\ service' \in [Scheds -> {"idle", "running", "failed", "done"}]
        /\ ran' \in [Scheds -> Nat] /\ told' \subseteq Scheds /\ due' \subseteq Scheds
    BY DEF AwayTypeOK, CommandShaped
  <2>3. cmd' \in [Clerks ->
          [op : {"none", "create", "cancel", "halt", "release"}, on : Scheds \cup {"none"},
           pc : UnitFiles \cup {"reload", "enable", "systemctl", "files", "done"}]]
    BY DEF AwayTypeOK, CommandShaped, UnitFiles
  <2>4. /\ fate' \in [Scheds -> {"new", "creating", "scheduled", "refused", "cancelled", "abandoned"}]
        /\ tangled' \subseteq Scheds /\ up' \in BOOLEAN
        /\ crashes' \in 0..MaxCrashes /\ issued' \in 0..MaxIssued
    BY DEF AwayTypeOK, CommandShaped
  <2> QED
    BY <2>1, <2>2, <2>3, <2>4 DEF AwayTypeOK
<1>2. ASSUME NEW q \in Clerks PROVE CommandShaped(q)'
  BY SMTT(30) DEF AwayTypeOK, CommandShaped, Idle
<1>3. CreatedOnce'
  <2>1. \A q \in Clerks : cmd'[q].op = "create" => cmd'[q] = cmd[q]
    BY DEF AwayTypeOK
  <2>2. fate' = fate
    OBVIOUS
  <2> QED
    BY <2>1, <2>2 DEF CreatedOnce
<1>4. ASSUME NEW t \in Scheds PROVE Unmade(t)'
  BY DEF AwayTypeOK, CommandShaped, CreatedOnce, Unmade, Busy, Listed
<1>5. ASSUME NEW t \in Scheds PROVE Spent(t)'
  BY DEF AwayTypeOK, CommandShaped, CreatedOnce, Unmade, Spent, Listed
<1>6. ASSUME NEW t \in Scheds PROVE Straight(t)'
  <2>1. CASE t = cmd[p].on
    BY <2>1 DEF AwayTypeOK, CommandShaped, CreatedOnce, Spent, Straight, Busy, Listed, Releasing
  <2>2. CASE t # cmd[p].on
    <3>1. \A q \in Clerks : cmd[q].on = t \/ cmd'[q].on = t => cmd'[q] = cmd[q]
      BY <2>2 DEF AwayTypeOK
    <3>2. /\ disk'[t] = disk[t] /\ fate'[t] = fate[t] /\ ran'[t] = ran[t]
          /\ (t \in armed' <=> t \in armed) /\ (t \in wanted' <=> t \in wanted)
          /\ (t \in marked' <=> t \in marked) /\ (t \in tangled' <=> t \in tangled)
      BY <2>2 DEF AwayTypeOK
    <3> QED
      BY <3>1, <3>2, StraightElsewhere
  <2> QED
    BY <2>1, <2>2
<1> QED
  BY <1>1, <1>2, <1>3, <1>4, <1>5, <1>6

LEMMA CancelRemoveKeeps == ASSUME AwayInv, NEW p \in Clerks, CancelRemove(p) PROVE AwayInv'
<1> USE AwayAssumption DEF AwayInv, CancelRemove, At, RemoveUnits, Ends, Idle, units, systemd,
   machine, records
<1>1. AwayTypeOK'
  BY DEF AwayTypeOK, UnitFiles
<1>2. ASSUME NEW q \in Clerks PROVE CommandShaped(q)'
  BY DEF AwayTypeOK, CommandShaped, Idle
<1>3. CreatedOnce'
  BY DEF AwayTypeOK, CommandShaped, CreatedOnce, Unmade, Busy
<1>4. ASSUME NEW t \in Scheds PROVE Unmade(t)'
  BY DEF AwayTypeOK, CommandShaped, CreatedOnce, Unmade, Busy, Listed
<1>5. ASSUME NEW t \in Scheds PROVE Spent(t)'
  BY DEF AwayTypeOK, CommandShaped, CreatedOnce, Unmade, Spent, Listed
<1>6. ASSUME NEW t \in Scheds PROVE Straight(t)'
  BY DEF AwayTypeOK, CommandShaped, CreatedOnce, Unmade, Spent, Straight, Busy, Listed, Releasing
<1> QED
  BY <1>1, <1>2, <1>3, <1>4, <1>5, <1>6

LEMMA HaltMarkKeeps == ASSUME AwayInv, NEW p \in Clerks, HaltMark(p) PROVE AwayInv'
<1> USE AwayAssumption DEF AwayInv, HaltMark, At, Ends, Idle, units, systemd, machine, records
<1>1. AwayTypeOK'
  <2>1. disk' \in [Scheds -> SUBSET UnitFiles] /\ marked' \subseteq Scheds /\ wanted' \subseteq Scheds
    BY DEF AwayTypeOK, CommandShaped, UnitFiles
  <2>2. /\ armed' \subseteq Scheds /\ stamp' \in [Scheds -> {"none", "early", "late"}]
        /\ service' \in [Scheds -> {"idle", "running", "failed", "done"}]
        /\ ran' \in [Scheds -> Nat] /\ told' \subseteq Scheds /\ due' \subseteq Scheds
    BY DEF AwayTypeOK, CommandShaped
  <2>3. cmd' \in [Clerks ->
          [op : {"none", "create", "cancel", "halt", "release"}, on : Scheds \cup {"none"},
           pc : UnitFiles \cup {"reload", "enable", "systemctl", "files", "done"}]]
    BY DEF AwayTypeOK, CommandShaped, UnitFiles
  <2>4. /\ fate' \in [Scheds -> {"new", "creating", "scheduled", "refused", "cancelled", "abandoned"}]
        /\ tangled' \subseteq Scheds /\ up' \in BOOLEAN
        /\ crashes' \in 0..MaxCrashes /\ issued' \in 0..MaxIssued
    BY DEF AwayTypeOK, CommandShaped
  <2> QED
    BY <2>1, <2>2, <2>3, <2>4 DEF AwayTypeOK
<1>2. ASSUME NEW q \in Clerks PROVE CommandShaped(q)'
  BY DEF AwayTypeOK, CommandShaped, Idle
<1>3. CreatedOnce'
  BY DEF AwayTypeOK, CommandShaped, CreatedOnce, Unmade, Busy
<1>4. ASSUME NEW t \in Scheds PROVE Unmade(t)'
  BY DEF AwayTypeOK, CommandShaped, CreatedOnce, Unmade, Busy, Listed
<1>5. ASSUME NEW t \in Scheds PROVE Spent(t)'
  BY DEF AwayTypeOK, CommandShaped, CreatedOnce, Unmade, Spent, Listed
<1>6. ASSUME NEW t \in Scheds PROVE Straight(t)'
  BY DEF AwayTypeOK, CommandShaped, CreatedOnce, Unmade, Spent, Straight, Busy, Listed, Releasing
<1> QED
  BY <1>1, <1>2, <1>3, <1>4, <1>5, <1>6

LEMMA ReleaseEnableKeeps == ASSUME AwayInv, NEW p \in Clerks, ReleaseEnable(p) PROVE AwayInv'
<1> USE AwayAssumption DEF AwayInv, ReleaseEnable, At, Steps, Ends, Idle, EnableNow, Untouched,
   SlotLeft, units, systemd, machine, records
<1>1. AwayTypeOK'
  <2>1. disk' \in [Scheds -> SUBSET UnitFiles] /\ marked' \subseteq Scheds /\ wanted' \subseteq Scheds
    BY DEF AwayTypeOK, CommandShaped, UnitFiles
  <2>2. /\ armed' \subseteq Scheds /\ stamp' \in [Scheds -> {"none", "early", "late"}]
        /\ service' \in [Scheds -> {"idle", "running", "failed", "done"}]
        /\ ran' \in [Scheds -> Nat] /\ told' \subseteq Scheds /\ due' \subseteq Scheds
    BY DEF AwayTypeOK, CommandShaped
  <2>3. cmd' \in [Clerks ->
          [op : {"none", "create", "cancel", "halt", "release"}, on : Scheds \cup {"none"},
           pc : UnitFiles \cup {"reload", "enable", "systemctl", "files", "done"}]]
    BY DEF AwayTypeOK, CommandShaped, UnitFiles
  <2>4. /\ fate' \in [Scheds -> {"new", "creating", "scheduled", "refused", "cancelled", "abandoned"}]
        /\ tangled' \subseteq Scheds /\ up' \in BOOLEAN
        /\ crashes' \in 0..MaxCrashes /\ issued' \in 0..MaxIssued
    BY DEF AwayTypeOK, CommandShaped
  <2> QED
    BY <2>1, <2>2, <2>3, <2>4 DEF AwayTypeOK
<1>2. ASSUME NEW q \in Clerks PROVE CommandShaped(q)'
  BY DEF AwayTypeOK, CommandShaped, Idle
<1>3. CreatedOnce'
  <2>1. \A q \in Clerks : cmd'[q].op = "create" => cmd'[q] = cmd[q]
    BY DEF AwayTypeOK
  <2>2. fate' = fate
    OBVIOUS
  <2> QED
    BY <2>1, <2>2 DEF CreatedOnce
<1>4. ASSUME NEW t \in Scheds PROVE Unmade(t)'
  BY DEF AwayTypeOK, CommandShaped, CreatedOnce, Unmade, Busy, Listed
<1>5. ASSUME NEW t \in Scheds PROVE Spent(t)'
  BY DEF AwayTypeOK, CommandShaped, CreatedOnce, Unmade, Spent, Listed
<1>6. ASSUME NEW t \in Scheds PROVE Straight(t)'
  <2>1. CASE t = cmd[p].on
    <3>1. /\ fate' = fate /\ disk' = disk /\ ran' = ran /\ marked' = marked
          /\ \A q \in Clerks \ {p} : cmd'[q] = cmd[q]
      BY DEF AwayTypeOK
    <3>2. \/ cmd'[p].on = t /\ cmd'[p].op = "release" /\ tangled' = tangled
          \/ t \in tangled'
      BY <2>1 DEF AwayTypeOK
    <3>3. cmd[p].on = t /\ cmd[p].op = "release"
      BY <2>1
    <3> HIDE DEF ReleaseEnable
    <3>4. CASE t \notin tangled'
      <4>1. t \notin tangled /\ cmd'[p].on = t /\ cmd'[p].op = "release"
        BY <3>2, <3>4
      <4>2. \A q \in Clerks : cmd[q].on = t => q = p
        BY <3>3, <4>1 DEF Straight
      <4>3. fate[t] # "creating" /\ Releasing(t)' /\ Busy(t)
        BY <3>3, <4>1 DEF Straight, Releasing, Busy
      <4>4. "timeout" \notin Faults => fate[t] # "refused"
        BY <4>1, <4>3 DEF Straight
      <4>5. \A q \in Clerks : cmd'[q].on = t => q = p
        BY <3>1, <4>2
      <4> QED
        BY <3>1, <4>1, <4>3, <4>4, <4>5 DEF Straight
    <3> QED
      BY <3>4 DEF Straight
  <2>2. CASE t # cmd[p].on
    <3>1. \A q \in Clerks : cmd[q].on = t \/ cmd'[q].on = t => cmd'[q] = cmd[q]
      BY <2>2 DEF AwayTypeOK
    <3>2. /\ disk'[t] = disk[t] /\ fate'[t] = fate[t] /\ ran'[t] = ran[t]
          /\ (t \in armed' <=> t \in armed) /\ (t \in wanted' <=> t \in wanted)
          /\ (t \in marked' <=> t \in marked) /\ (t \in tangled' <=> t \in tangled)
      BY <2>2 DEF AwayTypeOK
    <3> QED
      BY <3>1, <3>2, StraightElsewhere
  <2> QED
    BY <2>1, <2>2
<1> QED
  BY <1>1, <1>2, <1>3, <1>4, <1>5, <1>6

LEMMA ReleaseUnmarkKeeps == ASSUME AwayInv, NEW p \in Clerks, ReleaseUnmark(p) PROVE AwayInv'
<1> USE AwayAssumption DEF AwayInv, ReleaseUnmark, At, Ends, Idle, units, systemd, machine,
   records
<1>1. AwayTypeOK'
  BY DEF AwayTypeOK, UnitFiles
<1>2. ASSUME NEW q \in Clerks PROVE CommandShaped(q)'
  BY DEF AwayTypeOK, CommandShaped, Idle
<1>3. CreatedOnce'
  BY DEF AwayTypeOK, CommandShaped, CreatedOnce, Unmade, Busy
<1>4. ASSUME NEW t \in Scheds PROVE Unmade(t)'
  BY DEF AwayTypeOK, CommandShaped, CreatedOnce, Unmade, Busy, Listed
<1>5. ASSUME NEW t \in Scheds PROVE Spent(t)'
  BY DEF AwayTypeOK, CommandShaped, CreatedOnce, Unmade, Spent, Listed
<1>6. ASSUME NEW t \in Scheds PROVE Straight(t)'
  BY DEF AwayTypeOK, CommandShaped, CreatedOnce, Unmade, Spent, Straight, Busy, Listed, Releasing
<1> QED
  BY <1>1, <1>2, <1>3, <1>4, <1>5, <1>6

LEMMA CommandDiesKeeps == ASSUME AwayInv, NEW p \in Clerks, CommandDies(p) PROVE AwayInv'
<1> USE AwayAssumption DEF AwayInv, CommandDies, Ends, Cuts, Idle, units, systemd, machine,
   records
<1>1. AwayTypeOK'
  BY DEF AwayTypeOK, UnitFiles
<1>2. ASSUME NEW q \in Clerks PROVE CommandShaped(q)'
  BY DEF AwayTypeOK, CommandShaped, Idle
<1>3. CreatedOnce'
  BY DEF AwayTypeOK, CommandShaped, CreatedOnce, Unmade, Busy
<1>4. ASSUME NEW t \in Scheds PROVE Unmade(t)'
  BY DEF AwayTypeOK, CommandShaped, CreatedOnce, Unmade, Busy, Listed
<1>5. ASSUME NEW t \in Scheds PROVE Spent(t)'
  BY DEF AwayTypeOK, CommandShaped, CreatedOnce, Unmade, Spent, Listed
<1>6. ASSUME NEW t \in Scheds PROVE Straight(t)'
  BY DEF AwayTypeOK, CommandShaped, CreatedOnce, Unmade, Spent, Straight, Busy, Listed, Releasing
<1> QED
  BY <1>1, <1>2, <1>3, <1>4, <1>5, <1>6

LEMMA BeginKeeps ==
    ASSUME AwayInv, NEW p \in Clerks, NEW s \in Scheds,
           BeginCancel(p, s) \/ BeginHalt(p, s) \/ BeginRelease(p, s)
    PROVE  AwayInv'
<1>1. PICK op \in {"cancel", "halt", "release"} : Begin(p, op, s)
  BY DEF BeginCancel, BeginHalt, BeginRelease
<1>2. issued' \in 0..MaxIssued
  BY <1>1, AwayAssumption DEF Begin, AwayInv, AwayTypeOK
<1>3. Opens(p, op, s)
  BY <1>1, <1>2 DEF Begin, Opens, records
<1> QED
  BY <1>3, OpensKeeps

LEMMA CommandKeeps == ASSUME AwayInv, NEW p \in Clerks, Command(p) PROVE AwayInv'
BY WriteUnitKeeps, CreateReloadKeeps, CreateEnableKeeps, DisableKeeps, CancelRemoveKeeps,
   HaltMarkKeeps, ReleaseEnableKeeps, ReleaseUnmarkKeeps DEF Command

LEMMA AwayStutter == ASSUME AwayInv, UNCHANGED awayVars PROVE AwayInv'
<1> USE DEF awayVars, units, systemd, machine, records
<1>1. AwayTypeOK'
  BY DEF AwayInv, AwayTypeOK
<1>2. (\A p \in Clerks : CommandShaped(p)') /\ CreatedOnce'
  BY DEF AwayInv, CommandShaped, CreatedOnce
<1>3. \A s \in Scheds : Unmade(s)' /\ Spent(s)'
  BY DEF AwayInv, Unmade, Spent, Busy, Listed
<1>4. \A s \in Scheds : Straight(s)'
  BY DEF AwayInv, Straight, Busy, Releasing
<1> QED
  BY <1>1, <1>2, <1>3, <1>4 DEF AwayInv

-----------------------------------------------------------------------------
(* The theorems about the timers.                                          *)

LEMMA AwayInvInit == AwayInit => AwayInv
<1> SUFFICES ASSUME AwayInit PROVE AwayInv
  OBVIOUS
<1> USE AwayAssumption DEF AwayInit, Idle
<1>1. AwayTypeOK
  BY DEF AwayTypeOK
<1>2. (\A p \in Clerks : CommandShaped(p)) /\ CreatedOnce
  BY DEF CommandShaped, CreatedOnce
<1>3. \A s \in Scheds : Unmade(s) /\ Spent(s)
  BY DEF Unmade, Spent, Busy, Listed
<1>4. \A s \in Scheds : Straight(s)
  BY DEF Straight, Busy
<1> QED
  BY <1>1, <1>2, <1>3, <1>4 DEF AwayInv

LEMMA AwayInvNext == AwayInv /\ [AwayNext]_awayVars => AwayInv'
<1> SUFFICES ASSUME AwayInv, [AwayNext]_awayVars PROVE AwayInv'
  OBVIOUS
<1>1. CASE GoesDown \/ ComesUp
  BY <1>1, GoesDownKeeps, ComesUpKeeps
<1>2. ASSUME NEW s \in Scheds, Systemd(s) \/ SlotComes(s) PROVE AwayInv'
  BY <1>2, FireKeeps, LaunchesKeeps, OnFailureKeeps, SlotComesKeeps DEF Systemd
<1>3. ASSUME NEW p \in Clerks, Command(p) \/ CommandDies(p) PROVE AwayInv'
  BY <1>3, CommandKeeps, CommandDiesKeeps
<1>4. ASSUME NEW p \in Clerks, NEW s \in Scheds,
             BeginCreate(p, s) \/ BeginCancel(p, s) \/ BeginHalt(p, s) \/ BeginRelease(p, s)
      PROVE  AwayInv'
  BY <1>4, BeginCreateKeeps, BeginKeeps
<1>5. CASE UNCHANGED awayVars
  BY <1>5, AwayStutter
<1> QED
  BY <1>1, <1>2, <1>3, <1>4, <1>5 DEF AwayNext

\* The strengthening for the timers: a schedule is created once, what has run
\* is disarmed for good, and what was marked is neither armed nor linked.
THEOREM AwayInvariant == AwaySpec => []AwayInv
<1> QED
  BY AwayInvInit, AwayInvNext, PTL DEF AwaySpec

\* The units, the stamps, systemd's memory and the commands keep their types.
THEOREM AwayTypeCorrect == AwaySpec => []AwayTypeOK
<1>1. AwayInv => AwayTypeOK
  BY DEF AwayInv
<1> QED
  BY <1>1, AwayInvariant, PTL

LEMMA SpentAsShown == AwayInv => FiredOnceAsShown
<1> SUFFICES ASSUME AwayInv, NEW s \in Scheds
             PROVE  /\ ran[s] <= 1
                    /\ fate[s] = "scheduled" /\ Listed(s) /\ s \notin tangled \cup marked
                          => (Shown(s) = "fired" <=> ran[s] = 1)
  BY DEF FiredOnceAsShown, FiresOnce, ShownFiredHasRun
<1>1. Spent(s) /\ ran[s] \in Nat
  BY DEF AwayInv, AwayTypeOK
<1>2. ASSUME fate[s] = "scheduled", Listed(s), s \notin marked
      PROVE  Shown(s) = "fired" <=> ran[s] = 1
  <2>1. Shown(s) = "fired" <=> s \notin armed /\ (stamp[s] = "late" \/ service[s] # "idle")
    BY <1>2 DEF Shown
  <2> QED
    BY <1>1, <1>2, <2>1 DEF Spent
<1> QED
  BY <1>1, <1>2 DEF Spent

\* Whatever fails, dies or reboots, and however the commands overlap: a
\* schedule fires once, and the list shows it as fired exactly when it has.
THEOREM FiredOnce == AwaySpec => []FiredOnceAsShown
<1> QED
  BY SpentAsShown, AwayInvariant, PTL

\* A creation that systemd refuses leaves nothing behind.  (One that systemctl
\* does not answer in time is not undone.)
THEOREM RefusalIsClean == ASSUME "timeout" \notin Faults PROVE AwaySpec => []RefusedLeavesNothing
<1>1. AwayInv => RefusedLeavesNothing
  BY DEF AwayInv, Straight, RefusedLeavesNothing
<1> QED
  BY <1>1, AwayInvariant, PTL

\* What is marked does not fire, unless it is being released or a command on it
\* was cut or overlapped, as long as disable does what it says: its return code
\* is not read.
THEOREM HaltedStaysDown == ASSUME "stuck" \notin Faults PROVE AwaySpec => HaltedNeverFires
<1> DEFINE FiresUnmarked == \A s \in Scheds :
                               ran'[s] # ran[s] /\ s \in marked => Releasing(s) \/ s \in tangled
<1>1. ASSUME AwayInv, [AwayNext]_awayVars PROVE [FiresUnmarked]_awayVars
  <2>1. ASSUME NEW s \in Scheds, ran'[s] # ran[s] PROVE s \in armed
    <3>1. CASE GoesDown \/ ComesUp
      BY <2>1, <3>1 DEF GoesDown, ComesUp
    <3>2. ASSUME NEW t \in Scheds, Systemd(t) \/ SlotComes(t) PROVE s \in armed
      BY <1>1, <2>1, <3>2 DEF Systemd, Fire, Launches, OnFailure, SlotComes, systemd, AwayInv,
         AwayTypeOK
    <3>3. ASSUME NEW p \in Clerks, Command(p) \/ CommandDies(p) PROVE s \in armed
      BY <2>1, <3>3 DEF Command, CommandDies, WriteUnit, CreateReload, CreateEnable, Disable,
         CancelRemove, HaltMark, ReleaseEnable, ReleaseUnmark, systemd
    <3>4. ASSUME NEW p \in Clerks, NEW t \in Scheds,
                 BeginCreate(p, t) \/ BeginCancel(p, t) \/ BeginHalt(p, t) \/ BeginRelease(p, t)
          PROVE  s \in armed
      BY <2>1, <3>4 DEF BeginCreate, BeginCancel, BeginHalt, BeginRelease, Begin, systemd
    <3>5. CASE UNCHANGED awayVars
      BY <2>1, <3>5 DEF awayVars, systemd
    <3> QED
      BY <1>1, <3>1, <3>2, <3>3, <3>4, <3>5 DEF AwayNext
  <2> QED
    BY <1>1, <2>1 DEF AwayInv, Straight
<1>2. [AwayNext]_awayVars /\ AwayInv => [FiresUnmarked]_awayVars
  BY <1>1
<1>3. AwaySpec => [][FiresUnmarked]_awayVars
  BY <1>2, AwayInvariant, PTL DEF AwaySpec
<1> QED
  BY <1>3 DEF HaltedNeverFires

-----------------------------------------------------------------------------
(* The supervisors.                                                        *)

\* Nothing has armed s but a release the owner gave, or a cut or overlapping
\* command.
Disarmed(s) == s \in armed => s \in freed \cup tangled

\* A command leaves the timer it disabled alone, and only a listed one is armed.
DisarmedBehind ==
    /\ \A p \in Clerks : cmd[p].op \in {"cancel", "halt"} /\ cmd[p].pc = "files" => Disarmed(cmd[p].on)
    /\ \A s \in Scheds : ~ Listed(s) => Disarmed(s)

\* A supervisor's commands are its halts.
HaltsOnly(p) == cmd[p] # Idle => sup[p].pc = "halting" /\ cmd[p].op = "halt"

\* What it saw pending it still has to halt, is halting, or is disarmed.
Halted(p, s) == \/ s \in sup[p].left \/ Disarmed(s)
                \/ cmd[p].op = "halt" /\ cmd[p].on = s /\ cmd[p].pc = "systemctl"
SeenHalted(p) ==
    /\ sup[p].pc = "halting" => \A s \in sup[p].seen : Halted(p, s)
    /\ sup[p].pc = "escalated" => \A s \in sup[p].seen : Disarmed(s)

\* A supervisor past the gate had what it needs to merge, and keeps it.
Before == {"off", "resolved", "pinning", "watching", "green"}
Beyond == {"probing", "merging", "closing", "merged"}
Proven(r) == /\ grant = "merge" /\ based /\ r.by # "pr"
             /\ r.k \in Attempts /\ r.head \in ci[r.k]
GatePassed(r) ==
    /\ r.pc \in Before \ {"off"} => r.k \in Attempts
    /\ r.pc = "green" => r.head \in ci[r.k]
    /\ r.pc \in Before => ~ r.probe
    /\ r.pc \in Beyond => r.probe
    /\ r.probe => Proven(r)
    /\ r.pc = "closing" => pr[r.k].state = "merged"

SupInv ==
    /\ AwayInv /\ SupTypeOK
    /\ \A p \in Clerks : cmd[p].op # "create"
    /\ \A p \in Supervisors : HaltsOnly(p) /\ GatePassed(sup[p])
    /\ MergedOnAuthority /\ ShippedIsMerged
    /\ "stuck" \notin Faults => DisarmedBehind /\ \A p \in Supervisors : SeenHalted(p)

SupStates == [pc : Verdicts \cup {"off", "dead", "resolved", "pinning", "watching", "green",
                                  "probing", "merging", "closing", "halting"},
              by : {"none", "card", "session", "pr"}, k : 0..MaxAttempts, head : 0..MaxHead,
              probe : BOOLEAN, left : SUBSET Scheds, seen : SUBSET Scheds]
PRs == [state : {"none", "open", "merged"}, head : Heads, by : {"nobody", "owner", "supervisor"}]

-----------------------------------------------------------------------------
(* A chain of dependencies ends in a card the closure contains.            *)

\* A set of naturals with 0 and every successor in it has all of them: else
\* the successor would map an interval into itself less 0.
LEMMA NatSetInduction ==
    ASSUME NEW T, 0 \in T, \A n \in Nat \cap T : n + 1 \in T
    PROVE  Nat \subseteq T
<1> SUFFICES ASSUME NEW n \in Nat, n \notin T PROVE FALSE
  OBVIOUS
<1> DEFINE S == T \cap (0..n)
           f == [k \in S |-> k + 1]
<1>1. IsFiniteSet(S) /\ 0 \in S
  <2>1. IsFiniteSet(0..n)
    BY FS_Interval
  <2> QED
    BY <2>1, FS_Subset
<1>2. \A k \in S : k + 1 \in S \ {0}
  OBVIOUS
<1>3. f \in [S -> S \ {0}]
  BY <1>2
<1>4. /\ IsFiniteSet(S \ {0}) /\ Cardinality(S) \in Nat
      /\ Cardinality(S \ {0}) = Cardinality(S) - 1
  BY <1>1, FS_RemoveElement, FS_CardinalityType
<1>5. \E x, y \in S : x # y /\ f[x] = f[y]
  <2>1. Cardinality(S \ {0}) < Cardinality(S)
    BY <1>4
  <2> HIDE DEF S, f
  <2> QED
    BY <2>1, <1>1, <1>3, <1>4, FS_PigeonHole
<1> QED
  BY <1>5

LEMMA ChainedDepends == ASSUME NEW c, Chained(c) PROVE c \in Dependents(Base)
<1> USE SupervisionAssumption
<1>0. PICK n \in 1..Cardinality(Cards) : \E chain \in [0..n -> Cards] :
         /\ chain[0] = Base /\ chain[n] = c
         /\ \A i \in 1..n : chain[i - 1] \in DependsOn[chain[i]]
  BY DEF Chained
<1>1. PICK chain \in [0..n -> Cards] :
         /\ chain[0] = Base /\ chain[n] = c
         /\ \A i \in 1..n : chain[i - 1] \in DependsOn[chain[i]]
  BY <1>0
<1>2. n \in Nat /\ 1 <= n
  BY <1>0, FS_CardinalityType
<1>3. SUFFICES ASSUME NEW C \in SUBSET Cards, ClosedOver(Base, C) PROVE c \in C
  BY <1>1, <1>2 DEF Dependents
<1> DEFINE T == {i \in Nat : i \in 1..n => chain[i] \in C}
<1>4. ASSUME NEW i \in Nat \cap T PROVE i + 1 \in T
  <2>1. SUFFICES ASSUME i + 1 \in 1..n PROVE chain[i + 1] \in C
    OBVIOUS
  <2>2. chain[i] \in C \cup {Base}
    BY <1>1, <2>1
  <2>3. chain[i] \in DependsOn[chain[i + 1]] /\ chain[i + 1] \in Cards
    BY <1>1, <2>1
  <2> QED
    BY <1>3, <2>2, <2>3 DEF ClosedOver
<1>5. Nat \subseteq T
  <2>1. 0 \in T
    OBVIOUS
  <2> HIDE DEF T
  <2> QED
    BY <1>4, <2>1, NatSetInduction
<1> QED
  BY <1>1, <1>2, <1>5

\* What should be halted is what is: so nothing an escalation saw is left out.
LEMMA PendingHalted == Pending \subseteq ToHalt
BY ChainedDepends DEF Pending, ToHalt

-----------------------------------------------------------------------------
(* The world, the gate, and the commands.                                  *)

\* A step that leaves the supervisors and the timers alone, takes no merge back
\* and merges nothing for a supervisor.
LEMMA WorldKeeps ==
    ASSUME SupInv, UNCHANGED <<awayVars, origin, sup, shipped, freed>>,
           attempts' \in 0..MaxAttempts, pr' \in [Attempts -> PRs], ci' \in [Attempts -> SUBSET Heads],
           \A k \in Attempts : /\ pr[k].state = "merged" => pr'[k].state = "merged"
                               /\ pr'[k].by = "supervisor" => pr[k].by = "supervisor"
                               /\ ci[k] \subseteq ci'[k]
    PROVE  SupInv'
<1> USE DEF SupInv, origin
<1>1. AwayInv'
  BY AwayStutter
<1>2. SupTypeOK'
  BY <1>1 DEF SupTypeOK, AwayInv, PRs
<1>3. \A p \in Supervisors : GatePassed(sup[p])'
  BY DEF GatePassed, Proven, Before, Beyond
<1>4. MergedOnAuthority'
  BY DEF MergedOnAuthority
<1>5. ShippedIsMerged'
  BY DEF ShippedIsMerged
<1>6. UNCHANGED <<cmd, armed, disk, tangled, freed, sup>>
  BY DEF awayVars, units, systemd, records
<1>7. \A p \in Clerks : cmd'[p].op # "create"
  BY <1>6
<1>8. \A p \in Supervisors : HaltsOnly(p)' /\ (SeenHalted(p) => SeenHalted(p)')
  BY <1>6 DEF HaltsOnly, SeenHalted, Halted, Disarmed
<1>9. DisarmedBehind => DisarmedBehind'
  BY <1>6 DEF DisarmedBehind, Disarmed, Listed
<1> QED
  BY <1>1, <1>2, <1>3, <1>4, <1>5, <1>7, <1>8, <1>9

LEMMA WorldHolds ==
    ASSUME SupInv, Dispatch \/ \E k \in Attempts : Push(k) \/ ChecksPass(k) \/ OwnerMerges(k)
    PROVE  SupInv'
<1> USE SupervisionAssumption DEF github, origin
<1>0. /\ attempts \in 0..MaxAttempts /\ pr \in [Attempts -> PRs] /\ ci \in [Attempts -> SUBSET Heads]
  BY DEF SupInv, SupTypeOK, PRs
<1>1. CASE Dispatch
  <2>1. attempts' \in 0..MaxAttempts
    BY <1>0, <1>1 DEF Dispatch
  <2> QED
    BY <1>0, <1>1, <2>1, WorldKeeps DEF Dispatch
<1>2. ASSUME NEW k \in Attempts, Push(k) PROVE SupInv'
  <2>1. pr' \in [Attempts -> PRs]
    BY <1>0, <1>2 DEF Push, PRs, Heads
  <2>2. \A j \in Attempts : /\ pr[j].state = "merged" => pr'[j].state = "merged"
                            /\ pr'[j].by = "supervisor" => pr[j].by = "supervisor"
    BY <1>0, <1>2 DEF Push, PRs
  <2> QED
    BY <1>0, <1>2, <2>1, <2>2, WorldKeeps DEF Push
<1>3. ASSUME NEW k \in Attempts, ChecksPass(k) PROVE SupInv'
  <2>1. pr[k].head \in Heads
    BY <1>0 DEF PRs
  <2>2. ci' \in [Attempts -> SUBSET Heads] /\ \A j \in Attempts : ci[j] \subseteq ci'[j]
    BY <1>0, <1>3, <2>1 DEF ChecksPass
  <2> QED
    BY <1>0, <1>3, <2>2, WorldKeeps DEF ChecksPass
<1>4. ASSUME NEW k \in Attempts, OwnerMerges(k) PROVE SupInv'
  <2>1. pr' \in [Attempts -> PRs]
    BY <1>0, <1>4 DEF OwnerMerges, PRs
  <2>2. \A j \in Attempts : /\ pr[j].state = "merged" => pr'[j].state = "merged"
                            /\ pr'[j].by = "supervisor" => pr[j].by = "supervisor"
    BY <1>0, <1>4 DEF OwnerMerges, PRs
  <2> QED
    BY <1>0, <1>4, <2>1, <2>2, WorldKeeps DEF OwnerMerges
<1> QED
  BY <1>1, <1>2, <1>3, <1>4

\* A supervisor with no command under way goes from one state to r.
LEMMA GateKeeps ==
    ASSUME SupInv, NEW p \in Supervisors, NEW r \in SupStates,
           sup' = [sup EXCEPT ![p] = r], cmd[p] = Idle,
           UNCHANGED <<awayVars, ci, origin, attempts, freed>>,
           pr' \in [Attempts -> PRs], shipped' \in BOOLEAN,
           \A k \in Attempts : /\ pr[k].state = "merged" => pr'[k].state = "merged"
                               /\ pr'[k].by = "supervisor" => pr[k].by = "supervisor" \/ (r.k = k /\ r.probe),
           shipped' => shipped \/ \E k \in Attempts : pr'[k].state = "merged",
           r.pc \in Before \ {"off"} => r.k \in Attempts,
           r.pc = "green" => r.head \in ci[r.k],
           r.pc \in Before => ~ r.probe,
           r.pc \in Beyond => r.probe,
           r.probe => Proven(r),
           r.pc = "closing" => pr'[r.k].state = "merged",
           sup[p].probe => r.probe /\ r.k = sup[p].k /\ r.by = sup[p].by /\ r.head = sup[p].head,
           r.pc = "halting" => r.seen \subseteq r.left,
           r.pc = "escalated" => sup[p].pc = "halting" /\ sup[p].left = {} /\ r.seen = sup[p].seen
    PROVE  SupInv'
<1> USE DEF SupInv, origin
<1>1. AwayInv'
  BY AwayStutter
<1>2. sup \in [Supervisors -> SupStates] /\ sup'[p] = r /\ \A q \in Supervisors \ {p} : sup'[q] = sup[q]
  BY DEF SupTypeOK, SupStates
<1>3. SupTypeOK'
  BY <1>1, <1>2 DEF SupTypeOK, AwayInv, PRs, SupStates
<1>4. ASSUME NEW q \in Supervisors PROVE GatePassed(sup[q])'
  <2>1. CASE q = p
    BY <1>2, <2>1 DEF GatePassed, Proven
  <2>2. CASE q # p
    <3>1. GatePassed(sup[q]) /\ sup'[q] = sup[q]
      BY <1>2, <2>2
    <3> QED
      BY <3>1 DEF GatePassed, Proven, Beyond
  <2> QED
    BY <2>1, <2>2
<1>5. MergedOnAuthority'
  <2> SUFFICES ASSUME NEW k \in Attempts, pr'[k].by = "supervisor"
               PROVE  /\ grant = "merge" /\ based
                      /\ \E q \in Supervisors : /\ sup'[q].k = k /\ sup'[q].probe /\ sup'[q].by # "pr"
                                                /\ sup'[q].head \in ci[k]
    BY DEF MergedOnAuthority
  <2>1. CASE r.k = k /\ r.probe
    BY <1>2, <2>1 DEF Proven
  <2>2. CASE pr[k].by = "supervisor"
    <3>1. PICK q \in Supervisors : /\ sup[q].k = k /\ sup[q].probe /\ sup[q].by # "pr"
                                   /\ sup[q].head \in ci[k]
      BY <2>2 DEF MergedOnAuthority
    <3>2. grant = "merge" /\ based
      BY <2>2 DEF MergedOnAuthority
    <3> QED
      BY <1>2, <3>1, <3>2
  <2> QED
    BY <2>1, <2>2
<1>6. ShippedIsMerged'
  BY DEF ShippedIsMerged
<1>7. UNCHANGED <<cmd, armed, disk, tangled, freed>>
  BY DEF awayVars, units, systemd, records
<1>8. \A q \in Clerks : cmd'[q].op # "create"
  BY <1>7
<1>9. \A q \in Supervisors : HaltsOnly(q)'
  BY <1>2, <1>7 DEF HaltsOnly
<1>10. DisarmedBehind => DisarmedBehind'
  BY <1>7 DEF DisarmedBehind, Disarmed, Listed
<1>11. ASSUME NEW q \in Supervisors, SeenHalted(q) PROVE SeenHalted(q)'
  <2>1. CASE q = p
    BY <1>2, <1>7, <1>11, <2>1 DEF SeenHalted, Halted, Disarmed, Idle
  <2>2. CASE q # p
    BY <1>2, <1>7, <1>11, <2>2 DEF SeenHalted, Halted, Disarmed
  <2> QED
    BY <2>1, <2>2
<1> QED
  BY <1>1, <1>3, <1>4, <1>5, <1>6, <1>8, <1>9, <1>10, <1>11

\* The sets a supervisor that escalates looks at.
LEMMA HaltingState ==
    ASSUME SupInv, NEW r \in SupStates
    PROVE  /\ Halting(r) \in SupStates /\ Halting(r).pc = "halting"
           /\ Halting(r).seen \subseteq Halting(r).left
           /\ Halting(r).k = r.k /\ Halting(r).by = r.by /\ Halting(r).head = r.head
           /\ Halting(r).probe = r.probe
<1> DEFINE Told(S) == IF HasCard(r.by) THEN S ELSE {}
<1>1. Halting(r) = [r EXCEPT !.pc = "halting", !.left = Told(ToHalt), !.seen = Told(Pending)]
  BY DEF Halting
<1>2. Told(ToHalt) \subseteq Scheds /\ Told(Pending) \subseteq Told(ToHalt)
  BY PendingHalted DEF ToHalt
<1> HIDE DEF Told
<1> QED
  BY ZenonT(60), <1>1, <1>2 DEF SupStates

\* Where a supervisor at a step of the gate stands.
LEMMA AtStep ==
    ASSUME SupInv, NEW p \in Supervisors
    PROVE  /\ sup[p] \in SupStates /\ GatePassed(sup[p])
           /\ sup \in [Supervisors -> SupStates]
           /\ pr \in [Attempts -> PRs] /\ ci \in [Attempts -> SUBSET Heads]
           /\ shipped \in BOOLEAN /\ attempts \in 0..MaxAttempts
           /\ sup[p].pc # "halting" => cmd[p] = Idle
BY DEF SupInv, SupTypeOK, SupStates, PRs, HaltsOnly

\* A supervisor that only moves on, with no merge and nothing shipped.
LEMMA MoveKeeps ==
    ASSUME SupInv, NEW p \in Supervisors, NEW r \in SupStates,
           sup' = [sup EXCEPT ![p] = r], sup[p].pc # "halting", Unmoved,
           r.pc \notin {"halting", "escalated"}, GatePassed(r),
           sup[p].probe => r.probe /\ r.k = sup[p].k /\ r.by = sup[p].by /\ r.head = sup[p].head
    PROVE  SupInv'
<1>1. pr' \in [Attempts -> PRs] /\ shipped' \in BOOLEAN /\ cmd[p] = Idle
  BY AtStep DEF Unmoved, github
<1> QED
  BY <1>1, GateKeeps DEF Unmoved, github, GatePassed

\* A supervisor that escalates.
LEMMA EscalateKeeps ==
    ASSUME SupInv, NEW p \in Supervisors, NEW r \in SupStates,
           sup' = [sup EXCEPT ![p] = Halting(r)], sup[p].pc # "halting", Unmoved,
           r.probe = sup[p].probe /\ (r.probe => r = sup[p])
    PROVE  SupInv'
<1>1. /\ pr' \in [Attempts -> PRs] /\ shipped' \in BOOLEAN /\ cmd[p] = Idle
      /\ GatePassed(sup[p])
  BY AtStep DEF Unmoved, github
<1> DEFINE h == Halting(r)
<1>2. /\ h \in SupStates /\ h.pc = "halting" /\ h.seen \subseteq h.left
      /\ h.k = r.k /\ h.by = r.by /\ h.head = r.head /\ h.probe = r.probe
  BY HaltingState
<1>3. h.probe => Proven(h)
  BY <1>1, <1>2 DEF GatePassed, Proven
<1> HIDE DEF h
<1>4. h.pc \notin Before /\ h.pc \notin Beyond
  BY <1>2 DEF Before, Beyond
<1>5. sup' = [sup EXCEPT ![p] = h]
  BY DEF h
<1> QED
  BY <1>1, <1>2, <1>3, <1>4, <1>5, GateKeeps DEF Unmoved, github

LEMMA ResolveHolds == ASSUME SupInv, NEW p \in Supervisors, Resolve(p) PROVE SupInv'
<1>1. PICK by \in {"card", "session", "pr"}, k \in 0..attempts :
         LET found == [Off EXCEPT !.by = by, !.k = k]
             lost  == k = 0 \/ pr[k].state = "none"
         IN  sup' = [sup EXCEPT ![p] = IF lost THEN Halting(found)
                                       ELSE [found EXCEPT !.pc = "resolved"]]
  BY DEF Resolve
<1> DEFINE found == [Off EXCEPT !.by = by, !.k = k]
           lost == k = 0 \/ pr[k].state = "none"
           resolved == [found EXCEPT !.pc = "resolved"]
<1>2. sup[p].pc = "off" /\ sup[p].probe = FALSE /\ Unmoved
  BY AtStep DEF Resolve, Unmoved, GatePassed, Before, SupStates
<1>3. k \in 0..MaxAttempts
  BY AtStep, SupervisionAssumption
<1>4. found \in SupStates /\ found.probe = FALSE /\ found.k = k
  <2>1. Off \in SupStates /\ Off.probe = FALSE
    BY SupervisionAssumption DEF SupStates, Off
  <2>2. [Off EXCEPT !.by = by] \in SupStates /\ [Off EXCEPT !.by = by].probe = FALSE
    BY <2>1 DEF SupStates
  <2> DEFINE o == [Off EXCEPT !.by = by]
  <2> HIDE DEF o
  <2>3. o \in SupStates /\ o.probe = FALSE
    BY <2>2 DEF o
  <2>4. [o EXCEPT !.k = k] \in SupStates /\ [o EXCEPT !.k = k].probe = FALSE /\ [o EXCEPT !.k = k].k = k
    BY <1>3, <2>3 DEF SupStates
  <2> QED
    BY <2>4 DEF o
<1>5. resolved \in SupStates /\ ~ resolved.probe /\ resolved.k = k /\ resolved.pc = "resolved"
  BY <1>4 DEF SupStates, Off
<1>6. CASE lost
  <2>1. sup' = [sup EXCEPT ![p] = Halting(found)]
    BY <1>1, <1>6
  <2> HIDE DEF found
  <2> QED
    BY <1>2, <1>4, <2>1, EscalateKeeps
<1>7. CASE ~ lost
  <2>1. sup' = [sup EXCEPT ![p] = resolved] /\ k \in Attempts
    BY <1>1, <1>3, <1>7 DEF Attempts
  <2> HIDE DEF resolved
  <2>2. GatePassed(resolved)
    BY <1>5, <2>1 DEF GatePassed, Before, Beyond
  <2> QED
    BY <1>2, <1>5, <2>1, <2>2, MoveKeeps
<1> QED
  BY <1>6, <1>7

LEMMA LookMergedHolds == ASSUME SupInv, NEW p \in Supervisors, LookMerged(p) PROVE SupInv'
<1> DEFINE r == [sup[p] EXCEPT !.pc = IF pr[sup[p].k].state = "merged" THEN "noop" ELSE "pinning"]
<1>1. sup' = [sup EXCEPT ![p] = r] /\ sup[p].pc = "resolved" /\ Unmoved
  BY DEF LookMerged, InStep, Moves
<1>2. r \in SupStates /\ r.pc \in {"noop", "pinning"} /\ r.k = sup[p].k /\ r.probe = sup[p].probe
  BY AtStep DEF SupStates, Verdicts
<1> HIDE DEF r
<1>3. GatePassed(r) /\ ~ sup[p].probe
  BY <1>1, <1>2, AtStep DEF GatePassed, Before, Beyond
<1> QED
  BY <1>1, <1>2, <1>3, MoveKeeps

LEMMA PinHeadHolds == ASSUME SupInv, NEW p \in Supervisors, PinHead(p) PROVE SupInv'
<1> DEFINE r == [sup[p] EXCEPT !.pc = "watching", !.head = pr[sup[p].k].head]
<1>1. sup' = [sup EXCEPT ![p] = r] /\ sup[p].pc = "pinning" /\ Unmoved
  BY AtStep DEF PinHead, InStep
<1>2. sup[p].k \in Attempts /\ pr[sup[p].k].head \in 0..MaxHead
  BY <1>1, AtStep, SupervisionAssumption DEF GatePassed, Before, PRs, Heads
<1>3. r \in SupStates /\ r.pc = "watching" /\ r.k = sup[p].k /\ r.probe = sup[p].probe
  BY <1>2, AtStep DEF SupStates
<1> HIDE DEF r
<1>4. GatePassed(r) /\ ~ sup[p].probe
  BY <1>1, <1>2, <1>3, AtStep DEF GatePassed, Before, Beyond
<1> QED
  BY <1>1, <1>3, <1>4, MoveKeeps

LEMMA WatchHolds == ASSUME SupInv, NEW p \in Supervisors, Watch(p) PROVE SupInv'
<1> DEFINE r == [sup[p] EXCEPT !.pc = "green"]
<1>1. sup[p].pc = "watching" /\ Unmoved
  BY DEF Watch, InStep
<1>2. r \in SupStates /\ r.pc = "green" /\ r.k = sup[p].k /\ r.head = sup[p].head /\ r.probe = sup[p].probe
  BY AtStep DEF SupStates
<1>3. CASE Green(p)
  <2>1. sup' = [sup EXCEPT ![p] = r]
    BY <1>3 DEF Watch, Moves
  <2> HIDE DEF r
  <2>2. GatePassed(r) /\ ~ sup[p].probe
    BY <1>1, <1>2, <1>3, AtStep DEF GatePassed, Before, Beyond, Green
  <2> QED
    BY <1>1, <1>2, <2>1, <2>2, MoveKeeps
<1>4. CASE ~ Green(p)
  BY <1>1, <1>4, AtStep, EscalateKeeps DEF Watch, Escalates
<1> QED
  BY <1>3, <1>4

LEMMA GateHolds == ASSUME SupInv, NEW p \in Supervisors, Gate(p) PROVE SupInv'
<1>1. sup[p].pc = "green" /\ Unmoved
  BY DEF Gate, InStep
<1>2. CASE Escalates(p)
  BY <1>1, <1>2, AtStep, EscalateKeeps DEF Escalates
<1>3. CASE Moves(p, "verified")
  <2> DEFINE r == [sup[p] EXCEPT !.pc = "verified"]
  <2>1. r \in SupStates /\ r.pc = "verified" /\ r.probe = sup[p].probe
    BY AtStep DEF SupStates, Verdicts
  <2>2. sup' = [sup EXCEPT ![p] = r]
    BY <1>3 DEF Moves
  <2> HIDE DEF r
  <2>3. GatePassed(r) /\ ~ sup[p].probe
    BY <1>1, <2>1, AtStep DEF GatePassed, Before, Beyond
  <2> QED
    BY <1>1, <2>1, <2>2, <2>3, MoveKeeps
<1>4. CASE MayMerge(p) /\ Grounded(p) /\ sup' = [sup EXCEPT ![p].pc = "probing", ![p].probe = TRUE]
  <2> DEFINE r == [sup[p] EXCEPT !.pc = "probing", !.probe = TRUE]
  <2>1. /\ r \in SupStates /\ r.pc = "probing" /\ r.probe
        /\ r.k = sup[p].k /\ r.head = sup[p].head /\ r.by = sup[p].by
    BY AtStep DEF SupStates
  <2>2. sup' = [sup EXCEPT ![p] = r]
    BY <1>4, AtStep
  <2> HIDE DEF r
  <2>3. GatePassed(r) /\ ~ sup[p].probe
    BY <1>1, <1>4, <2>1, AtStep DEF GatePassed, Proven, MayMerge, Grounded, Before, Beyond
  <2> QED
    BY <1>1, <2>1, <2>2, <2>3, MoveKeeps
<1> QED
  BY <1>2, <1>3, <1>4 DEF Gate

LEMMA ProbeHolds == ASSUME SupInv, NEW p \in Supervisors, Probe(p) PROVE SupInv'
<1>1. sup[p].pc = "probing" /\ Unmoved
  BY DEF Probe, InStep
<1>2. CASE Escalates(p)
  BY <1>1, <1>2, AtStep, EscalateKeeps DEF Escalates
<1>3. CASE Moves(p, "merging")
  <2> DEFINE r == [sup[p] EXCEPT !.pc = "merging"]
  <2>1. /\ r \in SupStates /\ r.pc = "merging" /\ r.probe = sup[p].probe
        /\ r.k = sup[p].k /\ r.head = sup[p].head /\ r.by = sup[p].by
    BY AtStep DEF SupStates
  <2>2. sup' = [sup EXCEPT ![p] = r]
    BY <1>3 DEF Moves
  <2> HIDE DEF r
  <2>3. GatePassed(r)
    BY <1>1, <2>1, AtStep DEF GatePassed, Proven, Before, Beyond
  <2> QED
    BY <1>1, <2>1, <2>2, <2>3, MoveKeeps
<1> QED
  BY <1>2, <1>3 DEF Probe

LEMMA MergeHolds == ASSUME SupInv, NEW p \in Supervisors, Merge(p) PROVE SupInv'
<1>1. /\ sup[p].pc = "merging" /\ UNCHANGED <<awayVars, ci, origin, attempts, shipped, freed>>
      /\ cmd[p] = Idle /\ sup[p] \in SupStates /\ pr \in [Attempts -> PRs] /\ shipped \in BOOLEAN
  BY AtStep DEF Merge, InStep
<1>2. sup[p].probe /\ sup[p].k \in Attempts /\ Proven(sup[p])
  BY <1>1, AtStep DEF GatePassed, Proven, Beyond
<1>3. CASE Escalates(p) /\ UNCHANGED pr
  BY <1>1, <1>3, AtStep, EscalateKeeps DEF Escalates, Unmoved, github
<1>4. CASE Moves(p, "closing") /\ pr'[sup[p].k].state = "merged" /\ pr' \in [Attempts -> PRs]
           /\ \A k \in Attempts : /\ pr[k].state = "merged" => pr'[k].state = "merged"
                                  /\ pr'[k].by = "supervisor" => pr[k].by = "supervisor" \/ sup[p].k = k
  <2> DEFINE r == [sup[p] EXCEPT !.pc = "closing"]
  <2>1. /\ r \in SupStates /\ r.pc = "closing" /\ r.probe = sup[p].probe
        /\ r.k = sup[p].k /\ r.head = sup[p].head /\ r.by = sup[p].by
    BY <1>1 DEF SupStates
  <2>2. sup' = [sup EXCEPT ![p] = r]
    BY <1>4 DEF Moves
  <2> HIDE DEF r
  <2>3. Proven(r) /\ r.pc \notin Before
    BY <1>2, <2>1 DEF Proven, Before
  <2> QED
    BY <1>1, <1>2, <1>4, <2>1, <2>2, <2>3, GateKeeps
<1>5. ASSUME pr[sup[p].k].state = "open", Moves(p, "closing"),
             pr' = [pr EXCEPT ![sup[p].k].state = "merged", ![sup[p].k].by = "supervisor"]
      PROVE  SupInv'
  <2>1. pr' \in [Attempts -> PRs] /\ pr'[sup[p].k].state = "merged"
    BY <1>1, <1>2, <1>5 DEF PRs
  <2>2. \A k \in Attempts \ {sup[p].k} : pr'[k] = pr[k]
    BY <1>1, <1>5
  <2> QED
    BY <1>4, <1>5, <2>1, <2>2
<1>6. CASE pr[sup[p].k].state = "merged" /\ Moves(p, "closing") /\ UNCHANGED pr
  BY <1>1, <1>4, <1>6
<1> QED
  BY <1>3, <1>5, <1>6 DEF Merge

LEMMA ShipHolds == ASSUME SupInv, NEW p \in Supervisors, Ship(p) PROVE SupInv'
<1> DEFINE r == [sup[p] EXCEPT !.pc = "merged"]
<1>1. /\ sup' = [sup EXCEPT ![p] = r] /\ sup[p].pc = "closing" /\ shipped' = TRUE /\ cmd[p] = Idle
      /\ UNCHANGED <<awayVars, ci, pr, origin, attempts, freed>> /\ pr \in [Attempts -> PRs]
  BY AtStep DEF Ship, InStep, Moves, github
<1>2. /\ r \in SupStates /\ r.pc = "merged" /\ r.probe = sup[p].probe
      /\ r.k = sup[p].k /\ r.head = sup[p].head /\ r.by = sup[p].by
  BY AtStep DEF SupStates, Verdicts
<1> HIDE DEF r
<1>3. r.probe /\ Proven(r) /\ pr[r.k].state = "merged" /\ r.pc \notin Before /\ r.k \in Attempts
  BY <1>1, <1>2, AtStep DEF GatePassed, Proven, Before, Beyond
<1> QED
  BY <1>1, <1>2, <1>3, GateKeeps

LEMMA PushEscalationHolds == ASSUME SupInv, NEW p \in Supervisors, PushEscalation(p) PROVE SupInv'
<1> DEFINE r == [sup[p] EXCEPT !.pc = "escalated"]
<1>1. /\ sup' = [sup EXCEPT ![p] = r] /\ sup[p].pc = "halting" /\ sup[p].left = {} /\ cmd[p] = Idle
      /\ UNCHANGED <<awayVars, ci, pr, origin, attempts, freed, shipped>>
      /\ pr \in [Attempts -> PRs] /\ shipped \in BOOLEAN
  BY AtStep DEF PushEscalation, InStep, Moves, Unmoved, github
<1>2. /\ r \in SupStates /\ r.pc = "escalated" /\ r.probe = sup[p].probe /\ r.seen = sup[p].seen
      /\ r.k = sup[p].k /\ r.head = sup[p].head /\ r.by = sup[p].by
  BY AtStep DEF SupStates, Verdicts
<1> HIDE DEF r
<1>3. (r.probe => Proven(r)) /\ r.pc \notin Before \cup Beyond
  BY <1>1, <1>2, AtStep DEF GatePassed, Proven, Before, Beyond
<1> QED
  BY <1>1, <1>2, <1>3, GateKeeps

LEMMA SupervisorDiesHolds == ASSUME SupInv, NEW p \in Supervisors, SupervisorDies(p) PROVE SupInv'
<1> DEFINE r == [sup[p] EXCEPT !.pc = "dead"]
<1>1. /\ sup' = [sup EXCEPT ![p] = r] /\ cmd[p] = Idle
      /\ UNCHANGED <<awayVars, ci, pr, origin, attempts, freed, shipped>>
      /\ pr \in [Attempts -> PRs] /\ shipped \in BOOLEAN
  BY AtStep DEF SupervisorDies, Moves, Unmoved, github
<1>2. /\ r \in SupStates /\ r.pc = "dead" /\ r.probe = sup[p].probe
      /\ r.k = sup[p].k /\ r.head = sup[p].head /\ r.by = sup[p].by
  BY AtStep DEF SupStates
<1> HIDE DEF r
<1>3. (r.probe => Proven(r)) /\ r.pc \notin Before \cup Beyond
  BY <1>1, <1>2, AtStep DEF GatePassed, Proven, Before, Beyond
<1> QED
  BY <1>1, <1>2, <1>3, GateKeeps

-----------------------------------------------------------------------------
(* The timers and the commands.                                            *)

\* A step of the timers or of a command keeps what the gate established.
LEMMA GateStands ==
    ASSUME SupInv, UNCHANGED <<github, origin, attempts, shipped>>, sup' \in [Supervisors -> SupStates],
           \A p \in Supervisors :
              /\ sup'[p].pc \in {sup[p].pc, "dead"} /\ sup'[p].k = sup[p].k /\ sup'[p].by = sup[p].by
              /\ sup'[p].head = sup[p].head /\ sup'[p].probe = sup[p].probe
    PROVE  (\A p \in Supervisors : GatePassed(sup[p])') /\ MergedOnAuthority' /\ ShippedIsMerged'
<1> USE DEF SupInv, github, origin
<1>1. ASSUME NEW p \in Supervisors PROVE GatePassed(sup[p])'
  BY DEF GatePassed, Proven, Before, Beyond
<1>2. MergedOnAuthority'
  BY DEF MergedOnAuthority
<1>3. ShippedIsMerged'
  BY DEF ShippedIsMerged
<1> QED
  BY <1>1, <1>2, <1>3

\* A step that arms a timer only when it is freed, that forgets nothing, and
\* whose commands are halts if a supervisor gives them.
LEMMA TimersKeep ==
    ASSUME SupInv, AwayInv', UNCHANGED <<github, origin, attempts, shipped>>,
           sup' \in [Supervisors -> SupStates], freed' \subseteq Scheds,
           \A p \in Supervisors :
              /\ sup'[p].pc \in {sup[p].pc, "dead"} /\ sup'[p].k = sup[p].k /\ sup'[p].by = sup[p].by
              /\ sup'[p].head = sup[p].head /\ sup'[p].probe = sup[p].probe
              /\ sup'[p].seen = sup[p].seen
              /\ cmd'[p] # Idle => sup'[p].pc = "halting" /\ cmd'[p].op = "halt",
           \A p \in Clerks : cmd'[p].op # "create",
           armed' \subseteq armed \cup freed', freed \subseteq freed', tangled \subseteq tangled',
           "stuck" \notin Faults =>
              /\ \A p \in Clerks : /\ cmd'[p].op \in {"cancel", "halt"} /\ cmd'[p].pc = "files"
                                   => cmd'[p] = cmd[p] \/ cmd'[p].on \notin armed'
              /\ \A s \in Scheds : Listed(s) /\ ~ Listed(s)' => Disarmed(s)'
              /\ \A p \in Supervisors, s \in Scheds :
                    sup'[p].pc = "halting" /\ Halted(p, s) => Halted(p, s)'
    PROVE  SupInv'
<1> USE DEF SupInv
<1>1. SupTypeOK'
  BY DEF SupTypeOK, AwayInv, SupStates, github, origin
<1>2. /\ \A p \in Supervisors : GatePassed(sup[p])' /\ HaltsOnly(p)'
      /\ MergedOnAuthority' /\ ShippedIsMerged'
  BY GateStands DEF HaltsOnly, Idle
<1>3. \A s \in Scheds : Disarmed(s) => Disarmed(s)'
  BY DEF Disarmed
<1>4. ASSUME "stuck" \notin Faults PROVE DisarmedBehind'
  <2>1. ASSUME NEW p \in Clerks, cmd'[p].op \in {"cancel", "halt"}, cmd'[p].pc = "files"
        PROVE  Disarmed(cmd[p].on)'
    <3>1. cmd'[p].on \in Scheds
      BY <2>1 DEF AwayInv, CommandShaped
    <3> QED
      BY <1>3, <1>4, <2>1, <3>1 DEF Disarmed, DisarmedBehind
  <2>2. ASSUME NEW s \in Scheds, ~ Listed(s)' PROVE Disarmed(s)'
    BY <1>3, <1>4, <2>2 DEF DisarmedBehind
  <2> QED
    BY <2>1, <2>2 DEF DisarmedBehind
<1>5. ASSUME "stuck" \notin Faults, NEW p \in Supervisors PROVE SeenHalted(p)'
  <2>1. SeenHalted(p) /\ sup[p].seen \subseteq Scheds
    BY <1>5 DEF SupTypeOK
  <2> QED
    BY <1>3, <1>5, <2>1 DEF SeenHalted
<1> QED
  BY <1>1, <1>2, <1>4, <1>5

LEMMA TimersHold == ASSUME SupInv, Timers PROVE SupInv'
<1> USE DEF supVars, github, origin
<1>1. PICK s \in Scheds : Systemd(s) \/ SlotComes(s)
  BY DEF Timers
<1>2. AwayInv' /\ UNCHANGED <<cmd, disk, freed, tangled, sup, pr, ci, grant, based, attempts, shipped>>
  BY <1>1, FireKeeps, LaunchesKeeps, OnFailureKeeps, SlotComesKeeps
     DEF SupInv, Timers, Systemd, Fire, Launches, OnFailure, SlotComes, units, systemd, records
<1>3. armed' \subseteq armed
  BY <1>1 DEF Systemd, Fire, Launches, OnFailure, SlotComes, systemd
<1>4. sup' \in [Supervisors -> SupStates] /\ freed' \subseteq Scheds
  BY <1>2 DEF SupInv, SupTypeOK, SupStates
<1>5. /\ \A p \in Supervisors : cmd[p] # Idle => sup[p].pc = "halting" /\ cmd[p].op = "halt"
      /\ \A p \in Clerks : cmd[p].op # "create"
  BY DEF SupInv, HaltsOnly
<1>6. \A p \in Supervisors, s1 \in Scheds : Halted(p, s1) => Halted(p, s1)'
  BY <1>2, <1>3 DEF Halted, Disarmed
<1>7. \A s1 \in Scheds : Listed(s1)' = Listed(s1)
  BY <1>2 DEF Listed
<1> QED
  BY <1>2, <1>3, <1>4, <1>5, <1>6, <1>7, TimersKeep

\* What a command does to a timer: only a release arms one, and a disable that
\* says it is done has done it.
LEMMA CommandEffect ==
    ASSUME SupInv, NEW p \in Clerks, CommandStep(p)
    PROVE  /\ cmd[p].on \in Scheds /\ cmd[p].op \in {"cancel", "halt", "release"}
           /\ \A q \in Clerks \ {p} : cmd'[q] = cmd[q]
           /\ cmd'[p].op \in {"none", cmd[p].op}
           /\ armed' \subseteq armed \cup freed' /\ freed \subseteq freed' /\ freed' \subseteq Scheds
           /\ tangled \subseteq tangled'
           /\ \A s \in Scheds \ {cmd[p].on} : disk'[s] = disk[s]
           /\ disk' # disk => cmd[p].op = "cancel" /\ cmd[p].pc = "files"
           /\ "stuck" \notin Faults /\ cmd[p].op \in {"cancel", "halt"} /\ cmd[p].pc = "systemctl" =>
                 \/ cmd[p].on \notin armed' /\ cmd'[p].on = cmd[p].on /\ cmd'[p].op = cmd[p].op
                 \/ cmd[p].on \in tangled' /\ cmd'[p] = Idle
           /\ cmd[p].pc # "systemctl" => cmd'[p] = Idle
<1>1. /\ CommandShaped(p) /\ cmd[p].op # "create" /\ freed \subseteq Scheds
      /\ cmd \in [Clerks -> [op : {"none", "create", "cancel", "halt", "release"}, on : Scheds \cup {"none"},
           pc : UnitFiles \cup {"reload", "enable", "systemctl", "files", "done"}]]
      /\ disk \in [Scheds -> SUBSET UnitFiles]
  BY DEF SupInv, AwayInv, AwayTypeOK, SupTypeOK
<1>2. /\ freed' = IF cmd[p].op = "release" THEN freed \cup {cmd[p].on} ELSE freed
      /\ \/ Disable(p, "cancel") \/ CancelRemove(p) \/ Disable(p, "halt") \/ HaltMark(p)
         \/ ReleaseEnable(p) \/ ReleaseUnmark(p)
  BY <1>1 DEF CommandStep, Command, WriteUnit, CreateReload, CreateEnable, At
<1> USE DEF At, Steps, Ends, systemd, records, units
<1>3. ASSUME NEW op \in {"cancel", "halt"}, Disable(p, op)
      PROVE  /\ cmd[p].op = op /\ cmd[p].pc = "systemctl" /\ disk' = disk /\ armed' \subseteq armed
             /\ cmd' = [cmd EXCEPT ![p] = cmd'[p]] /\ tangled \subseteq tangled'
             /\ \/ cmd'[p] = Idle /\ cmd[p].on \in tangled'
                \/ cmd'[p].op = op /\ cmd'[p].on = cmd[p].on
                   /\ ("stuck" \notin Faults => cmd[p].on \notin armed')
  BY <1>1, <1>3 DEF Disable, DisableNow, Untouched
<1>4. CASE ReleaseEnable(p) \/ ReleaseUnmark(p)
  <2>1. /\ cmd[p].op = "release" /\ disk' = disk /\ tangled \subseteq tangled'
        /\ armed' \subseteq armed \cup {cmd[p].on}
        /\ cmd' = [cmd EXCEPT ![p] = cmd'[p]]
        /\ cmd[p].pc # "systemctl" => cmd'[p] = Idle
        /\ cmd'[p].op \in {"none", "release"}
    BY <1>1, <1>4 DEF ReleaseEnable, ReleaseUnmark, EnableNow, Untouched, Idle
  <2> QED
    BY <1>1, <1>2, <2>1 DEF CommandShaped, Idle
<1>5. CASE CancelRemove(p) \/ HaltMark(p)
  <2>1. /\ cmd[p].op \in {"cancel", "halt"} /\ cmd[p].pc = "files" /\ cmd'[p] = Idle
        /\ tangled' = tangled /\ armed' = armed
        /\ cmd' = [cmd EXCEPT ![p] = cmd'[p]]
        /\ disk' # disk => cmd[p].op = "cancel"
        /\ \A s \in Scheds \ {cmd[p].on} : disk'[s] = disk[s]
    BY <1>1, <1>5 DEF CancelRemove, HaltMark, RemoveUnits
  <2> QED
    BY <1>1, <1>2, <2>1 DEF CommandShaped, Idle
<1>6. CASE Disable(p, "cancel") \/ Disable(p, "halt")
  <2>1. PICK op \in {"cancel", "halt"} : Disable(p, op)
    BY <1>6
  <2> QED
    BY <1>1, <1>2, <1>3, <2>1 DEF CommandShaped, Idle
<1> QED
  BY <1>2, <1>4, <1>5, <1>6

LEMMA CommandStepHolds == ASSUME SupInv, NEW p \in Clerks, CommandStep(p) PROVE SupInv'
<1>1. AwayInv' /\ UNCHANGED <<github, origin, attempts, sup, shipped>>
  BY CommandKeeps DEF CommandStep, SupInv
<1>2. sup' \in [Supervisors -> SupStates]
  BY <1>1 DEF SupInv, SupTypeOK, SupStates
<1>3. ASSUME NEW q \in Supervisors, cmd'[q] # Idle PROVE sup'[q].pc = "halting" /\ cmd'[q].op = "halt"
  <2>1. q \in Clerks /\ CommandShaped(q)'
    BY <1>1, SupervisionAssumption DEF AwayInv
  <2>2. cmd'[q].op # "none"
    BY <1>3, <2>1 DEF CommandShaped
  <2>3. cmd[q] # Idle /\ cmd'[q].op = cmd[q].op
    BY <1>3, <2>2, CommandEffect, <2>1 DEF Idle
  <2> QED
    BY <1>1, <2>3 DEF SupInv, HaltsOnly
<1>4. \A q \in Clerks : cmd'[q].op # "create"
  BY CommandEffect DEF SupInv
<1>5. ASSUME "stuck" \notin Faults, NEW q \in Clerks,
             cmd'[q].op \in {"cancel", "halt"}, cmd'[q].pc = "files"
      PROVE  cmd'[q] = cmd[q] \/ cmd'[q].on \notin armed'
  <2>1. CASE q = p
    <3>1. CommandShaped(p) /\ cmd'[p] # Idle
      BY <1>5, <2>1 DEF SupInv, AwayInv, Idle
    <3>2. cmd[p].op \in {"cancel", "halt"} /\ cmd[p].pc = "systemctl"
      BY <1>5, <2>1, <3>1, CommandEffect
    <3> QED
      BY <1>5, <2>1, <3>1, <3>2, CommandEffect
  <2> QED
    BY <2>1, CommandEffect
<1>6. ASSUME "stuck" \notin Faults, NEW s \in Scheds, Listed(s), ~ Listed(s)' PROVE Disarmed(s)'
  <2>1. s = cmd[p].on /\ cmd[p].op = "cancel" /\ cmd[p].pc = "files"
    BY <1>6, CommandEffect DEF Listed
  <2>2. Disarmed(s)
    BY <1>6, <2>1 DEF SupInv, DisarmedBehind
  <2> QED
    BY <2>2, CommandEffect DEF Disarmed
<1>7. ASSUME "stuck" \notin Faults, NEW q \in Supervisors, NEW s \in Scheds, Halted(q, s)
      PROVE  Halted(q, s)'
  <2>1. Disarmed(s) => Disarmed(s)'
    BY CommandEffect DEF Disarmed
  <2>2. CASE cmd[q].op = "halt" /\ cmd[q].on = s /\ cmd[q].pc = "systemctl"
    <3>1. CASE q = p
      BY <1>7, <2>2, <3>1, CommandEffect DEF Halted, Disarmed, Idle
    <3>2. CASE q # p
      BY <2>2, <3>2, CommandEffect, SupervisionAssumption DEF Halted
    <3> QED
      BY <3>1, <3>2
  <2> QED
    BY <1>1, <1>7, <2>1, <2>2 DEF Halted
<1> QED
  BY <1>1, <1>2, <1>3, <1>4, <1>5, <1>6, <1>7, CommandEffect, TimersKeep

LEMMA CommandCutHolds == ASSUME SupInv, NEW p \in Clerks, CommandCut(p) PROVE SupInv'
<1> USE DEF units, systemd, records
<1>1. /\ AwayInv' /\ UNCHANGED <<disk, armed, freed, github, origin, attempts, shipped>>
      /\ cmd' = [cmd EXCEPT ![p] = Idle] /\ tangled \subseteq tangled'
      /\ IF p \in Supervisors THEN sup' = [sup EXCEPT ![p].pc = "dead"] ELSE sup' = sup
  BY CommandDiesKeeps DEF SupInv, CommandCut, CommandDies, Ends, Cuts, Moves
<1>2. /\ cmd'[p] = Idle /\ \A q \in Clerks \ {p} : cmd'[q] = cmd[q]
      /\ sup \in [Supervisors -> SupStates] /\ freed \subseteq Scheds
  BY <1>1 DEF SupInv, SupTypeOK, SupStates, AwayInv, AwayTypeOK
<1>3. /\ sup' \in [Supervisors -> SupStates]
      /\ \A q \in Supervisors : /\ sup'[q].pc \in {sup[q].pc, "dead"} /\ sup'[q].k = sup[q].k
                                /\ sup'[q].by = sup[q].by /\ sup'[q].head = sup[q].head
                                /\ sup'[q].probe = sup[q].probe /\ sup'[q].seen = sup[q].seen
                                /\ sup'[q].left = sup[q].left
                                /\ (q # p => sup'[q] = sup[q]) /\ (q = p => sup'[q].pc = "dead")
  BY <1>1, <1>2 DEF SupStates
<1>4. \A q \in Supervisors : cmd'[q] # Idle => sup'[q].pc = "halting" /\ cmd'[q].op = "halt"
  BY <1>2, <1>3, SupervisionAssumption DEF SupInv, HaltsOnly
<1>5. \A q \in Clerks : cmd'[q].op # "create"
  BY <1>2 DEF SupInv, Idle
<1>6. \A q \in Clerks : cmd'[q].pc = "files" => cmd'[q] = cmd[q]
  BY <1>2 DEF Idle
<1>7. \A q \in Supervisors, s \in Scheds : sup'[q].pc = "halting" /\ Halted(q, s) => Halted(q, s)'
  BY <1>1, <1>2, <1>3, SupervisionAssumption DEF Halted, Disarmed
<1>8. \A s \in Scheds : Listed(s)' = Listed(s)
  BY <1>1 DEF Listed
<1> QED
  BY <1>1, <1>2, <1>3, <1>4, <1>5, <1>6, <1>7, <1>8, TimersKeep

LEMMA OwnerIssuesHolds ==
    ASSUME SupInv, NEW p \in Clerks, NEW s \in Scheds, OwnerIssues(p, s) PROVE SupInv'
<1> USE DEF units, systemd, records
<1>1. PICK op \in {"cancel", "release"} : Begin(p, op, s)
  BY DEF OwnerIssues, BeginCancel, BeginRelease
<1>2. /\ AwayInv' /\ UNCHANGED <<disk, armed, freed, sup, github, origin, attempts, shipped>>
      /\ cmd' = [cmd EXCEPT ![p] = [op |-> op, on |-> s, pc |-> "systemctl"]]
      /\ tangled \subseteq tangled' /\ p \notin Supervisors
  BY <1>1, BeginKeeps DEF SupInv, OwnerIssues, supVars, Begin
<1>3. /\ cmd'[p] = [op |-> op, on |-> s, pc |-> "systemctl"]
      /\ \A q \in Clerks \ {p} : cmd'[q] = cmd[q]
      /\ sup' \in [Supervisors -> SupStates] /\ freed \subseteq Scheds
  BY <1>2 DEF SupInv, SupTypeOK, SupStates, AwayInv, AwayTypeOK
<1>4. \A q \in Supervisors : cmd'[q] # Idle => sup'[q].pc = "halting" /\ cmd'[q].op = "halt"
  BY <1>2, <1>3, SupervisionAssumption DEF SupInv, HaltsOnly
<1>5. \A q \in Clerks : cmd'[q].op # "create"
  BY <1>3 DEF SupInv
<1>6. \A q \in Clerks : cmd'[q].pc = "files" => cmd'[q] = cmd[q]
  BY <1>3
<1>7. \A q \in Supervisors, t \in Scheds : Halted(q, t) => Halted(q, t)'
  BY <1>2, <1>3, SupervisionAssumption DEF Halted, Disarmed
<1>8. \A t \in Scheds : Listed(t)' = Listed(t)
  BY <1>2 DEF Listed
<1> QED
  BY <1>2, <1>3, <1>4, <1>5, <1>6, <1>7, <1>8, TimersKeep

LEMMA HaltNextHolds == ASSUME SupInv, NEW p \in Supervisors, HaltNext(p) PROVE SupInv'
<1> USE SupervisionAssumption DEF units, systemd, machine, records
<1>1. PICK s \in sup[p].left :
         /\ sup' = [sup EXCEPT ![p].left = @ \ {s}]
         /\ IF Listed(s)
              THEN /\ cmd' = [cmd EXCEPT ![p] = [op |-> "halt", on |-> s, pc |-> "systemctl"]]
                   /\ tangled' = IF Busy(s) THEN tangled \cup {s} ELSE tangled
              ELSE UNCHANGED <<cmd, tangled>>
  BY DEF HaltNext
<1>2. /\ sup[p].pc = "halting" /\ cmd[p] = Idle /\ p \in Clerks
      /\ UNCHANGED <<units, systemd, machine, fate, issued, github, origin, attempts, shipped, freed>>
  BY DEF HaltNext, InStep
<1>3. /\ s \in Scheds /\ sup \in [Supervisors -> SupStates] /\ freed \subseteq Scheds
      /\ issued \in 0..MaxIssued
      /\ cmd \in [Clerks -> [op : {"none", "create", "cancel", "halt", "release"}, on : Scheds \cup {"none"},
           pc : UnitFiles \cup {"reload", "enable", "systemctl", "files", "done"}]]
  BY DEF SupInv, SupTypeOK, SupStates, AwayInv, AwayTypeOK
<1>4. AwayInv'
  <2>1. CASE Listed(s)
    <3>1. Opens(p, "halt", s)
      BY <1>1, <1>2, <1>3, <2>1 DEF Opens
    <3> QED
      BY <1>3, <3>1, OpensKeeps DEF SupInv
  <2>2. CASE ~ Listed(s)
    BY <1>1, <1>2, <2>2, AwayStutter DEF SupInv, awayVars
  <2> QED
    BY <2>1, <2>2
<1>5. /\ sup' \in [Supervisors -> SupStates]
      /\ \A q \in Supervisors : /\ sup'[q].pc = sup[q].pc /\ sup'[q].k = sup[q].k
                                /\ sup'[q].by = sup[q].by /\ sup'[q].head = sup[q].head
                                /\ sup'[q].probe = sup[q].probe /\ sup'[q].seen = sup[q].seen
                                /\ sup'[q].left = IF q = p THEN sup[q].left \ {s} ELSE sup[q].left
  <2> DEFINE r == [sup[p] EXCEPT !.left = @ \ {s}]
  <2>1. /\ r \in SupStates /\ r.pc = sup[p].pc /\ r.k = sup[p].k /\ r.by = sup[p].by
        /\ r.head = sup[p].head /\ r.probe = sup[p].probe /\ r.seen = sup[p].seen
        /\ r.left = sup[p].left \ {s}
    BY SMTT(30), <1>3 DEF SupStates
  <2>2. sup' = [sup EXCEPT ![p] = r]
    BY <1>1
  <2> HIDE DEF r
  <2> QED
    BY <1>3, <2>1, <2>2
<1>6. /\ \A q \in Clerks \ {p} : cmd'[q] = cmd[q]
      /\ \/ cmd'[p] = [op |-> "halt", on |-> s, pc |-> "systemctl"]
         \/ cmd'[p] = Idle /\ ~ Listed(s)
      /\ tangled \subseteq tangled'
  BY <1>1, <1>2, <1>3
<1>7. \A q \in Supervisors : cmd'[q] # Idle => sup'[q].pc = "halting" /\ cmd'[q].op = "halt"
  <2>1. sup'[p].pc = "halting"
    BY <1>2, <1>5
  <2>2. cmd'[p] # Idle => cmd'[p].op = "halt"
    BY <1>6
  <2>3. \A q \in Supervisors \ {p} : cmd'[q] = cmd[q] /\ sup'[q].pc = sup[q].pc
    BY <1>5, <1>6
  <2> QED
    BY <2>1, <2>2, <2>3 DEF SupInv, HaltsOnly
<1>8. \A q \in Clerks : cmd'[q].op # "create"
  BY <1>6 DEF SupInv, Idle
<1>9. \A q \in Clerks : cmd'[q].pc = "files" => cmd'[q] = cmd[q]
  BY <1>6 DEF Idle
<1>10. ASSUME "stuck" \notin Faults, NEW q \in Supervisors, NEW t \in Scheds, Halted(q, t)
       PROVE  Halted(q, t)'
  <2>1. Disarmed(t) => Disarmed(t)'
    BY <1>2, <1>6 DEF Disarmed
  <2>2. CASE q = p /\ t = s
    <3>1. ~ Listed(s) => Disarmed(s)
      BY <1>3, <1>10 DEF SupInv, DisarmedBehind
    <3> QED
      BY <1>6, <2>1, <2>2, <3>1 DEF Halted
  <2>3. CASE q = p /\ t # s
    <3>1. t \in sup[p].left => t \in sup'[p].left
      BY <1>5, <2>3
    <3>2. cmd[p].op # "halt"
      BY <1>2 DEF Idle
    <3> QED
      BY <1>10, <2>1, <2>3, <3>1, <3>2 DEF Halted
  <2>4. CASE q # p
    BY <1>5, <1>6, <1>10, <2>1, <2>4 DEF Halted
  <2> QED
    BY <2>2, <2>3, <2>4
<1>11. \A t \in Scheds : Listed(t)' = Listed(t)
  BY <1>2 DEF Listed
<1> QED
  BY <1>2, <1>3, <1>4, <1>5, <1>6, <1>7, <1>8, <1>9, <1>10, <1>11, TimersKeep

-----------------------------------------------------------------------------
(* The theorems about supervision.                                         *)

LEMMA SupInvInit == SupInit => SupInv
<1> SUFFICES ASSUME SupInit PROVE SupInv
  OBVIOUS
<1> USE AwayAssumption, SupervisionAssumption DEF SupInit, ArmedInit, Idle
<1>1. AwayTypeOK
  BY DEF AwayTypeOK, UnitFiles
<1>2. (\A p \in Clerks : CommandShaped(p)) /\ CreatedOnce
  BY DEF CommandShaped, CreatedOnce
<1>3. \A s \in Scheds : Unmade(s) /\ Spent(s) /\ Straight(s)
  BY DEF Unmade, Spent, Straight
<1>4. Off \in SupStates /\ Off.pc = "off" /\ ~ Off.probe
  BY DEF SupStates, Off
<1>5. NoPR \in PRs /\ NoPR.by = "nobody"
  BY DEF NoPR, PRs, Heads
<1>6. pr \in [Attempts -> PRs] /\ sup \in [Supervisors -> SupStates] /\ attempts \in 0..MaxAttempts
  BY <1>4, <1>5
<1>7. SupTypeOK
  BY <1>1, <1>6 DEF SupTypeOK, PRs, SupStates
<1>8. \A p \in Supervisors : HaltsOnly(p) /\ GatePassed(sup[p]) /\ SeenHalted(p)
  BY <1>4 DEF HaltsOnly, GatePassed, SeenHalted, Before, Beyond
<1>9. MergedOnAuthority /\ ShippedIsMerged
  BY <1>5 DEF MergedOnAuthority, ShippedIsMerged
<1>10. DisarmedBehind
  BY DEF DisarmedBehind, Listed, UnitFiles
<1> QED
  BY <1>1, <1>2, <1>3, <1>7, <1>8, <1>9, <1>10 DEF SupInv, AwayInv

LEMMA SupInvNext == SupInv /\ [SupNext]_allVars => SupInv'
<1> SUFFICES ASSUME SupInv, [SupNext]_allVars PROVE SupInv'
  OBVIOUS
<1>1. CASE Timers
  BY <1>1, TimersHold
<1>2. CASE Dispatch \/ \E k \in Attempts : Push(k) \/ ChecksPass(k) \/ OwnerMerges(k)
  BY <1>2, WorldHolds
<1>3. ASSUME NEW p \in Clerks, CommandStep(p) \/ CommandCut(p) PROVE SupInv'
  BY <1>3, CommandStepHolds, CommandCutHolds
<1>4. ASSUME NEW p \in Clerks, NEW s \in Scheds, OwnerIssues(p, s) PROVE SupInv'
  BY <1>4, OwnerIssuesHolds
<1>5. ASSUME NEW p \in Supervisors, Gating(p) \/ SupervisorDies(p) PROVE SupInv'
  BY <1>5, ResolveHolds, LookMergedHolds, PinHeadHolds, WatchHolds, GateHolds, ProbeHolds,
     MergeHolds, ShipHolds, HaltNextHolds, PushEscalationHolds, SupervisorDiesHolds DEF Gating
<1>6. CASE UNCHANGED allVars
  <2>1. /\ attempts \in 0..MaxAttempts /\ pr \in [Attempts -> PRs] /\ ci \in [Attempts -> SUBSET Heads]
    BY DEF SupInv, SupTypeOK, PRs
  <2> QED
    BY <1>6, <2>1, WorldKeeps DEF allVars, supVars, github
<1> QED
  BY <1>1, <1>2, <1>3, <1>4, <1>5, <1>6 DEF SupNext

\* The strengthening for the supervisors: what passed the gate had an
\* authority, a base, a probe and green checks, and what an escalation saw
\* pending it still has to halt, is halting, or is disarmed.
THEOREM SupervisionInvariant == SupSpec => []SupInv
<1> QED
  BY SupInvInit, SupInvNext, PTL DEF SupSpec

\* The pull requests, the supervisors and the timers keep their types.
THEOREM SupTypeCorrect == SupSpec => []SupTypeOK
<1>1. SupInv => SupTypeOK
  BY DEF SupInv
<1> QED
  BY <1>1, SupervisionInvariant, PTL

\* Nothing is merged unattended without the owner's authority, a base, a probe
\* and green checks, for any supervisors, dispatches, pushes and merges.
THEOREM MergesOnAuthority == SupSpec => []MergedOnAuthority
<1>1. SupInv => MergedOnAuthority
  BY DEF SupInv
<1> QED
  BY <1>1, SupervisionInvariant, PTL

\* A card is shipped only when one of its deliveries is in the base branch.
THEOREM ShipsWhatIsMerged == SupSpec => []ShippedIsMerged
<1>1. SupInv => ShippedIsMerged
  BY DEF SupInv
<1> QED
  BY <1>1, SupervisionInvariant, PTL

\* Once a supervisor has escalated, every dispatch that was pending at the end
\* of a chain of dependencies, however long, is disarmed, unless it was
\* released or a command on it cut, as long as disable does what it says.
THEOREM AndonPulled == ASSUME "stuck" \notin Faults PROVE SupSpec => []AndonHolds
<1>1. SupInv => AndonHolds
  BY DEF SupInv, SeenHalted, Disarmed, AndonHolds
<1> QED
  BY <1>1, SupervisionInvariant, PTL

\* Supervisors, halts and the owner's commands between them never make a
\* scheduled dispatch fire twice, nor show as fired what has not run.
THEOREM FiredOnceSupervised == SupSpec => []FiredOnceAsShown
<1>1. SupInv => FiredOnceAsShown
  BY SpentAsShown DEF SupInv
<1> QED
  BY <1>1, SupervisionInvariant, PTL

-----------------------------------------------------------------------------
(* The push of a batch.                                                    *)

LegStates == {"armed", "cancelled", "fired", "refused", "dispatched", "running", "completed"}
BatchTypes ==
    /\ leg \in [Legs -> LegStates] /\ newest \in [LegCards -> Legs \cup {"none", "earlier"}]
    /\ call \in [Callers -> {"no", "reporting", "claiming", "sending", "over", "dead"}]
    /\ saw \in [Callers -> [done : SUBSET Legs, members : SUBSET Legs]] /\ sentinel \in BOOLEAN

\* The newest row for a leg's card is the leg's own, so that what a report has
\* as done is done, and stays it.
Linked == \A l \in Legs : newest[LegCard[l]] \in {"none", l}
SeenDone == \A e \in Callers : \A l \in saw[e].done : leg[l] = "completed"
CallsAfter == \A l \in Legs : call[l] # "no" => leg[l] = "completed"

\* There is one sender, before the push; and one push, after it.
OneSender ==
    /\ ~ sentinel => sent = {} /\ \A e \in Callers : call[e] # "sending"
    /\ \A e, f \in Callers : call[e] = "sending" /\ call[f] = "sending" => e = f
    /\ \A e \in Callers : call[e] = "sending" => sent = {}
    /\ \A a, b \in sent : a = b
Sent == \A push \in sent : /\ push.by \in Callers /\ call[push.by] = "over"
                           /\ push.ok => saw[push.by].done = saw[push.by].members

BatchInv == BatchTypes /\ Linked /\ SeenDone /\ CallsAfter /\ OneSender /\ Sent

\* Each leg has a card of its own, which no dispatch before was for.
OwnCards == /\ \A l, m \in Legs : LegCard[l] = LegCard[m] => l = m
            /\ \A l \in Legs : LegCard[l] \notin Earlier

LEMMA BatchInvInit == ASSUME OwnCards, BatchInit PROVE BatchInv
<1> USE DEF BatchInit
<1>1. BatchTypes
  BY DEF BatchTypes, LegStates, Blank
<1>2. Linked
  BY DEF Linked, OwnCards, LegCards
<1>3. SeenDone /\ CallsAfter /\ OneSender /\ Sent
  BY DEF SeenDone, CallsAfter, OneSender, Sent, Blank, Callers
<1> QED
  BY <1>1, <1>2, <1>3 DEF BatchInv

\* A leg's own steps, before its worker asks.
LEMMA LegMoves ==
    ASSUME OwnCards, BatchInv, NEW l \in Legs, NEW state \in LegStates, leg[l] # "completed", Turns(l, state),
           \/ UNCHANGED newest
           \/ newest' = [newest EXCEPT ![LegCard[l]] = l],
           \/ UNCHANGED call
           \/ state = "completed" /\ call' = [call EXCEPT ![l] = "reporting"],
           UNCHANGED <<saw, sentinel, sent>>
    PROVE  BatchInv'
<1> USE DEF BatchInv, BatchTypes
<1>1. /\ l \in Callers /\ call[l] = "no"
      /\ leg' \in [Legs -> LegStates] /\ leg'[l] = state /\ \A m \in Legs : m # l => leg'[m] = leg[m]
  BY DEF Callers, CallsAfter, Turns
<1>2. BatchTypes'
  BY <1>1
<1>3. Linked'
  BY DEF Linked, OwnCards, LegCards
<1>4. SeenDone'
  BY <1>1 DEF SeenDone
<1>5. /\ call'[l] = "no" \/ (call'[l] = "reporting" /\ state = "completed")
      /\ \A e \in Callers : e # l => call'[e] = call[e]
  BY <1>1
<1>6. CallsAfter'
  BY <1>1, <1>5 DEF CallsAfter, Callers
<1>7. OneSender' /\ Sent'
  BY <1>1, <1>5 DEF OneSender, Sent
<1> QED
  BY <1>2, <1>3, <1>4, <1>6, <1>7

LEMMA LegSteps ==
    ASSUME OwnCards, BatchInv, NEW l \in Legs, Leg(l) \/ LegCancelled(l) PROVE BatchInv'
<1>1. CASE LegFires(l) \/ LegCancelled(l) \/ LegRuns(l)
  BY <1>1, LegMoves DEF LegFires, LegCancelled, LegRuns, LegStates
<1>2. CASE LegRecorded(l)
  BY <1>2, LegMoves DEF LegRecorded, LegStates
<1>3. CASE LegCompletes(l)
  BY <1>3, LegMoves DEF LegCompletes, LegStates
<1> QED
  BY <1>1, <1>2, <1>3 DEF Leg

\* A report has as done what is done.
LEMMA DoneCompleted ==
    ASSUME BatchInv PROVE Done \subseteq Members /\ Members \subseteq Legs /\ \A l \in Done : leg[l] = "completed"
<1>1. ASSUME NEW l \in Done PROVE leg[l] = "completed"
  <2>1. l \in Legs /\ Terminal(newest[LegCard[l]])
    BY DEF Done, Members
  <2>2. newest[LegCard[l]] = l
    BY <2>1, BatchAssumption DEF BatchInv, Linked, Terminal
  <2> QED
    BY <2>1, <2>2, BatchAssumption DEF Terminal
<1> QED
  BY <1>1 DEF Done, Members

LEMMA CallerSteps ==
    ASSUME BatchInv, NEW e \in Callers, Emits(e) \/ CallerDies(e) PROVE BatchInv'
<1> USE DEF BatchInv, BatchTypes
<1>1. CASE Report(e)
  <2>1. /\ call[e] = "reporting" /\ saw' = [saw EXCEPT ![e] = [done |-> Done, members |-> Members]]
        /\ UNCHANGED <<leg, newest, sentinel, sent>>
    BY <1>1 DEF Report
  <2>2. PICK state \in {"claiming", "over"} : call' = [call EXCEPT ![e] = state]
    BY <1>1 DEF Report
  <2>3. BatchTypes' /\ Linked'
    BY <2>1, <2>2, DoneCompleted DEF Linked
  <2>4. SeenDone'
    BY <2>1, DoneCompleted DEF SeenDone
  <2>5. CallsAfter'
    BY <2>1, <2>2 DEF CallsAfter, Callers
  <2>6. OneSender' /\ Sent'
    BY <2>1, <2>2 DEF OneSender, Sent
  <2> QED
    BY <2>3, <2>4, <2>5, <2>6
<1>2. CASE ClaimOnce(e)
  <2>1. /\ call[e] = "claiming" /\ sentinel' = TRUE /\ UNCHANGED <<leg, newest, saw, sent>>
        /\ call' = [call EXCEPT ![e] = IF sentinel THEN "over" ELSE "sending"]
    BY <1>2 DEF ClaimOnce
  <2>2. BatchTypes' /\ Linked' /\ SeenDone'
    BY <2>1 DEF Linked, SeenDone
  <2>3. CallsAfter'
    BY <2>1 DEF CallsAfter, Callers
  <2>4. OneSender' /\ Sent'
    BY <2>1 DEF OneSender, Sent
  <2> QED
    BY <2>2, <2>3, <2>4
<1>3. CASE Send(e)
  <2>1. /\ call[e] = "sending" /\ call' = [call EXCEPT ![e] = "over"]
        /\ sent' = sent \cup {[by |-> e, ok |-> saw[e].done = saw[e].members]}
        /\ UNCHANGED <<leg, newest, saw, sentinel>>
    BY <1>3 DEF Send
  <2>2. BatchTypes' /\ Linked' /\ SeenDone'
    BY <2>1 DEF Linked, SeenDone
  <2>3. CallsAfter'
    BY <2>1 DEF CallsAfter, Callers
  <2>4. sent = {} /\ sentinel
    BY <2>1 DEF OneSender
  <2>5. OneSender'
    BY <2>1, <2>4 DEF OneSender
  <2>6. Sent'
    <3> DEFINE push == [by |-> e, ok |-> saw[e].done = saw[e].members]
    <3>1. push.by = e /\ (push.ok <=> saw[e].done = saw[e].members)
      BY Zenon
    <3>2. sent' = {push}
      BY <2>1, <2>4
    <3> HIDE DEF push
    <3>3. call'[e] = "over"
      BY <2>1
    <3>4. \A p \in sent' : p = push
      BY <3>2
    <3> QED
      BY <2>1, <3>1, <3>3, <3>4, Zenon DEF Sent
  <2> QED
    BY <2>2, <2>3, <2>5, <2>6
<1>4. CASE CallerDies(e)
  <2>1. /\ call[e] \in {"reporting", "claiming", "sending"} /\ call' = [call EXCEPT ![e] = "dead"]
        /\ UNCHANGED <<leg, newest, saw, sentinel, sent>>
    BY <1>4 DEF CallerDies
  <2>2. BatchTypes' /\ Linked' /\ SeenDone'
    BY <2>1 DEF Linked, SeenDone
  <2>3. CallsAfter'
    BY <2>1 DEF CallsAfter, Callers
  <2>4. OneSender' /\ Sent'
    BY <2>1 DEF OneSender, Sent
  <2> QED
    BY <2>2, <2>3, <2>4
<1> QED
  BY <1>1, <1>2, <1>3, <1>4 DEF Emits

LEMMA BatchInvNext ==
    ASSUME OwnCards, BatchInv, [BatchNext]_batchVars PROVE BatchInv'
<1>1. CASE DeadlineComes
  <2>1. /\ call[Deadline] = "no" /\ call' = [call EXCEPT ![Deadline] = "reporting"]
        /\ UNCHANGED <<leg, newest, saw, sentinel, sent>> /\ Deadline \in Callers
    BY <1>1 DEF DeadlineComes, Callers
  <2>2. BatchTypes' /\ Linked' /\ SeenDone'
    BY <2>1 DEF BatchInv, BatchTypes, Linked, SeenDone
  <2>3. CallsAfter'
    BY <2>1, BatchAssumption DEF BatchInv, BatchTypes, CallsAfter, Callers
  <2>4. OneSender' /\ Sent'
    BY <2>1 DEF BatchInv, BatchTypes, OneSender, Sent
  <2> QED
    BY <2>2, <2>3, <2>4 DEF BatchInv
<1>2. CASE UNCHANGED batchVars
  BY <1>2 DEF batchVars, BatchInv, BatchTypes, Linked, SeenDone, CallsAfter, OneSender, Sent
<1> QED
  BY <1>1, <1>2, LegSteps, CallerSteps DEF BatchNext

\* However many workers complete together, with the deadline and with callers
\* that die, there is one push, and one that says the batch is done is right
\* (batch.py, emit_if_complete), if each leg has a card of its own that no
\* dispatch before was for.
THEOREM BatchPushes ==
    ASSUME OwnCards PROVE BatchSpec => []OneTruePush
<1>1. BatchInv => OneTruePush
  <2> SUFFICES ASSUME BatchInv PROVE SentOnce /\ DoneIsTrue
    BY DEF OneTruePush
  <2>1. SentOnce
    <3>1. CASE sent = {}
      BY <3>1, FS_EmptySet DEF SentOnce
    <3>2. CASE sent # {}
      <4>1. PICK a \in sent : sent = {a}
        BY <3>2 DEF BatchInv, OneSender
      <4> QED
        BY <4>1, FS_Singleton DEF SentOnce
    <3> QED
      BY <3>1, <3>2
  <2>2. DoneIsTrue
    BY DEF BatchInv, Sent, SeenDone, DoneIsTrue
  <2> QED
    BY <2>1, <2>2
<1>2. BatchInit => BatchInv
  BY BatchInvInit
<1>3. BatchInv /\ [BatchNext]_batchVars => BatchInv'
  BY BatchInvNext
<1> QED
  BY <1>1, <1>2, <1>3, PTL DEF BatchSpec
=============================================================================
