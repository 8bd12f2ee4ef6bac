----------------------------- MODULE AwaySchedule -----------------------------
(***************************************************************************)
(* Scheduled dispatches (horus/schedule.py and `horus schedule` in         *)
(* horus/cli.py).  There is no registry of schedules: the unit files, the  *)
(* .halt markers and systemd's own Persistent stamps are the record, and   *)
(* every command is a series of file writes and systemctl calls that a     *)
(* failure, a kill or a machine going down may cut anywhere.               *)
(***************************************************************************)
EXTENDS Integers, FiniteSets

CONSTANTS Scheds,      \* the schedule ids
          Clerks,      \* processes that run `horus schedule` or a halt
          Faults,      \* what may go wrong: see below
          MaxCrashes,  \* bound on the times the machine goes down
          MaxIssued    \* bound on the commands, creations aside

\* "kill": a command dies.  "rc": enable or daemon-reload of a creation
\* reports failure.  "timeout": systemctl does not answer in time, having
\* acted or not.  "stuck": disable reports failure and has done nothing.
FaultKinds == {"kill", "rc", "timeout", "stuck"}

ASSUME AwayAssumption ==
    /\ Faults \subseteq FaultKinds /\ MaxCrashes \in Nat /\ MaxIssued \in Nat
    /\ "none" \notin Scheds

VARIABLES disk,     \* disk[s]: the unit files of s
          marked,   \* the schedules with a .halt marker
          wanted,   \* the timers linked into timers.target.wants
          armed,    \* the timers systemd waits for
          stamp,    \* stamp[s]: "none", or the Persistent stamp's mtime:
                    \* "early" (before the slot) or "late"
          due,      \* the schedules whose slot has come
          service,  \* service[s]: what systemd knows: "idle", "running",
                    \* "failed" (OnFailure is to run), "done"
          ran,      \* ran[s]: how often the dispatch of s has run
          told,     \* the schedules whose failed launch was escalated
          up,       \* is the machine up?
          crashes,  \* times it went down
          cmd,      \* cmd[p]: the command process p is in
          fate,     \* fate[s]: "new", "creating", "scheduled", "refused",
                    \* "cancelled", or "abandoned" by a creation cut short
          tangled,  \* the schedules on which a command was cut short, or two
                    \* commands overlapped
          issued    \* commands issued

units    == <<disk, marked, wanted>>
systemd  == <<armed, stamp, service, ran, told>>
machine  == <<due, up, crashes>>
records  == <<fate, tangled, issued>>
awayVars == <<units, systemd, machine, cmd, records>>

Idle == [op |-> "none", on |-> "none", pc |-> "done"]
Steps(p, pc) == cmd' = [cmd EXCEPT ![p].pc = pc]
Ends(p) == cmd' = [cmd EXCEPT ![p] = Idle]
At(p, op, pc) == up /\ cmd[p].op = op /\ cmd[p].pc = pc
Busy(s) == \E p \in Clerks : cmd[p].on = s

UnitFiles == {"service", "notify", "timer"}

AwayInit ==
    /\ disk = [s \in Scheds |-> {}] /\ marked = {} /\ wanted = {}
    /\ armed = {} /\ stamp = [s \in Scheds |-> "none"]
    /\ service = [s \in Scheds |-> "idle"] /\ ran = [s \in Scheds |-> 0] /\ told = {}
    /\ due = {} /\ up = TRUE /\ crashes = 0
    /\ cmd = [p \in Clerks |-> Idle] /\ issued = 0
    /\ fate = [s \in Scheds |-> "new"] /\ tangled = {}

-----------------------------------------------------------------------------
(* What the record says of a schedule: load_all, _read_halt, _live_state.  *)

Listed(s) == "timer" \in disk[s]

\* A next elapse means pending; otherwise the stamp, or the service's own
\* memory, says whether it has fired.  "inert" is listed as pending too.
Shown(s) ==
    CASE s \in marked -> "halted"
      [] s \notin marked /\ s \in armed -> "pending"
      [] s \notin marked /\ s \notin armed /\ (stamp[s] = "late" \/ service[s] # "idle") -> "fired"
      [] OTHER -> "inert"

-----------------------------------------------------------------------------
(* systemd, as the units written by _timer_unit and _service_unit drive it.*)

\* Mutant: a slot is caught up whatever the stamp says.
SlotLeft_Always(s) == s \in DOMAIN stamp

\* A one-shot OnCalendar timer with Persistent=true still has a slot to fire,
\* or to catch up, unless its stamp is from that slot or later.
SlotLeft(s) == stamp[s] # "late"

\* `enable --now`: starting a timer without a stamp leaves one of now.
EnableNow(s) ==
    /\ wanted' = wanted \cup {s}
    /\ IF stamp[s] = "none"
         THEN /\ stamp' = [stamp EXCEPT ![s] = IF s \in due THEN "late" ELSE "early"]
              /\ armed' = IF s \in due THEN armed ELSE armed \cup {s}
         ELSE /\ armed' = IF SlotLeft(s) THEN armed \cup {s} ELSE armed
              /\ UNCHANGED stamp

\* Mutant: disable without --now leaves the running timer.
DisableNow_Later(s) == wanted' = wanted \ {s} /\ UNCHANGED armed

DisableNow(s) == wanted' = wanted \ {s} /\ armed' = armed \ {s}

Untouched == UNCHANGED <<wanted, armed, stamp>>

\* The timer elapses, or catches up on the slot it missed.
Fire(s) ==
    /\ up /\ s \in armed /\ s \in due
    /\ armed' = armed \ {s} /\ stamp' = [stamp EXCEPT ![s] = "late"]
    /\ service' = [service EXCEPT ![s] = "running"]
    /\ ran' = [ran EXCEPT ![s] = @ + 1]
    /\ UNCHANGED <<units, told, machine, cmd, records>>

\* The launch returns, or exits with an error before any worker exists.
Launches(s) ==
    /\ up /\ service[s] = "running"
    /\ \E end \in {"done", "failed"} : service' = [service EXCEPT ![s] = end]
    /\ UNCHANGED <<units, armed, stamp, ran, told, machine, cmd, records>>

\* Mutant: it needs the unit files, which a cancel removes.
OnFailure_NeedsFiles(s) ==
    /\ up /\ service[s] = "failed" /\ Listed(s)
    /\ service' = [service EXCEPT ![s] = "done"] /\ told' = told \cup {s}
    /\ UNCHANGED <<units, armed, stamp, ran, machine, cmd, records>>

\* The OnFailure unit: `horus notify escalate`.  It runs from what systemd
\* has loaded.
OnFailure(s) ==
    /\ up /\ service[s] = "failed"
    /\ service' = [service EXCEPT ![s] = "done"] /\ told' = told \cup {s}
    /\ UNCHANGED <<units, armed, stamp, ran, machine, cmd, records>>

\* The slot comes.  A creation takes a second and is for minutes ahead, so
\* the slot does not come before it is over.
SlotComes(s) ==
    /\ s \notin due /\ fate[s] \notin {"new", "creating"}
    /\ due' = due \cup {s}
    /\ UNCHANGED <<units, systemd, up, crashes, cmd, records>>

\* The commands of the processes in C are cut short.
Cuts(C) ==
    /\ tangled' = tangled \cup {s \in Scheds : \E p \in C : cmd[p].on = s}
    /\ fate' = [s \in Scheds |->
                  IF \E p \in C : cmd[p].on = s /\ cmd[p].op = "create"
                    THEN "abandoned" ELSE fate[s]]

\* The machine goes down, with every command on it; what systemd held in
\* memory is gone.
GoesDown ==
    /\ up /\ crashes < MaxCrashes
    /\ up' = FALSE /\ crashes' = crashes + 1
    /\ armed' = {} /\ service' = [s \in Scheds |-> "idle"]
    /\ cmd' = [p \in Clerks |-> Idle]
    /\ Cuts(Clerks)
    /\ UNCHANGED <<units, stamp, ran, told, due, issued>>

\* Every linked timer that still has its unit file is started.
ComesUp ==
    /\ ~ up /\ up' = TRUE
    /\ armed' = {s \in wanted : Listed(s) /\ SlotLeft(s)}
    /\ UNCHANGED <<units, stamp, service, ran, told, due, crashes, cmd, records>>

-----------------------------------------------------------------------------
(* create: three files, a reload, enable --now; undone when systemd says   *)
(* no, but not when systemctl does not say anything in time.               *)

BeginCreate(p, s) ==
    /\ up /\ cmd[p] = Idle /\ fate[s] = "new"
    /\ cmd' = [cmd EXCEPT ![p] = [op |-> "create", on |-> s, pc |-> "service"]]
    /\ fate' = [fate EXCEPT ![s] = "creating"]
    /\ UNCHANGED <<units, systemd, machine, tangled, issued>>

After == [service |-> "notify", notify |-> "timer", timer |-> "reload"]

WriteUnit(p) ==
    /\ up /\ cmd[p].op = "create" /\ cmd[p].pc \in UnitFiles
    /\ disk' = [disk EXCEPT ![cmd[p].on] = @ \cup {cmd[p].pc}]
    /\ Steps(p, After[cmd[p].pc])
    /\ UNCHANGED <<marked, wanted, systemd, machine, records>>

\* Mutant: the timer is left behind.
RemoveUnits_NotTimer(s) ==
    /\ disk' = [disk EXCEPT ![s] = @ \cap {"timer"}] /\ marked' = marked \ {s}
    /\ stamp' = [stamp EXCEPT ![s] = "none"]

\* _remove_units: the unit files, the marker and the stamp.
RemoveUnits(s) ==
    /\ disk' = [disk EXCEPT ![s] = {}] /\ marked' = marked \ {s}
    /\ stamp' = [stamp EXCEPT ![s] = "none"]

Refuse(p) == Ends(p) /\ fate' = [fate EXCEPT ![cmd[p].on] = "refused"]

CreateReload(p) ==
    /\ At(p, "create", "reload")
    /\ \/ Steps(p, "enable") /\ UNCHANGED <<fate, units, stamp>>
       \/ /\ "rc" \in Faults /\ Refuse(p) /\ RemoveUnits(cmd[p].on)
          /\ UNCHANGED wanted
       \/ "timeout" \in Faults /\ Refuse(p) /\ UNCHANGED <<units, stamp>>
    /\ UNCHANGED <<armed, service, ran, told, machine, tangled, issued>>

CreateEnable(p) ==
    LET s == cmd[p].on IN
    /\ At(p, "create", "enable")
    /\ \/ /\ Listed(s) /\ EnableNow(s) /\ Ends(p)
          /\ fate' = [fate EXCEPT ![s] = "scheduled"] /\ UNCHANGED <<disk, marked>>
       \/ /\ "rc" \in Faults \/ ~ Listed(s)
          /\ Refuse(p) /\ RemoveUnits(s)
          /\ wanted' \in {wanted, wanted \cup {s}} /\ UNCHANGED armed
       \/ /\ "timeout" \in Faults /\ Refuse(p)
          /\ EnableNow(s) \/ Untouched
          /\ UNCHANGED <<disk, marked>>
    /\ UNCHANGED <<service, ran, told, machine, tangled, issued>>

-----------------------------------------------------------------------------
(* cancel, halt and release find their schedule in load_all and then act   *)
(* on it, whatever has become of it since.                                 *)

Begin(p, op, s) ==
    /\ up /\ cmd[p] = Idle /\ Listed(s) /\ issued < MaxIssued
    /\ issued' = issued + 1
    /\ tangled' = IF Busy(s) THEN tangled \cup {s} ELSE tangled
    /\ cmd' = [cmd EXCEPT ![p] = [op |-> op, on |-> s, pc |-> "systemctl"]]
    /\ UNCHANGED <<units, systemd, machine, fate>>

BeginCancel(p, s) == Begin(p, "cancel", s)

\* A halt comes from halt_dependents, which passes over what has fired or is
\* halted already.
BeginHalt(p, s) == Shown(s) \in {"pending", "inert"} /\ Begin(p, "halt", s)

BeginRelease(p, s) == s \in marked /\ Begin(p, "release", s)

\* A timeout is an error the command ends with; a return code is not read.
Disable(p, op) ==
    LET s == cmd[p].on IN
    /\ At(p, op, "systemctl")
    /\ \/ DisableNow(s) /\ Steps(p, "files") /\ UNCHANGED <<stamp, tangled>>
       \/ "stuck" \in Faults /\ Untouched /\ Steps(p, "files") /\ UNCHANGED tangled
       \/ /\ "timeout" \in Faults /\ Ends(p)
          /\ tangled' = tangled \cup {s}
          /\ UNCHANGED stamp /\ (DisableNow(s) \/ UNCHANGED <<wanted, armed>>)
    /\ UNCHANGED <<disk, marked, service, ran, told, machine, fate, issued>>

CancelRemove(p) ==
    LET s == cmd[p].on IN
    /\ At(p, "cancel", "files") /\ RemoveUnits(s) /\ Ends(p)
    /\ fate' = [fate EXCEPT ![s] = IF @ = "scheduled" THEN "cancelled" ELSE @]
    /\ UNCHANGED <<wanted, armed, service, ran, told, machine, tangled, issued>>

HaltMark(p) ==
    /\ At(p, "halt", "files") /\ marked' = marked \cup {cmd[p].on} /\ Ends(p)
    /\ UNCHANGED <<disk, wanted, systemd, machine, records>>

ReleaseEnable(p) ==
    LET s == cmd[p].on IN
    /\ At(p, "release", "systemctl")
    /\ \/ Listed(s) /\ EnableNow(s) /\ Steps(p, "files") /\ UNCHANGED tangled
       \/ /\ ~ Listed(s) \/ "stuck" \in Faults
          /\ Untouched /\ Steps(p, "files") /\ UNCHANGED tangled
       \/ /\ "timeout" \in Faults /\ Ends(p) /\ tangled' = tangled \cup {s}
          /\ (Listed(s) /\ EnableNow(s)) \/ Untouched
    /\ UNCHANGED <<disk, marked, service, ran, told, machine, fate, issued>>

ReleaseUnmark(p) ==
    /\ At(p, "release", "files") /\ marked' = marked \ {cmd[p].on} /\ Ends(p)
    /\ UNCHANGED <<disk, wanted, systemd, machine, records>>

\* A command dies between two of its steps.
CommandDies(p) ==
    /\ up /\ "kill" \in Faults /\ cmd[p] # Idle /\ Ends(p) /\ Cuts({p})
    /\ UNCHANGED <<units, systemd, machine, issued>>

-----------------------------------------------------------------------------
Systemd(s) == Fire(s) \/ Launches(s) \/ OnFailure(s)

Command(p) ==
    \/ WriteUnit(p) \/ CreateReload(p) \/ CreateEnable(p)
    \/ Disable(p, "cancel") \/ CancelRemove(p)
    \/ Disable(p, "halt") \/ HaltMark(p)
    \/ ReleaseEnable(p) \/ ReleaseUnmark(p)

AwayNext ==
    \/ GoesDown \/ ComesUp
    \/ \E s \in Scheds : Systemd(s) \/ SlotComes(s)
    \/ \E p \in Clerks :
          \/ Command(p) \/ CommandDies(p)
          \/ \E s \in Scheds : \/ BeginCreate(p, s) \/ BeginCancel(p, s)
                               \/ BeginHalt(p, s) \/ BeginRelease(p, s)

\* systemd acts on what is due, a machine that went down comes up again, and
\* a command that is not killed goes on.
AwayFairness ==
    /\ WF_awayVars(ComesUp)
    /\ \A s \in Scheds : WF_awayVars(Systemd(s)) /\ WF_awayVars(SlotComes(s))
    /\ \A p \in Clerks : WF_awayVars(Command(p))

AwaySpec == AwayInit /\ [][AwayNext]_awayVars /\ AwayFairness

-----------------------------------------------------------------------------
(* Properties.                                                             *)

AwayTypeOK ==
    /\ disk \in [Scheds -> SUBSET UnitFiles]
    /\ marked \subseteq Scheds /\ wanted \subseteq Scheds /\ armed \subseteq Scheds
    /\ stamp \in [Scheds -> {"none", "early", "late"}] /\ due \subseteq Scheds
    /\ service \in [Scheds -> {"idle", "running", "failed", "done"}]
    /\ ran \in [Scheds -> Nat] /\ told \subseteq Scheds
    /\ up \in BOOLEAN /\ crashes \in 0..MaxCrashes /\ issued \in 0..MaxIssued
    /\ cmd \in [Clerks ->
          [op : {"none", "create", "cancel", "halt", "release"}, on : Scheds \cup {"none"},
           pc : UnitFiles \cup {"reload", "enable", "systemctl", "files", "done"}]]
    /\ fate \in [Scheds -> {"new", "creating", "scheduled", "refused", "cancelled", "abandoned"}]
    /\ tangled \subseteq Scheds

\* A card is done once: no halt, release, reboot or caught-up slot makes the
\* timer of one schedule fire twice.
FiresOnce == \A s \in Scheds : ran[s] <= 1

\* A creation that was refused leaves no unit behind, and nothing that fires.
RefusedLeavesNothing ==
    \A s \in Scheds :
        fate[s] = "refused" /\ s \notin tangled
            => disk[s] = {} /\ s \notin armed /\ ran[s] = 0

\* The list is honest: a schedule that no command was cut short on is shown
\* as fired exactly when its dispatch has run, reboots or not.
ShownFiredHasRun ==
    \A s \in Scheds :
        fate[s] = "scheduled" /\ Listed(s) /\ s \notin tangled \cup marked /\ ~ Busy(s)
            => (Shown(s) = "fired" <=> ran[s] = 1)

\* Both: a schedule fires once, and the list says so.
FiredOnceAsShown == FiresOnce /\ ShownFiredHasRun

\* A dispatch with the andon on it does not start: whatever fires is not
\* marked, unless a release has armed it again or a command was cut.
Releasing(s) == \E p \in Clerks : cmd[p].op = "release" /\ cmd[p].on = s
HaltedNeverFires ==
    [][\A s \in Scheds :
          ran'[s] # ran[s] /\ s \in marked => Releasing(s) \/ s \in tangled]_awayVars

\* A schedule nobody cancels or halts runs, though the machine goes down and
\* up again before its slot, in it or after it.
ScheduledRuns ==
    \A s \in Scheds :
        fate[s] = "scheduled" ~>
            (ran[s] = 1 \/ fate[s] = "cancelled" \/ s \in marked \cup tangled)

\* A launch that fails is escalated, unless the machine goes down with it.
FailureIsTold ==
    \A s \in Scheds : service[s] = "failed" ~> (s \in told \/ service[s] = "idle")

\* Both: a schedule does not pass in silence.
RunsOrTells == ScheduledRuns /\ FailureIsTold
=============================================================================
