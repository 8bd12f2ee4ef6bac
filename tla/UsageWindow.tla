------------------------------ MODULE UsageWindow ------------------------------
(***************************************************************************)
(* One account's usage window against what watches it: the keep-warm       *)
(* service (horus/keepwarm.py), and the hooks of a session that runs on    *)
(* the account, the guard that saves its work near the limit and the       *)
(* closure prompts (horus/cli.py, native_hooks.py).  Time is in ticks.     *)
(***************************************************************************)
EXTENDS Integers, FiniteSets

CONSTANTS Window,    \* ticks a usage window lasts from its first turn
          Offset,    \* ticks after the reset at which keep-warm fires
          Rearm,     \* ticks the rescue and the fallback stay silent
          Hooks,     \* the hook events that prompt: Stop, UserPromptSubmit
          Horizon,   \* bound: ticks
          MaxFails   \* bound: warmups that fail, and restarts of the service

ASSUME WindowAssumption ==
    /\ Window \in Nat \ {0} /\ Offset \in Nat \ {0} /\ Rearm \in Nat
    /\ Horizon \in Nat /\ MaxFails \in Nat

Bands == {1, 2}      \* the closure threshold and the emergency band
Never == 0 - 1

VARIABLES now,
          opened,    \* when the window's first turn was, or Never
          level,     \* the band the window's use has crossed, or 0
          reset,     \* the reset the usage cache has of some window, or Never
          wake,      \* when the service warms next
          sure,      \* did its last warmup know the window's reset?
          cold,      \* ticks without a window so far
          fails,
          rescuedAt, \* the rescue sentinel: when it was written, or Never
          nudged,    \* nudged[h]: the band sentinel of hook h
          saves,     \* the emergency saves made in the last window opened
          asks,      \* the prompts given in it: <<hook, band>>
          again      \* was one of them given twice?

givenVars == <<saves, asks, again>>
windowVars == <<now, opened, level, reset, wake, sure, cold, fails,
                rescuedAt, nudged, givenVars>>
hookVars == <<rescuedAt, nudged, givenVars>>
serviceVars == <<wake, sure, fails>>

Unmarked == [band |-> 0, reset |-> Never, ts |-> Never]

WindowInit ==
    /\ now = 0 /\ opened = Never /\ level = 0 /\ reset = Never
    /\ wake = 0 /\ sure = FALSE /\ cold = 0 /\ fails = 0
    /\ rescuedAt = Never /\ nudged = [h \in Hooks |-> Unmarked]
    /\ saves = 0 /\ asks = {} /\ again = FALSE

-----------------------------------------------------------------------------
(* The account.                                                            *)

IsOpen == opened # Never
ResetsAt == opened + Window

\* A window ends its length after its first turn.
Tick ==
    /\ now < Horizon /\ wake > now /\ now' = now + 1
    /\ IF IsOpen /\ now' >= ResetsAt THEN opened' = Never /\ level' = 0
                                    ELSE UNCHANGED <<opened, level>>
    /\ cold' = IF IsOpen THEN 0 ELSE cold + 1
    /\ UNCHANGED <<reset, serviceVars, hookVars>>

Opens == IF IsOpen THEN UNCHANGED <<opened, saves, asks>>
                   ELSE opened' = now /\ saves' = 0 /\ asks' = {}

\* The owner or a worker takes a turn.  Only a session with a status line
\* records the reset.
Turn(recorded) ==
    /\ Opens /\ level' \in level..2
    /\ reset' = IF recorded THEN opened' + Window ELSE reset
    /\ cold' = 0 /\ UNCHANGED <<now, serviceVars, rescuedAt, nudged, again>>

-----------------------------------------------------------------------------
(* The keep-warm service.                                                  *)

\* Mutant: the fixed cadence, whatever was recorded.
NextDelay_Fixed == Window + Offset

\* next_delay: the window this warmup opened, or a recorded reset to come.
NextDelay == IF reset > now THEN reset + Offset - now ELSE Window + Offset

Warms(ok) ==
    /\ wake <= now
    /\ IF ok THEN Opens /\ UNCHANGED fails
             ELSE fails < MaxFails /\ fails' = fails + 1 /\ UNCHANGED <<opened, saves, asks>>
    /\ wake' = now + NextDelay
    /\ sure' = (ok /\ (~IsOpen \/ reset = ResetsAt))
    /\ cold' = IF ok THEN 0 ELSE cold
    /\ UNCHANGED <<now, level, reset, rescuedAt, nudged, again>>

\* systemd restarts the service: it warms at once.
Restarts ==
    /\ fails < MaxFails /\ fails' = fails + 1 /\ wake' = now /\ UNCHANGED sure
    /\ UNCHANGED <<now, opened, level, reset, cold, hookVars>>

-----------------------------------------------------------------------------
(* The hooks of a session.  Each reads the account as it is, and the reset  *)
(* may be missing from what it reads.                                      *)

\* Mutant: the re-arm of the advisories, which is shorter than a window.
Rescued_Briefly == rescuedAt # Never /\ now - rescuedAt < Offset

\* sentinel_fired, for the rescue.
Rescued == rescuedAt # Never /\ now - rescuedAt < Rearm

\* _usage_guard_hook in the emergency band.
AtLimit == IsOpen /\ level = 2
Guard ==
    /\ AtLimit /\ ~Rescued
    /\ rescuedAt' = now /\ saves' = saves + 1
    /\ UNCHANGED <<now, opened, level, reset, serviceVars, cold, nudged, asks, again>>

\* Mutant: the mark is trusted only with the reset it was made for.
Nudged_Strict(h, band, seen) == nudged[h].reset = seen /\ nudged[h].band >= band

\* band_sentinel_fired: in this window, or, with a reset missing on one side,
\* within a window's length.
Nudged(h, band, seen) ==
    /\ nudged[h].ts # Never /\ nudged[h].band >= band
    /\ IF seen # Never /\ nudged[h].reset # Never THEN nudged[h].reset = seen
                                                  ELSE now - nudged[h].ts < Rearm

\* _usage_check_claude --hook.
Asks(h) ==
    /\ IsOpen /\ level \in Bands
    /\ \E seen \in {ResetsAt, Never} :
          /\ ~Nudged(h, level, seen)
          /\ nudged' = [nudged EXCEPT ![h] = [band |-> level, reset |-> seen, ts |-> now]]
    /\ asks' = asks \cup {<<h, level>>} /\ again' = (again \/ <<h, level>> \in asks)
    /\ UNCHANGED <<now, opened, level, reset, serviceVars, cold, rescuedAt, saves>>

-----------------------------------------------------------------------------
WindowNext ==
    \/ Tick \/ Restarts \/ Guard
    \/ \E flag \in BOOLEAN : Turn(flag) \/ Warms(flag)
    \/ \E h \in Hooks : Asks(h)

WindowSpec == WindowInit /\ [][WindowNext]_windowVars

-----------------------------------------------------------------------------
(* Properties.                                                             *)

WindowTypeOK ==
    /\ now \in 0..Horizon /\ opened \in Never..Horizon /\ rescuedAt \in Never..Horizon
    /\ level \in 0..2 /\ cold \in 0..Horizon /\ fails \in 0..MaxFails
    /\ reset \in Never..(Horizon + Window) /\ wake \in Nat /\ sure \in BOOLEAN
    /\ nudged \in [Hooks -> [band : 0..2, reset : Never..(Horizon + Window),
                             ts : Never..Horizon]]
    /\ saves \in Nat /\ asks \subseteq Hooks \X Bands /\ again \in BOOLEAN

\* A session saves its work at most once in a window, and is asked to close
\* at most once for a band in a window, though the two markers know time and
\* resets but no windows, and a reset may be missing.
NudgedOnce == saves <= 1 /\ ~again

\* Once the service has known a window's reset, the account is without a
\* window for no longer than the service waits after a reset, though turns it
\* has not seen open the next windows before it fires, and it is restarted.
StaysWarm == sure => cold <= Offset

\* What the documentation says: the emergency save is made once per window.
\* In a window at the limit whose guard has run, there is one.
SavedInEach == AtLimit /\ Rescued => saves >= 1
=============================================================================
