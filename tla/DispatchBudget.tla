---------------------------- MODULE DispatchBudget ----------------------------
(***************************************************************************)
(* What a standing envelope promises its owner, with no file, ledger or    *)
(* process in sight: unattended runs start only on an authorization that   *)
(* was open when they asked, and never more often than the budget allows.  *)
(***************************************************************************)
EXTENDS Naturals, FiniteSets

CONSTANTS Asker,      \* the unattended runs
          Card,       \* the cards they are for
          Allowance   \* Allowance[c]: how many runs for card c may start

VARIABLES phase,      \* "unopened", "open" or "closed"
          asking,     \* the runs that asked while the authorization was open
          started     \* started[c]: the runs started for card c

budgetVars == <<phase, asking, started>>

BudgetInit ==
    /\ phase = "unopened" /\ asking = {}
    /\ started = [c \in Card |-> {}]

Open == /\ phase = "unopened" /\ phase' = "open"
        /\ UNCHANGED <<asking, started>>

Close == /\ phase # "closed" /\ phase' = "closed"
         /\ UNCHANGED <<asking, started>>

Ask(r) == /\ phase = "open" /\ asking' = asking \cup {r}
          /\ UNCHANGED <<phase, started>>

Withdraw(r) == /\ r \in asking /\ asking' = asking \ {r}
               /\ UNCHANGED <<phase, started>>

Start(r, c) ==
    /\ r \in asking /\ asking' = asking \ {r}
    /\ Cardinality(started[c]) < Allowance[c]
    /\ started' = [started EXCEPT ![c] = @ \cup {r}]
    /\ UNCHANGED phase

BudgetNext ==
    \/ Open \/ Close
    \/ \E r \in Asker : Ask(r) \/ Withdraw(r)
    \/ \E r \in Asker, c \in Card : Start(r, c)

Budget == BudgetInit /\ [][BudgetNext]_budgetVars
=============================================================================
