------------------------------ MODULE MC_Ledgers ------------------------------
(* What outlives the processes, side by side: the backlog, the datums, the  *)
(* worktrees, the usage markers, and a dispatch envelope with its ledger.   *)
(* part names the component that moves in a behaviour, so that they add up  *)
(* and do not multiply.                                                     *)
EXTENDS BacklogCards, Calibration, Worktrees, UsageWindow, DispatchEnvelope, TLC

CONSTANTS c1, c2, a1, a2, t1, t2, here, there, b1, b2, d1, w1, w2, q1, Stop,
          r1, r2, r3, listed

VARIABLE part

Clash1 == {{c1, c2}}
Project2 == t1 :> here @@ t2 :> there
Slug1 == b1 :> d1 @@ b2 :> d1

Parts == {"backlog", "datums", "worktrees", "usage", "envelope"}

vars == <<backlogVars, calVars, treeVars, windowVars, envVars, part>>

Only(component, A, others) == part = component /\ A /\ UNCHANGED <<others, part>>

Init == BacklogInit /\ CalInit /\ TreeInit /\ WindowInit /\ EnvInit /\ part \in Parts

Next ==
    \/ Only("backlog", BacklogNext, <<calVars, treeVars, windowVars, envVars>>)
    \/ Only("datums", CalNext, <<backlogVars, treeVars, windowVars, envVars>>)
    \/ Only("worktrees", TreeNext, <<backlogVars, calVars, windowVars, envVars>>)
    \/ Only("usage", WindowNext, <<backlogVars, calVars, treeVars, envVars>>)
    \/ Only("envelope", EnvNext, <<backlogVars, calVars, treeVars, windowVars>>)

Spec == Init /\ [][Next]_vars
=============================================================================
