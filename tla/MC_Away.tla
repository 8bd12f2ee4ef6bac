------------------------------- MODULE MC_Away -------------------------------
(* The timers, the batch signal and the input bridge side by side: part     *)
(* names the component that moves in a behaviour, so that they add up and   *)
(* do not multiply.                                                         *)
EXTENDS AwaySchedule, BatchSignal, InputBridge, TLC

CONSTANTS s1, p1, p2, l1, l2, l3, deadline, red, green, blue,
          ask1, ask2

VARIABLE part

Cards1 == l1 :> red @@ l2 :> green @@ l3 :> blue

vars == <<awayVars, batchVars, bridgeVars, part>>

Only(component, A, others) == part = component /\ A /\ UNCHANGED <<others, part>>
Timers(A) == Only("timers", A, <<batchVars, bridgeVars>>)
Batch(A)  == Only("batch", A, <<awayVars, bridgeVars>>)
Bridge(A) == Only("bridge", A, <<awayVars, batchVars>>)

Init == /\ AwayInit /\ BatchInit /\ BridgeInit
        /\ part \in {"timers", "batch", "bridge"}
Next == Timers(AwayNext) \/ Batch(BatchNext) \/ Bridge(BridgeNext)

\* Systemd and the commands it runs go on, callers of the signal too; asker
\* and listener keep running, and the owner taps the button of every request
\* he is shown.
Fairness ==
    /\ WF_vars(Timers(ComesUp))
    /\ \A s \in Scheds : WF_vars(Timers(Systemd(s))) /\ WF_vars(Timers(SlotComes(s)))
    /\ \A p \in Clerks : WF_vars(Timers(Command(p)))
    /\ \A e \in Callers : WF_vars(Batch(Emits(e)))
    /\ WF_vars(Bridge(Listen))
    /\ \A r \in Requests : WF_vars(Bridge(Asker(r))) /\ WF_vars(Bridge(Tap(r)))

Spec == Init /\ [][Next]_vars /\ Fairness
=============================================================================
