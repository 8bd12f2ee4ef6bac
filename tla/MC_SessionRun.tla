---------------------------- MODULE MC_SessionRun ----------------------------
(* Detached workers under every duty and every kill; and beside foreground  *)
(* runs, with nothing killed but what is reaped.  part names the one of the *)
(* two, so that they add up and do not multiply.                            *)
EXTENDS SessionRun

CONSTANTS w1, f1, o1

VARIABLE part

Alone ==
    /\ part = "alone" /\ UNCHANGED part
    /\ Next /\ \A s \in Sessions \ Workers : rpc'[s] = "off"

Beside ==
    /\ part = "beside" /\ UNCHANGED part
    /\ \/ \E p \in Procs : Work(p)
       \/ \E s \in Sessions : Launch(s) \/ Run(s) \/ ChildExits(s)
       \/ \E o \in Observers : \/ List(o) \/ Done(o) \/ NoteReason(o) \/ NoteStatus(o)
                               \/ \E s \in Sessions : Reap(o, s)

SessionsInit == Init /\ part \in {"alone", "beside"}
SessionsNext == Alone \/ Beside

SessionsSpec == SessionsInit /\ [][SessionsNext]_<<vars, part>>

FairSessions == SessionsSpec /\ Fairness
=============================================================================
