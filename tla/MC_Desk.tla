------------------------------- MODULE MC_Desk -------------------------------
(* What the owner's own hands reach: a repository, in a clone beside others; *)
(* the geometry of a terminal, between a wide desktop page and a tall phone  *)
(* page; and the frames of the terminal cockpit.  part names the one that    *)
(* moves in a behaviour, so that they add up and do not multiply.            *)
EXTENDS ContinuitySync, ViewerGeometry, TerminalUI, TLC

CONSTANTS laptop, desktop, phone

VARIABLE part

\* Two pages of different shapes, on a terminal that starts larger than both.
GridsMC == {<<3, 1>>, <<2, 3>>, <<3, 3>>}
StartMC == <<4, 4>>

\* Two projects, one of them the cockpit, with a card each.
Listed2 == <<"hub", "app">>
Cards2 == "hub" :> <<"k0">> @@ "app" :> <<"k1">>
Ready1 == {"k1"}
Accounts2 == <<"a1", "a2">>
Models0 == <<>>
Models3 == <<"m1", "m2", "m3">>
Postures2 == <<"plan", "default">>
Recorded1 == <<"s1">>

deskVars == <<syncVars, geoVars, uiVars, part>>

DeskInit ==
    /\ ContinuityInit /\ GeoInit /\ UIInit
    /\ part \in {"repository", "terminal", "cockpit"}
DeskNext ==
    \/ part = "repository" /\ ContinuityNext /\ UNCHANGED <<geoVars, uiVars, part>>
    \/ part = "terminal" /\ GeoNext /\ UNCHANGED <<syncVars, uiVars, part>>
    \/ part = "cockpit" /\ UINext /\ UNCHANGED <<syncVars, geoVars, part>>

DeskSpec == DeskInit /\ [][DeskNext]_deskVars
=============================================================================
