--------------------------- MODULE MC_Supervision ---------------------------
(* Model-checking instances of Supervision: two scheduled dispatches that   *)
(* build on the supervised card, one of them only through the other.        *)
EXTENDS Supervision, TLC

CONSTANTS s1, s2, owner, sup1, sup2, base, next, last

Chain == base :> {} @@ next :> {base} @@ last :> {next}
Armed == s1 :> next @@ s2 :> last
Symm == Permutations(Supervisors)
=============================================================================
