------------------------ MODULE DispatchEnvelope_proofs ------------------------
(***************************************************************************)
(* What the standing envelope guarantees for every number of dispatches,   *)
(* cards, slots and torn lines.                                            *)
(***************************************************************************)
EXTENDS DispatchEnvelope, FiniteSetTheorems, TLAPS

AuthFor(c) == {r \in Authorized : run[r].card = c}
Lost == {r \in Spent : \A e \in rows : e.run # r}
Gone == {"recorded", "running", "refused", "dead"}

\* A dispatch past the load has a card; past the validation, a listed one,
\* and bounds that were not revoked when it loaded them.
RunInv ==
    \A r \in Runs :
        /\ run[r].pc # "idle" => run[r].card \in Cards
        /\ run[r].pc \in {"authorized", "placed", "recorded", "running"} =>
              ~ run[r].grounded /\ run[r].card \in Allowed

\* A line stands for the dispatch that wrote it.
RowInv ==
    /\ IsFiniteSet(rows)
    /\ \A e \in rows : /\ run[e.run].card = e.card /\ run[e.run].day = e.day
                       /\ run[e.run].pc \in Gone /\ e.day <= today

\* A torn line that waits for the next append has not lost it yet.
LostInv == Cardinality(Lost) + (IF ragged THEN 1 ELSE 0) <= tears

SlotInv == Cardinality(UnderWay) <= Slots

\* Who validated and has not appended is one of those under way together.
CardInv == \A c \in Cards :
    Cardinality(RowsOf(c)) + Cardinality(AuthFor(c)) <= MaxAttempts + Slots - 1

DayInv == /\ Cardinality(RowsOn(today)) + Cardinality(Authorized) <= MaxPerDay + Slots - 1
          /\ \A d \in 0..LastDay : Cardinality(RowsOn(d)) <= MaxPerDay + Slots - 1

OwnerInv == owner # "none" => file = "torn"

EnvInv == /\ EnvTypeOK /\ RunInv /\ RowInv /\ LostInv /\ SlotInv
          /\ CardInv /\ DayInv /\ OwnerInv

USE EnvelopeAssumption DEF EnvelopeAssumption

-----------------------------------------------------------------------------
(* Sizes of finite sets.                                                   *)

LEMMA Smaller ==
  ASSUME NEW T, IsFiniteSet(T), NEW S, S \subseteq T
  PROVE  /\ IsFiniteSet(S) /\ Cardinality(S) \in Nat /\ Cardinality(T) \in Nat
         /\ Cardinality(S) <= Cardinality(T)
BY FS_Subset, FS_CardinalityType

LEMMA OneMore ==
  ASSUME NEW T, IsFiniteSet(T), NEW S, NEW x, S \subseteq T \cup {x}
  PROVE  /\ IsFiniteSet(S) /\ Cardinality(S) \in Nat /\ Cardinality(T) \in Nat
         /\ Cardinality(S) <= Cardinality(T) + 1
<1>1. Cardinality(T) \in Nat
  BY FS_CardinalityType
<1>2. /\ IsFiniteSet(T \cup {x})
      /\ Cardinality(T \cup {x}) = IF x \in T THEN Cardinality(T) ELSE Cardinality(T) + 1
  BY FS_AddElement
<1>3. IsFiniteSet(S) /\ Cardinality(S) \in Nat /\ Cardinality(S) <= Cardinality(T \cup {x})
  BY <1>2, Smaller
<1> QED  BY <1>1, <1>2, <1>3

LEMMA OneLess ==
  ASSUME NEW T, IsFiniteSet(T), NEW x \in T, NEW S, S \subseteq T \ {x}
  PROVE  /\ IsFiniteSet(S) /\ Cardinality(S) \in Nat /\ Cardinality(T) \in Nat
         /\ Cardinality(S) + 1 <= Cardinality(T)
<1>1. /\ IsFiniteSet(T \ {x}) /\ Cardinality(T) \in Nat
      /\ Cardinality(T \ {x}) = Cardinality(T) - 1
  BY FS_RemoveElement, FS_CardinalityType
<1> QED  BY <1>1, Smaller

\* Sets of dispatches are finite, and so are the lines of a card or a day.
LEMMA Finite ==
  ASSUME EnvInv
  PROVE  /\ IsFiniteSet(UnderWay) /\ IsFiniteSet(Authorized)
         /\ IsFiniteSet(Lost) /\ IsFiniteSet(Spent) /\ IsFiniteSet(rows)
         /\ \A c : IsFiniteSet(AuthFor(c)) /\ IsFiniteSet(RowsOf(c)) /\ IsFiniteSet(RowsOn(c))
<1>1. /\ UnderWay \subseteq Runs /\ Authorized \subseteq Runs
      /\ Lost \subseteq Runs /\ Spent \subseteq Runs
      /\ \A c : AuthFor(c) \subseteq Runs /\ RowsOf(c) \subseteq rows /\ RowsOn(c) \subseteq rows
  BY DEF UnderWay, Authorized, Lost, Spent, AuthFor, RowsOf, RowsOn
<1>2. IsFiniteSet(rows)
  BY DEF EnvInv, RowInv
<1> QED  BY <1>1, <1>2, FS_Subset

-----------------------------------------------------------------------------
(* The invariant.                                                          *)

LEMMA InvInit == EnvInit => EnvInv
<1> SUFFICES ASSUME EnvInit PROVE EnvInv
  OBVIOUS
<1>1. /\ UnderWay = {} /\ Authorized = {} /\ Lost = {}
      /\ \A c : AuthFor(c) = {} /\ RowsOf(c) = {} /\ RowsOn(c) = {}
  BY DEF EnvInit, NoRun, UnderWay, Authorized, Lost, Spent, AuthFor, RowsOf, RowsOn
<1>2. Cardinality({}) = 0 /\ IsFiniteSet({})
  BY FS_EmptySet
<1>3. EnvTypeOK
  <2>1. NoRun \in [pc : Stages, card : Cards \cup {"none"}, grounded : BOOLEAN, day : 0..LastDay]
    BY DEF NoRun, Stages
  <2>2. today \in 0..LastDay /\ tears \in 0..MaxTears
    BY DEF EnvInit
  <2> QED  BY <2>1, <2>2 DEF EnvInit, EnvTypeOK
<1>4. RunInv /\ OwnerInv /\ RowInv
  BY <1>2 DEF EnvInit, NoRun, RunInv, OwnerInv, RowInv
<1>5. LostInv /\ SlotInv
  BY <1>1, <1>2 DEF EnvInit, LostInv, SlotInv
<1>6. CardInv
  BY <1>1, <1>2 DEF CardInv
<1>7. DayInv
  <2>1. Cardinality(RowsOn(today)) = 0 /\ Cardinality(Authorized) = 0
    BY <1>1, <1>2
  <2>2. \A d \in 0..LastDay : Cardinality(RowsOn(d)) = 0
    BY <1>1, <1>2
  <2> QED  BY <2>1, <2>2 DEF DayInv
<1> QED  BY <1>3, <1>4, <1>5, <1>6, <1>7 DEF EnvInv

\* The owner touches only the file.
LEMMA OwnerKeeps ==
  ASSUME EnvInv, CreateEnvelope \/ RevokeEnvelope \/ WriteEnvelope \/ OwnerDies
  PROVE  EnvInv'
<1>1. UNCHANGED <<ledger, today, run>>
  BY DEF CreateEnvelope, RevokeEnvelope, WriteEnvelope, OwnerDies
<1>2. EnvTypeOK' /\ OwnerInv'
  BY <1>1 DEF EnvInv, EnvTypeOK, OwnerInv, ledger, Readable,
     CreateEnvelope, RevokeEnvelope, WriteEnvelope, OwnerDies
<1>3. RunInv' /\ RowInv' /\ LostInv' /\ SlotInv' /\ CardInv' /\ DayInv'
  BY <1>1 DEF EnvInv, RunInv, RowInv, LostInv, SlotInv, CardInv, DayInv, ledger,
     UnderWay, Authorized, Lost, Spent, AuthFor, RowsOf, RowsOn
<1> QED  BY <1>2, <1>3 DEF EnvInv

\* At midnight the new day has no line, and who has validated is under way.
LEMMA DayKeeps ==
  ASSUME EnvInv, NextDay
  PROVE  EnvInv'
<1>1. /\ today' = today + 1 /\ today' \in 0..LastDay /\ today \in Nat
      /\ UNCHANGED <<envFiles, ledger, run>>
  BY DEF NextDay, EnvInv, EnvTypeOK
<1>2. EnvTypeOK' /\ OwnerInv' /\ RunInv' /\ LostInv' /\ SlotInv' /\ CardInv'
  BY <1>1 DEF EnvInv, EnvTypeOK, OwnerInv, RunInv, LostInv, SlotInv, CardInv, envFiles, ledger,
     UnderWay, Authorized, Lost, Spent, AuthFor, RowsOf
<1>3. RowInv'
  <2>1. \A e \in rows : e.day \in Nat
    BY DEF EnvInv, EnvTypeOK
  <2> QED  BY <1>1, <2>1 DEF EnvInv, RowInv, ledger
<1>4. DayInv'
  <2>1. RowsOn(today') = {} /\ RowsOn(today)' = RowsOn(today')
    <3>1. \A e \in rows : e.day \in Nat /\ e.day <= today
      BY DEF EnvInv, RowInv, EnvTypeOK
    <3> QED  BY <1>1, <3>1 DEF RowsOn, ledger
  <2>2. Authorized' \subseteq UnderWay
    BY <1>1 DEF Authorized, UnderWay
  <2>3. Cardinality(Authorized') <= Slots /\ Cardinality(Authorized') \in Nat
    BY <2>2, Finite, Smaller DEF EnvInv, SlotInv
  <2>4. \A d \in 0..LastDay : RowsOn(d)' = RowsOn(d)
    BY <1>1 DEF RowsOn, ledger
  <2>5. Cardinality(RowsOn(today)') + Cardinality(Authorized') <= MaxPerDay + Slots - 1
    BY <2>1, <2>3, FS_EmptySet
  <2>6. \A d \in 0..LastDay : Cardinality(RowsOn(d)') <= MaxPerDay + Slots - 1
    BY <2>4 DEF EnvInv, DayInv
  <2> QED  BY <2>5, <2>6 DEF DayInv
<1> QED  BY <1>2, <1>3, <1>4 DEF EnvInv

\* A dispatch that loads takes a free slot.
LEMMA LoadKeeps ==
  ASSUME EnvInv, NEW r \in Runs, NEW c \in Cards, LoadEnvelope(r, c)
  PROVE  EnvInv'
<1>1. /\ run[r].pc = "idle" /\ run'[r].pc \in {"loaded", "refused"}
      /\ run'[r].card = c /\ run'[r].day = today /\ run'[r].grounded \in BOOLEAN
      /\ run' \in [Runs -> [pc : Stages, card : Cards \cup {"none"},
                            grounded : BOOLEAN, day : 0..LastDay]]
      /\ \A q \in Runs \ {r} : run'[q] = run[q]
      /\ Cardinality(UnderWay) < Slots
      /\ UNCHANGED <<envFiles, rows, ragged, tears, today>>
  BY DEF LoadEnvelope, EnvInv, EnvTypeOK, Stages, ledger
<1>2. EnvTypeOK' /\ OwnerInv' /\ RunInv'
  BY <1>1 DEF EnvInv, EnvTypeOK, OwnerInv, RunInv, envFiles
<1>3. RowInv'
  BY <1>1 DEF EnvInv, RowInv, EnvTypeOK, Gone
<1>4. /\ UnderWay' \subseteq UnderWay \cup {r} /\ Authorized' = Authorized
      /\ \A k : AuthFor(k)' = AuthFor(k) /\ RowsOf(k)' = RowsOf(k) /\ RowsOn(k)' = RowsOn(k)
      /\ Lost' = Lost
  BY <1>1 DEF UnderWay, Authorized, AuthFor, RowsOf, RowsOn, Lost, Spent
<1>5. SlotInv'
  BY <1>1, <1>4, Finite, OneMore DEF SlotInv
<1>6. LostInv' /\ CardInv' /\ DayInv'
  BY <1>1, <1>4 DEF EnvInv, LostInv, CardInv, DayInv
<1> QED  BY <1>2, <1>3, <1>5, <1>6 DEF EnvInv

\* A dispatch that goes on without validating or appending, or ends: nobody
\* joins the authorized.
LEMMA StageKeeps ==
  ASSUME EnvInv, NEW r \in Runs, NEW pc \in {"placed", "running", "refused", "dead"},
         run' = [run EXCEPT ![r].pc = pc],
         run[r].pc \in {"loaded", "authorized", "placed", "recorded"},
         pc = "placed" => run[r].pc = "authorized",
         pc = "running" => run[r].pc = "recorded",
         UNCHANGED <<envFiles, rows, today>>
  PROVE  /\ RunInv' /\ RowInv' /\ SlotInv' /\ CardInv' /\ DayInv' /\ OwnerInv'
         /\ run' \in [Runs -> [pc : Stages, card : Cards \cup {"none"},
                               grounded : BOOLEAN, day : 0..LastDay]]
         /\ Cardinality(Lost') <= Cardinality(Lost)
         /\ Cardinality(Lost') \in Nat /\ Cardinality(Lost) \in Nat
<1>1. /\ run'[r] = [run[r] EXCEPT !.pc = pc]
      /\ \A q \in Runs \ {r} : run'[q] = run[q]
      /\ run' \in [Runs -> [pc : Stages, card : Cards \cup {"none"},
                            grounded : BOOLEAN, day : 0..LastDay]]
  BY DEF EnvInv, EnvTypeOK, Stages
<1>2. run[r] \in [pc : Stages, card : Cards \cup {"none"}, grounded : BOOLEAN, day : 0..LastDay]
  BY DEF EnvInv, EnvTypeOK
<1>3. /\ run'[r].pc = pc /\ run'[r].card = run[r].card
      /\ run'[r].day = run[r].day /\ run'[r].grounded = run[r].grounded
  BY <1>1, <1>2
<1>4. RunInv' /\ OwnerInv'
  BY <1>1, <1>3 DEF EnvInv, RunInv, OwnerInv, envFiles
<1>5. RowInv'
  <2>1. \A e \in rows : e.run \in Runs
    BY DEF EnvInv, EnvTypeOK
  <2> QED  BY <1>1, <1>3, <2>1 DEF EnvInv, RowInv, Gone
<1>6. /\ UnderWay' \subseteq UnderWay /\ Authorized' \subseteq Authorized
      /\ Lost' \subseteq Lost
      /\ \A k : AuthFor(k)' \subseteq AuthFor(k) /\ RowsOf(k)' = RowsOf(k) /\ RowsOn(k)' = RowsOn(k)
  BY <1>1, <1>3 DEF UnderWay, Authorized, AuthFor, RowsOf, RowsOn, Lost, Spent
<1>7. /\ Cardinality(Lost') <= Cardinality(Lost)
      /\ Cardinality(Lost') \in Nat /\ Cardinality(Lost) \in Nat
  BY <1>6, Finite, Smaller
<1>8. SlotInv'
  <2>1. /\ Cardinality(UnderWay') <= Cardinality(UnderWay)
        /\ Cardinality(UnderWay') \in Nat /\ Cardinality(UnderWay) \in Nat
    BY <1>6, Finite, Smaller
  <2> QED  BY <2>1 DEF EnvInv, SlotInv
<1>9. CardInv'
  <2> SUFFICES ASSUME NEW k \in Cards
               PROVE  Cardinality(RowsOf(k)') + Cardinality(AuthFor(k)') <= MaxAttempts + Slots - 1
    BY DEF CardInv
  <2>1. /\ Cardinality(AuthFor(k)') <= Cardinality(AuthFor(k))
        /\ Cardinality(AuthFor(k)') \in Nat /\ Cardinality(AuthFor(k)) \in Nat
    BY <1>6, Finite, Smaller
  <2>2. RowsOf(k)' = RowsOf(k) /\ Cardinality(RowsOf(k)) \in Nat
    BY <1>6, Finite, FS_CardinalityType
  <2> QED  BY <2>1, <2>2 DEF EnvInv, CardInv
<1>10. DayInv'
  <2>1. /\ Cardinality(Authorized') <= Cardinality(Authorized)
        /\ Cardinality(Authorized') \in Nat /\ Cardinality(Authorized) \in Nat
    BY <1>6, Finite, Smaller
  <2>2. /\ RowsOn(today)' = RowsOn(today) /\ Cardinality(RowsOn(today)) \in Nat
        /\ \A d \in 0..LastDay : RowsOn(d)' = RowsOn(d)
    BY <1>6, Finite, FS_CardinalityType DEF RowsOn
  <2> QED  BY <2>1, <2>2 DEF EnvInv, DayInv
<1> QED  BY <1>1, <1>4, <1>5, <1>7, <1>8, <1>9, <1>10

LEMMA QuietKeeps ==
  ASSUME EnvInv, NEW r \in Runs, Place(r) \/ Launch(r) \/ RunDies(r)
  PROVE  EnvInv'
<1>1. \E pc \in {"placed", "running", "refused", "dead"} :
         /\ run' = [run EXCEPT ![r].pc = pc]
         /\ run[r].pc \in {"loaded", "authorized", "placed", "recorded"}
         /\ pc = "placed" => run[r].pc = "authorized"
         /\ pc = "running" => run[r].pc = "recorded"
  BY DEF Place, Launch, RunDies, Goes, UnderWay
<1>2. UNCHANGED <<envFiles, ledger, today>>
  BY DEF Place, Launch, RunDies
<1>3. /\ RunInv' /\ RowInv' /\ SlotInv' /\ CardInv' /\ DayInv' /\ OwnerInv'
      /\ run' \in [Runs -> [pc : Stages, card : Cards \cup {"none"},
                            grounded : BOOLEAN, day : 0..LastDay]]
      /\ Cardinality(Lost') <= Cardinality(Lost)
      /\ Cardinality(Lost') \in Nat /\ Cardinality(Lost) \in Nat
  BY <1>1, <1>2, StageKeeps DEF ledger
<1>4. EnvTypeOK' /\ LostInv'
  BY <1>2, <1>3 DEF EnvInv, EnvTypeOK, LostInv, envFiles, ledger
<1> QED  BY <1>3, <1>4 DEF EnvInv

\* A torn append is counted before it has lost a line.
LEMMA TearKeeps ==
  ASSUME EnvInv, NEW r \in Runs, AppendTears(r)
  PROVE  EnvInv'
<1>1. /\ run' = [run EXCEPT ![r].pc = "dead"] /\ run[r].pc = "placed"
      /\ ragged' = TRUE /\ tears' = tears + 1 /\ tears < MaxTears
      /\ UNCHANGED <<envFiles, rows, today>>
  BY DEF AppendTears, Goes
<1>2. /\ RunInv' /\ RowInv' /\ SlotInv' /\ CardInv' /\ DayInv' /\ OwnerInv'
      /\ run' \in [Runs -> [pc : Stages, card : Cards \cup {"none"},
                            grounded : BOOLEAN, day : 0..LastDay]]
      /\ Cardinality(Lost') <= Cardinality(Lost)
      /\ Cardinality(Lost') \in Nat /\ Cardinality(Lost) \in Nat
  BY <1>1, StageKeeps
<1>3. EnvTypeOK' /\ LostInv'
  BY <1>1, <1>2 DEF EnvInv, EnvTypeOK, LostInv, envFiles
<1> QED  BY <1>2, <1>3 DEF EnvInv

\* Who validates finds room for one more in the ledger; the others under way
\* may not have appended yet.
LEMMA ValidateKeeps ==
  ASSUME EnvInv, NEW r \in Runs, Validate(r)
  PROVE  EnvInv'
<1>1. /\ run[r].pc = "loaded" /\ UNCHANGED <<envFiles, ledger, today>>
      /\ \/ run' = [run EXCEPT ![r].pc = "refused"]
         \/ run' = [run EXCEPT ![r].pc = "authorized"] /\ \E u \in Readings : Permitted(r, u)
  BY DEF Validate, Goes
<1>2. CASE run' = [run EXCEPT ![r].pc = "refused"]
  <2>1. /\ RunInv' /\ RowInv' /\ SlotInv' /\ CardInv' /\ DayInv' /\ OwnerInv'
        /\ run' \in [Runs -> [pc : Stages, card : Cards \cup {"none"},
                              grounded : BOOLEAN, day : 0..LastDay]]
        /\ Cardinality(Lost') <= Cardinality(Lost)
        /\ Cardinality(Lost') \in Nat /\ Cardinality(Lost) \in Nat
    BY <1>1, <1>2, StageKeeps DEF ledger
  <2>2. EnvTypeOK' /\ LostInv'
    BY <1>1, <2>1 DEF EnvInv, EnvTypeOK, LostInv, envFiles, ledger
  <2> QED  BY <2>1, <2>2 DEF EnvInv
<1>3. CASE run' = [run EXCEPT ![r].pc = "authorized"] /\ \E u \in Readings : Permitted(r, u)
  <2>1. /\ ~ run[r].grounded /\ run[r].card \in Allowed /\ WithinSpend(run[r].card)
    BY <1>3 DEF Permitted
  <2>2. run[r] \in [pc : Stages, card : Cards \cup {"none"}, grounded : BOOLEAN, day : 0..LastDay]
    BY DEF EnvInv, EnvTypeOK
  <2>3. /\ run'[r].pc = "authorized" /\ run'[r].card = run[r].card
        /\ run'[r].day = run[r].day /\ run'[r].grounded = run[r].grounded
        /\ \A q \in Runs \ {r} : run'[q] = run[q]
        /\ run' \in [Runs -> [pc : Stages, card : Cards \cup {"none"},
                              grounded : BOOLEAN, day : 0..LastDay]]
    BY <1>3, <2>2 DEF EnvInv, EnvTypeOK, Stages
  <2>4. EnvTypeOK' /\ OwnerInv' /\ RunInv'
    BY <1>1, <2>1, <2>3 DEF EnvInv, EnvTypeOK, OwnerInv, RunInv, envFiles, ledger
  <2>5. RowInv'
    <3>1. \A e \in rows : e.run \in Runs /\ e.run # r
      BY <1>1 DEF EnvInv, EnvTypeOK, RowInv, Gone
    <3> QED  BY <1>1, <2>3, <3>1 DEF EnvInv, RowInv, ledger
  <2>6. /\ UnderWay' = UnderWay /\ Authorized' \subseteq UnderWay /\ Lost' = Lost
        /\ \A k : /\ AuthFor(k)' \subseteq UnderWay
                  /\ k # run[r].card => AuthFor(k)' = AuthFor(k)
                  /\ RowsOf(k)' = RowsOf(k) /\ RowsOn(k)' = RowsOn(k)
    BY <1>1, <2>3 DEF UnderWay, Authorized, AuthFor, RowsOf, RowsOn, Lost, Spent, ledger
  <2>7. SlotInv' /\ LostInv'
    BY <1>1, <2>6 DEF EnvInv, SlotInv, LostInv, ledger
  <2>8. Cardinality(UnderWay) <= Slots
    BY DEF EnvInv, SlotInv
  <2>9. CardInv'
    <3> SUFFICES ASSUME NEW k \in Cards
                 PROVE  Cardinality(RowsOf(k)') + Cardinality(AuthFor(k)') <= MaxAttempts + Slots - 1
      BY DEF CardInv
    <3>1. CASE k # run[r].card
      BY <2>6, <3>1 DEF EnvInv, CardInv
    <3>2. CASE k = run[r].card
      <4>1. /\ Cardinality(AuthFor(k)') <= Cardinality(UnderWay)
            /\ Cardinality(AuthFor(k)') \in Nat /\ Cardinality(UnderWay) \in Nat
        BY <2>6, Finite, Smaller
      <4>2. Cardinality(RowsOf(k)) < MaxAttempts /\ Cardinality(RowsOf(k)) \in Nat
        BY <2>1, <3>2, Finite, FS_CardinalityType DEF WithinSpend
      <4> QED  BY <2>6, <2>8, <4>1, <4>2
    <3> QED  BY <3>1, <3>2
  <2>10. DayInv'
    <3>1. /\ Cardinality(Authorized') <= Cardinality(UnderWay)
          /\ Cardinality(Authorized') \in Nat /\ Cardinality(UnderWay) \in Nat
      BY <2>6, Finite, Smaller
    <3>2. Cardinality(RowsOn(today)) < MaxPerDay /\ Cardinality(RowsOn(today)) \in Nat
      BY <2>1, Finite, FS_CardinalityType DEF WithinSpend
    <3>3. /\ RowsOn(today)' = RowsOn(today)
          /\ \A d \in 0..LastDay : RowsOn(d)' = RowsOn(d)
      BY <1>1, <2>6 DEF RowsOn
    <3> QED  BY <2>8, <3>1, <3>2, <3>3 DEF EnvInv, DayInv
  <2> QED  BY <2>4, <2>5, <2>7, <2>9, <2>10 DEF EnvInv
<1> QED  BY <1>1, <1>2, <1>3

\* An append turns an authorized dispatch into a line, or, behind a torn line,
\* into the dispatch whose line that tear loses.
LEMMA RecordKeeps ==
  ASSUME EnvInv, NEW r \in Runs, Record(r)
  PROVE  EnvInv'
<1>1. /\ run[r].pc = "placed" /\ ragged' = FALSE
      /\ run' = [run EXCEPT ![r].pc = "recorded", ![r].day = today]
      /\ UNCHANGED <<envFiles, today, tears>>
  BY DEF Record
<1>2. /\ run[r] \in [pc : Stages, card : Cards \cup {"none"}, grounded : BOOLEAN, day : 0..LastDay]
      /\ today \in 0..LastDay /\ tears \in 0..MaxTears
  BY DEF EnvInv, EnvTypeOK
<1>3. /\ run'[r].pc = "recorded" /\ run'[r].card = run[r].card
      /\ run'[r].day = today /\ run'[r].grounded = run[r].grounded
      /\ \A q \in Runs \ {r} : run'[q] = run[q]
      /\ run' \in [Runs -> [pc : Stages, card : Cards \cup {"none"},
                            grounded : BOOLEAN, day : 0..LastDay]]
  BY <1>1, <1>2 DEF EnvInv, EnvTypeOK, Stages
<1>4. run[r].card \in Cards
  BY <1>1 DEF EnvInv, RunInv
<1>5. OwnerInv' /\ RunInv'
  BY <1>1, <1>3 DEF EnvInv, OwnerInv, RunInv, envFiles
<1>6. UnderWay' = UnderWay
  BY <1>1, <1>3 DEF UnderWay
<1>7. SlotInv'
  BY <1>6 DEF EnvInv, SlotInv
<1>8. /\ r \in Authorized /\ r \in AuthFor(run[r].card)
      /\ Authorized' \subseteq Authorized \ {r}
      /\ \A k : AuthFor(k)' \subseteq AuthFor(k) \ {r}
  BY <1>1, <1>3 DEF Authorized, AuthFor
<1>9. \A e \in rows : e.run \in Runs /\ e.run # r
  BY <1>1 DEF EnvInv, EnvTypeOK, RowInv, Gone
<1>10. CASE ragged
  <2>1. rows' = rows
    BY <1>10 DEF Record
  <2>2. EnvTypeOK'
    BY <1>1, <1>3, <2>1 DEF EnvInv, EnvTypeOK, envFiles
  <2>3. RowInv'
    BY <1>1, <1>3, <1>9, <2>1 DEF EnvInv, RowInv
  <2>4. LostInv'
    <3>1. Lost' \subseteq Lost \cup {r}
      BY <1>1, <1>3, <2>1 DEF Lost, Spent
    <3>2. /\ Cardinality(Lost') \in Nat /\ Cardinality(Lost) \in Nat
          /\ Cardinality(Lost') <= Cardinality(Lost) + 1
      BY <3>1, Finite, OneMore
    <3> QED  BY <1>1, <1>2, <1>10, <3>2 DEF EnvInv, LostInv
  <2>5. CardInv'
    <3> SUFFICES ASSUME NEW k \in Cards
                 PROVE  Cardinality(RowsOf(k)') + Cardinality(AuthFor(k)') <= MaxAttempts + Slots - 1
      BY DEF CardInv
    <3>1. AuthFor(k)' \subseteq AuthFor(k)
      BY <1>8
    <3>2. /\ Cardinality(AuthFor(k)') <= Cardinality(AuthFor(k))
          /\ Cardinality(AuthFor(k)') \in Nat /\ Cardinality(AuthFor(k)) \in Nat
      BY <3>1, Finite, Smaller
    <3>3. RowsOf(k)' = RowsOf(k) /\ Cardinality(RowsOf(k)) \in Nat
      BY <2>1, Finite, FS_CardinalityType DEF RowsOf
    <3> QED  BY <3>2, <3>3 DEF EnvInv, CardInv
  <2>6. DayInv'
    <3>1. /\ Cardinality(Authorized') <= Cardinality(Authorized)
          /\ Cardinality(Authorized') \in Nat /\ Cardinality(Authorized) \in Nat
      BY <1>8, Finite, Smaller
    <3>2. /\ RowsOn(today)' = RowsOn(today) /\ Cardinality(RowsOn(today)) \in Nat
          /\ \A d \in 0..LastDay : RowsOn(d)' = RowsOn(d)
      BY <1>1, <2>1, Finite, FS_CardinalityType DEF RowsOn
    <3> QED  BY <3>1, <3>2 DEF EnvInv, DayInv
  <2> QED  BY <1>5, <1>7, <2>2, <2>3, <2>4, <2>5, <2>6 DEF EnvInv
<1>11. CASE ~ ragged
  <2>1. /\ rows' = rows \cup {Row(r)}
        /\ Row(r) = [run |-> r, card |-> run[r].card, day |-> today]
    BY <1>11 DEF Record, Row
  <2>2. Row(r) \in [run : Runs, card : Cards, day : 0..LastDay]
    BY <1>2, <1>4, <2>1
  <2>3. EnvTypeOK'
    BY <1>1, <1>3, <2>1, <2>2 DEF EnvInv, EnvTypeOK, envFiles
  <2>4. RowInv'
    <3>1. IsFiniteSet(rows')
      BY <2>1, FS_AddElement DEF EnvInv, RowInv
    <3>2. ASSUME NEW e \in rows'
          PROVE  /\ run'[e.run].card = e.card /\ run'[e.run].day = e.day
                 /\ run'[e.run].pc \in Gone /\ e.day <= today'
      <4>1. CASE e \in rows
        BY <1>1, <1>3, <1>9, <4>1 DEF EnvInv, RowInv
      <4>2. CASE e = Row(r)
        BY <1>1, <1>2, <1>3, <2>1, <4>2 DEF Gone
      <4> QED  BY <2>1, <4>1, <4>2
    <3> QED  BY <3>1, <3>2 DEF RowInv
  <2>5. LostInv'
    <3>1. Lost' \subseteq Lost
      <4>1. Row(r).run = r /\ Row(r) \in rows' /\ rows \subseteq rows'
        BY <2>1
      <4> QED  BY <1>1, <1>3, <4>1 DEF Lost, Spent
    <3>2. /\ Cardinality(Lost') \in Nat /\ Cardinality(Lost) \in Nat
          /\ Cardinality(Lost') <= Cardinality(Lost)
      BY <3>1, Finite, Smaller
    <3> QED  BY <1>1, <1>2, <1>11, <3>2 DEF EnvInv, LostInv
  <2>6. CardInv'
    <3> SUFFICES ASSUME NEW k \in Cards
                 PROVE  Cardinality(RowsOf(k)') + Cardinality(AuthFor(k)') <= MaxAttempts + Slots - 1
      BY DEF CardInv
    <3>1. CASE k = run[r].card
      <4>1. RowsOf(k)' \subseteq RowsOf(k) \cup {Row(r)}
        BY <2>1 DEF RowsOf
      <4>2. /\ Cardinality(RowsOf(k)') \in Nat /\ Cardinality(RowsOf(k)) \in Nat
            /\ Cardinality(RowsOf(k)') <= Cardinality(RowsOf(k)) + 1
        BY <4>1, Finite, OneMore
      <4>3. /\ Cardinality(AuthFor(k)') + 1 <= Cardinality(AuthFor(k))
            /\ Cardinality(AuthFor(k)') \in Nat /\ Cardinality(AuthFor(k)) \in Nat
        <5>1. r \in AuthFor(k) /\ AuthFor(k)' \subseteq AuthFor(k) \ {r}
          BY <1>8, <3>1
        <5> QED  BY <5>1, Finite, OneLess
      <4> QED  BY <4>2, <4>3 DEF EnvInv, CardInv
    <3>2. CASE k # run[r].card
      <4>1. RowsOf(k)' = RowsOf(k) /\ Cardinality(RowsOf(k)) \in Nat
        <5>1. Row(r).card # k
          BY <2>1, <3>2
        <5>2. RowsOf(k)' = RowsOf(k)
          BY <2>1, <5>1 DEF RowsOf
        <5> QED  BY <5>2, Finite, FS_CardinalityType
      <4>2. AuthFor(k)' \subseteq AuthFor(k)
        BY <1>8
      <4>3. /\ Cardinality(AuthFor(k)') <= Cardinality(AuthFor(k))
            /\ Cardinality(AuthFor(k)') \in Nat /\ Cardinality(AuthFor(k)) \in Nat
        BY <4>2, Finite, Smaller
      <4> QED  BY <4>1, <4>3 DEF EnvInv, CardInv
    <3> QED  BY <3>1, <3>2
  <2>7. DayInv'
    <3>1. RowsOn(today)' \subseteq RowsOn(today) \cup {Row(r)}
      BY <1>1, <2>1 DEF RowsOn
    <3>2. /\ Cardinality(RowsOn(today)') \in Nat /\ Cardinality(RowsOn(today)) \in Nat
          /\ Cardinality(RowsOn(today)') <= Cardinality(RowsOn(today)) + 1
      BY <3>1, Finite, OneMore
    <3>3. /\ Cardinality(Authorized') + 1 <= Cardinality(Authorized)
          /\ Cardinality(Authorized') \in Nat /\ Cardinality(Authorized) \in Nat
      BY <1>8, Finite, OneLess
    <3>4. Cardinality(RowsOn(today)') + Cardinality(Authorized') <= MaxPerDay + Slots - 1
      BY <3>2, <3>3 DEF EnvInv, DayInv
    <3>5. ASSUME NEW d \in 0..LastDay
          PROVE  Cardinality(RowsOn(d)') <= MaxPerDay + Slots - 1
      <4>1. CASE d = today
        BY <1>1, <3>2, <3>3, <3>4, <4>1 DEF RowsOn
      <4>2. CASE d # today
        <5>1. RowsOn(d)' = RowsOn(d)
          BY <2>1, <4>2 DEF RowsOn
        <5> QED  BY <5>1 DEF EnvInv, DayInv
      <4> QED  BY <4>1, <4>2
    <3> QED  BY <3>4, <3>5 DEF DayInv
  <2> QED  BY <1>5, <1>7, <2>3, <2>4, <2>5, <2>6, <2>7 DEF EnvInv
<1> QED  BY <1>10, <1>11

LEMMA InvStep ==
  ASSUME EnvInv, [EnvNext]_envVars
  PROVE  EnvInv'
<1>1. CASE CreateEnvelope \/ RevokeEnvelope \/ WriteEnvelope \/ OwnerDies
  BY <1>1, OwnerKeeps
<1>2. CASE NextDay
  BY <1>2, DayKeeps
<1>3. CASE \E r \in Runs, c \in Cards : LoadEnvelope(r, c)
  BY <1>3, LoadKeeps
<1>4. CASE \E r \in Runs : Validate(r)
  BY <1>4, ValidateKeeps
<1>5. CASE \E r \in Runs : Place(r) \/ Launch(r) \/ RunDies(r)
  BY <1>5, QuietKeeps
<1>6. CASE \E r \in Runs : Record(r)
  BY <1>6, RecordKeeps
<1>7. CASE \E r \in Runs : AppendTears(r)
  BY <1>7, TearKeeps
<1>8. CASE UNCHANGED envVars
  BY <1>8 DEF envVars, envFiles, ledger, EnvInv, EnvTypeOK, RunInv, RowInv, LostInv, SlotInv,
     CardInv, DayInv, OwnerInv, UnderWay, Authorized, AuthFor, RowsOf, RowsOn, Lost, Spent
<1> QED  BY <1>1, <1>2, <1>3, <1>4, <1>5, <1>6, <1>7, <1>8 DEF EnvNext

\* The envelope's invariant: what each dispatch under way may still add to what the ledger counts.
THEOREM EnvInvariant == EnvSpec => []EnvInv
<1>1. EnvInv /\ [EnvNext]_envVars => EnvInv'
  BY InvStep
<1> QED  BY <1>1, InvInit, PTL DEF EnvSpec

\* The files, the ledger and the dispatches keep their types.
THEOREM EnvTypeCorrect == EnvSpec => []EnvTypeOK
<1>1. EnvInv => EnvTypeOK
  BY DEF EnvInv
<1> QED  BY <1>1, EnvInvariant, PTL

-----------------------------------------------------------------------------
(* What was spent.                                                         *)

\* The ledger is the honest record of the dispatches it lists, and a torn
\* append hides at most one more.
THEOREM LedgerIsHonest == EnvSpec => []LedgerHonest
<1>1. EnvInv => LedgerHonest
  <2> SUFFICES ASSUME EnvInv PROVE LedgerHonest
    OBVIOUS
  <2>1. Cardinality(Lost) \in Nat /\ tears \in Nat
    BY Finite, FS_CardinalityType DEF EnvInv, EnvTypeOK
  <2>2. Cardinality(Lost) <= tears
    BY <2>1 DEF EnvInv, LostInv
  <2> QED  BY <2>2 DEF EnvInv, RowInv, LedgerHonest, Lost
<1> QED  BY <1>1, EnvInvariant, PTL

SpentFor(c) == {r \in Spent : run[r].card = c}
SpentOn(d) == {r \in Spent : run[r].day = d}

\* Dispatches whose lines are among some lines L, each its own, are no more
\* than L and the lost ones.
LEMMA Counted ==
  ASSUME EnvInv, NEW S, S \subseteq Spent, NEW L, L \subseteq rows,
         \A r \in S \ Lost : [run |-> r, card |-> run[r].card, day |-> run[r].day] \in L
  PROVE  /\ IsFiniteSet(S) /\ Cardinality(S) \in Nat
         /\ Cardinality(S) <= Cardinality(L) + Cardinality(Lost)
<1> DEFINE f == [r \in S \ Lost |-> [run |-> r, card |-> run[r].card, day |-> run[r].day]]
<1>1. /\ IsFiniteSet(S) /\ IsFiniteSet(L) /\ IsFiniteSet(Lost)
      /\ Cardinality(S) \in Nat /\ Cardinality(L) \in Nat /\ Cardinality(Lost) \in Nat
  BY Finite, FS_Subset, FS_CardinalityType
<1>2. f \in Injection(S \ Lost, L)
  <2>1. f \in [S \ Lost -> L]
    OBVIOUS
  <2>2. \A a, b \in S \ Lost : f[a] = f[b] => a = b
    <3> SUFFICES ASSUME NEW a \in S \ Lost, NEW b \in S \ Lost, f[a] = f[b] PROVE a = b
      OBVIOUS
    <3>1. f[a].run = a /\ f[b].run = b
      OBVIOUS
    <3> QED  BY <3>1
  <2> QED  BY <2>1, <2>2 DEF Injection, IsInjective
<1>3. IsFiniteSet(S \ Lost) /\ Cardinality(S \ Lost) <= Cardinality(L)
  <2> HIDE DEF f
  <2> QED  BY <1>1, <1>2, FS_Injection
<1>4. /\ Cardinality(S \ Lost) = Cardinality(S) - Cardinality(S \cap Lost)
      /\ Cardinality(S \ Lost) \in Nat
  BY <1>1, <1>3, FS_Difference, FS_CardinalityType
<1>5. Cardinality(S \cap Lost) \in Nat /\ Cardinality(S \cap Lost) <= Cardinality(Lost)
  BY <1>1, Smaller
<1> QED  BY <1>1, <1>3, <1>4, <1>5

\* What was spent for a card, launched or about to be.
LEMMA CardSpend ==
  ASSUME EnvInv, NEW c \in Cards
  PROVE  /\ IsFiniteSet(SpentFor(c)) /\ Cardinality(SpentFor(c)) \in Nat
         /\ Cardinality(SpentFor(c)) <= MaxAttempts + (Slots - 1) + tears
         /\ c \notin Allowed => SpentFor(c) = {}
<1>1. c \notin Allowed => SpentFor(c) = {}
  BY DEF EnvInv, RunInv, SpentFor, Spent
<1>2. /\ IsFiniteSet(SpentFor(c)) /\ Cardinality(SpentFor(c)) \in Nat
      /\ Cardinality(SpentFor(c)) <= Cardinality(RowsOf(c)) + Cardinality(Lost)
  <2>1. SpentFor(c) \subseteq Spent /\ RowsOf(c) \subseteq rows
    BY DEF SpentFor, RowsOf
  <2>2. ASSUME NEW r \in SpentFor(c) \ Lost
        PROVE  [run |-> r, card |-> run[r].card, day |-> run[r].day] \in RowsOf(c)
    <3>1. PICK e \in rows : e.run = r
      BY <2>1 DEF Lost
    <3>2. e \in [run : Runs, card : Cards, day : 0..LastDay] /\ e.card = run[r].card /\ e.day = run[r].day
      BY <3>1 DEF EnvInv, EnvTypeOK, RowInv
    <3>3. e = [run |-> r, card |-> run[r].card, day |-> run[r].day] /\ e.card = c
      BY <3>1, <3>2 DEF SpentFor
    <3> QED  BY <3>1, <3>3 DEF RowsOf
  <2> QED  BY <2>1, <2>2, Counted
<1>3. /\ Cardinality(RowsOf(c)) \in Nat /\ Cardinality(Lost) \in Nat /\ tears \in Nat
      /\ Cardinality(RowsOf(c)) <= MaxAttempts + Slots - 1 /\ Cardinality(Lost) <= tears
  <2>1. /\ Cardinality(RowsOf(c)) \in Nat /\ Cardinality(Lost) \in Nat
        /\ Cardinality(AuthFor(c)) \in Nat
    BY Finite, FS_CardinalityType
  <2>2. tears \in Nat /\ Cardinality(Lost) <= tears
    BY <2>1 DEF EnvInv, EnvTypeOK, LostInv
  <2>3. Cardinality(RowsOf(c)) + Cardinality(AuthFor(c)) <= MaxAttempts + Slots - 1
    BY DEF EnvInv, CardInv
  <2> QED  BY <2>1, <2>2, <2>3
<1> QED  BY <1>1, <1>2, <1>3

LEMMA DaySpend ==
  ASSUME EnvInv, NEW d \in 0..LastDay
  PROVE  /\ IsFiniteSet(SpentOn(d)) /\ Cardinality(SpentOn(d)) \in Nat
         /\ Cardinality(SpentOn(d)) <= MaxPerDay + (Slots - 1) + tears
<1>1. /\ IsFiniteSet(SpentOn(d)) /\ Cardinality(SpentOn(d)) \in Nat
      /\ Cardinality(SpentOn(d)) <= Cardinality(RowsOn(d)) + Cardinality(Lost)
  <2>1. SpentOn(d) \subseteq Spent /\ RowsOn(d) \subseteq rows
    BY DEF SpentOn, RowsOn
  <2>2. ASSUME NEW r \in SpentOn(d) \ Lost
        PROVE  [run |-> r, card |-> run[r].card, day |-> run[r].day] \in RowsOn(d)
    <3>1. PICK e \in rows : e.run = r
      BY <2>1 DEF Lost
    <3>2. e \in [run : Runs, card : Cards, day : 0..LastDay] /\ e.card = run[r].card /\ e.day = run[r].day
      BY <3>1 DEF EnvInv, EnvTypeOK, RowInv
    <3>3. e = [run |-> r, card |-> run[r].card, day |-> run[r].day] /\ e.day = d
      BY <3>1, <3>2 DEF SpentOn
    <3> QED  BY <3>1, <3>3 DEF RowsOn
  <2> QED  BY <2>1, <2>2, Counted
<1>2. /\ Cardinality(RowsOn(d)) \in Nat /\ Cardinality(Lost) \in Nat /\ tears \in Nat
      /\ Cardinality(RowsOn(d)) <= MaxPerDay + Slots - 1 /\ Cardinality(Lost) <= tears
  <2>1. /\ Cardinality(RowsOn(d)) \in Nat /\ Cardinality(Lost) \in Nat
    BY Finite, FS_CardinalityType
  <2>2. tears \in Nat /\ Cardinality(Lost) <= tears
    BY <2>1 DEF EnvInv, EnvTypeOK, LostInv
  <2>3. Cardinality(RowsOn(d)) <= MaxPerDay + Slots - 1
    BY DEF EnvInv, DayInv
  <2> QED  BY <2>1, <2>2, <2>3
<1> QED  BY <1>1, <1>2

\* Neither bound of the envelope is overrun by more than the dispatches under
\* way together and the torn lines.
THEOREM SpendIsBounded == EnvSpec => []SpendBounded
<1>1. EnvInv => SpendBounded
  <2> SUFFICES ASSUME EnvInv PROVE SpendBounded
    OBVIOUS
  <2>1. AttemptsBounded
    <3> SUFFICES ASSUME NEW c \in Cards
                 PROVE  Cardinality(LaunchedFor(c)) <=
                            IF c \in Allowed THEN MaxAttempts + (Slots - 1) + tears ELSE 0
      BY DEF AttemptsBounded
    <3>1. LaunchedFor(c) \subseteq SpentFor(c)
      BY DEF LaunchedFor, Launched, SpentFor, Spent
    <3>2. /\ Cardinality(LaunchedFor(c)) <= Cardinality(SpentFor(c))
          /\ Cardinality(LaunchedFor(c)) \in Nat
      BY <3>1, CardSpend, Smaller
    <3>3. CASE c \in Allowed
      BY <3>2, <3>3, CardSpend DEF EnvInv, EnvTypeOK
    <3>4. CASE c \notin Allowed
      <4>1. Cardinality(LaunchedFor(c)) = 0
        BY <3>1, <3>4, CardSpend, FS_EmptySet
      <4> QED  BY <3>4, <4>1
    <3> QED  BY <3>3, <3>4
  <2>2. DayBounded
    <3> SUFFICES ASSUME NEW d \in 0..LastDay
                 PROVE  Cardinality(LaunchedOn(d)) <= MaxPerDay + (Slots - 1) + tears
      BY DEF DayBounded
    <3>1. LaunchedOn(d) \subseteq SpentOn(d)
      BY DEF LaunchedOn, Launched, SpentOn, Spent
    <3>2. /\ Cardinality(LaunchedOn(d)) <= Cardinality(SpentOn(d))
          /\ Cardinality(LaunchedOn(d)) \in Nat
      BY <3>1, DaySpend, Smaller
    <3> QED  BY <3>2, DaySpend DEF EnvInv, EnvTypeOK
  <2> QED  BY <2>1, <2>2 DEF SpendBounded
<1> QED  BY <1>1, EnvInvariant, PTL

-----------------------------------------------------------------------------
(* Dispatches implement the budget of DispatchBudget.                      *)

Budgeted == [c \in Cards |-> IF c \in Allowed THEN MaxAttempts + (Slots - 1) + MaxTears ELSE 0]
Starts == [c \in Cards |-> LaunchedFor(c)]

LEMMA BudgetStarts ==
  ASSUME EnvInit
  PROVE  B!BudgetInit
<1>1. Phase = "unopened" /\ Asking = {}
  BY DEF EnvInit, NoRun, Phase, Asking, UnderWay
<1>2. \A c \in Cards : LaunchedFor(c) = {}
  BY DEF EnvInit, NoRun, LaunchedFor, Launched
<1> QED  BY <1>1, <1>2 DEF B!BudgetInit

\* The owner opens and closes; nobody asks or starts.
LEMMA OwnerOpens ==
  ASSUME EnvInv, CreateEnvelope \/ RevokeEnvelope \/ WriteEnvelope \/ OwnerDies
  PROVE  [B!BudgetNext]_(B!budgetVars)
<1>1. UNCHANGED run
  BY DEF CreateEnvelope, RevokeEnvelope, WriteEnvelope, OwnerDies
<1>2. UNCHANGED <<Asking, Starts>>
  BY <1>1 DEF Asking, UnderWay, Starts, LaunchedFor, Launched
<1>3. \/ Phase' = Phase
      \/ Phase = "unopened" /\ Phase' = "open"
      \/ Phase # "closed" /\ Phase' = "closed"
  BY DEF CreateEnvelope, RevokeEnvelope, WriteEnvelope, OwnerDies, Phase, Readable,
     EnvInv, OwnerInv, EnvTypeOK
<1> QED
  BY <1>2, <1>3 DEF Starts, B!BudgetNext, B!Open, B!Close, B!budgetVars

\* A dispatch asks with the load of an open envelope.
LEMMA LoadAsks ==
  ASSUME EnvInv, NEW r \in Runs, NEW c \in Cards, LoadEnvelope(r, c)
  PROVE  [B!BudgetNext]_(B!budgetVars)
<1>1. /\ run[r].pc = "idle"
      /\ run'[r].pc = (IF Readable THEN "loaded" ELSE "refused")
      /\ run'[r].grounded = (file = "revoked")
      /\ \A q \in Runs \ {r} : run'[q] = run[q]
      /\ UNCHANGED <<file, owner>>
  BY DEF LoadEnvelope, EnvInv, EnvTypeOK, envFiles
<1>2. UNCHANGED <<Phase, Starts>>
  BY <1>1 DEF Phase, Starts, LaunchedFor, Launched
<1>3. CASE file = "live"
  <2>1. Asking' = Asking \cup {r} /\ Phase = "open"
    <3>1. Phase = "open"
      BY <1>3 DEF Phase
    <3>2. run'[r].pc = "loaded" /\ ~ run'[r].grounded
      BY <1>1, <1>3 DEF Readable
    <3>3. Asking' = Asking \cup {r}
      BY <1>1, <3>2 DEF Asking, UnderWay
    <3> QED  BY <3>1, <3>3
  <2> QED  BY <1>2, <2>1 DEF Starts, B!BudgetNext, B!Ask
<1>4. CASE file # "live"
  <2>1. Asking' = Asking
    BY <1>1, <1>4 DEF Asking, UnderWay, Readable
  <2> QED  BY <1>2, <2>1 DEF Starts, B!budgetVars
<1> QED  BY <1>3, <1>4

\* A dispatch that goes on keeps asking; one that ends no longer asks.
LEMMA EndsWithdraw ==
  ASSUME EnvInv, NEW r \in Runs, NEW pc \in {"authorized", "placed", "recorded", "refused", "dead"},
         run[r].pc \in {"loaded", "authorized", "placed", "recorded"},
         \A q \in Runs \ {r} : run'[q] = run[q],
         run'[r].pc = pc, run'[r].grounded = run[r].grounded,
         UNCHANGED <<file, owner>>
  PROVE  [B!BudgetNext]_(B!budgetVars)
<1>1. UNCHANGED <<Phase, Starts>>
  BY DEF Phase, Starts, LaunchedFor, Launched
<1>2. CASE pc \in {"refused", "dead"} /\ ~ run[r].grounded
  <2>1. r \in Asking /\ Asking' = Asking \ {r}
    BY <1>2 DEF Asking, UnderWay
  <2> QED  BY <1>1, <2>1 DEF Starts, B!BudgetNext, B!Withdraw
<1>3. CASE ~ (pc \in {"refused", "dead"} /\ ~ run[r].grounded)
  <2>1. Asking' = Asking
    BY <1>3 DEF Asking, UnderWay
  <2> QED  BY <1>1, <2>1 DEF Starts, B!budgetVars
<1> QED  BY <1>2, <1>3

\* A launch finds the budget of its card open by at least itself: it is
\* counted among what was spent, and the launched are others.
LEMMA LaunchStarts ==
  ASSUME EnvInv, NEW r \in Runs, run[r].pc = "recorded",
         run' = [run EXCEPT ![r].pc = "running"],
         UNCHANGED <<file, owner>>
  PROVE  B!BudgetNext
<1> DEFINE c == run[r].card
<1>1. /\ run[r] \in [pc : Stages, card : Cards \cup {"none"}, grounded : BOOLEAN, day : 0..LastDay]
      /\ c \in Allowed /\ c \in Cards /\ ~ run[r].grounded
  BY DEF EnvInv, EnvTypeOK, RunInv
<1>2. /\ run'[r].pc = "running" /\ run'[r].card = c
      /\ \A q \in Runs \ {r} : run'[q] = run[q]
  BY <1>1 DEF EnvInv, EnvTypeOK
<1>3. Phase' = Phase
  BY DEF Phase
<1>4. r \in Asking /\ Asking' = Asking \ {r}
  BY <1>1, <1>2 DEF Asking, UnderWay
<1>5. Cardinality(LaunchedFor(c)) < Budgeted[c]
  <2>1. r \in SpentFor(c) /\ LaunchedFor(c) \subseteq SpentFor(c) \ {r}
    BY DEF SpentFor, Spent, LaunchedFor, Launched
  <2>2. /\ IsFiniteSet(SpentFor(c)) /\ Cardinality(SpentFor(c)) \in Nat
        /\ Cardinality(SpentFor(c)) <= MaxAttempts + (Slots - 1) + tears
    BY <1>1, CardSpend
  <2>3. /\ Cardinality(LaunchedFor(c)) + 1 <= Cardinality(SpentFor(c))
        /\ Cardinality(LaunchedFor(c)) \in Nat
    BY <2>1, <2>2, OneLess
  <2>4. Budgeted[c] = MaxAttempts + (Slots - 1) + MaxTears
    BY <1>1 DEF Budgeted
  <2>5. tears \in Nat /\ tears <= MaxTears
    BY DEF EnvInv, EnvTypeOK
  <2> HIDE DEF c
  <2> QED  BY <2>2, <2>3, <2>4, <2>5
<1>6. Starts' = [Starts EXCEPT ![c] = @ \cup {r}]
  <2>1. \A k \in Cards : LaunchedFor(k)' = IF k = c THEN LaunchedFor(k) \cup {r} ELSE LaunchedFor(k)
    BY <1>2 DEF LaunchedFor, Launched
  <2> QED  BY <1>1, <2>1 DEF Starts
<1>7. B!Start(r, c)
  <2>1. Starts[c] = LaunchedFor(c)
    BY <1>1 DEF Starts
  <2>2. B!Cardinality(LaunchedFor(c)) = Cardinality(LaunchedFor(c))
    BY DEF Cardinality, B!Cardinality
  <2> HIDE DEF c
  <2> QED  BY <1>3, <1>4, <1>5, <1>6, <2>1, <2>2 DEF Starts, Budgeted, B!Start
<1> QED  BY <1>1, <1>7 DEF B!BudgetNext

LEMMA BudgetStep ==
  ASSUME EnvInv, [EnvNext]_envVars
  PROVE  [B!BudgetNext]_(B!budgetVars)
<1>1. CASE CreateEnvelope \/ RevokeEnvelope \/ WriteEnvelope \/ OwnerDies
  BY <1>1, OwnerOpens
<1>2. CASE NextDay \/ UNCHANGED envVars
  <2>1. UNCHANGED <<file, owner, run>>
    BY <1>2 DEF NextDay, envVars, envFiles
  <2> QED
    BY <2>1 DEF B!budgetVars, Phase, Asking, UnderWay, LaunchedFor, Launched
<1>3. CASE \E r \in Runs, c \in Cards : LoadEnvelope(r, c)
  BY <1>3, LoadAsks
<1>4. ASSUME NEW r \in Runs, Validate(r) \/ Place(r) \/ RunDies(r) \/ AppendTears(r)
      PROVE  [B!BudgetNext]_(B!budgetVars)
  <2>1. PICK pc \in {"authorized", "placed", "refused", "dead"} :
           /\ run' = [run EXCEPT ![r].pc = pc]
           /\ run[r].pc \in {"loaded", "authorized", "placed", "recorded"}
    BY <1>4 DEF Validate, Place, RunDies, AppendTears, Goes, UnderWay
  <2>2. UNCHANGED <<file, owner>>
    BY <1>4 DEF Validate, Place, RunDies, AppendTears, envFiles
  <2>3. run[r] \in [pc : Stages, card : Cards \cup {"none"}, grounded : BOOLEAN, day : 0..LastDay]
    BY DEF EnvInv, EnvTypeOK
  <2>4. /\ \A q \in Runs \ {r} : run'[q] = run[q]
        /\ run'[r].pc = pc /\ run'[r].grounded = run[r].grounded
    BY <2>1, <2>3 DEF EnvInv, EnvTypeOK
  <2> QED  BY <2>1, <2>2, <2>4, EndsWithdraw
<1>5. ASSUME NEW r \in Runs, Record(r)
      PROVE  [B!BudgetNext]_(B!budgetVars)
  <2>1. /\ run' = [run EXCEPT ![r].pc = "recorded", ![r].day = today]
        /\ run[r].pc = "placed" /\ UNCHANGED <<file, owner>>
    BY <1>5 DEF Record, envFiles
  <2>2. run[r] \in [pc : Stages, card : Cards \cup {"none"}, grounded : BOOLEAN, day : 0..LastDay]
    BY DEF EnvInv, EnvTypeOK
  <2>3. /\ \A q \in Runs \ {r} : run'[q] = run[q]
        /\ run'[r].pc = "recorded" /\ run'[r].grounded = run[r].grounded
    BY <2>1, <2>2 DEF EnvInv, EnvTypeOK
  <2> QED  BY <2>1, <2>3, EndsWithdraw
<1>6. ASSUME NEW r \in Runs, Launch(r)
      PROVE  [B!BudgetNext]_(B!budgetVars)
  <2>1. /\ run[r].pc = "recorded" /\ UNCHANGED <<file, owner>>
        /\ \/ run' = [run EXCEPT ![r].pc = "running"]
           \/ run' = [run EXCEPT ![r].pc = "refused"]
    BY <1>6 DEF Launch, Goes, envFiles
  <2>2. CASE run' = [run EXCEPT ![r].pc = "running"]
    BY <2>1, <2>2, LaunchStarts
  <2>3. CASE run' = [run EXCEPT ![r].pc = "refused"]
    <3>1. run[r] \in [pc : Stages, card : Cards \cup {"none"}, grounded : BOOLEAN, day : 0..LastDay]
      BY DEF EnvInv, EnvTypeOK
    <3>2. /\ \A q \in Runs \ {r} : run'[q] = run[q]
          /\ run'[r].pc = "refused" /\ run'[r].grounded = run[r].grounded
      BY <2>3, <3>1 DEF EnvInv, EnvTypeOK
    <3> QED  BY <2>1, <3>2, EndsWithdraw
  <2> QED  BY <2>1, <2>2, <2>3
<1> QED  BY <1>1, <1>2, <1>3, <1>4, <1>5, <1>6 DEF EnvNext

\* Unattended runs start only for what an envelope open at their load allows,
\* however the owner, the dispatches and the crashes interleave.
THEOREM ImplementsBudget == EnvSpec => KeepsBudget
<1>1. EnvInit => B!BudgetInit
  BY BudgetStarts
<1>2. EnvInv /\ [EnvNext]_envVars => [B!BudgetNext]_(B!budgetVars)
  BY BudgetStep
<1> QED
  BY <1>1, <1>2, EnvInvariant, PTL DEF EnvSpec, KeepsBudget, B!Budget
=============================================================================
