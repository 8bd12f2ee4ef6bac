-------------------------- MODULE InputBridge_proofs --------------------------
(***************************************************************************)
(* What holds of the input bridge for any requests, however often the      *)
(* owner taps, the listener is restarted and the network fails.            *)
(***************************************************************************)
EXTENDS InputBridge, TLAPS

Pushing == {"pushing", "load", "mark", "marking"}
Marking == {"load", "mark", "marking"}
Answering == {"check", "respond", "responding"}

\* The listener has requests to push only while it pushes, marks one it has
\* just taken from them, and answers with an update of its batch.
ListenerCoherent ==
    /\ lpc \notin Pushing => todo = {}
    /\ lpc \in Marking => cur \notin todo
    /\ lpc \in Answering => at <= upto

\* An answer, on its way to a request that takes no free text, names it.
Names(i, r) == i \in 1..Len(taps) /\ taps[i] = r
AnswersNamed ==
    /\ lpc \in Answering /\ cur \notin FreeText => taps[at] = cur
    /\ \A r \in Requests \ FreeText :
          /\ response[r] > Unwritten => Names(response[r], r)
          /\ heard[r] > Default => Names(heard[r], r)

Asking(r) == apc[r] \in {"waiting", "missed"}

\* An asker without a deadline: until it is answered its request is there, and
\* the response is written once; what the owner is told is that response.
AskerCoherent(r) ==
    /\ apc[r] = "new" => request[r] = "none" /\ response[r] = Absent /\ heard[r] = Absent
    /\ Asking(r) => request[r] # "none" /\ heard[r] = Absent
    /\ apc[r] \in {"over", "dropped"} => heard[r] > Default /\ response[r] = heard[r]
    /\ apc[r] \in {"dropped", "done"} => request[r] = "none"
    /\ apc[r] = "done" => heard[r] > Default /\ response[r] = Absent
    /\ r \in todo \/ (cur = r /\ lpc \in Marking \cup {"respond"})
          => Asking(r) /\ response[r] = Absent
    /\ cur = r /\ lpc = "responding" => Asking(r) /\ response[r] = Unwritten
    /\ \A i \in 1..Len(taps) : <<r, i>> \in acked =>
          IF Asking(r) THEN response[r] = i ELSE heard[r] = i

\* May r still be pushed, without another fault?
MayPush(r) == \/ apc[r] = "new" \/ r \in todo
              \/ request[r] = "open" /\ ~ (cur = r /\ lpc \in {"load", "mark"})

\* A request that may still be pushed has not used up its push.
ShownCounted(r) ==
    /\ apc[r] = "new" => /\ request[r] = "none" /\ r \notin todo
                         /\ ~ (cur = r /\ lpc \in Marking)
    /\ cur = r /\ lpc = "marking" => request[r] # "open"
    /\ shown[r] + (IF MayPush(r) THEN 1 ELSE 0) <= 1 + restarts + lost

BridgeInv ==
    /\ BridgeTypeOK /\ restarts \in Nat /\ lost \in Nat
    /\ ListenerCoherent /\ AnswersNamed
    /\ \A r \in Requests \ Hurried : AskerCoherent(r)
    /\ \A r \in Requests : ShownCounted(r)

-----------------------------------------------------------------------------
\* The positions in the owner's messages.
LEMMA Positions ==
    ASSUME BridgeTypeOK
    PROVE  /\ Len(taps) \in Nat /\ at \in Nat /\ upto \in Nat /\ offset \in Nat /\ confirmed \in Nat
           /\ 1 <= at /\ at <= Len(taps) + 1 /\ upto <= Len(taps)
           /\ offset <= Len(taps) + 1 /\ confirmed <= Len(taps)
BY DEF BridgeTypeOK

(* What the asker does.                                                   *)

LEMMA AskKeeps == ASSUME BridgeInv, NEW r \in Requests, Ask(r) PROVE BridgeInv'
<1> USE DEF BridgeInv, Ask, AskerAt, files, askers, listener, phone
<1>1. BridgeTypeOK' /\ restarts' \in Nat /\ lost' \in Nat
  BY DEF BridgeTypeOK, Absent, Unwritten, Default
<1>2. ListenerCoherent'
  BY DEF BridgeTypeOK, ListenerCoherent, Pushing, Marking, Answering, Pending
<1>3. AnswersNamed'
  BY DEF BridgeTypeOK, ListenerCoherent, AnswersNamed, Names, Answering, Binds, Absent, Unwritten,
     Default
<1>4. ASSUME NEW q \in Requests \ Hurried PROVE AskerCoherent(q)'
  BY DEF BridgeTypeOK, ListenerCoherent, AskerCoherent, Asking, Pushing, Marking, Answering,
     Pending, Absent, Unwritten, Default
<1>5. ASSUME NEW q \in Requests PROVE ShownCounted(q)'
  BY DEF BridgeTypeOK, ListenerCoherent, ShownCounted, MayPush, Pushing, Marking, Pending
<1> QED
  BY <1>1, <1>2, <1>3, <1>4, <1>5

LEMMA HearKeeps == ASSUME BridgeInv, NEW r \in Requests, Hear(r) PROVE BridgeInv'
<1> USE DEF BridgeInv, Hear, AskerAt, files, askers, listener, phone
<1>1. BridgeTypeOK' /\ restarts' \in Nat /\ lost' \in Nat
  BY DEF BridgeTypeOK, Absent, Unwritten, Default
<1>2. ListenerCoherent'
  BY DEF BridgeTypeOK, ListenerCoherent, Pushing, Marking, Answering, Pending
<1>3. AnswersNamed'
  BY DEF BridgeTypeOK, ListenerCoherent, AnswersNamed, Names, Answering, Binds, Absent, Unwritten,
     Default
<1>4. ASSUME NEW q \in Requests \ Hurried PROVE AskerCoherent(q)'
  <2>1. CASE q = r
    BY <2>1 DEF BridgeTypeOK, ListenerCoherent, AskerCoherent, Asking, Pushing, Marking,
       Answering, Pending, Absent, Unwritten, Default
  <2>2. CASE q # r
    BY <2>2 DEF BridgeTypeOK, ListenerCoherent, AskerCoherent, Asking, Pushing, Marking,
       Answering, Pending, Absent, Unwritten, Default
  <2> QED
    BY <2>1, <2>2
<1>5. ASSUME NEW q \in Requests PROVE ShownCounted(q)'
  BY DEF BridgeTypeOK, ListenerCoherent, ShownCounted, MayPush, Pushing, Marking, Pending
<1> QED
  BY <1>1, <1>2, <1>3, <1>4, <1>5

LEMMA MissKeeps == ASSUME BridgeInv, NEW r \in Requests, Miss(r) PROVE BridgeInv'
<1> USE DEF BridgeInv, Miss, AskerAt, files, askers, listener, phone
<1>1. BridgeTypeOK' /\ restarts' \in Nat /\ lost' \in Nat
  BY DEF BridgeTypeOK, Absent, Unwritten, Default
<1>2. ListenerCoherent'
  BY DEF BridgeTypeOK, ListenerCoherent, Pushing, Marking, Answering, Pending
<1>3. AnswersNamed'
  BY DEF BridgeTypeOK, ListenerCoherent, AnswersNamed, Names, Answering, Binds, Absent, Unwritten,
     Default
<1>4. ASSUME NEW q \in Requests \ Hurried PROVE AskerCoherent(q)'
  BY DEF BridgeTypeOK, ListenerCoherent, AskerCoherent, Asking, Pushing, Marking, Answering,
     Pending, Absent, Unwritten, Default
<1>5. ASSUME NEW q \in Requests PROVE ShownCounted(q)'
  BY DEF BridgeTypeOK, ListenerCoherent, ShownCounted, MayPush, Pushing, Marking, Pending
<1> QED
  BY <1>1, <1>2, <1>3, <1>4, <1>5

LEMMA PollAgainKeeps == ASSUME BridgeInv, NEW r \in Requests, PollAgain(r) PROVE BridgeInv'
<1> USE DEF BridgeInv, PollAgain, AskerAt, files, askers, listener, phone
<1>1. BridgeTypeOK' /\ restarts' \in Nat /\ lost' \in Nat
  BY DEF BridgeTypeOK, Absent, Unwritten, Default
<1>2. ListenerCoherent'
  BY DEF BridgeTypeOK, ListenerCoherent, Pushing, Marking, Answering, Pending
<1>3. AnswersNamed'
  BY DEF BridgeTypeOK, ListenerCoherent, AnswersNamed, Names, Answering, Binds, Absent, Unwritten,
     Default
<1>4. ASSUME NEW q \in Requests \ Hurried PROVE AskerCoherent(q)'
  BY DEF BridgeTypeOK, ListenerCoherent, AskerCoherent, Asking, Pushing, Marking, Answering,
     Pending, Absent, Unwritten, Default
<1>5. ASSUME NEW q \in Requests PROVE ShownCounted(q)'
  BY DEF BridgeTypeOK, ListenerCoherent, ShownCounted, MayPush, Pushing, Marking, Pending
<1> QED
  BY <1>1, <1>2, <1>3, <1>4, <1>5

LEMMA TimeOutKeeps == ASSUME BridgeInv, NEW r \in Requests, TimeOut(r) PROVE BridgeInv'
<1> USE DEF BridgeInv, TimeOut, AskerAt, files, askers, listener, phone
<1>1. BridgeTypeOK' /\ restarts' \in Nat /\ lost' \in Nat
  <2>1. apc' \in [Requests -> {"new", "waiting", "missed", "over", "dropped", "done"}]
    BY DEF BridgeTypeOK
  <2>2. heard' \in [Requests -> Int]
    BY DEF BridgeTypeOK, Default
  <2>3. UNCHANGED <<request, response, lpc, todo, cur, offset, at, upto, taps, confirmed,
                    shown, acked, restarts, lost>>
    OBVIOUS
  <2> HIDE DEF TimeOut, AskerAt
  <2> QED
    BY <2>1, <2>2, <2>3 DEF BridgeTypeOK
<1>2. ListenerCoherent'
  BY DEF BridgeTypeOK, ListenerCoherent, Pushing, Marking, Answering, Pending
<1>3. AnswersNamed'
  BY DEF BridgeTypeOK, ListenerCoherent, AnswersNamed, Names, Answering, Binds, Absent, Unwritten,
     Default
<1>4. ASSUME NEW q \in Requests \ Hurried PROVE AskerCoherent(q)'
  BY DEF BridgeTypeOK, ListenerCoherent, AskerCoherent, Asking, Pushing, Marking, Answering,
     Pending, Absent, Unwritten, Default
<1>5. ASSUME NEW q \in Requests PROVE ShownCounted(q)'
  BY DEF BridgeTypeOK, ListenerCoherent, ShownCounted, MayPush, Pushing, Marking, Pending
<1> QED
  BY <1>1, <1>2, <1>3, <1>4, <1>5

LEMMA DropRequestKeeps == ASSUME BridgeInv, NEW r \in Requests, DropRequest(r) PROVE BridgeInv'
<1> USE DEF BridgeInv, DropRequest, AskerAt, files, askers, listener, phone
<1>1. BridgeTypeOK' /\ restarts' \in Nat /\ lost' \in Nat
  BY DEF BridgeTypeOK, Absent, Unwritten, Default
<1>2. ListenerCoherent'
  BY DEF BridgeTypeOK, ListenerCoherent, Pushing, Marking, Answering, Pending
<1>3. AnswersNamed'
  BY DEF BridgeTypeOK, ListenerCoherent, AnswersNamed, Names, Answering, Binds, Absent, Unwritten,
     Default
<1>4. ASSUME NEW q \in Requests \ Hurried PROVE AskerCoherent(q)'
  BY DEF BridgeTypeOK, ListenerCoherent, AskerCoherent, Asking, Pushing, Marking, Answering,
     Pending, Absent, Unwritten, Default
<1>5. ASSUME NEW q \in Requests PROVE ShownCounted(q)'
  BY DEF BridgeTypeOK, ListenerCoherent, ShownCounted, MayPush, Pushing, Marking, Pending
<1> QED
  BY <1>1, <1>2, <1>3, <1>4, <1>5

LEMMA DropResponseKeeps == ASSUME BridgeInv, NEW r \in Requests, DropResponse(r) PROVE BridgeInv'
<1> USE DEF BridgeInv, DropResponse, AskerAt, files, askers, listener, phone
<1>1. BridgeTypeOK' /\ restarts' \in Nat /\ lost' \in Nat
  BY DEF BridgeTypeOK, Absent, Unwritten, Default
<1>2. ListenerCoherent'
  BY DEF BridgeTypeOK, ListenerCoherent, Pushing, Marking, Answering, Pending
<1>3. AnswersNamed'
  BY DEF BridgeTypeOK, ListenerCoherent, AnswersNamed, Names, Answering, Binds, Absent, Unwritten,
     Default
<1>4. ASSUME NEW q \in Requests \ Hurried PROVE AskerCoherent(q)'
  BY DEF BridgeTypeOK, ListenerCoherent, AskerCoherent, Asking, Pushing, Marking, Answering,
     Pending, Absent, Unwritten, Default
<1>5. ASSUME NEW q \in Requests PROVE ShownCounted(q)'
  BY DEF BridgeTypeOK, ListenerCoherent, ShownCounted, MayPush, Pushing, Marking, Pending
<1> QED
  BY <1>1, <1>2, <1>3, <1>4, <1>5

-----------------------------------------------------------------------------
(* What the listener pushes, and what the owner taps.                      *)

LEMMA PushKeeps == ASSUME BridgeInv, NEW r \in Requests, Push(r) PROVE BridgeInv'
<1> USE DEF BridgeInv, Push, ListenerAt, files, askers, listener, phone
<1>1. BridgeTypeOK' /\ restarts' \in Nat /\ lost' \in Nat
  <2>1. lpc = "pushing" /\ lpc' \in {"pushing", "load"} /\ (lpc' = "load" => cur' = r)
    OBVIOUS
  <2>2. todo' \subseteq Requests /\ lost' \in Nat
    BY DEF BridgeTypeOK
  <2>3. \E n \in {0, 1} : shown' = [shown EXCEPT ![r] = @ + n]
    OBVIOUS
  <2>4. shown' \in [Requests -> Nat]
    BY SMTT(30), <2>3 DEF BridgeTypeOK
  <2>5. UNCHANGED <<request, response, apc, heard, offset, at, upto, taps, confirmed, acked,
                    restarts>>
    OBVIOUS
  <2> HIDE DEF Push, ListenerAt
  <2> QED
    BY <2>1, <2>2, <2>4, <2>5 DEF BridgeTypeOK
<1>2. ListenerCoherent'
  BY DEF BridgeTypeOK, ListenerCoherent, Pushing, Marking, Answering, Pending
<1>3. AnswersNamed'
  BY DEF BridgeTypeOK, ListenerCoherent, AnswersNamed, Names, Answering, Binds, Absent, Unwritten,
     Default
<1>4. ASSUME NEW q \in Requests \ Hurried PROVE AskerCoherent(q)'
  <2>1. CASE q = r
    BY <2>1 DEF BridgeTypeOK, ListenerCoherent, AskerCoherent, Asking, Pushing, Marking,
       Answering, Pending, Absent, Unwritten, Default
  <2>2. CASE q # r
    BY <2>2 DEF BridgeTypeOK, ListenerCoherent, AskerCoherent, Asking, Pushing, Marking,
       Answering, Pending, Absent, Unwritten, Default
  <2> QED
    BY <2>1, <2>2
<1>5. ASSUME NEW q \in Requests PROVE ShownCounted(q)'
  <2>1. lpc = "pushing" /\ r \in todo /\ todo' = todo \ {r} /\ UNCHANGED <<request, apc,
                                                                           restarts>>
    OBVIOUS
  <2>2. CASE lpc' = "load" /\ cur' = r /\ shown' = [shown EXCEPT ![r] = @ + 1] /\ lost' = lost
    <3>1. CASE q = r
      BY <2>1, <2>2, <3>1 DEF BridgeTypeOK, ShownCounted, MayPush, Marking
    <3>2. CASE q # r
      BY <2>1, <2>2, <3>2 DEF BridgeTypeOK, ShownCounted, MayPush, Marking
    <3> QED
      BY <3>1, <3>2
  <2>3. ASSUME NEW n \in {0, 1}, lpc' = "pushing", lost' = lost + 1, cur' = cur,
               shown' = [shown EXCEPT ![r] = @ + n]
        PROVE  ShownCounted(q)'
    <3> HIDE DEF Push, ListenerAt
    <3>1. CASE q = r
      BY SMTT(30), <2>1, <2>3, <3>1 DEF BridgeTypeOK, ShownCounted, MayPush, Marking
    <3>2. CASE q # r
      BY SMTT(30), <2>1, <2>3, <3>2 DEF BridgeTypeOK, ShownCounted, MayPush, Marking
    <3> QED
      BY <3>1, <3>2
  <2> QED
    BY <2>2, <2>3
<1> QED
  BY <1>1, <1>2, <1>3, <1>4, <1>5

LEMMA TapKeeps == ASSUME BridgeInv, NEW r \in Requests, Tap(r) PROVE BridgeInv'
<1> USE DEF BridgeInv, Tap, files, askers, listener, phone
<1>1. BridgeTypeOK' /\ restarts' \in Nat /\ lost' \in Nat
  <2>1. taps' \in Seq(Requests) /\ Len(taps') = Len(taps) + 1
    BY Positions DEF BridgeTypeOK
  <2>2. UNCHANGED <<request, response, apc, heard, lpc, todo, cur, offset, at, upto,
                    confirmed, shown, acked, restarts, lost>>
    OBVIOUS
  <2>3. /\ offset' \in 0..(Len(taps') + 1) /\ at' \in 1..(Len(taps') + 1)
        /\ upto' \in 0..Len(taps') /\ confirmed' \in 0..Len(taps')
    BY <2>1, <2>2, Positions
  <2>4. acked' \subseteq Requests \X (1..Len(taps'))
    BY <2>1, <2>2, Positions DEF BridgeTypeOK
  <2> HIDE DEF Tap
  <2> QED
    BY <2>1, <2>2, <2>3, <2>4 DEF BridgeTypeOK
<1>2. ListenerCoherent'
  BY DEF BridgeTypeOK, ListenerCoherent, Pushing, Marking, Answering, Pending
<1>3. AnswersNamed'
  <2>1. /\ Len(taps') = Len(taps) + 1 /\ Len(taps) \in Nat
        /\ \A i \in 1..Len(taps) : taps'[i] = taps[i]
    BY DEF BridgeTypeOK
  <2>2. lpc \in Answering => at \in 1..Len(taps)
    BY DEF BridgeTypeOK, ListenerCoherent
  <2> QED
    BY <2>1, <2>2 DEF AnswersNamed, Names
<1>4. ASSUME NEW q \in Requests \ Hurried PROVE AskerCoherent(q)'
  BY DEF BridgeTypeOK, ListenerCoherent, AskerCoherent, Asking, Pushing, Marking, Answering,
     Pending, Absent, Unwritten, Default
<1>5. ASSUME NEW q \in Requests PROVE ShownCounted(q)'
  BY DEF BridgeTypeOK, ListenerCoherent, ShownCounted, MayPush, Pushing, Marking, Pending
<1> QED
  BY <1>1, <1>2, <1>3, <1>4, <1>5

-----------------------------------------------------------------------------
(* What the listener does by itself, and its restart.                      *)

LEMMA EmitKeeps == ASSUME BridgeInv, Emit PROVE BridgeInv'
<1> USE DEF BridgeInv, Emit, ListenerAt, files, askers, listener, phone
<1>1. BridgeTypeOK' /\ restarts' \in Nat /\ lost' \in Nat
  <2>1. lpc' = "pushing" /\ todo' \subseteq Requests
    BY Positions DEF Pending
  <2>2. UNCHANGED <<request, response, apc, heard, cur, offset, at, upto, taps, confirmed,
                    shown, acked, restarts, lost>>
    OBVIOUS
  <2> HIDE DEF Emit, ListenerAt
  <2> QED
    BY <2>1, <2>2, Positions DEF BridgeTypeOK
<1>2. ListenerCoherent'
  BY DEF BridgeTypeOK, ListenerCoherent, Pushing, Marking, Answering, Pending
<1>3. AnswersNamed'
  BY DEF BridgeTypeOK, ListenerCoherent, AnswersNamed, Names, Answering, Binds, Absent, Unwritten,
     Default
<1>4. ASSUME NEW q \in Requests \ Hurried PROVE AskerCoherent(q)'
  BY DEF BridgeTypeOK, ListenerCoherent, AskerCoherent, Asking, Pushing, Marking, Answering,
     Pending, Absent, Unwritten, Default
<1>5. ASSUME NEW q \in Requests PROVE ShownCounted(q)'
  BY DEF BridgeTypeOK, ListenerCoherent, ShownCounted, MayPush, Pushing, Marking, Pending
<1> QED
  BY <1>1, <1>2, <1>3, <1>4, <1>5

LEMMA MarkLoadKeeps == ASSUME BridgeInv, MarkLoad PROVE BridgeInv'
<1> USE DEF BridgeInv, MarkLoad, ListenerAt, files, askers, listener, phone
<1>1. BridgeTypeOK' /\ restarts' \in Nat /\ lost' \in Nat
  BY DEF BridgeTypeOK, Absent, Unwritten, Default
<1>2. ListenerCoherent'
  BY DEF BridgeTypeOK, ListenerCoherent, Pushing, Marking, Answering, Pending
<1>3. AnswersNamed'
  BY DEF BridgeTypeOK, ListenerCoherent, AnswersNamed, Names, Answering, Binds, Absent, Unwritten,
     Default
<1>4. ASSUME NEW q \in Requests \ Hurried PROVE AskerCoherent(q)'
  BY DEF BridgeTypeOK, ListenerCoherent, AskerCoherent, Asking, Pushing, Marking, Answering,
     Pending, Absent, Unwritten, Default
<1>5. ASSUME NEW q \in Requests PROVE ShownCounted(q)'
  BY DEF BridgeTypeOK, ListenerCoherent, ShownCounted, MayPush, Pushing, Marking, Pending
<1> QED
  BY <1>1, <1>2, <1>3, <1>4, <1>5

LEMMA MarkOpenKeeps == ASSUME BridgeInv, MarkOpen PROVE BridgeInv'
<1> USE DEF BridgeInv, MarkOpen, ListenerAt, files, askers, listener, phone
<1>1. BridgeTypeOK' /\ restarts' \in Nat /\ lost' \in Nat
  BY DEF BridgeTypeOK, Absent, Unwritten, Default
<1>2. ListenerCoherent'
  BY DEF BridgeTypeOK, ListenerCoherent, Pushing, Marking, Answering, Pending
<1>3. AnswersNamed'
  BY DEF BridgeTypeOK, ListenerCoherent, AnswersNamed, Names, Answering, Binds, Absent, Unwritten,
     Default
<1>4. ASSUME NEW q \in Requests \ Hurried PROVE AskerCoherent(q)'
  BY DEF BridgeTypeOK, ListenerCoherent, AskerCoherent, Asking, Pushing, Marking, Answering,
     Pending, Absent, Unwritten, Default
<1>5. ASSUME NEW q \in Requests PROVE ShownCounted(q)'
  BY DEF BridgeTypeOK, ListenerCoherent, ShownCounted, MayPush, Pushing, Marking, Pending
<1> QED
  BY <1>1, <1>2, <1>3, <1>4, <1>5

LEMMA MarkFillKeeps == ASSUME BridgeInv, MarkFill PROVE BridgeInv'
<1> USE DEF BridgeInv, MarkFill, ListenerAt, files, askers, listener, phone
<1>1. BridgeTypeOK' /\ restarts' \in Nat /\ lost' \in Nat
  BY DEF BridgeTypeOK, Absent, Unwritten, Default
<1>2. ListenerCoherent'
  BY DEF BridgeTypeOK, ListenerCoherent, Pushing, Marking, Answering, Pending
<1>3. AnswersNamed'
  BY DEF BridgeTypeOK, ListenerCoherent, AnswersNamed, Names, Answering, Binds, Absent, Unwritten,
     Default
<1>4. ASSUME NEW q \in Requests \ Hurried PROVE AskerCoherent(q)'
  BY DEF BridgeTypeOK, ListenerCoherent, AskerCoherent, Asking, Pushing, Marking, Answering,
     Pending, Absent, Unwritten, Default
<1>5. ASSUME NEW q \in Requests PROVE ShownCounted(q)'
  BY DEF BridgeTypeOK, ListenerCoherent, ShownCounted, MayPush, Pushing, Marking, Pending
<1> QED
  BY <1>1, <1>2, <1>3, <1>4, <1>5

LEMMA GetUpdatesKeeps == ASSUME BridgeInv, GetUpdates PROVE BridgeInv'
<1> USE DEF BridgeInv, GetUpdates, ListenerAt, files, askers, listener, phone
<1>1. BridgeTypeOK' /\ restarts' \in Nat /\ lost' \in Nat
  <2>1. /\ lpc' = "handling" /\ confirmed' \in 0..Len(taps)
        /\ at' \in 1..(Len(taps) + 1) /\ upto' = Len(taps)
    BY Positions
  <2>2. UNCHANGED <<request, response, apc, heard, todo, cur, offset, taps, shown, acked,
                    restarts, lost>>
    OBVIOUS
  <2>3. /\ offset' \in 0..(Len(taps') + 1) /\ at' \in 1..(Len(taps') + 1)
        /\ upto' \in 0..Len(taps') /\ confirmed' \in 0..Len(taps')
    BY <2>1, <2>2, Positions
  <2> HIDE DEF GetUpdates, ListenerAt
  <2> QED
    BY <2>1, <2>2, <2>3 DEF BridgeTypeOK
<1>2. ListenerCoherent'
  BY DEF BridgeTypeOK, ListenerCoherent, Pushing, Marking, Answering, Pending
<1>3. AnswersNamed'
  BY DEF BridgeTypeOK, ListenerCoherent, AnswersNamed, Names, Answering, Binds, Absent, Unwritten,
     Default
<1>4. ASSUME NEW q \in Requests \ Hurried PROVE AskerCoherent(q)'
  BY DEF BridgeTypeOK, ListenerCoherent, AskerCoherent, Asking, Pushing, Marking, Answering,
     Pending, Absent, Unwritten, Default
<1>5. ASSUME NEW q \in Requests PROVE ShownCounted(q)'
  BY DEF BridgeTypeOK, ListenerCoherent, ShownCounted, MayPush, Pushing, Marking, Pending
<1> QED
  BY <1>1, <1>2, <1>3, <1>4, <1>5

LEMMA PollFailsKeeps == ASSUME BridgeInv, PollFails PROVE BridgeInv'
<1> USE DEF BridgeInv, PollFails, ListenerAt, files, askers, listener, phone
<1>1. BridgeTypeOK' /\ restarts' \in Nat /\ lost' \in Nat
  <2>1. lost' \in Nat
    BY BridgeAssumption
  <2> QED
    BY <2>1 DEF BridgeTypeOK
<1>2. ListenerCoherent'
  BY DEF BridgeTypeOK, ListenerCoherent, Pushing, Marking, Answering, Pending
<1>3. AnswersNamed'
  BY DEF BridgeTypeOK, ListenerCoherent, AnswersNamed, Names, Answering, Binds, Absent, Unwritten,
     Default
<1>4. ASSUME NEW q \in Requests \ Hurried PROVE AskerCoherent(q)'
  BY DEF BridgeTypeOK, ListenerCoherent, AskerCoherent, Asking, Pushing, Marking, Answering,
     Pending, Absent, Unwritten, Default
<1>5. ASSUME NEW q \in Requests PROVE ShownCounted(q)'
  BY DEF BridgeTypeOK, ListenerCoherent, ShownCounted, MayPush, Pushing, Marking, Pending
<1> QED
  BY <1>1, <1>2, <1>3, <1>4, <1>5

LEMMA BatchDoneKeeps == ASSUME BridgeInv, BatchDone PROVE BridgeInv'
<1> USE DEF BridgeInv, BatchDone, ListenerAt, files, askers, listener, phone
<1>1. BridgeTypeOK' /\ restarts' \in Nat /\ lost' \in Nat
  BY DEF BridgeTypeOK, Absent, Unwritten, Default
<1>2. ListenerCoherent'
  BY DEF BridgeTypeOK, ListenerCoherent, Pushing, Marking, Answering, Pending
<1>3. AnswersNamed'
  BY DEF BridgeTypeOK, ListenerCoherent, AnswersNamed, Names, Answering, Binds, Absent, Unwritten,
     Default
<1>4. ASSUME NEW q \in Requests \ Hurried PROVE AskerCoherent(q)'
  BY DEF BridgeTypeOK, ListenerCoherent, AskerCoherent, Asking, Pushing, Marking, Answering,
     Pending, Absent, Unwritten, Default
<1>5. ASSUME NEW q \in Requests PROVE ShownCounted(q)'
  BY DEF BridgeTypeOK, ListenerCoherent, ShownCounted, MayPush, Pushing, Marking, Pending
<1> QED
  BY <1>1, <1>2, <1>3, <1>4, <1>5

LEMMA HandleKeeps == ASSUME BridgeInv, Handle PROVE BridgeInv'
<1> USE DEF BridgeInv, Handle, ListenerAt, files, askers, listener, phone
<1>1. BridgeTypeOK' /\ restarts' \in Nat /\ lost' \in Nat
  <2>1. /\ lpc' \in {"check", "handling"} /\ (lpc' = "check" => cur' \in Requests)
        /\ offset' \in 0..(Len(taps) + 1) /\ at' \in 1..(Len(taps) + 1)
    BY Positions
  <2>2. UNCHANGED <<request, response, apc, heard, todo, upto, taps, confirmed, shown,
                    acked, restarts, lost>>
    OBVIOUS
  <2> HIDE DEF Handle, ListenerAt
  <2> QED
    BY <2>1, <2>2, Positions DEF BridgeTypeOK
<1>2. ListenerCoherent'
  BY DEF BridgeTypeOK, ListenerCoherent, Pushing, Marking, Answering, Pending
<1>3. AnswersNamed'
  BY DEF BridgeTypeOK, ListenerCoherent, AnswersNamed, Names, Answering, Binds, Absent, Unwritten,
     Default
<1>4. ASSUME NEW q \in Requests \ Hurried PROVE AskerCoherent(q)'
  BY DEF BridgeTypeOK, ListenerCoherent, AskerCoherent, Asking, Pushing, Marking, Answering,
     Pending, Absent, Unwritten, Default
<1>5. ASSUME NEW q \in Requests PROVE ShownCounted(q)'
  BY DEF BridgeTypeOK, ListenerCoherent, ShownCounted, MayPush, Pushing, Marking, Pending
<1> QED
  BY <1>1, <1>2, <1>3, <1>4, <1>5

LEMMA CheckKeeps == ASSUME BridgeInv, Check PROVE BridgeInv'
<1> USE DEF BridgeInv, Check, ListenerAt, files, askers, listener, phone
<1>1. BridgeTypeOK' /\ restarts' \in Nat /\ lost' \in Nat
  <2>1. /\ lpc' \in {"respond", "handling"} /\ lpc = "check"
        /\ at' \in 1..(Len(taps) + 1)
    BY Positions DEF ListenerCoherent, Answering
  <2>2. UNCHANGED <<request, response, apc, heard, todo, cur, offset, upto, taps, confirmed,
                    shown, acked, restarts, lost>>
    OBVIOUS
  <2> HIDE DEF Check, ListenerAt
  <2> QED
    BY <2>1, <2>2, Positions DEF BridgeTypeOK
<1>2. ListenerCoherent'
  BY DEF BridgeTypeOK, ListenerCoherent, Pushing, Marking, Answering, Pending
<1>3. AnswersNamed'
  BY DEF BridgeTypeOK, ListenerCoherent, AnswersNamed, Names, Answering, Binds, Absent, Unwritten,
     Default
<1>4. ASSUME NEW q \in Requests \ Hurried PROVE AskerCoherent(q)'
  <2>1. cur \in Requests /\ lpc = "check" /\ lpc' \in {"respond", "handling"} /\ todo = {}
    BY DEF BridgeTypeOK, ListenerCoherent, Pushing
  <2>2. lpc' = "respond" => request[cur] # "none" /\ response[cur] = Absent
    OBVIOUS
  <2>3. UNCHANGED <<request, response, apc, heard, todo, cur, taps, acked>>
    OBVIOUS
  <2> HIDE DEF Check, ListenerAt
  <2>4. CASE q = cur /\ lpc' = "respond"
    <3>1. apc[q] \in {"new", "waiting", "missed", "over", "dropped", "done"}
      BY DEF BridgeTypeOK
    <3>2. Asking(q)
      BY <2>2, <2>4, <3>1 DEF AskerCoherent, Asking, Absent, Default
    <3> QED
      BY <2>1, <2>2, <2>3, <2>4, <3>2 DEF AskerCoherent, Asking, Marking
  <2>5. CASE ~ (q = cur /\ lpc' = "respond")
    BY <2>1, <2>3, <2>5 DEF AskerCoherent, Asking, Marking
  <2> QED
    BY <2>4, <2>5
<1>5. ASSUME NEW q \in Requests PROVE ShownCounted(q)'
  BY DEF BridgeTypeOK, ListenerCoherent, ShownCounted, MayPush, Pushing, Marking, Pending
<1> QED
  BY <1>1, <1>2, <1>3, <1>4, <1>5

LEMMA RespondOpenKeeps == ASSUME BridgeInv, RespondOpen PROVE BridgeInv'
<1> USE DEF BridgeInv, RespondOpen, ListenerAt, files, askers, listener, phone
<1>1. BridgeTypeOK' /\ restarts' \in Nat /\ lost' \in Nat
  BY DEF BridgeTypeOK, Absent, Unwritten, Default
<1>2. ListenerCoherent'
  BY DEF BridgeTypeOK, ListenerCoherent, Pushing, Marking, Answering, Pending
<1>3. AnswersNamed'
  BY SMTT(30) DEF BridgeTypeOK, ListenerCoherent, AnswersNamed, Names, Answering, Binds, Absent, Unwritten,
     Default
<1>4. ASSUME NEW q \in Requests \ Hurried PROVE AskerCoherent(q)'
  <2>1. CASE q = cur
    BY SMTT(30), <2>1 DEF BridgeTypeOK, ListenerCoherent, AskerCoherent, Asking, Pushing, Marking,
       Answering, Pending, Absent, Unwritten, Default
  <2>2. CASE q # cur
    BY <2>2 DEF BridgeTypeOK, ListenerCoherent, AskerCoherent, Asking, Pushing, Marking,
       Answering, Pending, Absent, Unwritten, Default
  <2> QED
    BY <2>1, <2>2
<1>5. ASSUME NEW q \in Requests PROVE ShownCounted(q)'
  BY DEF BridgeTypeOK, ListenerCoherent, ShownCounted, MayPush, Pushing, Marking, Pending
<1> QED
  BY <1>1, <1>2, <1>3, <1>4, <1>5

LEMMA RespondFillKeeps == ASSUME BridgeInv, RespondFill PROVE BridgeInv'
<1> USE DEF BridgeInv, RespondFill, ListenerAt, files, askers, listener, phone
<1>1. BridgeTypeOK' /\ restarts' \in Nat /\ lost' \in Nat
  <2>1. cur \in Requests /\ at \in 1..Len(taps) /\ lpc' = "handling"
    BY Positions DEF BridgeTypeOK, ListenerCoherent, Answering
  <2>2. response' \in [Requests -> Int] /\ at' \in 1..(Len(taps) + 1)
    BY <2>1, Positions DEF BridgeTypeOK
  <2>3. acked' \subseteq Requests \X (1..Len(taps))
    BY <2>1 DEF BridgeTypeOK
  <2>4. UNCHANGED <<request, apc, heard, todo, cur, offset, upto, taps, confirmed, shown,
                    restarts, lost>>
    OBVIOUS
  <2> HIDE DEF RespondFill, ListenerAt
  <2> QED
    BY <2>1, <2>2, <2>3, <2>4 DEF BridgeTypeOK
<1>2. ListenerCoherent'
  BY DEF BridgeTypeOK, ListenerCoherent, Pushing, Marking, Answering, Pending
<1>3. AnswersNamed'
  <2>1. at \in 1..Len(taps) /\ cur \in Requests
    BY DEF BridgeTypeOK, ListenerCoherent, Answering
  <2> QED
    BY <2>1 DEF BridgeTypeOK, AnswersNamed, Names, Answering, Unwritten, Default
<1>4. ASSUME NEW q \in Requests \ Hurried PROVE AskerCoherent(q)'
  <2>1. cur \in Requests /\ at \in 1..Len(taps) /\ lpc = "responding" /\ lpc' = "handling"
    BY Positions DEF BridgeTypeOK, ListenerCoherent, Answering
  <2>2. CASE q = cur
    <3>1. Asking(q) /\ response'[q] = at /\ UNCHANGED <<request, apc, heard, cur, todo,
                                                        taps>>
      BY <2>1, <2>2 DEF BridgeTypeOK, AskerCoherent
    <3>2. \A i \in 1..Len(taps) : <<q, i>> \in acked' => i = at
      BY <2>1, <2>2, <3>1 DEF AskerCoherent, Unwritten
    <3> QED
      BY <2>1, <2>2, <3>1, <3>2 DEF AskerCoherent, Asking, Marking, ListenerCoherent, Pushing
  <2>3. CASE q # cur
    BY <2>1, <2>3 DEF BridgeTypeOK, AskerCoherent, Asking, Marking
  <2> QED
    BY <2>2, <2>3
<1>5. ASSUME NEW q \in Requests PROVE ShownCounted(q)'
  BY DEF BridgeTypeOK, ListenerCoherent, ShownCounted, MayPush, Pushing, Marking, Pending
<1> QED
  BY <1>1, <1>2, <1>3, <1>4, <1>5

LEMMA ListenerRestartsKeeps == ASSUME BridgeInv, ListenerRestarts PROVE BridgeInv'
<1> USE DEF BridgeInv, ListenerRestarts, files, askers, listener, phone
<1>1. BridgeTypeOK' /\ restarts' \in Nat /\ lost' \in Nat
  <2>1. /\ lpc' = "cycle" /\ todo' = {} /\ offset' = 0 /\ at' = 1 /\ upto' = 0
        /\ restarts' \in Nat
    BY Positions
  <2>2. UNCHANGED <<request, response, apc, heard, cur, taps, confirmed, shown, acked,
                    lost>>
    OBVIOUS
  <2>3. /\ offset' \in 0..(Len(taps') + 1) /\ at' \in 1..(Len(taps') + 1)
        /\ upto' \in 0..Len(taps') /\ confirmed' \in 0..Len(taps')
    BY <2>1, <2>2, Positions
  <2> HIDE DEF ListenerRestarts
  <2> QED
    BY <2>1, <2>2, <2>3 DEF BridgeTypeOK
<1>2. ListenerCoherent'
  BY DEF BridgeTypeOK, ListenerCoherent, Pushing, Marking, Answering, Pending
<1>3. AnswersNamed'
  BY DEF BridgeTypeOK, ListenerCoherent, AnswersNamed, Names, Answering, Binds, Absent, Unwritten,
     Default
<1>4. ASSUME NEW q \in Requests \ Hurried PROVE AskerCoherent(q)'
  BY DEF BridgeTypeOK, ListenerCoherent, AskerCoherent, Asking, Pushing, Marking, Answering,
     Pending, Absent, Unwritten, Default
<1>5. ASSUME NEW q \in Requests PROVE ShownCounted(q)'
  BY DEF BridgeTypeOK, ListenerCoherent, ShownCounted, MayPush, Pushing, Marking, Pending
<1> QED
  BY <1>1, <1>2, <1>3, <1>4, <1>5

-----------------------------------------------------------------------------
(* The theorems.                                                           *)

LEMMA BridgeInvInit == BridgeInit => BridgeInv
<1> SUFFICES ASSUME BridgeInit PROVE BridgeInv
  OBVIOUS
<1> USE DEF BridgeInit
<1>1. BridgeTypeOK /\ restarts \in Nat /\ lost \in Nat
  BY DEF BridgeTypeOK, Absent
<1>2. ListenerCoherent
  BY DEF ListenerCoherent, Marking, Answering
<1>3. AnswersNamed
  BY DEF AnswersNamed, Answering, Absent, Unwritten, Default
<1>4. ASSUME NEW q \in Requests \ Hurried PROVE AskerCoherent(q)
  BY DEF AskerCoherent, Asking, Marking, Absent
<1>5. ASSUME NEW q \in Requests PROVE ShownCounted(q)
  BY DEF ShownCounted, MayPush, Marking
<1> QED
  BY <1>1, <1>2, <1>3, <1>4, <1>5 DEF BridgeInv

LEMMA BridgeInvNext == BridgeInv /\ [BridgeNext]_bridgeVars => BridgeInv'
<1> SUFFICES ASSUME BridgeInv, [BridgeNext]_bridgeVars PROVE BridgeInv'
  OBVIOUS
<1>1. ASSUME NEW r \in Requests, Asker(r) \/ Tap(r) PROVE BridgeInv'
  BY <1>1, AskKeeps, HearKeeps, MissKeeps, PollAgainKeeps, TimeOutKeeps, DropRequestKeeps,
     DropResponseKeeps, TapKeeps DEF Asker
<1>2. CASE Listen
  BY <1>2, EmitKeeps, PushKeeps, MarkLoadKeeps, MarkOpenKeeps, MarkFillKeeps, GetUpdatesKeeps,
     PollFailsKeeps, BatchDoneKeeps, HandleKeeps, CheckKeeps, RespondOpenKeeps, RespondFillKeeps
     DEF Listen
<1>3. CASE ListenerRestarts
  BY <1>3, ListenerRestartsKeeps
<1>4. CASE UNCHANGED bridgeVars
  <2> USE <1>4 DEF bridgeVars, files, askers, listener, phone, BridgeInv
  <2>1. BridgeTypeOK' /\ restarts' \in Nat /\ lost' \in Nat
    BY DEF BridgeTypeOK
  <2>2. ListenerCoherent' /\ AnswersNamed'
    BY DEF ListenerCoherent, AnswersNamed, Names
  <2>3. \A r \in Requests \ Hurried : AskerCoherent(r)'
    BY DEF AskerCoherent, Asking
  <2>4. \A r \in Requests : ShownCounted(r)'
    BY DEF ShownCounted, MayPush
  <2> QED
    BY <2>1, <2>2, <2>3, <2>4
<1> QED
  BY <1>1, <1>2, <1>3, <1>4 DEF BridgeNext

\* The strengthening that the other theorems rest on: where the listener
\* stands, what a response may be, and what an asker without a deadline is owed.
THEOREM BridgeInvariant == BridgeSpec => []BridgeInv
<1> QED
  BY BridgeInvInit, BridgeInvNext, PTL DEF BridgeSpec

\* The files, the queue of updates and both loops keep their types.
THEOREM BridgeTypeCorrect == BridgeSpec => []BridgeTypeOK
<1>1. BridgeInv => BridgeTypeOK
  BY DEF BridgeInv
<1> QED
  BY <1>1, BridgeInvariant, PTL

\* An asker whose request takes no free text only ever hears an answer that
\* the owner gave to that request, whatever else is open or free text.
HeardWasNamed == \A r \in Requests \ FreeText : heard[r] > Default => taps[heard[r]] = r

THEOREM AnswersAreNamed == BridgeSpec => []HeardWasNamed
<1>1. BridgeInv => HeardWasNamed
  BY DEF BridgeInv, AnswersNamed, Names, HeardWasNamed
<1> QED
  BY <1>1, BridgeInvariant, PTL

\* With no free-text request among them, no asker hears an answer to another
\* request (with one, a tap on a closed request is read as its text).
THEOREM AnswersAreMeant == ASSUME FreeText = {} PROVE BridgeSpec => []HeardWasMeant
<1>1. HeardWasNamed => HeardWasMeant
  BY DEF HeardWasNamed, HeardWasMeant
<1> QED
  BY <1>1, AnswersAreNamed, PTL

\* What the owner was told he answered is what the session without a deadline
\* acts on, restarts and lost pushes or not.
THEOREM AcksAreHeard == BridgeSpec => []AckedIsHeard
<1>1. BridgeInv => AckedIsHeard
  BY DEF BridgeInv, AskerCoherent, AckedIsHeard, AckedAreHeard, Asking, BridgeTypeOK
<1> QED
  BY <1>1, BridgeInvariant, PTL

\* What is pushed is a question somebody still asks, and no more often than the
\* restarts and the faults explain.
THEOREM PushesInEarnest == BridgeSpec => []PushedInEarnest
<1>1. BridgeInv => PushedInEarnest
  <2>1. ASSUME BridgeInv, NEW r \in Requests PROVE shown[r] <= 1 + restarts + lost
    <3>1. shown[r] \in Nat /\ restarts \in Nat /\ lost \in Nat
      BY <2>1 DEF BridgeInv, BridgeTypeOK
    <3>2. shown[r] + (IF MayPush(r) THEN 1 ELSE 0) <= 1 + restarts + lost
      BY <2>1 DEF BridgeInv, ShownCounted
    <3> QED
      BY <3>1, <3>2
  <2>2. BridgeInv => NoGhost
    BY DEF BridgeInv, AskerCoherent, NoGhost, Pending
  <2> QED
    BY <2>1, <2>2 DEF PushedInEarnest, ShownOnce
<1> QED
  BY <1>1, BridgeInvariant, PTL
=============================================================================
