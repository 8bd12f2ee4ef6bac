------------------------ MODULE TerminalStream_proofs ------------------------
(***************************************************************************)
(* Proofs about TerminalStream for any number of viewers, any size of the  *)
(* scrollback and of a read, and any amount of output and redraws.         *)
(***************************************************************************)
EXTENDS TerminalStream, TLAPS

\* A generator's cursor is where its viewer stopped reading, unless what lies
\* between has been trimmed.
CursorFollows == \A v \in Viewers :
    /\ got[v] <= cursor[v]
    /\ cursor[v] = got[v] \/ cursor[v] <= base

\* What a waiting generator will send next is still retained.
WaitersKeepUp == \A v \in Viewers : pc[v] = "wait" => base <= cursor[v]

\* The markers a generator has still to send lie beyond the bytes it has sent,
\* and markers are placed in order.
MarkersAhead ==
    /\ \A m, n \in 1..Len(markers) : m <= n => markers[m] <= markers[n]
    /\ \A v \in Viewers : \A m \in (index[v] + 1)..Len(markers) :
          pc[v] # "off" => got[v] <= markers[m]

\* A viewer that was not yet there was sent nothing, one that was told of the
\* exit is told nothing more.
EndsStand == \A v \in Viewers :
    /\ pc[v] = "off" => got[v] = 0
    /\ frame[v].kind = "exited" => pc[v] = "closed"

OrderInv  == TypeOK /\ CursorFollows /\ WaitersKeepUp /\ EndsStand /\ ExitIsLast
MarkerInv == OrderInv /\ MarkersAhead

-----------------------------------------------------------------------------
(* Type correctness.                                                       *)

LEMMA SeqGrows ==
    ASSUME NEW s, NEW n \in Nat, NEW k \in Nat, n <= k, s \in Seq(0..n)
    PROVE  s \in Seq(0..k)
<1>1. Len(s) \in Nat /\ s \in [1..Len(s) -> 0..n]
  OBVIOUS
<1>2. 0..n \subseteq 0..k
  OBVIOUS
<1>3. s \in [1..Len(s) -> 0..k]
  BY <1>1, <1>2
<1> QED
  BY <1>1, <1>3, SMT

\* Bounds of a slice lie within the scrollback.
LEMMA BoundInside ==
    ASSUME TypeOK, NEW i \in Int
    PROVE  Bound(i) \in 0..(total - base) /\ (i \in 0..(total - base) => Bound(i) = i)
BY DEF TypeOK, Bound, Max2, Min2

LEMMA NextMarkerType ==
    ASSUME TypeOK, NEW v \in Viewers, Marked(v)
    PROVE  NextMarker(v) \in 0..total /\ index[v] + 1 \in 1..Len(markers)
BY DEF TypeOK, Marked, NextMarker

LEMMA ChunkEndType ==
    ASSUME TypeOK, NEW v \in Viewers, NEW marked \in BOOLEAN, marked => Marked(v)
    PROVE  ChunkEnd(v, marked) \in 0..total
BY NextMarkerType DEF TypeOK, ChunkEnd, Min2

LEMMA YieldType ==
    ASSUME TypeOK, NEW v \in Viewers, NEW c \in 0..total, NEW marked \in BOOLEAN,
           marked => Marked(v), Yield(v, c, marked)
    PROVE  TypeOK'
<1> DEFINE to    == ChunkEnd(v, marked)
           chunk == Chunk(c, to)
<1>1. to \in 0..total
  BY ChunkEndType
<1>2. chunk.hi \in 0..total
  <2>1. to - base \in Int /\ base \in Nat /\ total \in Nat
    BY <1>1 DEF TypeOK
  <2>2. Bound(to - base) \in 0..(total - base)
    BY <2>1, BoundInside
  <2> QED
    BY <2>1, <2>2 DEF Chunk
<1>3. cursor' \in [Viewers -> 0..total] /\ UNCHANGED terminal
  <2>1. Max2(c, to) \in 0..total /\ total \in Nat
    BY <1>1 DEF Max2, TypeOK
  <2>2. \E d \in {c, Max2(c, to)} : cursor' = [cursor EXCEPT ![v] = d]
    BY DEF Yield
  <2> QED
    BY <2>1, <2>2 DEF Yield, TypeOK
<1> HIDE DEF to, chunk
<1>4. \/ SendReset(v) /\ Marked(v)
      \/ SendBytes(v, chunk)
      \/ SendExit(v)
      \/ SendHeartbeat(v)
  BY DEF Yield, to, chunk
<1>5. /\ pc' \in [Viewers -> {"off", "top", "wait", "closed"}]
      /\ DOMAIN frame' = Viewers
  BY <1>4 DEF TypeOK, SendReset, SendBytes, SendExit, SendHeartbeat
<1>6. got' \in [Viewers -> 0..total]
  BY <1>2, <1>4 DEF TypeOK, SendReset, SendBytes, SendExit, SendHeartbeat
<1>7. index' \in [Viewers -> 0..Len(markers)]
  <2>1. index' = index \/ (SendReset(v) /\ Marked(v))
    BY <1>4 DEF SendBytes, SendExit, SendHeartbeat
  <2>2. CASE SendReset(v) /\ Marked(v)
    <3>1. index[v] + 1 \in 0..Len(markers)
      BY <2>2 DEF Marked, TypeOK
    <3> QED
      BY <2>2, <3>1 DEF SendReset, TypeOK
  <2> QED
    BY <2>1, <2>2 DEF TypeOK
<1> QED
  BY <1>3, <1>5, <1>6, <1>7 DEF TypeOK, terminal

LEMMA InitType == Init => TypeOK
BY StreamAssumption DEF Init, TypeOK

LEMMA PrintedType ==
    ASSUME TypeOK, NEW n \in 1..MaxRead, Printed(n)
    PROVE  TypeOK'
<1>1. /\ Trimmed(n) \in base..(total + n) /\ total + n <= Trimmed(n) + Cap
      /\ n \in Nat /\ Cap \in Nat /\ MaxTotal \in Nat
  BY StreamAssumption DEF TypeOK, Trimmed, Max2
<1>2. markers \in Seq(0..(total + n))
  BY <1>1, SeqGrows DEF TypeOK
<1> QED
  BY <1>1, <1>2 DEF TypeOK, Printed, streams

LEMMA PlaceMarkerType == TypeOK /\ PlaceMarker => TypeOK'
<1> SUFFICES ASSUME TypeOK, PlaceMarker
             PROVE  TypeOK'
  OBVIOUS
<1>1. /\ markers' = Append(markers, total) /\ total \in 0..total
      /\ redraws' \in Nat
  BY DEF PlaceMarker, TypeOK
<1>2. markers' \in Seq(0..total) /\ Len(markers') = Len(markers) + 1
  BY <1>1 DEF TypeOK
<1>3. index \in [Viewers -> 0..Len(markers')]
  BY <1>2 DEF TypeOK
<1> QED
  BY <1>1, <1>2, <1>3 DEF TypeOK, PlaceMarker, streams

LEMMA StreamType ==
    ASSUME TypeOK, NEW v \in Viewers, Stream(v)
    PROVE  TypeOK'
<1>1. CASE Attach(v)
  BY <1>1 DEF Attach, TypeOK, terminal
<1>2. /\ cursor[v] \in 0..total /\ Resume(v) \in 0..total
      /\ Marked(v) \in BOOLEAN
  <2>1. cursor[v] \in 0..total /\ base \in 0..total /\ total \in Nat
    BY DEF TypeOK
  <2> QED
    BY <2>1 DEF Resume, Max2, Marked
<1>3. CASE Top(v) /\ Nothing(v, Resume(v))
  <2>1. /\ pc' = [pc EXCEPT ![v] = "wait"]
        /\ cursor' = [cursor EXCEPT ![v] = Resume(v)]
        /\ UNCHANGED <<terminal, index, got, frame>>
    BY <1>3 DEF Top
  <2>2. /\ pc' \in [Viewers -> {"off", "top", "wait", "closed"}]
        /\ cursor' \in [Viewers -> 0..total]
    BY <1>2, <2>1 DEF TypeOK
  <2> QED
    BY <2>1, <2>2 DEF TypeOK, terminal
<1>4. CASE Top(v) /\ ~ Nothing(v, Resume(v))
  BY <1>2, <1>4, YieldType DEF Top
<1>5. CASE Wake(v)
  BY <1>2, <1>5, YieldType DEF Wake
<1>6. CASE WakeLate(v)
  BY <1>2, <1>6, YieldType DEF WakeLate
<1> QED
  BY <1>1, <1>3, <1>4, <1>5, <1>6 DEF Stream

LEMMA NextType == TypeOK /\ [Next]_vars => TypeOK'
<1> SUFFICES ASSUME TypeOK, [Next]_vars
             PROVE  TypeOK'
  OBVIOUS
<1>1. ASSUME NEW n \in 1..MaxRead, Printed(n)
      PROVE  TypeOK'
  BY <1>1, PrintedType
<1>2. CASE MarkDead \/ Redraw
  <2>1. alive' \in BOOLEAN /\ UNCHANGED <<base, total, markers, streams>>
    BY <1>2 DEF TypeOK, MarkDead, Redraw
  <2>2. redraws' \in Nat
    BY <1>2 DEF TypeOK, MarkDead, Redraw
  <2> QED
    BY <2>1, <2>2 DEF TypeOK, streams
<1>3. CASE PlaceMarker
  BY <1>3, PlaceMarkerType
<1>4. ASSUME NEW v \in Viewers, Stream(v)
      PROVE  TypeOK'
  BY <1>4, StreamType
<1>5. ASSUME NEW v \in Viewers, Detach(v)
      PROVE  TypeOK'
  BY <1>5 DEF TypeOK, Detach, terminal
<1>6. CASE UNCHANGED vars
  BY <1>6 DEF TypeOK, vars, terminal, streams
<1> QED
  BY <1>1, <1>2, <1>3, <1>4, <1>5, <1>6 DEF Next

\* Offsets stay within the output, and the scrollback within its bound,
\* whatever viewers wait, wake late or fall behind.
THEOREM StreamTypeCorrect == Spec => []TypeOK
<1>1. Init => TypeOK
  BY InitType
<1>2. TypeOK /\ [Next]_vars => TypeOK'
  BY NextType
<1> QED
  BY <1>1, <1>2, PTL DEF Spec

-----------------------------------------------------------------------------
(* The order of what a viewer is sent, when waiting viewers keep up.       *)

\* What an iteration from a retained offset c does: it sends a due marker, the
\* bytes up to the next one, or the exit, or there was nothing to send.
Resets(v, c) ==
    /\ Marked(v) /\ NextMarker(v) <= c
    /\ cursor' = [cursor EXCEPT ![v] = c]
    /\ SendReset(v)

Sends(v, c, marked) == \E to \in (c + 1)..total :
    /\ to = ChunkEnd(v, marked)
    /\ cursor' = [cursor EXCEPT ![v] = to]
    /\ SendBytes(v, [kind |-> "bytes", lo |-> c, hi |-> to])

Ends(v, c) ==
    /\ c = total /\ ~ alive
    /\ cursor' = [cursor EXCEPT ![v] = c]
    /\ SendExit(v)

Idles(v, c) ==
    /\ cursor' = [cursor EXCEPT ![v] = c]
    /\ SendHeartbeat(v)

LEMMA YieldSends ==
    ASSUME TypeOK, NEW v \in Viewers, NEW c \in base..total,
           NEW marked \in BOOLEAN, marked => Marked(v), Yield(v, c, marked)
    PROVE  /\ UNCHANGED terminal
           /\ Resets(v, c) \/ Sends(v, c, marked) \/ Ends(v, c) \/ Idles(v, c)
<1> DEFINE to    == ChunkEnd(v, marked)
           reset == marked /\ NextMarker(v) <= c
<1>1. to \in 0..total /\ base \in Nat /\ total \in Nat /\ c \in Nat
  BY ChunkEndType DEF TypeOK
<1>2. ASSUME ~ reset, c < to
      PROVE  Chunk(c, to) = [kind |-> "bytes", lo |-> c, hi |-> to]
  <2>1. c - base \in 0..(total - base) /\ to - base \in 0..(total - base)
    BY <1>1, <1>2
  <2>2. Bound(c - base) = c - base /\ Bound(to - base) = to - base
    BY <2>1, BoundInside
  <2> QED
    BY <1>1, <2>2 DEF Chunk
<1>3. UNCHANGED terminal
  BY DEF Yield
<1>4. CASE reset
  BY <1>3, <1>4 DEF Yield, Resets
<1>5. CASE ~ reset /\ c < to
  <2>1. ~ IsEmpty(Chunk(c, to)) /\ Max2(c, to) = to /\ to \in (c + 1)..total
    BY <1>1, <1>2, <1>5 DEF IsEmpty, Max2
  <2>2. cursor' = [cursor EXCEPT ![v] = to] /\ SendBytes(v, Chunk(c, to))
    BY <1>5, <2>1 DEF Yield
  <2>3. SendBytes(v, [kind |-> "bytes", lo |-> c, hi |-> to])
    BY <1>2, <1>5, <2>2
  <2> HIDE DEF to
  <2>4. to = ChunkEnd(v, marked)
    BY DEF to
  <2> QED
    BY <1>3, <2>1, <2>2, <2>3, <2>4 DEF Sends
<1>6. CASE ~ reset /\ ~ (c < to)
  <2>1. Max2(c, to) = c
    BY <1>1, <1>6 DEF Max2
  <2>2. /\ cursor' = [cursor EXCEPT ![v] = c]
        /\ SendHeartbeat(v) \/ (~ alive /\ to >= total /\ SendExit(v))
    BY <1>6, <2>1 DEF Yield
  <2>3. CASE SendHeartbeat(v)
    BY <1>3, <2>2, <2>3 DEF Idles
  <2>4. CASE ~ alive /\ to >= total /\ SendExit(v)
    <3>1. c = total
      BY <1>1, <1>6, <2>4
    <3> QED
      BY <1>3, <2>2, <2>4, <3>1 DEF Ends
  <2> QED
    BY <2>2, <2>3, <2>4
<1> QED
  BY <1>3, <1>4, <1>5, <1>6

\* An iteration of v's generator that does not wait.
Iterates(v) ==
    /\ pc[v] \in {"top", "wait"}
    /\ UNCHANGED terminal
    /\ \E marked \in BOOLEAN :
          /\ ~ Heartbeats => marked = Marked(v)
          /\ \/ Resets(v, Resume(v)) \/ Sends(v, Resume(v), marked)
             \/ Ends(v, Resume(v)) \/ Idles(v, Resume(v))

Waits(v) ==
    /\ pc' = [pc EXCEPT ![v] = "wait"]
    /\ cursor' = [cursor EXCEPT ![v] = Resume(v)]
    /\ pc[v] = "top" /\ UNCHANGED <<terminal, index, got, frame>>

LEMMA ResumeRetained ==
    ASSUME TypeOK, NEW v \in Viewers
    PROVE  /\ Resume(v) \in base..total
           /\ Resume(v) = cursor[v] \/ (Resume(v) = base /\ cursor[v] < base)
           /\ base <= cursor[v] => Resume(v) = cursor[v]
BY DEF TypeOK, Resume, Max2

LEMMA StreamSteps ==
    ASSUME TypeOK, WaitersKeepUp, NEW v \in Viewers, Stream(v)
    PROVE  Attach(v) \/ Waits(v) \/ Iterates(v)
<1>1. /\ Resume(v) \in base..total
      /\ pc[v] = "wait" => cursor[v] = Resume(v)
  BY ResumeRetained DEF WaitersKeepUp
<1>2. Marked(v) \in BOOLEAN
  BY DEF Marked
<1>3. CASE Top(v) /\ Nothing(v, Resume(v))
  BY <1>3 DEF Top, Waits
<1>4. ASSUME pc[v] \in {"top", "wait"}, NEW marked \in BOOLEAN,
             marked => Marked(v), ~ Heartbeats => marked = Marked(v),
             Yield(v, Resume(v), marked)
      PROVE  Iterates(v)
  BY <1>1, <1>4, YieldSends DEF Iterates
<1>5. CASE Top(v) /\ ~ Nothing(v, Resume(v))
  BY <1>2, <1>4, <1>5 DEF Top
<1>6. CASE Wake(v)
  BY <1>1, <1>2, <1>4, <1>6 DEF Wake
<1>7. CASE WakeLate(v)
  <2>1. ~ Heartbeats => FALSE = Marked(v)
    BY <1>2, <1>7 DEF WakeLate, Nothing
  <2> QED
    BY <1>1, <1>4, <1>7, <2>1 DEF WakeLate
<1> QED
  BY <1>3, <1>5, <1>6, <1>7 DEF Stream

LEMMA IterationOrder ==
    ASSUME OrderInv, NEW v \in Viewers, Iterates(v)
    PROVE  CursorFollows' /\ WaitersKeepUp' /\ EndsStand' /\ ExitIsLast'
<1> DEFINE c == Resume(v)
<1>1. /\ c \in base..total
      /\ c = cursor[v] \/ (c = base /\ cursor[v] < base)
      /\ got[v] <= c /\ (c = got[v] \/ c <= base)
      /\ base \in Nat /\ total \in Nat
      /\ got \in [Viewers -> Nat] /\ cursor \in [Viewers -> Nat]
      /\ DOMAIN pc = Viewers /\ DOMAIN frame = Viewers
  BY ResumeRetained DEF OrderInv, TypeOK, CursorFollows
<1>2. UNCHANGED <<base, total, alive>> /\ pc[v] \in {"top", "wait"}
  BY DEF Iterates, terminal
<1>3. PICK marked \in BOOLEAN :
          \/ Resets(v, c) \/ Sends(v, c, marked) \/ Ends(v, c) \/ Idles(v, c)
  BY DEF Iterates
<1> HIDE DEF c
<1> USE DEF OrderInv, CursorFollows, WaitersKeepUp, EndsStand, ExitIsLast
<1>4. CASE Resets(v, c)
  BY <1>1, <1>2, <1>4 DEF Resets, SendReset
<1>5. CASE Sends(v, c, marked)
  <2>1. PICK to \in (c + 1)..total :
            /\ cursor' = [cursor EXCEPT ![v] = to]
            /\ SendBytes(v, [kind |-> "bytes", lo |-> c, hi |-> to])
    BY <1>5 DEF Sends
  <2> QED
    BY <1>1, <1>2, <2>1 DEF SendBytes
<1>6. CASE Ends(v, c)
  BY <1>1, <1>2, <1>6 DEF Ends, SendExit
<1>7. CASE Idles(v, c)
  BY <1>1, <1>2, <1>7 DEF Idles, SendHeartbeat
<1> QED
  BY <1>3, <1>4, <1>5, <1>6, <1>7

LEMMA NextOrder ==
    ASSUME Prompt, OrderInv, [Next]_vars
    PROVE  OrderInv'
<1> USE DEF CursorFollows, WaitersKeepUp, EndsStand, ExitIsLast
<1>1. TypeOK'
  BY NextType DEF OrderInv
<1>2. TypeOK /\ CursorFollows /\ WaitersKeepUp /\ EndsStand /\ ExitIsLast
  BY DEF OrderInv
<1> SUFFICES CursorFollows' /\ WaitersKeepUp' /\ EndsStand' /\ ExitIsLast'
  BY <1>1 DEF OrderInv
<1>3. ASSUME NEW n \in 1..MaxRead, Printed(n)
      PROVE  CursorFollows' /\ WaitersKeepUp' /\ EndsStand' /\ ExitIsLast'
  <2>1. base <= base' /\ \A v \in Viewers : pc[v] = "wait" => base' <= cursor[v]
    BY <1>2, <1>3, StreamAssumption DEF Printed, Trimmed, Max2, TypeOK
  <2>2. base' \in Nat /\ base \in Nat /\ cursor \in [Viewers -> Nat]
        /\ got \in [Viewers -> Nat]
    BY <1>1, <1>2 DEF TypeOK
  <2>3. UNCHANGED streams /\ alive
    BY <1>3 DEF Printed
  <2> QED
    BY <1>2, <2>1, <2>2, <2>3 DEF streams
<1>4. CASE MarkDead
  BY <1>2, <1>4 DEF MarkDead, streams
<1>5. CASE Redraw \/ PlaceMarker
  BY <1>2, <1>5 DEF Redraw, PlaceMarker, streams
<1>6. ASSUME NEW v \in Viewers, Attach(v)
      PROVE  CursorFollows' /\ WaitersKeepUp' /\ EndsStand' /\ ExitIsLast'
  BY <1>2, <1>6 DEF Attach, terminal, TypeOK
<1>7. ASSUME NEW v \in Viewers, Waits(v)
      PROVE  CursorFollows' /\ WaitersKeepUp' /\ EndsStand' /\ ExitIsLast'
  <2>1. Resume(v) \in base..total /\ Resume(v) >= cursor[v]
        /\ (Resume(v) = cursor[v] \/ Resume(v) = base)
        /\ cursor \in [Viewers -> Nat] /\ got \in [Viewers -> Nat]
        /\ base \in Nat /\ total \in Nat /\ DOMAIN pc = Viewers
    BY <1>2, ResumeRetained DEF TypeOK
  <2> QED
    BY <1>2, <1>7, <2>1 DEF Waits, terminal
<1>8. ASSUME NEW v \in Viewers, Iterates(v)
      PROVE  CursorFollows' /\ WaitersKeepUp' /\ EndsStand' /\ ExitIsLast'
  BY <1>8, IterationOrder
<1>9. ASSUME NEW v \in Viewers, Detach(v)
      PROVE  CursorFollows' /\ WaitersKeepUp' /\ EndsStand' /\ ExitIsLast'
  BY <1>2, <1>9 DEF Detach, terminal, TypeOK
<1>10. CASE UNCHANGED vars
  BY <1>2, <1>10 DEF vars, terminal, streams
<1> QED
  BY <1>2, <1>3, <1>4, <1>5, <1>6, <1>7, <1>8, <1>9, <1>10, StreamSteps DEF Next

LEMMA InitOrder == Init => OrderInv
BY InitType DEF Init, OrderInv, CursorFollows, WaitersKeepUp, EndsStand, ExitIsLast

LEMMA OrderInvariant ==
    ASSUME Prompt
    PROVE  Spec => []OrderInv
<1>1. Init => OrderInv
  BY InitOrder
<1>2. OrderInv /\ [Next]_vars => OrderInv'
  BY NextOrder
<1> QED
  BY <1>1, <1>2, PTL DEF Spec

\* What a step sends, it sends as an iteration of one generator.
LEMMA SentByIteration ==
    ASSUME OrderInv, [Next]_vars, NEW v \in Viewers, frame'[v] # frame[v]
    PROVE  Iterates(v)
<1>1. TypeOK /\ WaitersKeepUp /\ DOMAIN frame = Viewers
  BY DEF OrderInv, TypeOK
<1>2. ~ UNCHANGED frame
  OBVIOUS
<1>3. PICK w \in Viewers : Stream(w)
  BY <1>2 DEF Next, Printed, MarkDead, Redraw, PlaceMarker, Detach, vars, streams
<1>4. Iterates(w)
  BY <1>1, <1>2, <1>3, StreamSteps DEF Attach, Waits
<1>5. w = v
  BY <1>1, <1>4 DEF Iterates, Resets, Sends, Ends, Idles, SendReset, SendBytes,
                    SendExit, SendHeartbeat
<1> QED
  BY <1>4, <1>5

\* The bytes an iteration sends, and where its viewer had stopped.
LEMMA SentBytes ==
    ASSUME OrderInv, NEW v \in Viewers, Iterates(v), Sent(v, "bytes")
    PROVE  \E marked \in BOOLEAN :
              /\ ~ Heartbeats => marked = Marked(v)
              /\ frame'[v].lo = Resume(v)
              /\ frame'[v].hi = ChunkEnd(v, marked)
              /\ Sends(v, Resume(v), marked)
<1>1. DOMAIN frame = Viewers
  BY DEF OrderInv, TypeOK
<1>2. PICK marked \in BOOLEAN :
          /\ ~ Heartbeats => marked = Marked(v)
          /\ \/ Resets(v, Resume(v)) \/ Sends(v, Resume(v), marked)
             \/ Ends(v, Resume(v)) \/ Idles(v, Resume(v))
  BY DEF Iterates
<1>3. Sends(v, Resume(v), marked)
  BY <1>1, <1>2 DEF Sent, Resets, Ends, Idles, SendReset, SendExit, SendHeartbeat
<1>4. PICK to \in (Resume(v) + 1)..total :
          /\ to = ChunkEnd(v, marked)
          /\ SendBytes(v, [kind |-> "bytes", lo |-> Resume(v), hi |-> to])
  BY <1>3 DEF Sends
<1>5. frame'[v] = [kind |-> "bytes", lo |-> Resume(v), hi |-> to]
  BY <1>1, <1>4 DEF SendBytes
<1> QED
  BY <1>2, <1>3, <1>4, <1>5

\* When waiting viewers get the lock back in time, a viewer is sent every
\* retained byte once and in order, however many viewers, redraws and late
\* heartbeats there are.
THEOREM InOrder ==
    ASSUME Prompt
    PROVE  Spec => BytesInOrder
<1>1. OrderInv /\ [Next]_vars =>
          [\A v \in Viewers : Sent(v, "bytes")
                                  => frame'[v].lo = Max2(got[v], base)]_vars
  <2> SUFFICES ASSUME OrderInv, [Next]_vars, NEW v \in Viewers, Sent(v, "bytes")
               PROVE  frame'[v].lo = Max2(got[v], base)
    OBVIOUS
  <2>1. Iterates(v)
    BY SentByIteration DEF Sent
  <2>2. frame'[v].lo = Resume(v)
    BY <2>1, SentBytes
  <2>3. Resume(v) = Max2(got[v], base)
    BY DEF OrderInv, TypeOK, CursorFollows, Resume, Max2
  <2> QED
    BY <2>2, <2>3
<1> QED
  BY <1>1, OrderInvariant, PTL DEF Spec, BytesInOrder

\* Under the same condition the exit frame is the last thing a viewer is told,
\* after every byte that is retained.
THEOREM ExitComesLast ==
    ASSUME Prompt
    PROVE  Spec => []ExitIsLast
<1>1. OrderInv => ExitIsLast
  BY DEF OrderInv
<1> QED
  BY <1>1, OrderInvariant, PTL

-----------------------------------------------------------------------------
(* Reset markers, when waits do not time out as something arrives.         *)

LEMMA IterationMarkers ==
    ASSUME ~ Heartbeats, MarkerInv, NEW v \in Viewers, Iterates(v)
    PROVE  MarkersAhead'
<1> DEFINE c == Resume(v)
<1>1. /\ c \in base..total /\ base \in Nat /\ total \in Nat
      /\ got \in [Viewers -> 0..total] /\ DOMAIN pc = Viewers
      /\ index \in [Viewers -> 0..Len(markers)] /\ Len(markers) \in Nat
      /\ \A m \in 1..Len(markers) : markers[m] \in 0..total
  <2>1. TypeOK
    BY DEF MarkerInv, OrderInv
  <2>2. c \in base..total
    BY <2>1, ResumeRetained
  <2>3. /\ markers \in Seq(0..total) /\ base \in Nat /\ total \in Nat
        /\ got \in [Viewers -> 0..total] /\ DOMAIN pc = Viewers
        /\ index \in [Viewers -> 0..Len(markers)]
    BY <2>1 DEF TypeOK
  <2> QED
    BY <2>2, <2>3
<1>2. UNCHANGED <<markers, total>> /\ pc[v] \in {"top", "wait"}
  BY DEF Iterates, terminal
<1>3. PICK marked \in BOOLEAN :
          /\ marked = Marked(v)
          /\ \/ Resets(v, c) \/ Sends(v, c, marked) \/ Ends(v, c) \/ Idles(v, c)
  BY DEF Iterates
<1>4. MarkersAhead
  BY DEF MarkerInv
<1> HIDE DEF c
<1> USE DEF MarkersAhead
<1>5. CASE Resets(v, c)
  BY <1>1, <1>2, <1>4, <1>5 DEF Resets, SendReset
<1>6. CASE Sends(v, c, marked)
  <2>1. PICK to \in (c + 1)..total :
            /\ to = ChunkEnd(v, marked)
            /\ SendBytes(v, [kind |-> "bytes", lo |-> c, hi |-> to])
    BY <1>6 DEF Sends
  <2>2. ASSUME NEW m \in (index[v] + 1)..Len(markers)
        PROVE  to <= markers[m]
    <3>1. Marked(v) /\ index[v] + 1 \in 1..Len(markers) /\ m \in 1..Len(markers)
      BY <1>1, <2>2 DEF Marked
    <3>2. markers[index[v] + 1] <= markers[m]
      BY <1>1, <1>4, <2>2, <3>1
    <3>3. to <= markers[index[v] + 1]
      BY <1>1, <1>3, <2>1, <3>1 DEF ChunkEnd, NextMarker, Min2
    <3> QED
      BY <1>1, <2>1, <3>1, <3>2, <3>3
  <2>3. /\ got' = [got EXCEPT ![v] = to] /\ UNCHANGED index
        /\ pc' = [pc EXCEPT ![v] = "top"]
    BY <2>1 DEF SendBytes
  <2> QED
    BY <1>1, <1>2, <1>4, <2>2, <2>3
<1>7. CASE Ends(v, c)
  BY <1>1, <1>2, <1>4, <1>7 DEF Ends, SendExit
<1>8. CASE Idles(v, c)
  BY <1>1, <1>2, <1>4, <1>8 DEF Idles, SendHeartbeat
<1> QED
  BY <1>3, <1>5, <1>6, <1>7, <1>8

LEMMA PlaceMarkerAhead ==
    ASSUME MarkerInv, PlaceMarker
    PROVE  MarkersAhead'
<1>1. /\ markers \in Seq(0..total) /\ total \in Nat
      /\ got \in [Viewers -> 0..total] /\ index \in [Viewers -> 0..Len(markers)]
      /\ MarkersAhead
  BY DEF MarkerInv, OrderInv, TypeOK
<1>2. /\ Len(markers') = Len(markers) + 1 /\ Len(markers) \in Nat
      /\ \A m \in 1..Len(markers) : markers'[m] = markers[m]
                                    /\ markers[m] \in 0..total
      /\ markers'[Len(markers) + 1] = total
      /\ UNCHANGED <<index, got, pc>>
  BY <1>1 DEF PlaceMarker, streams
<1>3. ASSUME NEW m \in 1..Len(markers'), NEW n \in 1..Len(markers'), m <= n
      PROVE  markers'[m] <= markers'[n]
  <2>1. CASE n = Len(markers) + 1
    BY <1>1, <1>2, <1>3, <2>1
  <2>2. CASE n # Len(markers) + 1
    <3>1. m \in 1..Len(markers) /\ n \in 1..Len(markers)
      BY <1>2, <1>3, <2>2
    <3>2. markers[m] <= markers[n]
      BY <1>1, <1>3, <3>1 DEF MarkersAhead
    <3> QED
      BY <1>2, <3>1, <3>2
  <2> QED
    BY <2>1, <2>2
<1>4. ASSUME NEW v \in Viewers, NEW m \in (index[v] + 1)..Len(markers'),
             pc[v] # "off"
      PROVE  got[v] <= markers'[m]
  <2>1. /\ got[v] \in 0..total /\ index[v] \in 0..Len(markers)
        /\ index'[v] = index[v] /\ total \in Nat
    BY <1>1, <1>2
  <2>2. CASE m = Len(markers) + 1
    BY <1>2, <2>1, <2>2
  <2>3. CASE m # Len(markers) + 1
    <3>1. m \in (index[v] + 1)..Len(markers) /\ m \in 1..Len(markers)
      BY <1>2, <1>4, <2>1, <2>3
    <3>2. got[v] <= markers[m]
      BY <1>1, <1>4, <3>1 DEF MarkersAhead
    <3> QED
      BY <1>2, <3>1, <3>2
  <2> QED
    BY <2>2, <2>3
<1> QED
  <2>1. \A v \in Viewers : index'[v] = index[v] /\ pc'[v] = pc[v]
                               /\ got'[v] = got[v]
    BY <1>2
  <2> QED
    BY <1>3, <1>4, <2>1 DEF MarkersAhead

LEMMA NextMarkers ==
    ASSUME Prompt, ~ Heartbeats, MarkerInv, [Next]_vars
    PROVE  MarkerInv'
<1>1. OrderInv'
  BY NextOrder DEF MarkerInv
<1>2. MarkersAhead /\ TypeOK /\ WaitersKeepUp
  BY DEF MarkerInv, OrderInv
<1> SUFFICES MarkersAhead'
  BY <1>1 DEF MarkerInv
<1>3. ASSUME NEW v \in Viewers, Attach(v)
      PROVE  MarkersAhead'
  BY <1>2, <1>3 DEF MarkersAhead, Attach, terminal, TypeOK
<1>4. ASSUME NEW v \in Viewers, Waits(v)
      PROVE  MarkersAhead'
  BY <1>2, <1>4 DEF MarkersAhead, Waits, terminal, TypeOK
<1>5. ASSUME NEW v \in Viewers, Detach(v)
      PROVE  MarkersAhead'
  BY <1>2, <1>5 DEF MarkersAhead, Detach, terminal, TypeOK
<1>6. ASSUME UNCHANGED <<markers, streams>>
      PROVE  MarkersAhead'
  BY <1>2, <1>6 DEF MarkersAhead, streams
<1> QED
  BY <1>2, <1>3, <1>4, <1>5, <1>6, StreamSteps, IterationMarkers, PlaceMarkerAhead
     DEF Next, Printed, MarkDead, Redraw, vars, terminal

\* If, besides, no wait times out just as something arrives, a reset marker
\* reaches every viewer exactly between the bytes it was placed between.
THEOREM ResetsBetween ==
    ASSUME Prompt, ~ Heartbeats
    PROVE  Spec => ResetBetween
<1> DEFINE Between(v) ==
        /\ Sent(v, "reset") =>
               /\ got[v] <= frame'[v].lo
               /\ base < frame'[v].lo => got[v] = frame'[v].lo
        /\ Sent(v, "bytes") => \A m \in (index[v] + 1)..Len(markers) :
                                   frame'[v].hi <= markers[m]
<1>1. Init => MarkerInv
  <2>1. Init => MarkersAhead
    BY DEF Init, MarkersAhead
  <2> QED
    BY <2>1, InitOrder DEF MarkerInv
<1>2. MarkerInv /\ [Next]_vars => MarkerInv'
  BY NextMarkers
<1>3. MarkerInv /\ [Next]_vars => [\A v \in Viewers : Between(v)]_vars
  <2> SUFFICES ASSUME MarkerInv, [Next]_vars, NEW v \in Viewers,
                      frame'[v] # frame[v]
               PROVE  Between(v)
    BY DEF Sent
  <2>1. /\ OrderInv /\ MarkersAhead /\ Iterates(v)
    BY SentByIteration DEF MarkerInv
  <2>2. /\ Resume(v) \in base..total /\ base \in Nat /\ total \in Nat
        /\ Resume(v) = cursor[v] \/ Resume(v) = base
        /\ got[v] <= cursor[v] /\ (cursor[v] = got[v] \/ cursor[v] <= base)
        /\ got[v] \in Nat /\ cursor[v] \in Nat /\ DOMAIN frame = Viewers
        /\ index[v] \in Nat /\ Len(markers) \in Nat /\ pc[v] # "off"
        /\ \A m \in 1..Len(markers) : markers[m] \in 0..total
    BY <2>1, ResumeRetained DEF OrderInv, CursorFollows, TypeOK, Iterates
  <2>3. CASE Sent(v, "reset")
    <3>1. Resets(v, Resume(v))
      BY <2>1, <2>2, <2>3 DEF Iterates, Sent, Sends, Ends, Idles, SendBytes,
                              SendExit, SendHeartbeat
    <3>2. /\ frame'[v].lo = NextMarker(v) /\ NextMarker(v) <= Resume(v)
          /\ index[v] + 1 \in (index[v] + 1)..Len(markers)
          /\ frame'[v].kind = "reset"
      BY <2>2, <3>1 DEF Resets, SendReset, Marked
    <3>3. got[v] <= NextMarker(v) /\ NextMarker(v) \in Nat
      BY <2>1, <2>2, <3>2 DEF MarkersAhead, NextMarker
    <3>4. base < NextMarker(v) => got[v] = NextMarker(v)
      BY <2>2, <3>2, <3>3
    <3> QED
      BY <3>2, <3>3, <3>4 DEF Sent
  <2>4. CASE Sent(v, "bytes")
    <3>1. PICK marked \in BOOLEAN :
              marked = Marked(v) /\ frame'[v].hi = ChunkEnd(v, marked)
      BY <2>1, <2>4, SentBytes
    <3>2. ASSUME NEW m \in (index[v] + 1)..Len(markers)
          PROVE  frame'[v].hi <= markers[m]
      <4>1. Marked(v) /\ index[v] + 1 \in 1..Len(markers) /\ m \in 1..Len(markers)
        BY <2>2, <3>2 DEF Marked
      <4>2. markers[index[v] + 1] <= markers[m]
        BY <2>1, <2>2, <3>2, <4>1 DEF MarkersAhead
      <4>3. frame'[v].hi <= markers[index[v] + 1] /\ frame'[v].hi \in Nat
        <5>1. frame'[v].hi = Min2(total, markers[index[v] + 1])
          BY <3>1, <4>1 DEF ChunkEnd, NextMarker
        <5>2. markers[index[v] + 1] \in Nat /\ total \in Nat
          BY <2>2, <4>1
        <5> QED
          BY <5>1, <5>2 DEF Min2
      <4>4. markers[m] \in Nat /\ markers[index[v] + 1] \in Nat
        BY <2>2, <4>1
      <4> QED
        BY <4>2, <4>3, <4>4
    <3>3. ~ Sent(v, "reset")
      BY <2>4 DEF Sent
    <3> QED
      BY <3>2, <3>3
  <2>5. CASE ~ Sent(v, "reset") /\ ~ Sent(v, "bytes")
    BY <2>5
  <2> QED
    BY <2>3, <2>4, <2>5
<1> QED
  BY <1>1, <1>2, <1>3, PTL DEF Spec, ResetBetween
==============================================================================
