---------------------------- MODULE TerminalStream ----------------------------
(***************************************************************************)
(* The output of one terminal of the dashboard's PtyHost                   *)
(* (horus/pty_host.py): a reader thread appends what the agent prints to a *)
(* scrollback that is trimmed at the front, redraw() places reset markers  *)
(* between bytes, and every viewer's subscribe() generator yields the      *)
(* scrollback, then live output, with the markers in between.              *)
(*                                                                         *)
(* A byte is represented by its absolute offset, a chunk by the offsets    *)
(* lo (first) and hi (one past the last).                                  *)
(***************************************************************************)
EXTENDS Integers, Sequences

CONSTANTS Viewers,     \* the streams that browser pages open
          Cap,         \* SCROLLBACK_CAP
          MaxRead,     \* the most bytes one read of the PTY returns
          MaxTotal,    \* bound on the bytes the agent prints
          MaxMarkers,  \* bound on the redraws
          Prompt,      \* does a waiting viewer wake before its place is trimmed?
          Heartbeats   \* may a wait time out just as something arrives?

ASSUME StreamAssumption ==
    /\ Cap \in Nat \ {0} /\ MaxRead \in Nat \ {0}
    /\ MaxTotal \in Nat /\ MaxMarkers \in Nat
    /\ Prompt \in BOOLEAN /\ Heartbeats \in BOOLEAN

VARIABLES base,     \* offset of the first retained byte
          total,    \* bytes ever printed
          alive,    \* is the agent's process running?
          markers,  \* markers[m]: the offset at which reset m was placed
          redraws,  \* redraws that have passed their check of alive
          pc,       \* pc[v]: "off", "top" of the loop, "wait" or "closed"
          cursor,   \* cursor[v]: the next offset v's generator will send
          index,    \* index[v]: the markers v's generator is done with
          got,      \* got[v]: one past the last byte v was sent (history)
          frame     \* frame[v]: the last frame v was sent (history)

terminal == <<base, total, alive, markers, redraws>>
streams  == <<pc, cursor, index, got, frame>>
vars     == <<terminal, streams>>

Max2(x, y) == IF x > y THEN x ELSE y
Min2(x, y) == IF x < y THEN x ELSE y

-----------------------------------------------------------------------------
(* The reader thread and redraw().                                         *)

\* The base once n more bytes are appended.
Trimmed(n) == Max2(base, total + n - Cap)

Printed(n) ==
    /\ alive /\ total + n <= MaxTotal
    /\ Prompt => \A v \in Viewers : pc[v] = "wait" => Trimmed(n) <= cursor[v]
    /\ total' = total + n
    /\ base' = Trimmed(n)
    /\ UNCHANGED <<alive, markers, redraws, streams>>

MarkDead == /\ alive /\ alive' = FALSE
            /\ UNCHANGED <<base, total, markers, redraws, streams>>

\* redraw() looks at alive without the lock ...
Redraw == /\ alive /\ redraws + Len(markers) < MaxMarkers
          /\ redraws' = redraws + 1
          /\ UNCHANGED <<base, total, alive, markers, streams>>

\* ... and places its marker under it, before it makes the agent repaint.
PlaceMarker == /\ redraws > 0 /\ redraws' = redraws - 1
               /\ markers' = Append(markers, total)
               /\ UNCHANGED <<base, total, alive, streams>>

-----------------------------------------------------------------------------
(* _subscribe_frames                                                       *)

\* The geometry and status frames are sent; older markers are of no interest.
Attach(v) ==
    /\ pc[v] = "off" /\ pc' = [pc EXCEPT ![v] = "top"]
    /\ index' = [index EXCEPT ![v] = Len(markers)]
    /\ UNCHANGED <<terminal, cursor, got, frame>>

\* The client is gone.
Detach(v) ==
    /\ pc[v] \in {"top", "wait"} /\ pc' = [pc EXCEPT ![v] = "closed"]
    /\ UNCHANGED <<terminal, cursor, index, got, frame>>

Marked(v) == index[v] < Len(markers)
NextMarker(v) == markers[index[v] + 1]

SendReset(v) ==
    /\ index' = [index EXCEPT ![v] = @ + 1]
    /\ frame' = [frame EXCEPT ![v] = [kind |-> "reset", lo |-> NextMarker(v),
                                      hi |-> NextMarker(v)]]
    /\ pc' = [pc EXCEPT ![v] = "top"]
    /\ UNCHANGED got

\* A Python slice bound: a negative one counts from the end.
Bound(i) == IF i < 0 THEN Max2(0, total - base + i) ELSE Min2(total - base, i)

\* The chunk buf[from - base : to - base].
Chunk(from, to) == [kind |-> "bytes", lo |-> base + Bound(from - base),
                                      hi |-> base + Bound(to - base)]
IsEmpty(chunk) == chunk.lo >= chunk.hi

SendBytes(v, chunk) ==
    /\ frame' = [frame EXCEPT ![v] = chunk]
    /\ got' = [got EXCEPT ![v] = chunk.hi]
    /\ pc' = [pc EXCEPT ![v] = "top"]
    /\ UNCHANGED index

\* A comment line that carries nothing.
SendHeartbeat(v) == pc' = [pc EXCEPT ![v] = "top"] /\ UNCHANGED <<index, got, frame>>

SendExit(v) ==
    /\ frame' = [frame EXCEPT ![v] = [kind |-> "exited", lo |-> total,
                                      hi |-> total]]
    /\ pc' = [pc EXCEPT ![v] = "closed"]
    /\ UNCHANGED <<index, got>>

\* Mutant: the chunk runs to the end of the output, over a marker.
ChunkEnd_NoSplit(v, marked) == total

ChunkEnd(v, marked) == IF marked THEN Min2(total, NextMarker(v)) ELSE total

\* Mutant: the exit waits for one byte more than there are.
Yield_ExitBeyond(v, c, marked) ==
    LET to    == ChunkEnd(v, marked)
        reset == marked /\ NextMarker(v) <= c
    IN  /\ cursor' = [cursor EXCEPT ![v] = IF reset THEN c ELSE Max2(c, to)]
        /\ IF reset THEN SendReset(v)
           ELSE IF c < to /\ ~ IsEmpty(Chunk(c, to)) THEN SendBytes(v, Chunk(c, to))
           ELSE IF ~ alive /\ to > total /\ ~ marked THEN SendExit(v)
           ELSE SendHeartbeat(v)
        /\ UNCHANGED terminal

\* The rest of an iteration, from cursor c, for a generator that has or has not
\* noticed its next marker.
Yield(v, c, marked) ==
    LET to    == ChunkEnd(v, marked)
        reset == marked /\ NextMarker(v) <= c
    IN  /\ cursor' = [cursor EXCEPT ![v] = IF reset THEN c ELSE Max2(c, to)]
        /\ IF reset THEN SendReset(v)
           ELSE IF c < to /\ ~ IsEmpty(Chunk(c, to)) THEN SendBytes(v, Chunk(c, to))
           ELSE IF ~ alive /\ to >= total /\ ~ marked THEN SendExit(v)
           ELSE SendHeartbeat(v)
        /\ UNCHANGED terminal

\* There is nothing to send: the generator waits.
Nothing(v, c) == c >= total /\ ~ Marked(v) /\ alive

\* Mutant: trimmed bytes are not skipped.
Resume_Blind(v) == cursor[v]

\* "Missed bytes trimmed from scrollback" are skipped.
Resume(v) == Max2(cursor[v], base)

\* The top of the loop takes the lock, and keeps it unless it has to wait.
Top(v) ==
    /\ pc[v] = "top"
    /\ IF Nothing(v, Resume(v))
       THEN /\ pc' = [pc EXCEPT ![v] = "wait"]
            /\ cursor' = [cursor EXCEPT ![v] = Resume(v)]
            /\ UNCHANGED <<terminal, index, got, frame>>
       ELSE Yield(v, Resume(v), Marked(v))

\* A notified waiter looks for its marker again, but not at the base.
Wake(v) == /\ pc[v] = "wait" /\ ~ Nothing(v, cursor[v])
           /\ Yield(v, cursor[v], Marked(v))

\* A waiter whose wait timed out does not even look for its marker.
WakeLate(v) == /\ pc[v] = "wait" /\ (Heartbeats \/ Nothing(v, cursor[v]))
               /\ Yield(v, cursor[v], FALSE)

Stream(v) == Attach(v) \/ Top(v) \/ Wake(v) \/ WakeLate(v)

-----------------------------------------------------------------------------
Init ==
    /\ base = 0 /\ total = 0 /\ alive = TRUE /\ markers = <<>> /\ redraws = 0
    /\ pc = [v \in Viewers |-> "off"] /\ cursor = [v \in Viewers |-> 0]
    /\ index = [v \in Viewers |-> 0] /\ got = [v \in Viewers |-> 0]
    /\ frame = [v \in Viewers |-> [kind |-> "none", lo |-> 0, hi |-> 0]]

Next == \/ \E n \in 1..MaxRead : Printed(n)
        \/ MarkDead \/ Redraw \/ PlaceMarker
        \/ \E v \in Viewers : Stream(v) \/ Detach(v)

Spec == Init /\ [][Next]_vars

\* Every generator is driven by a server thread that writes its frames out.
FairSpec == Spec /\ \A v \in Viewers : WF_vars(Stream(v))

-----------------------------------------------------------------------------
TypeOK ==
    /\ base \in Nat /\ total \in Nat /\ base <= total /\ total <= base + Cap
    /\ alive \in BOOLEAN /\ redraws \in Nat
    /\ markers \in Seq(0..total)
    /\ pc \in [Viewers -> {"off", "top", "wait", "closed"}]
    /\ cursor \in [Viewers -> 0..total]
    /\ index \in [Viewers -> 0..Len(markers)]
    /\ got \in [Viewers -> 0..total]
    /\ DOMAIN frame = Viewers

Sent(v, kind) == frame'[v] # frame[v] /\ frame'[v].kind = kind

\* A viewer is sent every byte once and in order, and misses only bytes that
\* "were trimmed from scrollback".
BytesInOrder ==
    [][\A v \in Viewers :
          Sent(v, "bytes") => frame'[v].lo = Max2(got[v], base)]_vars

\* A reset marker is sent "only after every byte that preceded it" and before
\* every byte that followed it.
ResetBetween ==
    [][\A v \in Viewers :
          /\ Sent(v, "reset") => /\ got[v] <= frame'[v].lo
                                 /\ base < frame'[v].lo => got[v] = frame'[v].lo
          /\ Sent(v, "bytes") => \A m \in (index[v] + 1)..Len(markers) :
                                     frame'[v].hi <= markers[m]]_vars

\* The final frame comes after the last byte.
ExitIsLast ==
    \A v \in Viewers : frame[v].kind = "exited" =>
        ~ alive /\ frame[v].hi = total /\ (total > base => got[v] = total)

\* When the agent has ended, every stream ends.
StreamsEnd == \A v \in Viewers : (pc[v] = "top" /\ ~ alive) ~> pc[v] = "closed"
=============================================================================
