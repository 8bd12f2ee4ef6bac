------------------------------ MODULE InputBridge ------------------------------
(***************************************************************************)
(* The remote input bridge.  `horus ask` (an asker per request) writes a   *)
(* request file and polls for a response file (horus/input_bridge.py); the *)
(* one `horus notify listen` loop (horus/notify_listen.py) pushes requests *)
(* to the owner's phone and turns his taps and replies, which the Telegram *)
(* server keeps until they are confirmed, into response files.             *)
(*                                                                         *)
(* An answer is represented by the position of the owner's tap.  A text    *)
(* reply that names its request takes the same path as a tap.              *)
(***************************************************************************)
EXTENDS Integers, Sequences, FiniteSets

CONSTANTS Requests,   \* ids of the input requests, one asker each
          FreeText,   \* the requests that take free text besides options
          Hurried,    \* the requests whose askers have a deadline in reach
          MaxSays,    \* bound on the owner's messages per request
          MaxRestarts, \* bound on the restarts of the listener
          MaxLost     \* bound on the pushes and polls that fail

ASSUME BridgeAssumption ==
    /\ FreeText \subseteq Requests /\ Hurried \subseteq Requests
    /\ MaxSays \in Nat /\ MaxRestarts \in Nat /\ MaxLost \in Nat

VARIABLES request,   \* request[r]: the request file
          response,  \* response[r]: the response file: Absent, Unwritten or an answer
          apc,       \* apc[r]: control of r's asker
          heard,     \* heard[r]: what r's asker printed: Absent, Default, an answer
          lpc,       \* control of the listener
          todo,      \* the requests it still has to push this cycle
          cur,       \* the request it is working on
          offset,    \* the next update id it will ask for; 0 after a start
          at, upto,  \* the updates at..upto of its batch are not handled yet
          taps,      \* the owner's taps, by the request they name, in the
                     \* order Telegram got them
          confirmed, \* Telegram has forgotten the messages 1..confirmed
          shown,     \* shown[r]: times r appeared on the phone
          acked,     \* <<r, i>>: the owner was told message i answered r
          restarts, lost

files    == <<request, response>>
askers   == <<apc, heard>>
listener == <<lpc, todo, cur, offset, at, upto>>
phone    == <<taps, confirmed, shown, acked>>
bridgeVars == <<files, askers, listener, phone, restarts, lost>>

Absent  == -1
Unwritten == 0  \* a file that is open for writing and still empty
Default == 0    \* the asker's --default, or nothing

\* list_pending: the readable requests without a response file.
Pending == {r \in Requests : /\ request[r] \in {"open", "pushed"}
                             /\ response[r] = Absent}

-----------------------------------------------------------------------------
(* `horus ask`: write_request, await_response, cleanup.                    *)

AskerAt(r, from, to) == apc[r] = from /\ apc' = [apc EXCEPT ![r] = to]

\* (A request file that is not yet written in full reads as no request.)
Ask(r) ==
    /\ AskerAt(r, "new", "waiting")
    /\ request' = [request EXCEPT ![r] = "open"]
    /\ UNCHANGED <<response, heard, listener, phone, restarts, lost>>

\* Mutant: an empty response file is an (empty) answer.
Hear_Blank(r) ==
    /\ response[r] # Absent
    /\ AskerAt(r, "waiting", "over")
    /\ heard' = [heard EXCEPT ![r] = response[r]]
    /\ UNCHANGED <<files, listener, phone, restarts, lost>>

\* read_response: an unreadable response is no response.
Hear(r) ==
    /\ response[r] > Unwritten
    /\ AskerAt(r, "waiting", "over")
    /\ heard' = [heard EXCEPT ![r] = response[r]]
    /\ UNCHANGED <<files, listener, phone, restarts, lost>>

Miss(r) ==
    /\ response[r] <= Unwritten /\ AskerAt(r, "waiting", "missed")
    /\ UNCHANGED <<files, heard, listener, phone, restarts, lost>>

PollAgain(r) ==
    /\ AskerAt(r, "missed", "waiting")
    /\ UNCHANGED <<files, heard, listener, phone, restarts, lost>>

\* The deadline has passed: the asker takes the default.
TimeOut(r) ==
    /\ r \in Hurried /\ AskerAt(r, "missed", "over")
    /\ heard' = [heard EXCEPT ![r] = Default]
    /\ UNCHANGED <<files, listener, phone, restarts, lost>>

DropRequest(r) ==
    /\ AskerAt(r, "over", "dropped")
    /\ request' = [request EXCEPT ![r] = "none"]
    /\ UNCHANGED <<response, heard, listener, phone, restarts, lost>>

DropResponse(r) ==
    /\ AskerAt(r, "dropped", "done")
    /\ response' = [response EXCEPT ![r] = Absent]
    /\ UNCHANGED <<request, heard, listener, phone, restarts, lost>>

Asker(r) == \/ Ask(r) \/ Hear(r) \/ Miss(r) \/ PollAgain(r) \/ TimeOut(r)
            \/ DropRequest(r) \/ DropResponse(r)

-----------------------------------------------------------------------------
(* The listener's loop: emit_pending_requests, then getUpdates, then       *)
(* handle_update for every update.                                         *)

ListenerAt(from, to) == lpc = from /\ lpc' = to

Emit ==
    /\ ListenerAt("cycle", "pushing")
    /\ todo' = {r \in Pending : request[r] = "open"}
    /\ UNCHANGED <<files, askers, cur, offset, at, upto, phone, restarts, lost>>

\* A push that raises may have reached the phone; it is not marked either way.
Push(r) ==
    /\ r \in todo /\ todo' = todo \ {r}
    /\ \/ /\ ListenerAt("pushing", "load") /\ cur' = r
          /\ shown' = [shown EXCEPT ![r] = @ + 1]
          /\ UNCHANGED lost
       \/ /\ ListenerAt("pushing", "pushing") /\ lost < MaxLost
          /\ lost' = lost + 1
          /\ \E n \in {0, 1} : shown' = [shown EXCEPT ![r] = @ + n]
          /\ UNCHANGED cur
    /\ UNCHANGED <<files, askers, offset, at, upto, taps, confirmed, acked,
                   restarts>>

\* mark_pushed loads the request ...
MarkLoad ==
    /\ ListenerAt("load", IF request[cur] = "open" THEN "mark" ELSE "pushing")
    /\ UNCHANGED <<files, askers, todo, cur, offset, at, upto, phone, restarts,
                   lost>>

\* ... and writes it back: the file is emptied (or created) ...
MarkOpen ==
    /\ ListenerAt("mark", "marking")
    /\ request' = [request EXCEPT ![cur] = "empty"]
    /\ UNCHANGED <<response, askers, todo, cur, offset, at, upto, phone,
                   restarts, lost>>

\* Mutant: the flag is lost in the file that is written back.
MarkFill_Unpushed ==
    /\ ListenerAt("marking", "pushing")
    /\ request' = [request EXCEPT ![cur] = IF @ = "empty" THEN "open" ELSE @]
    /\ UNCHANGED <<response, askers, todo, cur, offset, at, upto, phone,
                   restarts, lost>>

\* ... then written.  A file unlinked meanwhile stays unlinked.
MarkFill ==
    /\ ListenerAt("marking", "pushing")
    /\ request' = [request EXCEPT ![cur] = IF @ = "empty" THEN "pushed" ELSE @]
    /\ UNCHANGED <<response, askers, todo, cur, offset, at, upto, phone,
                   restarts, lost>>

\* Mutant: the batch is confirmed when it is fetched.
GetUpdates_ConfirmNow ==
    /\ todo = {} /\ ListenerAt("pushing", "handling")
    /\ confirmed' = Len(taps)
    /\ at' = confirmed + 1 /\ upto' = Len(taps)
    /\ UNCHANGED <<files, askers, todo, cur, offset, taps, shown, acked,
                   restarts, lost>>

\* Asking from offset confirms everything before it.
GetUpdates ==
    /\ todo = {} /\ ListenerAt("pushing", "handling")
    /\ confirmed' = IF offset = 0 THEN confirmed ELSE offset - 1
    /\ at' = confirmed' + 1 /\ upto' = Len(taps)
    /\ UNCHANGED <<files, askers, todo, cur, offset, taps, shown, acked,
                   restarts, lost>>

PollFails ==
    /\ todo = {} /\ ListenerAt("pushing", "cycle")
    /\ lost < MaxLost /\ lost' = lost + 1
    /\ UNCHANGED <<files, askers, todo, cur, offset, at, upto, phone, restarts>>

BatchDone ==
    /\ at > upto /\ ListenerAt("handling", "cycle")
    /\ UNCHANGED <<files, askers, todo, cur, offset, at, upto, phone, restarts,
                   lost>>

\* Mutant: a tap whose request is no longer open is taken for any open one.
Binds_AnyOpen(m, r) == r \in Pending /\ (m \in Pending => r = m)

\* _parse_answer and record_answer: a message that names an open request is for
\* that request.  Any other is, as a whole, a free-text reply to the single open
\* one (and the data of a button, "<id> #0", is such a text).
Binds(m, r) ==
    IF m \in Pending THEN r = m ELSE Pending = {r} /\ r \in FreeText

Handle ==
    /\ at <= upto
    /\ offset' = at + 1
    /\ \/ \E r \in Requests : /\ Binds(taps[at], r) /\ cur' = r
                              /\ ListenerAt("handling", "check")
                              /\ UNCHANGED at
       \/ /\ \A r \in Requests : ~ Binds(taps[at], r)
          /\ ListenerAt("handling", "handling")
          /\ at' = at + 1 /\ UNCHANGED cur
    /\ UNCHANGED <<files, askers, todo, upto, phone, restarts, lost>>

\* write_response: is the request still there and without a response?
Check ==
    /\ LET ok == request[cur] # "none" /\ response[cur] = Absent
       IN  /\ ListenerAt("check", IF ok THEN "respond" ELSE "handling")
           /\ at' = IF ok THEN at ELSE at + 1
    /\ UNCHANGED <<files, askers, todo, cur, offset, upto, phone, restarts, lost>>

RespondOpen ==
    /\ ListenerAt("respond", "responding")
    /\ response' = [response EXCEPT ![cur] = Unwritten]
    /\ UNCHANGED <<request, askers, todo, cur, offset, at, upto, phone, restarts,
                   lost>>

\* The owner is told "answered <request>".
RespondFill ==
    /\ ListenerAt("responding", "handling")
    /\ response' = [response EXCEPT ![cur] = IF @ = Unwritten THEN at ELSE @]
    /\ acked' = acked \cup {<<cur, at>>}
    /\ at' = at + 1
    /\ UNCHANGED <<request, askers, todo, cur, offset, upto, taps, confirmed,
                   shown, restarts, lost>>

Listen == \/ Emit \/ (\E r \in Requests : Push(r)) \/ MarkLoad \/ MarkOpen
          \/ MarkFill \/ GetUpdates \/ PollFails \/ BatchDone \/ Handle
          \/ Check \/ RespondOpen \/ RespondFill

\* The service is restarted, or killed and started again by systemd, wherever
\* it is.  What it knew was in its memory.
ListenerRestarts ==
    /\ restarts < MaxRestarts /\ restarts' = restarts + 1
    /\ lpc' = "cycle" /\ todo' = {} /\ offset' = 0 /\ at' = 1 /\ upto' = 0
    /\ UNCHANGED <<files, askers, cur, phone, lost>>

-----------------------------------------------------------------------------
(* The owner.                                                              *)

\* He taps a button of request r, as often as he likes.
Tap(r) ==
    /\ shown[r] > 0 /\ Cardinality({i \in 1..Len(taps) : taps[i] = r}) < MaxSays
    /\ taps' = Append(taps, r)
    /\ UNCHANGED <<files, askers, listener, confirmed, shown, acked, restarts,
                   lost>>

BridgeInit ==
    /\ request  = [r \in Requests |-> "none"]
    /\ response = [r \in Requests |-> Absent]
    /\ apc  = [r \in Requests |-> "new"]
    /\ heard = [r \in Requests |-> Absent]
    /\ lpc = "cycle" /\ todo = {} /\ cur = (CHOOSE r \in Requests : TRUE)
    /\ offset = 0 /\ at = 1 /\ upto = 0
    /\ taps = <<>> /\ confirmed = 0 /\ acked = {}
    /\ shown = [r \in Requests |-> 0]
    /\ restarts = 0 /\ lost = 0

BridgeNext == \/ \E r \in Requests : Asker(r) \/ Tap(r)
              \/ Listen \/ ListenerRestarts

BridgeSpec == BridgeInit /\ [][BridgeNext]_bridgeVars

-----------------------------------------------------------------------------
BridgeTypeOK ==
    /\ request \in [Requests -> {"none", "empty", "open", "pushed"}]
    /\ response \in [Requests -> Int] /\ heard \in [Requests -> Int]
    /\ apc \in [Requests -> {"new", "waiting", "missed", "over", "dropped",
                             "done"}]
    /\ lpc \in {"cycle", "pushing", "load", "mark", "marking", "handling",
               "check", "respond", "responding"}
    /\ todo \subseteq Requests
    /\ lpc \notin {"cycle", "pushing", "handling"} => cur \in Requests
    /\ offset \in 0..(Len(taps) + 1) /\ at \in 1..(Len(taps) + 1)
    /\ upto \in 0..Len(taps) /\ confirmed \in 0..Len(taps)
    /\ taps \in Seq(Requests)
    /\ shown \in [Requests -> Nat]
    /\ acked \subseteq Requests \X (1..Len(taps))

\* "A tap or reply writes the response the session is waiting on": an asker
\* never hears an answer the owner gave to another request.
HeardWasMeant ==
    \A r \in Requests : heard[r] > Default => taps[heard[r]] = r

\* An answer the owner was told of is the one its session acts on ...
AckedAreHeard(S) ==
    \A r \in S, i \in 1..Len(taps) :
        <<r, i>> \in acked => heard[r] \in {Absent, i}
AckedIsHeard == AckedAreHeard(Requests \ Hurried)

\* ... and not "timed out with no answer", whatever the asker's deadline.
EveryAckIsHeard == AckedAreHeard(Requests)

\* A request is shown once, "so it isn't re-sent", plus at most once for every
\* failure of the network and every restart of the listener.
ShownOnce == \A r \in Requests : shown[r] <= 1 + restarts + lost

\* An asker that is done leaves nothing behind to be answered: "a request and
\* its response" are removed.
NoGhost == \A r \in Requests \ Hurried : apc[r] = "done" => r \notin Pending

\* Both: what is pushed is a question somebody still asks, and no more often
\* than the faults explain.
PushedInEarnest == ShownOnce /\ NoGhost

\* A tap is never lost: Telegram forgets only messages that were handled, so
\* every request is answered although the listener restarts, unless a kill in
\* the middle of a write left one of its files unreadable.
Spoilt(r) == \/ request[r] = "empty" /\ lpc # "marking"
             \/ response[r] = Unwritten /\ lpc # "responding"
AskIsAnswered ==
    \A r \in Requests \ Hurried :
        apc[r] = "waiting" ~> apc[r] = "done" \/ Spoilt(r)
=============================================================================
