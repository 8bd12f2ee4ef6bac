------------------------------ MODULE BacklogCards ------------------------------
(***************************************************************************)
(* The cards of a project's backlog (horus/backlog.py): one file each,     *)
(* claimed, reviewed and shipped to the archive under a file lock, and     *)
(* reprioritised (the terminal UI) or stamped done (`datum close --card`)  *)
(* without it.  Every write empties the file before it fills it.           *)
(***************************************************************************)
EXTENDS Integers, FiniteSets

CONSTANTS Ids,       \* the cards
          Agents,    \* the processes that run backlog commands
          Clash,     \* the sets {c, d} claim_check warns about: exclusive, no
                     \* declared surface, or overlapping surfaces
          MaxCalls,  \* bound: commands in a behaviour
          Cuts       \* bound: commands killed half-way

ASSUME BacklogAssumption ==
    /\ Clash \subseteq SUBSET Ids /\ "free" \notin Agents
    /\ MaxCalls \in Nat /\ Cuts \in Nat

VARIABLES calls,     \* the commands started so far
          root,      \* root[c]: the card's file in backlog/, or Absent
          archive,   \* archive[c]: the one in backlog/archive/
          lock,      \* who holds .claim.lock: an agent, or "free"
          call,      \* call[p]: the command p runs
          forced,    \* the cards claimed over a warning
          acked,     \* acked[c]: the reviews reported as appended
          met,       \* the cards an unlocked edit shared with another command
          cut        \* the cards a kill left half-written

backlogVars == <<calls, root, archive, lock, call, forced, acked, met, cut>>

Absent == [fence |-> FALSE, status |-> "absent", reviews |-> {}]
Torn == [fence |-> FALSE, status |-> "open", reviews |-> {}]
Locked == {"claim", "review", "ship"}
Ops == Locked \cup {"priority", "stamp"}
NoCard == "no card"
NoCall == [op |-> "none", card |-> NoCard, force |-> FALSE, pc |-> "idle",
           text |-> Absent, at |-> "root", id |-> 0]

BacklogInit ==
    /\ calls = 0 /\ root = [c \in Ids |-> [fence |-> TRUE, status |-> "open", reviews |-> {}]]
    /\ archive = [c \in Ids |-> Absent]
    /\ lock = "free" /\ call = [p \in Agents |-> NoCall]
    /\ forced = {} /\ acked = [c \in Ids |-> {}] /\ met = {} /\ cut = {}

-----------------------------------------------------------------------------
Busy(p) == call[p].pc # "idle"
MovesTo(p, where) == call' = [call EXCEPT ![p].pc = where]
Ends(p) == call' = [call EXCEPT ![p] = NoCall]
Releases(p) == lock' = IF lock = p THEN "free" ELSE lock
Present(c) == root[c].status # "absent"

\* A command starts: it waits for the lock, or edits the file it was shown.
Calls(p, op, c, force) ==
    /\ ~Busy(p) /\ calls < MaxCalls /\ calls' = calls + 1
    /\ force => op = "claim"
    /\ op \notin Locked => Present(c)
    /\ call' = [call EXCEPT ![p] =
          [NoCall EXCEPT !.op = op, !.card = c, !.force = force, !.id = calls,
                         !.pc = IF op \in Locked THEN "wait" ELSE "read"]]
    /\ UNCHANGED <<root, archive, lock, forced, acked, cut>>

-----------------------------------------------------------------------------
(* The critical section.                                                   *)

\* claim_check: the other cards in progress that the card clashes with.  A
\* file caught empty has no status and reads as open.
Warned(c) == \E d \in Ids \ {c} : root[d].status = "claimed" /\ {c, d} \in Clash

\* Mutant: the check is made before the lock is taken.
Enter_CheckFirst(p) ==
    LET k == call[p] IN
    /\ k.pc = "wait"
    /\ IF ~Present(k.card) \/ (k.op = "claim" /\ Warned(k.card) /\ ~k.force)
            \/ (k.op = "ship" /\ archive[k.card].status # "absent")
         THEN Ends(p) /\ UNCHANGED <<lock, forced>>
         ELSE /\ MovesTo(p, "read") /\ UNCHANGED lock
              /\ forced' = IF k.op = "claim" /\ Warned(k.card)
                             THEN forced \cup {k.card} ELSE forced
    /\ UNCHANGED <<calls, root, archive, acked, cut>>

\* The lock, and what the command checks under it.
Enter(p) ==
    LET k == call[p] IN
    /\ k.pc = "wait" /\ lock = "free"
    /\ IF ~Present(k.card) \/ (k.op = "claim" /\ Warned(k.card) /\ ~k.force)
            \/ (k.op = "ship" /\ archive[k.card].status # "absent")
         THEN Ends(p) /\ UNCHANGED <<lock, forced>>
         ELSE /\ MovesTo(p, "read") /\ lock' = p
              /\ forced' = IF k.op = "claim" /\ Warned(k.card)
                             THEN forced \cup {k.card} ELSE forced
    /\ UNCHANGED <<calls, root, archive, acked, cut>>

\* What the command makes of the text it read.
Reviewed(k, text) == [text EXCEPT !.reviews = @ \cup {k.id}]
Stamped(text) == [text EXCEPT !.status = "done"]
Edited(k, text) ==
    CASE k.op = "claim" -> [text EXCEPT !.status = "claimed"]
      [] k.op = "ship" -> [text EXCEPT !.status = "shipped"]
      [] k.op = "stamp" -> Stamped(text)
      [] k.op = "review" -> Reviewed(k, text)
      [] k.op = "priority" -> text

\* The file is gone, or it is front matter the command needs and there is
\* none: the command raises, and the lock is released.
Read(p) ==
    LET k == call[p] IN
    /\ k.pc = "read"
    /\ IF Present(k.card) /\ (root[k.card].fence \/ k.op = "review")
         THEN /\ call' = [call EXCEPT ![p].pc = "open",
                                      ![p].text = Edited(k, root[k.card])]
              /\ UNCHANGED lock
         ELSE Ends(p) /\ Releases(p)
    /\ UNCHANGED <<calls, root, archive, forced, acked, cut>>

\* open("w") empties the file, or creates it where it was before.
Truncate(p) ==
    /\ call[p].pc = "open" /\ root' = [root EXCEPT ![call[p].card] = Torn]
    /\ MovesTo(p, "write") /\ UNCHANGED <<calls, archive, lock, forced, acked, cut>>

\* An open file is written where a rename has taken it.
Write(p) ==
    LET k == call[p] IN
    /\ k.pc = "write"
    /\ IF k.at = "root" THEN root' = [root EXCEPT ![k.card] = k.text] /\ UNCHANGED archive
                        ELSE archive' = [archive EXCEPT ![k.card] = k.text] /\ UNCHANGED root
    /\ IF k.op = "ship" THEN MovesTo(p, "rename") /\ UNCHANGED lock
                        ELSE Ends(p) /\ Releases(p)
    /\ acked' = IF k.op = "review" THEN [acked EXCEPT ![k.card] = @ \cup {k.id}] ELSE acked
    /\ UNCHANGED <<calls, forced, cut>>

\* Mutant: ship copies the card to the archive and leaves it in the root.
Rename_Copies(p) ==
    LET c == call[p].card IN
    /\ call[p].pc = "rename"
    /\ archive' = [archive EXCEPT ![c] = root[c]] /\ UNCHANGED root
    /\ Ends(p) /\ Releases(p) /\ UNCHANGED <<calls, forced, acked, cut>>

\* ship moves the card; a writer that has it open goes with it.
Rename(p) ==
    LET c == call[p].card IN
    /\ call[p].pc = "rename"
    /\ IF Present(c)
         THEN /\ archive' = [archive EXCEPT ![c] = root[c]]
              /\ root' = [root EXCEPT ![c] = Absent]
              /\ call' = [q \in Agents |->
                    IF q = p THEN NoCall
                    ELSE IF call[q].pc = "write" /\ call[q].card = c
                      THEN [call[q] EXCEPT !.at = "archive"] ELSE call[q]]
         ELSE Ends(p) /\ UNCHANGED <<root, archive>>
    /\ Releases(p) /\ UNCHANGED <<calls, forced, acked, cut>>

\* A kill: the kernel drops the lock, and an emptied file stays empty.
CommandKilled(p) ==
    LET k == call[p] IN
    /\ Busy(p) /\ Cardinality(cut) < Cuts
    /\ cut' = IF k.pc \in {"write", "rename"} THEN cut \cup {k.card} ELSE cut
    /\ Ends(p) /\ Releases(p) /\ UNCHANGED <<calls, root, archive, forced, acked>>

-----------------------------------------------------------------------------
\* Where unlocked edits ran beside another command: what no lock orders.
Unlocked(p) == call[p].op \in Ops \ Locked
Meets ==
    met' = met \cup {c \in Ids : \E p, q \in Agents :
               /\ p # q /\ Unlocked(p)' /\ call'[p].card = c
               /\ call'[p].pc \in {"open", "write"}
               /\ call'[q].pc \in {"read", "open", "write", "rename"}}

Step(p) == Enter(p) \/ Read(p) \/ Truncate(p) \/ Write(p) \/ Rename(p)
BacklogNext ==
    \E p \in Agents :
       /\ \/ Step(p) \/ CommandKilled(p)
          \/ \E op \in Ops, c \in Ids, force \in BOOLEAN : Calls(p, op, c, force)
       /\ Meets

BacklogSpec == BacklogInit /\ [][BacklogNext]_backlogVars

-----------------------------------------------------------------------------
(* Properties.                                                             *)

Texts == [fence : BOOLEAN, status : {"absent", "open", "claimed", "done", "shipped"},
          reviews : SUBSET (0..MaxCalls)]
Commands == [op : Ops \cup {"none"}, card : Ids \cup {NoCard}, force : BOOLEAN,
             pc : {"idle", "wait", "read", "open", "write", "rename"},
             text : Texts, at : {"root", "archive"}, id : 0..MaxCalls]
BacklogTypeOK ==
    /\ calls \in 0..MaxCalls /\ acked \in [Ids -> SUBSET (0..MaxCalls)]
    /\ root \in [Ids -> Texts] /\ archive \in [Ids -> Texts]
    /\ call \in [Agents -> Commands] /\ lock \in Agents \cup {"free"}
    /\ forced \subseteq Ids /\ met \subseteq Ids /\ cut \subseteq Ids

Disturbed == met \cup cut

\* Two cards that clash are both in progress only if a claim was forced,
\* however many claim at once: unless an edit that takes no lock, or a kill,
\* came between.
ClaimsKeepApart ==
    \A c, d \in Ids :
        (c # d /\ {c, d} \in Clash /\ root[c].status = "claimed" /\ root[d].status = "claimed")
            => {c, d} \cap (forced \cup Disturbed) # {}

\* What a card says: what is being written to it, or what is on disk.
Kept(c) == root[c].reviews \cup archive[c].reviews
             \cup UNION {call[p].text.reviews : p \in {q \in Agents :
                            call[q].pc = "write" /\ call[q].card = c}}

\* A card has one home, the backlog or its archive, and keeps every review
\* that was reported as appended: under the same condition.
NothingLost ==
    \A c \in Ids \ Disturbed :
        /\ Present(c) # (archive[c].status # "absent")
        /\ acked[c] \subseteq Kept(c)
=============================================================================
