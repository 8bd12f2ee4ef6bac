---------------------------- MODULE Stores_proofs ----------------------------
(***************************************************************************)
(* What holds of the stores for any number of cards, agents, runs, paths,  *)
(* branches, hooks and ticks: the backlog, the measurements, the worktrees *)
(* and the usage window, in this order.  For each the strengthening that   *)
(* is inductive comes first, then its steps, then the theorems.            *)
(***************************************************************************)
EXTENDS BacklogCards, Calibration, Worktrees, UsageWindow, TLAPS

(* The backlog (horus/backlog.py).                                         *)

\* A command is at work between its checks and its end, and is about to write.
Works(p) == call[p].pc \in {"read", "open", "write", "rename"}
Writes(p) == call[p].pc \in {"open", "write"}

\* A command on a card that needs the lock has it while it works, and opens the
\* card where the backlog has it.
CommandsInOrder ==
    \A p \in Agents :
        /\ Busy(p) => call[p].op \in Ops /\ call[p].card \in Ids
        /\ call[p].op \in Locked /\ Works(p) => lock = p
        /\ call[p].pc \in {"wait", "rename"} => call[p].op \in Locked
        /\ call[p].pc \in {"wait", "read", "open"} => call[p].at = "root"

\* An unlocked edit under way beside another command is on record.
MeetingsAreNoted ==
    \A p, q \in Agents :
        p # q /\ Unlocked(p) /\ Writes(p) /\ Works(q) => call[p].card \in met

\* A command about to leave a card in progress.
Claiming(p) ==
    \/ call[p].op = "claim" /\ call[p].pc = "read"
    \/ Writes(p) /\ call[p].text.status = "claimed"

\* ... was warned of what is in progress.
KnowsClashes(p) ==
    Claiming(p) =>
        \A d \in Ids \ {call[p].card} :
            {call[p].card, d} \in Clash /\ root[d].status = "claimed"
                => {call[p].card, d} \cap (forced \cup Disturbed) # {}
ClaimsAreWarned == \A p \in Agents : KnowsClashes(p)

\* What a command is about to write is a card, in the place the card is, and
\* holds what the card does.
HoldsCard(p) ==
    Writes(p) =>
        /\ call[p].text.status # "absent"
        /\ call[p].op = "review" => call[p].id \in call[p].text.reviews
        /\ call[p].card \notin Disturbed =>
              /\ Present(call[p].card) /\ call[p].at = "root"
              /\ root[call[p].card].reviews \subseteq call[p].text.reviews
TextsAreCards == \A p \in Agents : HoldsCard(p)

\* Nothing is written in an archive that has no card.
ArchiveIsClean == \A c \in Ids : archive[c].status = "absent" => archive[c].reviews = {}

BacklogInv ==
    /\ BacklogTypeOK /\ CommandsInOrder /\ MeetingsAreNoted
    /\ ClaimsAreWarned /\ ClaimsKeepApart
    /\ TextsAreCards /\ ArchiveIsClean /\ NothingLost

\* Of two commands at work one takes no lock.
LEMMA OneIsUnlocked ==
    ASSUME BacklogInv, NEW p \in Agents, NEW q \in Agents, p # q, Works(p), Works(q)
    PROVE  Unlocked(p) \/ Unlocked(q)
  BY DEF BacklogInv, CommandsInOrder, Works, Busy, Unlocked

\* ... and if both write, or one writes without the lock, that is on record.
LEMMA WritersMeet ==
    ASSUME BacklogInv, NEW p \in Agents, NEW q \in Agents, p # q, Writes(p), Works(q),
           Unlocked(p) \/ Writes(q)
    PROVE  call[p].card \in met \/ call[q].card \in met
<1>1. Works(p)
  BY DEF Works, Writes
<1> QED
  BY <1>1, OneIsUnlocked DEF BacklogInv, MeetingsAreNoted

\* Every step notes its meetings.
LEMMA MeetingsNoted ==
    ASSUME Meets, BacklogTypeOK', CommandsInOrder'
    PROVE  MeetingsAreNoted'
<1> SUFFICES ASSUME NEW p \in Agents, NEW q \in Agents,
                    p # q, Unlocked(p)', Writes(p)', Works(q)'
             PROVE  call'[p].card \in met'
  BY DEF MeetingsAreNoted
<1>1. call'[p].card \in Ids
  BY DEF CommandsInOrder, Busy, Writes
<1> QED
  BY <1>1 DEF Meets, Writes, Works

\* Nothing that was disturbed or forced is forgotten.
Grows == met \subseteq met' /\ cut \subseteq cut' /\ forced \subseteq forced'

\* A step that leaves the files alone, and stops a write only by a kill.
LEMMA FilesStand ==
    ASSUME BacklogInv, Grows, UNCHANGED <<root, archive, acked>>,
           \A q \in Agents : call[q].pc = "write" =>
               call'[q] = call[q] \/ call[q].card \in cut'
    PROVE  ClaimsKeepApart' /\ ArchiveIsClean' /\ NothingLost'
<1>1. Disturbed \subseteq Disturbed'
  BY DEF Grows, Disturbed
<1>2. ClaimsKeepApart'
  BY <1>1 DEF Grows, BacklogInv, ClaimsKeepApart
<1>3. ArchiveIsClean'
  BY DEF BacklogInv, ArchiveIsClean
<1>4. ASSUME NEW c \in Ids \ Disturbed'
      PROVE  (Present(c) # (archive[c].status # "absent"))' /\ acked'[c] \subseteq Kept(c)'
  <2>1. c \in Ids \ Disturbed
    BY <1>1, <1>4
  <2>2. (Present(c) # (archive[c].status # "absent"))'
    BY <2>1 DEF BacklogInv, NothingLost, Present
  <2>3. \A q \in Agents : call[q].pc = "write" /\ call[q].card = c => call'[q] = call[q]
    BY <1>4 DEF Disturbed
  <2>4. Kept(c) \subseteq Kept(c)'
    BY <2>3 DEF Kept
  <2> QED
    BY <2>1, <2>2, <2>4 DEF BacklogInv, NothingLost
<1> QED
  BY <1>2, <1>3, <1>4 DEF NothingLost

\* The other commands, when the backlog stands.
LEMMA OthersStand ==
    ASSUME BacklogInv, Grows, root' = root, NEW q \in Agents, call'[q] = call[q]
    PROVE  KnowsClashes(q)' /\ HoldsCard(q)'
<1>1. Disturbed \subseteq Disturbed'
  BY DEF Grows, Disturbed
<1>2. (Claiming(q)' <=> Claiming(q)) /\ (Writes(q)' <=> Writes(q))
  BY DEF Claiming, Writes
<1>3. KnowsClashes(q)'
  BY <1>1, <1>2 DEF Grows, BacklogInv, ClaimsAreWarned, KnowsClashes
<1>4. HoldsCard(q)'
  BY <1>1, <1>2 DEF BacklogInv, TextsAreCards, HoldsCard, Present
<1> QED
  BY <1>3, <1>4

\* A command that ends or goes on is a command.
LEMMA CommandsStay ==
    ASSUME BacklogInv, NEW p \in Agents
    PROVE  /\ NoCall \in Commands
           /\ \A pc \in {"read", "open", "write", "rename"} : [call[p] EXCEPT !.pc = pc] \in Commands
           /\ \A text \in Texts :
                 [call[p] EXCEPT !.pc = "open", !.text = text] \in Commands
<1>1. call[p] \in Commands
  BY DEF BacklogInv, BacklogTypeOK
<1>2. NoCall \in Commands
  BY BacklogAssumption DEF Commands, Texts, NoCall, Absent, NoCard, Ops, Locked
<1> QED
  BY <1>1, <1>2 DEF Commands

\* What a command makes of a card is a card, keeps its reviews, and is in
\* progress only if it was or is claimed.
LEMMA EditsAreTexts ==
    ASSUME BacklogInv, NEW p \in Agents, call[p].pc = "read"
    PROVE  LET k == call[p]
               text == root[call[p].card]
           IN  /\ k.card \in Ids /\ Edited(k, text) \in Texts
               /\ text.status # "absent" => Edited(k, text).status # "absent"
               /\ text.reviews \subseteq Edited(k, text).reviews
               /\ k.op = "review" => k.id \in Edited(k, text).reviews
               /\ Edited(k, text).status = "claimed" => k.op = "claim" \/ text.status = "claimed"
<1> DEFINE k == call[p]
           text == root[call[p].card]
<1>1. k \in Commands /\ k.op \in Ops /\ k.card \in Ids /\ text \in Texts
  BY DEF BacklogInv, BacklogTypeOK, CommandsInOrder, Busy
<1>2. /\ k.id \in 0..MaxCalls /\ text.reviews \in SUBSET (0..MaxCalls)
      /\ text = [fence |-> text.fence, status |-> text.status, reviews |-> text.reviews]
      /\ text.fence \in BOOLEAN
      /\ text.status \in {"absent", "open", "claimed", "done", "shipped"}
  BY <1>1 DEF Commands, Texts
<1> SUFFICES /\ Edited(k, text) \in Texts
             /\ text.status # "absent" => Edited(k, text).status # "absent"
             /\ text.reviews \subseteq Edited(k, text).reviews
             /\ k.op = "review" => k.id \in Edited(k, text).reviews
             /\ Edited(k, text).status = "claimed" => k.op = "claim" \/ text.status = "claimed"
  BY <1>1
<1> HIDE DEF k, text
<1>3. CASE k.op = "claim"
  BY <1>1, <1>2, <1>3 DEF Edited, Texts
<1>4. CASE k.op = "ship"
  BY <1>1, <1>2, <1>4 DEF Edited, Texts
<1>5. CASE k.op = "stamp"
  BY <1>1, <1>2, <1>5 DEF Edited, Stamped, Texts
<1>6. CASE k.op = "review"
  <2>1. Edited(k, text) = [text EXCEPT !.reviews = @ \cup {k.id}]
    BY <1>6 DEF Edited, Reviewed
  <2> QED
    BY <1>1, <1>2, <1>6, <2>1 DEF Texts
<1>7. CASE k.op = "priority"
  BY <1>1, <1>2, <1>7 DEF Edited, Texts
<1>8. k.op \in {"claim", "review", "ship", "priority", "stamp"}
  BY <1>1 DEF Ops, Locked
<1> QED
  BY <1>3, <1>4, <1>5, <1>6, <1>7, <1>8

\* The commands, step by step: each keeps the invariant, and notes its meetings.
LEMMA BacklogCalls ==
    ASSUME BacklogInv, NEW p \in Agents, NEW op \in Ops, NEW c \in Ids,
           NEW force \in BOOLEAN, Calls(p, op, c, force), Meets
    PROVE  BacklogInv'
<1>1. PICK r \in Commands :
        /\ call' = [call EXCEPT ![p] = r]
        /\ r.op = op /\ r.card = c /\ r.at = "root"
        /\ r.pc = (IF op \in Locked THEN "wait" ELSE "read")
  <2> DEFINE r == [NoCall EXCEPT !.op = op, !.card = c, !.force = force, !.id = calls,
                                 !.pc = IF op \in Locked THEN "wait" ELSE "read"]
  <2>1. r \in Commands
    BY BacklogAssumption DEF BacklogInv, BacklogTypeOK, Commands, Texts, NoCall, Absent,
        NoCard, Ops, Locked
  <2> QED
    BY <2>1 DEF Calls, NoCall
<1>2. call'[p] = r /\ \A q \in Agents \ {p} : call'[q] = call[q]
  <2>1. call \in [Agents -> Commands]
    BY DEF BacklogInv, BacklogTypeOK
  <2>2. p \in Agents /\ call' = [call EXCEPT ![p] = r]
    BY <1>1
  <2> QED
    BY ONLY <2>1, <2>2
<1>3. BacklogTypeOK'
  <2>1. call' \in [Agents -> Commands]
    <3>1. call \in [Agents -> Commands]
      BY DEF BacklogInv, BacklogTypeOK
    <3>2. p \in Agents /\ r \in Commands /\ call' = [call EXCEPT ![p] = r]
      BY <1>1
    <3> QED
      BY ONLY <3>1, <3>2
  <2>2. met' \subseteq Ids
    BY DEF BacklogInv, BacklogTypeOK, Meets
  <2>3. calls' \in 0..MaxCalls
    BY BacklogAssumption DEF BacklogInv, BacklogTypeOK, Calls
  <2>4. lock' \in Agents \cup {"free"} /\ forced' \subseteq Ids /\ cut' \subseteq Ids
    BY BacklogAssumption DEF BacklogInv, BacklogTypeOK, CommandsInOrder, Busy, Calls, Releases
  <2>5. UNCHANGED <<root, archive, acked>>
    BY DEF Calls
  <2> QED
    BY <2>1, <2>2, <2>3, <2>4, <2>5 DEF BacklogInv, BacklogTypeOK
<1>4. Grows /\ UNCHANGED <<root, archive, acked>>
  BY DEF Calls, Grows, Meets
<1>5. CommandsInOrder'
  <2>1. ASSUME NEW q \in Agents \ {p}, Works(q), call[q].op \in Locked PROVE lock' = q
    BY <2>1, BacklogAssumption DEF BacklogInv, CommandsInOrder, Calls
  <2>2. /\ r.pc # "idle" => r.op \in Ops /\ r.card \in Ids
        /\ r.op \in Locked /\ r.pc \in {"read", "open", "write", "rename"} => lock' = p
        /\ r.pc \in {"wait", "rename"} => r.op \in Locked
        /\ r.pc \in {"wait", "read", "open"} => r.at = "root"
    BY <1>1
  <2>3. \A q \in Agents \ {p} : (Busy(q)' <=> Busy(q)) /\ (Works(q)' <=> Works(q))
    BY <1>2 DEF Busy, Works
  <2> QED
    BY <1>2, <2>1, <2>2, <2>3 DEF BacklogInv, CommandsInOrder, Works, Busy
<1>6. MeetingsAreNoted'
  BY <1>3, <1>5, MeetingsNoted
<1>7. ClaimsKeepApart' /\ ArchiveIsClean' /\ NothingLost'
  <2>1. \A q \in Agents : call[q].pc = "write" => call'[q] = call[q] \/ call[q].card \in cut'
    BY <1>2 DEF Calls, Busy
  <2> QED
    BY <1>4, <2>1, FilesStand
<1>8. ClaimsAreWarned'
  <2>1. KnowsClashes(p)'
    BY <1>1, <1>2 DEF KnowsClashes, Claiming, Writes, NoCall, Locked
  <2> QED
    BY <1>2, <1>4, <2>1, OthersStand DEF ClaimsAreWarned
<1>9. TextsAreCards'
  <2>1. HoldsCard(p)'
    BY <1>1, <1>2 DEF HoldsCard, Writes, NoCall
  <2> QED
    BY <1>2, <1>4, <2>1, OthersStand DEF TextsAreCards
<1> QED
  BY <1>3, <1>5, <1>6, <1>7, <1>8, <1>9 DEF BacklogInv

LEMMA BacklogEnter ==
    ASSUME BacklogInv, NEW p \in Agents, Enter(p), Meets
    PROVE  BacklogInv'
<1>1. PICK r \in Commands :
        /\ call' = [call EXCEPT ![p] = r]
        /\ \/ r = NoCall /\ UNCHANGED <<lock, forced>>
           \/ /\ r = [call[p] EXCEPT !.pc = "read"] /\ lock = "free" /\ lock' = p
              /\ r.op = "claim" /\ Warned(r.card) => r.card \in forced'
  <2>1. NoCall \in Commands /\ [call[p] EXCEPT !.pc = "read"] \in Commands
    BY CommandsStay
  <2>2. CASE Ends(p) /\ UNCHANGED <<lock, forced>>
    BY <2>1, <2>2 DEF Ends
  <2>3. CASE /\ MovesTo(p, "read") /\ lock' = p
             /\ forced' = IF call[p].op = "claim" /\ Warned(call[p].card)
                            THEN forced \cup {call[p].card} ELSE forced
    <3>1. lock = "free"
      BY DEF Enter
    <3> DEFINE k == [call[p] EXCEPT !.pc = "read"]
    <3>2. k.op = call[p].op /\ k.card = call[p].card
      BY DEF BacklogInv, BacklogTypeOK, Commands
    <3>3. k = [call[p] EXCEPT !.pc = "read"] /\ k \in Commands /\ call' = [call EXCEPT ![p] = k]
      BY <2>1, <2>3 DEF MovesTo
    <3>4. k.op = "claim" /\ Warned(k.card) => k.card \in forced'
      BY <2>3, <3>2
    <3> HIDE DEF k
    <3> QED
      BY <2>3, <3>1, <3>3, <3>4
  <2> QED
    BY <2>2, <2>3 DEF Enter
<1>2. call'[p] = r /\ \A q \in Agents \ {p} : call'[q] = call[q]
  <2>1. call \in [Agents -> Commands]
    BY DEF BacklogInv, BacklogTypeOK
  <2>2. p \in Agents /\ call' = [call EXCEPT ![p] = r]
    BY <1>1
  <2> QED
    BY ONLY <2>1, <2>2
<1>3. BacklogTypeOK'
  <2>1. call' \in [Agents -> Commands]
    <3>1. call \in [Agents -> Commands]
      BY DEF BacklogInv, BacklogTypeOK
    <3>2. p \in Agents /\ r \in Commands /\ call' = [call EXCEPT ![p] = r]
      BY <1>1
    <3> QED
      BY ONLY <3>1, <3>2
  <2>2. met' \subseteq Ids
    BY DEF BacklogInv, BacklogTypeOK, Meets
  <2>3. calls' \in 0..MaxCalls
    BY BacklogAssumption DEF BacklogInv, BacklogTypeOK, Enter
  <2>4. lock' \in Agents \cup {"free"} /\ forced' \subseteq Ids /\ cut' \subseteq Ids
    BY BacklogAssumption DEF BacklogInv, BacklogTypeOK, CommandsInOrder, Busy, Enter, Releases
  <2>5. UNCHANGED <<root, archive, acked>>
    BY DEF Enter
  <2> QED
    BY <2>1, <2>2, <2>3, <2>4, <2>5 DEF BacklogInv, BacklogTypeOK
<1>4. Grows /\ UNCHANGED <<root, archive, acked>>
  BY DEF Enter, Grows, Meets
<1>5. CommandsInOrder'
  <2>1. ASSUME NEW q \in Agents \ {p}, Works(q), call[q].op \in Locked PROVE lock' = q
    BY <2>1, BacklogAssumption DEF BacklogInv, CommandsInOrder, Enter
  <2>2. /\ r.pc # "idle" => r.op \in Ops /\ r.card \in Ids
        /\ r.op \in Locked /\ r.pc \in {"read", "open", "write", "rename"} => lock' = p
        /\ r.pc \in {"wait", "rename"} => r.op \in Locked
        /\ r.pc \in {"wait", "read", "open"} => r.at = "root"
    BY <1>1 DEF BacklogInv, BacklogTypeOK, Commands, CommandsInOrder, NoCall, Busy, Enter
  <2>3. \A q \in Agents \ {p} : (Busy(q)' <=> Busy(q)) /\ (Works(q)' <=> Works(q))
    BY <1>2 DEF Busy, Works
  <2> QED
    BY <1>2, <2>1, <2>2, <2>3 DEF BacklogInv, CommandsInOrder, Works, Busy
<1>6. MeetingsAreNoted'
  BY <1>3, <1>5, MeetingsNoted
<1>7. ClaimsKeepApart' /\ ArchiveIsClean' /\ NothingLost'
  <2>1. \A q \in Agents : call[q].pc = "write" => call'[q] = call[q] \/ call[q].card \in cut'
    BY <1>2 DEF Enter
  <2> QED
    BY <1>4, <2>1, FilesStand
<1>8. ClaimsAreWarned'
  <2>1. KnowsClashes(p)'
    <3>1. CASE r = NoCall
      BY <1>2, <3>1 DEF KnowsClashes, Claiming, Writes, NoCall
    <3>2. CASE r # NoCall
      <4>1. /\ ~Writes(p)' /\ root' = root
            /\ r.op = "claim" /\ Warned(r.card) => r.card \in forced'
        BY <1>1, <1>2, <1>4, <3>2 DEF Writes, BacklogInv, BacklogTypeOK, Commands
      <4> QED
        BY <1>2, <4>1 DEF KnowsClashes, Claiming, Warned
    <3> QED
      BY <3>1, <3>2
  <2> QED
    BY <1>2, <1>4, <2>1, OthersStand DEF ClaimsAreWarned
<1>9. TextsAreCards'
  <2>1. HoldsCard(p)'
    <3>1. r.pc # "open" /\ r.pc # "write"
      BY <1>1 DEF NoCall, BacklogInv, BacklogTypeOK, Commands
    <3> QED
      BY <1>2, <3>1 DEF HoldsCard, Writes
  <2> QED
    BY <1>2, <1>4, <2>1, OthersStand DEF TextsAreCards
<1> QED
  BY <1>3, <1>5, <1>6, <1>7, <1>8, <1>9 DEF BacklogInv

LEMMA BacklogRead ==
    ASSUME BacklogInv, NEW p \in Agents, Read(p), Meets
    PROVE  BacklogInv'
<1>1. PICK r \in Commands :
        /\ call' = [call EXCEPT ![p] = r]
        /\ \/ r = NoCall
           \/ /\ r = [call[p] EXCEPT !.pc = "open", !.text = Edited(call[p], root[call[p].card])]
              /\ Present(call[p].card) /\ lock' = lock
  <2>1. /\ NoCall \in Commands
        /\ \A text \in Texts : [call[p] EXCEPT !.pc = "open", !.text = text] \in Commands
    BY CommandsStay
  <2>2. CASE Ends(p)
    BY <2>1, <2>2 DEF Ends
  <2>3. CASE /\ Present(call[p].card) /\ lock' = lock
             /\ call' = [call EXCEPT ![p].pc = "open", ![p].text = Edited(call[p], root[call[p].card])]
    <3>1. Edited(call[p], root[call[p].card]) \in Texts
      BY EditsAreTexts DEF Read
    <3> QED
      BY <2>1, <2>3, <3>1
  <2> QED
    BY <2>2, <2>3 DEF Read
<1>2. call'[p] = r /\ \A q \in Agents \ {p} : call'[q] = call[q]
  <2>1. call \in [Agents -> Commands]
    BY DEF BacklogInv, BacklogTypeOK
  <2>2. p \in Agents /\ call' = [call EXCEPT ![p] = r]
    BY <1>1
  <2> QED
    BY ONLY <2>1, <2>2
<1>3. BacklogTypeOK'
  <2>1. call' \in [Agents -> Commands]
    <3>1. call \in [Agents -> Commands]
      BY DEF BacklogInv, BacklogTypeOK
    <3>2. p \in Agents /\ r \in Commands /\ call' = [call EXCEPT ![p] = r]
      BY <1>1
    <3> QED
      BY ONLY <3>1, <3>2
  <2>2. met' \subseteq Ids
    BY DEF BacklogInv, BacklogTypeOK, Meets
  <2>3. calls' \in 0..MaxCalls
    BY BacklogAssumption DEF BacklogInv, BacklogTypeOK, Read
  <2>4. lock' \in Agents \cup {"free"} /\ forced' \subseteq Ids /\ cut' \subseteq Ids
    BY BacklogAssumption DEF BacklogInv, BacklogTypeOK, CommandsInOrder, Busy, Read, Releases
  <2>5. UNCHANGED <<root, archive, acked>>
    BY DEF Read
  <2> QED
    BY <2>1, <2>2, <2>3, <2>4, <2>5 DEF BacklogInv, BacklogTypeOK
<1>4. Grows /\ UNCHANGED <<root, archive, acked>>
  BY DEF Read, Grows, Meets
<1>5. CommandsInOrder'
  <2>1. ASSUME NEW q \in Agents \ {p}, Works(q), call[q].op \in Locked PROVE lock' = q
    BY <2>1, BacklogAssumption DEF BacklogInv, CommandsInOrder, Read, Releases
  <2>2. /\ r.pc # "idle" => r.op \in Ops /\ r.card \in Ids
        /\ r.op \in Locked /\ r.pc \in {"read", "open", "write", "rename"} => lock' = p
        /\ r.pc \in {"wait", "rename"} => r.op \in Locked
        /\ r.pc \in {"wait", "read", "open"} => r.at = "root"
    BY <1>1 DEF BacklogInv, BacklogTypeOK, Commands, CommandsInOrder, NoCall, Busy, Works, Read
  <2>3. \A q \in Agents \ {p} : (Busy(q)' <=> Busy(q)) /\ (Works(q)' <=> Works(q))
    BY <1>2 DEF Busy, Works
  <2> QED
    BY <1>2, <2>1, <2>2, <2>3 DEF BacklogInv, CommandsInOrder, Works, Busy
<1>6. MeetingsAreNoted'
  BY <1>3, <1>5, MeetingsNoted
<1>7. ClaimsKeepApart' /\ ArchiveIsClean' /\ NothingLost'
  <2>1. \A q \in Agents : call[q].pc = "write" => call'[q] = call[q] \/ call[q].card \in cut'
    BY <1>2 DEF Read
  <2> QED
    BY <1>4, <2>1, FilesStand
<1>8. ClaimsAreWarned'
  <2>1. KnowsClashes(p)'
    <3>1. CASE r = NoCall
      BY <1>2, <3>1 DEF KnowsClashes, Claiming, Writes, NoCall
    <3>2. CASE r # NoCall
      <4>1. r.pc = "open" /\ r.card = call[p].card /\ r.text = Edited(call[p], root[call[p].card])
        BY <1>1, <3>2 DEF BacklogInv, BacklogTypeOK, Commands
      <4>2. r.text.status = "claimed" => Claiming(p) \/ root[r.card].status = "claimed"
        BY <4>1, EditsAreTexts DEF Read, Claiming
      <4>3. r.card \in Ids
        BY <4>1, EditsAreTexts DEF Read
      <4>4. KnowsClashes(p) /\ ClaimsKeepApart
        BY DEF BacklogInv, ClaimsAreWarned
      <4>5. root' = root /\ forced \subseteq forced' /\ Disturbed \subseteq Disturbed'
        BY <1>4 DEF Grows, Disturbed
      <4>6. ASSUME r.text.status = "claimed", NEW d \in Ids \ {r.card},
                   {r.card, d} \in Clash, root[d].status = "claimed"
            PROVE  {r.card, d} \cap (forced \cup Disturbed) # {}
        BY <4>1, <4>2, <4>3, <4>4, <4>6 DEF KnowsClashes, ClaimsKeepApart
      <4> QED
        BY <1>2, <4>1, <4>5, <4>6 DEF KnowsClashes, Claiming
    <3> QED
      BY <3>1, <3>2
  <2> QED
    BY <1>2, <1>4, <2>1, OthersStand DEF ClaimsAreWarned
<1>9. TextsAreCards'
  <2>1. HoldsCard(p)'
    <3>1. CASE r = NoCall
      BY <1>2, <3>1 DEF HoldsCard, Writes, NoCall
    <3>2. CASE r # NoCall
      <4>1. /\ r.pc = "open" /\ r.card = call[p].card /\ r.text = Edited(call[p], root[call[p].card])
            /\ r.op = call[p].op /\ r.id = call[p].id /\ r.at = call[p].at /\ Present(r.card)
        BY <1>1, <3>2 DEF BacklogInv, BacklogTypeOK, Commands
      <4>2. /\ r.text.status # "absent" /\ root[r.card].reviews \subseteq r.text.reviews
            /\ r.op = "review" => r.id \in r.text.reviews
        BY <4>1, EditsAreTexts DEF Read, Present
      <4>3. r.at = "root"
        BY <4>1 DEF BacklogInv, CommandsInOrder, Read
      <4> QED
        BY <1>2, <1>4, <4>1, <4>2, <4>3 DEF HoldsCard, Present
    <3> QED
      BY <3>1, <3>2
  <2> QED
    BY <1>2, <1>4, <2>1, OthersStand DEF TextsAreCards
<1> QED
  BY <1>3, <1>5, <1>6, <1>7, <1>8, <1>9 DEF BacklogInv

LEMMA BacklogKilled ==
    ASSUME BacklogInv, NEW p \in Agents, CommandKilled(p), Meets
    PROVE  BacklogInv'
<1>1. PICK r \in Commands :
        /\ call' = [call EXCEPT ![p] = r]
        /\ r = NoCall
  <2>1. NoCall \in Commands
    BY CommandsStay
  <2> QED
    BY <2>1 DEF CommandKilled, Ends
<1>2. call'[p] = r /\ \A q \in Agents \ {p} : call'[q] = call[q]
  <2>1. call \in [Agents -> Commands]
    BY DEF BacklogInv, BacklogTypeOK
  <2>2. p \in Agents /\ call' = [call EXCEPT ![p] = r]
    BY <1>1
  <2> QED
    BY ONLY <2>1, <2>2
<1>3. BacklogTypeOK'
  <2>1. call' \in [Agents -> Commands]
    <3>1. call \in [Agents -> Commands]
      BY DEF BacklogInv, BacklogTypeOK
    <3>2. p \in Agents /\ r \in Commands /\ call' = [call EXCEPT ![p] = r]
      BY <1>1
    <3> QED
      BY ONLY <3>1, <3>2
  <2>2. met' \subseteq Ids
    BY DEF BacklogInv, BacklogTypeOK, Meets
  <2>3. calls' \in 0..MaxCalls
    BY BacklogAssumption DEF BacklogInv, BacklogTypeOK, CommandKilled
  <2>4. lock' \in Agents \cup {"free"} /\ forced' \subseteq Ids /\ cut' \subseteq Ids
    BY BacklogAssumption DEF BacklogInv, BacklogTypeOK, CommandsInOrder, Busy, CommandKilled,
        Releases
  <2>5. UNCHANGED <<root, archive, acked>>
    BY DEF CommandKilled
  <2> QED
    BY <2>1, <2>2, <2>3, <2>4, <2>5 DEF BacklogInv, BacklogTypeOK
<1>4. Grows /\ UNCHANGED <<root, archive, acked>>
  BY DEF CommandKilled, Grows, Meets
<1>5. CommandsInOrder'
  <2>1. ASSUME NEW q \in Agents \ {p}, Works(q), call[q].op \in Locked PROVE lock' = q
    BY <2>1, BacklogAssumption DEF BacklogInv, CommandsInOrder, CommandKilled, Releases
  <2>2. /\ r.pc # "idle" => r.op \in Ops /\ r.card \in Ids
        /\ r.op \in Locked /\ r.pc \in {"read", "open", "write", "rename"} => lock' = p
        /\ r.pc \in {"wait", "rename"} => r.op \in Locked
        /\ r.pc \in {"wait", "read", "open"} => r.at = "root"
    BY <1>1 DEF NoCall
  <2>3. \A q \in Agents \ {p} : (Busy(q)' <=> Busy(q)) /\ (Works(q)' <=> Works(q))
    BY <1>2 DEF Busy, Works
  <2> QED
    BY <1>2, <2>1, <2>2, <2>3 DEF BacklogInv, CommandsInOrder, Works, Busy
<1>6. MeetingsAreNoted'
  BY <1>3, <1>5, MeetingsNoted
<1>7. ClaimsKeepApart' /\ ArchiveIsClean' /\ NothingLost'
  <2>1. \A q \in Agents : call[q].pc = "write" => call'[q] = call[q] \/ call[q].card \in cut'
    BY <1>2 DEF CommandKilled
  <2> QED
    BY <1>4, <2>1, FilesStand
<1>8. ClaimsAreWarned'
  <2>1. KnowsClashes(p)'
    BY <1>1, <1>2 DEF KnowsClashes, Claiming, Writes, NoCall, Locked
  <2> QED
    BY <1>2, <1>4, <2>1, OthersStand DEF ClaimsAreWarned
<1>9. TextsAreCards'
  <2>1. HoldsCard(p)'
    BY <1>1, <1>2 DEF HoldsCard, Writes, NoCall
  <2> QED
    BY <1>2, <1>4, <2>1, OthersStand DEF TextsAreCards
<1> QED
  BY <1>3, <1>5, <1>6, <1>7, <1>8, <1>9 DEF BacklogInv

\* A command on another card goes on as it was, when one card changes.
LEMMA OtherCardsStand ==
    ASSUME BacklogInv, Grows, NEW q \in Agents, call'[q] = call[q],
           NEW c \in Ids, root' \in [Ids -> Texts],
           \A d \in Ids \ {c} : root'[d] = root[d],
           root'[c].status # "claimed" \/ (Claiming(q) => call[q].card \in Disturbed \/ c \in Disturbed),
           Writes(q) /\ call[q].card = c => c \in Disturbed \/ (Present(c)' /\ root'[c].reviews = {})
    PROVE  KnowsClashes(q)' /\ HoldsCard(q)'
<1>1. Disturbed \subseteq Disturbed' /\ forced \subseteq forced'
  BY DEF Grows, Disturbed
<1>2. (Claiming(q)' <=> Claiming(q)) /\ (Writes(q)' <=> Writes(q))
  BY DEF Claiming, Writes
<1>3. Claiming(q) \/ Writes(q) => call[q].card \in Ids
  BY DEF BacklogInv, CommandsInOrder, Busy, Claiming, Writes
<1>4. ASSUME Claiming(q), NEW d \in Ids \ {call[q].card},
             {call[q].card, d} \in Clash, root'[d].status = "claimed"
      PROVE  {call[q].card, d} \cap (forced' \cup Disturbed') # {}
  <2>1. CASE d = c
    BY <1>1, <1>4, <2>1
  <2>2. CASE d # c
    <3>1. {call[q].card, d} \cap (forced \cup Disturbed) # {}
      BY <1>4, <2>2 DEF BacklogInv, ClaimsAreWarned, KnowsClashes
    <3> QED
      BY <1>1, <3>1
  <2> QED
    BY <2>1, <2>2
<1>5. HoldsCard(q)'
  BY <1>1, <1>2, <1>3 DEF BacklogInv, TextsAreCards, HoldsCard, Present
<1> QED
  BY <1>2, <1>4, <1>5 DEF KnowsClashes

LEMMA BacklogTruncate ==
    ASSUME BacklogInv, NEW p \in Agents, Truncate(p), Meets
    PROVE  BacklogInv'
<1>0. PICK c \in Ids : c = call[p].card
  BY DEF Truncate, BacklogInv, CommandsInOrder, Busy
<1> DEFINE r == [call[p] EXCEPT !.pc = "write"]
<1>1. /\ call[p].card = c /\ call[p].pc = "open" /\ Writes(p) /\ Works(p)
      /\ HoldsCard(p) /\ KnowsClashes(p)
  BY <1>0 DEF Truncate, BacklogInv, CommandsInOrder, Busy, Writes, Works, TextsAreCards,
      ClaimsAreWarned
<1>2. /\ call \in [Agents -> Commands] /\ call' = [call EXCEPT ![p] = r] /\ r \in Commands
  BY CommandsStay DEF BacklogInv, BacklogTypeOK, Truncate, MovesTo
<1>3. /\ r.pc = "write" /\ r.op = call[p].op /\ r.card = c /\ r.text = call[p].text
      /\ r.at = call[p].at /\ r.id = call[p].id
  BY <1>1, <1>2 DEF Commands
<1> HIDE DEF r
<1>4. call'[p] = r /\ \A q \in Agents \ {p} : call'[q] = call[q]
  BY <1>2
<1>5. root' = [root EXCEPT ![c] = Torn] /\ UNCHANGED <<calls, archive, lock, forced, acked, cut>>
  BY <1>1 DEF Truncate
<1>6. root \in [Ids -> Texts] /\ root' \in [Ids -> Texts]
  BY <1>5 DEF BacklogInv, BacklogTypeOK, Torn, Texts
<1>7. /\ root'[c].status = "open" /\ root'[c].reviews = {}
      /\ \A d \in Ids \ {c} : root'[d] = root[d]
  BY <1>1, <1>5, <1>6 DEF Torn
<1>8. BacklogTypeOK'
  <2>1. met' \subseteq Ids /\ call' \in [Agents -> Commands]
    BY <1>2 DEF BacklogInv, BacklogTypeOK, Meets
  <2> QED
    BY <1>5, <1>6, <2>1 DEF BacklogInv, BacklogTypeOK
<1>9. Grows /\ Disturbed \subseteq Disturbed' /\ forced \subseteq forced'
  BY <1>5 DEF Grows, Disturbed, Meets
<1>10. CommandsInOrder'
  BY <1>1, <1>3, <1>4, <1>5 DEF BacklogInv, CommandsInOrder, Busy, Works
<1>11. MeetingsAreNoted'
  BY <1>8, <1>10, MeetingsNoted
<1>12. \A q \in Agents \ {p} : KnowsClashes(q)' /\ HoldsCard(q)'
  BY <1>1, <1>4, <1>6, <1>7, <1>9, OtherCardsStand DEF Present
<1>13. KnowsClashes(p)'
  <2>1. Claiming(p)' => Claiming(p)
    BY <1>1, <1>3, <1>4 DEF Claiming, Writes
  <2> QED
    BY <1>1, <1>3, <1>4, <1>7, <1>9, <2>1 DEF KnowsClashes
<1>14. HoldsCard(p)'
  BY <1>1, <1>3, <1>4, <1>7, <1>9 DEF HoldsCard, Present
<1>15. ClaimsKeepApart'
  BY <1>5, <1>7, <1>9 DEF BacklogInv, ClaimsKeepApart
<1>16. ArchiveIsClean'
  BY <1>5 DEF BacklogInv, ArchiveIsClean
<1>17. NothingLost'
  <2> SUFFICES ASSUME NEW d \in Ids \ Disturbed'
               PROVE  (Present(d) # (archive[d].status # "absent"))' /\ acked'[d] \subseteq Kept(d)'
    BY DEF NothingLost
  <2>1. d \in Ids \ Disturbed
    BY <1>9
  <2>2. (Present(d) # (archive[d].status # "absent")) /\ acked[d] \subseteq Kept(d)
    BY <2>1 DEF BacklogInv, NothingLost
  <2>3. CASE d # c
    <3>1. root'[d] = root[d] /\ archive' = archive /\ acked' = acked
      BY <1>5, <1>7, <2>3
    <3>2. \A q \in Agents : call[q].pc = "write" /\ call[q].card = d => call'[q] = call[q]
      BY <1>1, <1>4
    <3>3. Kept(d) \subseteq Kept(d)'
      BY <3>1, <3>2 DEF Kept
    <3> QED
      BY <2>2, <3>1, <3>3 DEF Present
  <2>4. CASE d = c
    <3>1. Present(c) /\ root[c].reviews \subseteq r.text.reviews
      BY <1>1, <1>3, <2>1, <2>4 DEF HoldsCard
    <3>2. (Present(d) # (archive[d].status # "absent"))'
      BY <1>5, <1>7, <2>2, <2>4, <3>1 DEF Present
    <3>3. r.text.reviews \subseteq Kept(c)'
      BY <1>3, <1>4 DEF Kept
    <3>4. \A q \in Agents : call[q].pc = "write" /\ call[q].card = c => call'[q] = call[q]
      BY <1>1, <1>4
    <3>5. Kept(c) \subseteq Kept(c)'
      BY <1>5, <3>1, <3>3, <3>4 DEF Kept
    <3> QED
      BY <1>5, <2>2, <2>4, <3>2, <3>5
  <2> QED
    BY <2>3, <2>4
<1> QED
  BY <1>4, <1>8, <1>10, <1>11, <1>12, <1>13, <1>14, <1>15, <1>16, <1>17
      DEF BacklogInv, ClaimsAreWarned, TextsAreCards

LEMMA BacklogWrite ==
    ASSUME BacklogInv, NEW p \in Agents, Write(p), Meets
    PROVE  BacklogInv'
<1>0. PICK c \in Ids : c = call[p].card
  BY DEF Write, BacklogInv, CommandsInOrder, Busy
<1> DEFINE r == IF call[p].op = "ship" THEN [call[p] EXCEPT !.pc = "rename"] ELSE NoCall
<1>1. /\ call[p].card = c /\ call[p].pc = "write" /\ Writes(p) /\ Works(p)
      /\ HoldsCard(p) /\ KnowsClashes(p) /\ call[p].text \in Texts
  BY <1>0 DEF Write, BacklogInv, BacklogTypeOK, Commands, Writes, Works, TextsAreCards,
      ClaimsAreWarned
<1>2. /\ call \in [Agents -> Commands] /\ call' = [call EXCEPT ![p] = r] /\ r \in Commands
  BY CommandsStay DEF BacklogInv, BacklogTypeOK, Write, MovesTo, Ends
<1>3. /\ r.pc \in {"idle", "rename"}
      /\ r.pc = "rename" => r.op = "ship" /\ call[p].op = "ship" /\ r.card = c /\ lock' = lock
  BY <1>1, <1>2 DEF Commands, NoCall, Write
<1> HIDE DEF r
<1>4. call'[p] = r /\ \A q \in Agents \ {p} : call'[q] = call[q]
  BY <1>2
<1>5. /\ UNCHANGED <<calls, forced, cut>>
      /\ acked' = IF call[p].op = "review" THEN [acked EXCEPT ![c] = @ \cup {call[p].id}] ELSE acked
      /\ \/ call[p].at = "root" /\ root' = [root EXCEPT ![c] = call[p].text] /\ archive' = archive
         \/ call[p].at # "root" /\ archive' = [archive EXCEPT ![c] = call[p].text] /\ root' = root
      /\ lock' \in {lock, "free"} /\ (lock' # lock => lock = p)
  BY <1>1 DEF Write, Releases
<1>6. /\ root \in [Ids -> Texts] /\ root' \in [Ids -> Texts]
      /\ archive \in [Ids -> Texts] /\ archive' \in [Ids -> Texts]
  BY <1>1, <1>5 DEF BacklogInv, BacklogTypeOK
<1>7. \A d \in Ids \ {c} : root'[d] = root[d] /\ archive'[d] = archive[d] /\ acked'[d] = acked[d]
  BY <1>5, <1>6 DEF BacklogInv, BacklogTypeOK
<1>8. BacklogTypeOK'
  <2>1. met' \subseteq Ids /\ call' \in [Agents -> Commands]
    BY <1>2 DEF BacklogInv, BacklogTypeOK, Meets
  <2>2. call[p].id \in 0..MaxCalls
    BY <1>2 DEF Commands
  <2>3. acked' \in [Ids -> SUBSET (0..MaxCalls)]
    BY <1>5, <2>2 DEF BacklogInv, BacklogTypeOK
  <2> QED
    BY <1>5, <1>6, <2>1, <2>3 DEF BacklogInv, BacklogTypeOK
<1>9. Grows /\ Disturbed \subseteq Disturbed' /\ forced \subseteq forced'
  BY <1>5 DEF Grows, Disturbed, Meets
<1>10. CommandsInOrder'
  <2>1. \A q \in Agents \ {p} : call[q].op \in Locked /\ Works(q) => lock' = q
    BY <1>5 DEF BacklogInv, CommandsInOrder
  <2>2. r.pc = "rename" => lock' = p /\ r.op \in Ops \cap Locked /\ r.card \in Ids
    BY <1>1, <1>3 DEF BacklogInv, CommandsInOrder, Ops, Locked
  <2> QED
    BY <1>3, <1>4, <2>1, <2>2 DEF BacklogInv, CommandsInOrder, Busy, Works
<1>11. MeetingsAreNoted'
  BY <1>8, <1>10, MeetingsNoted
<1>12. \A q \in Agents \ {p} : KnowsClashes(q)' /\ HoldsCard(q)'
  <2> SUFFICES ASSUME NEW q \in Agents \ {p} PROVE KnowsClashes(q)' /\ HoldsCard(q)'
    OBVIOUS
  <2>1. Writes(q) => c \in Disturbed \/ call[q].card \in Disturbed
    BY <1>1, WritersMeet DEF Works, Writes, Disturbed
  <2>2. Claiming(q) => c \in Disturbed \/ call[q].card \in Disturbed
    <3>1. CASE Writes(q)
      BY <2>1, <3>1
    <3>2. CASE ~Writes(q) /\ Claiming(q)
      <4>1. Works(q) /\ ~Unlocked(q)
        BY <3>2 DEF Claiming, Works, Unlocked, Ops, Locked
      <4>2. Unlocked(p)
        BY <1>1, <4>1, OneIsUnlocked
      <4> QED
        BY <1>1, <4>1, <4>2 DEF BacklogInv, MeetingsAreNoted, Disturbed
    <3> QED
      BY <3>1, <3>2
  <2> QED
    BY <1>4, <1>6, <1>7, <1>9, <2>1, <2>2, OtherCardsStand
<1>13. KnowsClashes(p)' /\ HoldsCard(p)'
  BY <1>3, <1>4 DEF KnowsClashes, Claiming, HoldsCard, Writes
<1>14. ClaimsKeepApart'
  <2>1. ASSUME NEW d \in Ids \ {c}, {c, d} \in Clash,
               root'[c].status = "claimed", root'[d].status = "claimed"
        PROVE  {c, d} \cap (forced' \cup Disturbed') # {}
    <3>1. CASE root' = root
      BY <1>9, <2>1, <3>1 DEF BacklogInv, ClaimsKeepApart
    <3>2. CASE root' = [root EXCEPT ![c] = call[p].text]
      <4>1. Claiming(p) /\ root[d].status = "claimed"
        BY <1>1, <1>6, <1>7, <2>1, <3>2 DEF Claiming
      <4> QED
        BY <1>1, <1>9, <2>1, <4>1 DEF KnowsClashes
    <3> QED
      BY <1>5, <3>1, <3>2
  <2>2. ASSUME NEW x \in Ids, NEW y \in Ids, x # y, {x, y} \in Clash,
               root'[x].status = "claimed", root'[y].status = "claimed"
        PROVE  {x, y} \cap (forced' \cup Disturbed') # {}
    <3>1. CASE x = c
      BY <2>1, <2>2, <3>1
    <3>2. CASE y = c
      <4>1. {x, y} = {y, x}
        OBVIOUS
      <4> QED
        BY <2>1, <2>2, <3>2, <4>1
    <3>3. CASE x # c /\ y # c
      BY <1>7, <1>9, <2>2, <3>3 DEF BacklogInv, ClaimsKeepApart
    <3> QED
      BY <3>1, <3>2, <3>3
  <2> QED
    BY <2>2 DEF ClaimsKeepApart
<1>15. ArchiveIsClean'
  BY <1>1, <1>5, <1>6, <1>7 DEF BacklogInv, ArchiveIsClean, HoldsCard
<1>16. NothingLost'
  <2> SUFFICES ASSUME NEW d \in Ids \ Disturbed'
               PROVE  (Present(d) # (archive[d].status # "absent"))' /\ acked'[d] \subseteq Kept(d)'
    BY DEF NothingLost
  <2>1. d \in Ids \ Disturbed
    BY <1>9
  <2>2. (Present(d) # (archive[d].status # "absent")) /\ acked[d] \subseteq Kept(d)
    BY <2>1 DEF BacklogInv, NothingLost
  <2>3. CASE d # c
    <3>1. root'[d] = root[d] /\ archive'[d] = archive[d] /\ acked'[d] = acked[d]
      BY <1>7, <2>3
    <3>2. \A q \in Agents : call[q].pc = "write" /\ call[q].card = d => call'[q] = call[q]
      BY <1>1, <1>4, <2>3
    <3>3. Kept(d) \subseteq Kept(d)'
      BY <3>1, <3>2 DEF Kept
    <3> QED
      BY <2>2, <3>1, <3>3 DEF Present
  <2>4. CASE d = c
    <3>1. /\ Present(c) /\ call[p].at = "root" /\ call[p].text.status # "absent"
          /\ root[c].reviews \subseteq call[p].text.reviews
          /\ call[p].op = "review" => call[p].id \in call[p].text.reviews
      BY <1>1, <2>1, <2>4 DEF HoldsCard
    <3>2. root'[c] = call[p].text /\ archive' = archive
      BY <1>5, <1>6, <3>1
    <3>3. (Present(d) # (archive[d].status # "absent"))'
      BY <2>2, <2>4, <3>1, <3>2 DEF Present
    <3>4. \A q \in Agents \ {p} : call[q].pc = "write" /\ call[q].card = c => call'[q] = call[q]
      BY <1>4
    <3>5. Kept(c) \subseteq Kept(c)'
      BY <3>1, <3>2, <3>4 DEF Kept
    <3>6. call[p].text.reviews \subseteq Kept(c)'
      BY <3>2 DEF Kept
    <3>7. acked'[c] \subseteq acked[c] \cup
             (IF call[p].op = "review" THEN {call[p].id} ELSE {})
      BY <1>5 DEF BacklogInv, BacklogTypeOK
    <3> QED
      BY <2>2, <2>4, <3>1, <3>3, <3>5, <3>6, <3>7
  <2> QED
    BY <2>3, <2>4
<1> QED
  BY <1>4, <1>8, <1>10, <1>11, <1>12, <1>13, <1>14, <1>15, <1>16
      DEF BacklogInv, ClaimsAreWarned, TextsAreCards

LEMMA BacklogRename ==
    ASSUME BacklogInv, NEW p \in Agents, Rename(p), Meets
    PROVE  BacklogInv'
<1>0. PICK c \in Ids : c = call[p].card
  BY DEF Rename, BacklogInv, CommandsInOrder, Busy
<1>1. /\ call[p].card = c /\ call[p].pc = "rename" /\ Works(p) /\ ~Unlocked(p)
      /\ call \in [Agents -> Commands]
  BY <1>0 DEF Rename, BacklogInv, BacklogTypeOK, CommandsInOrder, Works, Unlocked
<1>2. ASSUME NEW q \in Agents \ {p}
      PROVE  /\ call'[q].op = call[q].op /\ call'[q].pc = call[q].pc /\ call'[q].card = call[q].card
             /\ call'[q].text = call[q].text /\ call'[q].id = call[q].id
             /\ call'[q] \in Commands
             /\ call'[q].at # call[q].at => Writes(q) /\ call[q].card = c /\ call[q].pc = "write"
  <2>1. call[q] \in Commands
    BY <1>1
  <2>2. \/ call'[q] = call[q]
        \/ call[q].pc = "write" /\ call[q].card = c /\ call'[q] = [call[q] EXCEPT !.at = "archive"]
    BY <1>1 DEF Rename, Ends
  <2> QED
    BY <2>1, <2>2 DEF Commands, Writes
<1>3. call'[p] = NoCall /\ NoCall \in Commands
  BY <1>1, CommandsStay DEF Rename, Ends
<1>4. call' \in [Agents -> Commands]
  <2>1. \A q \in Agents : call'[q] \in Commands
    BY <1>2, <1>3
  <2>2. DOMAIN call' = Agents /\ call' = [q \in DOMAIN call' |-> call'[q]]
    BY <1>1 DEF Rename, Ends
  <2> QED
    BY <2>1, <2>2
<1>5. /\ UNCHANGED <<calls, forced, acked, cut>>
      /\ \/ root' = root /\ archive' = archive
         \/ /\ Present(c) /\ root' = [root EXCEPT ![c] = Absent]
            /\ archive' = [archive EXCEPT ![c] = root[c]]
      /\ lock' \in {lock, "free"} /\ (lock' # lock => lock = p)
  BY <1>1 DEF Rename, Releases
<1>6. /\ root \in [Ids -> Texts] /\ root' \in [Ids -> Texts]
      /\ archive \in [Ids -> Texts] /\ archive' \in [Ids -> Texts]
  <2>1. root \in [Ids -> Texts] /\ archive \in [Ids -> Texts] /\ Absent \in Texts
    BY DEF BacklogInv, BacklogTypeOK, Absent, Texts
  <2> QED
    BY <1>5, <2>1
<1>7. /\ \A d \in Ids \ {c} : root'[d] = root[d] /\ archive'[d] = archive[d]
      /\ root' = root \/ root'[c] = Absent
  BY <1>5, <1>6
<1>8. BacklogTypeOK'
  <2>1. met' \subseteq Ids
    BY DEF BacklogInv, BacklogTypeOK, Meets
  <2> QED
    BY <1>4, <1>5, <1>6, <2>1 DEF BacklogInv, BacklogTypeOK
<1>9. Grows /\ Disturbed \subseteq Disturbed' /\ forced \subseteq forced'
  BY <1>5 DEF Grows, Disturbed, Meets
<1>10. CommandsInOrder'
  <2>1. \A q \in Agents \ {p} : call[q].op \in Locked /\ Works(q) => lock' = q
    BY <1>5 DEF BacklogInv, CommandsInOrder
  <2>2. NoCall.pc = "idle"
    BY DEF NoCall
  <2>3. ASSUME NEW q \in Agents \ {p}, call[q].pc \in {"wait", "read", "open"}
        PROVE  call'[q].at = "root"
    BY <1>2, <2>3 DEF BacklogInv, CommandsInOrder
  <2> QED
    BY <1>2, <1>3, <2>1, <2>2, <2>3 DEF BacklogInv, CommandsInOrder, Busy, Works
<1>11. MeetingsAreNoted'
  BY <1>8, <1>10, MeetingsNoted
<1>12. ASSUME NEW q \in Agents \ {p} PROVE KnowsClashes(q)' /\ HoldsCard(q)'
  <2>1. (Claiming(q)' <=> Claiming(q)) /\ (Writes(q)' <=> Writes(q))
    BY <1>2 DEF Claiming, Writes
  <2>2. Writes(q) /\ call[q].card = c => c \in Disturbed
    <3>1. Writes(q) => Works(q) /\ Unlocked(q)
      BY <1>1, OneIsUnlocked DEF Works, Writes
    <3> QED
      BY <1>1, <3>1 DEF BacklogInv, MeetingsAreNoted, Disturbed
  <2>3. \A d \in Ids : root'[d].status = "claimed" => root[d].status = "claimed"
    BY <1>7 DEF Absent
  <2>4. KnowsClashes(q)'
    BY <1>2, <1>9, <2>1, <2>3 DEF BacklogInv, ClaimsAreWarned, KnowsClashes
  <2>5. Writes(q) => call[q].card \in Ids
    BY DEF BacklogInv, CommandsInOrder, Busy, Writes
  <2>6. HoldsCard(q)'
    BY <1>2, <1>7, <1>9, <2>1, <2>2, <2>5 DEF BacklogInv, TextsAreCards, HoldsCard, Present
  <2> QED
    BY <2>4, <2>6
<1>13. KnowsClashes(p)' /\ HoldsCard(p)'
  BY <1>3 DEF KnowsClashes, Claiming, HoldsCard, Writes, NoCall
<1>14. ClaimsKeepApart'
  <2>1. \A d \in Ids : root'[d].status = "claimed" => root[d].status = "claimed"
    BY <1>7 DEF Absent
  <2> QED
    BY <1>9, <2>1 DEF BacklogInv, ClaimsKeepApart
<1>15. ArchiveIsClean'
  <2>1. archive' = archive \/ (archive'[c] = root[c] /\ root[c].status # "absent")
    BY <1>5, <1>6 DEF Present
  <2> QED
    BY <1>7, <2>1 DEF BacklogInv, ArchiveIsClean
<1>16. NothingLost'
  <2> SUFFICES ASSUME NEW d \in Ids \ Disturbed'
               PROVE  (Present(d) # (archive[d].status # "absent"))' /\ acked'[d] \subseteq Kept(d)'
    BY DEF NothingLost
  <2>1. d \in Ids \ Disturbed
    BY <1>9
  <2>2. (Present(d) # (archive[d].status # "absent")) /\ acked[d] \subseteq Kept(d)
    BY <2>1 DEF BacklogInv, NothingLost
  <2>3. \A q \in Agents : call[q].pc = "write" =>
            call'[q].pc = "write" /\ call'[q].card = call[q].card /\ call'[q].text = call[q].text
    BY <1>1, <1>2
  <2>4. CASE root'[d] = root[d] /\ archive'[d] = archive[d]
    <3>1. Kept(d) \subseteq Kept(d)'
      BY <2>3, <2>4 DEF Kept
    <3> QED
      BY <1>5, <2>2, <2>4, <3>1 DEF Present
  <2>5. CASE d = c /\ Present(c) /\ root'[c] = Absent /\ archive'[c] = root[c]
    <3>1. archive[c].reviews = {}
      BY <2>2, <2>5 DEF BacklogInv, ArchiveIsClean
    <3>2. Kept(c) \subseteq Kept(c)'
      BY <2>3, <2>5, <3>1 DEF Kept
    <3> QED
      BY <1>5, <2>2, <2>5, <3>2 DEF Present, Absent
  <2> QED
    BY <1>5, <1>6, <1>7, <2>4, <2>5
<1> QED
  BY <1>8, <1>10, <1>11, <1>12, <1>13, <1>14, <1>15, <1>16
      DEF BacklogInv, ClaimsAreWarned, TextsAreCards

\* It holds at first.
LEMMA BacklogInvInit == BacklogInit => BacklogInv
<1> SUFFICES ASSUME BacklogInit PROVE BacklogInv
  OBVIOUS
<1> USE BacklogAssumption DEF BacklogInit
<1>1. [fence |-> TRUE, status |-> "open", reviews |-> {}] \in Texts /\ Absent \in Texts
  BY DEF Texts, Absent
<1>2. NoCall \in Commands
  BY ONLY <1>1, BacklogAssumption DEF Commands, NoCall, NoCard, Ops, Locked
<1>3. BacklogTypeOK
  BY <1>1, <1>2 DEF BacklogTypeOK
<1>4. \A p \in Agents : call[p].pc = "idle"
  BY DEF NoCall
<1>5. CommandsInOrder /\ MeetingsAreNoted /\ ClaimsAreWarned /\ TextsAreCards
  BY <1>4 DEF CommandsInOrder, MeetingsAreNoted, ClaimsAreWarned, TextsAreCards, Busy, Works,
              Writes, KnowsClashes, Claiming, HoldsCard
<1>6. ClaimsKeepApart /\ ArchiveIsClean /\ NothingLost
  BY DEF ClaimsKeepApart, ArchiveIsClean, NothingLost, Present, Absent, Kept
<1> QED
  BY <1>3, <1>5, <1>6 DEF BacklogInv

\* The invariant is inductive.
LEMMA BacklogInvNext == BacklogInv /\ [BacklogNext]_backlogVars => BacklogInv'
<1> SUFFICES ASSUME BacklogInv, [BacklogNext]_backlogVars PROVE BacklogInv'
  OBVIOUS
<1>1. CASE UNCHANGED backlogVars
  BY <1>1 DEF backlogVars, BacklogInv, BacklogTypeOK, CommandsInOrder, MeetingsAreNoted,
      ClaimsAreWarned, ClaimsKeepApart, TextsAreCards, ArchiveIsClean, NothingLost, Busy, Works,
      Writes, Unlocked, KnowsClashes, Claiming, HoldsCard, Disturbed, Present, Kept
<1>2. CASE BacklogNext
  BY <1>2, BacklogCalls, BacklogEnter, BacklogRead, BacklogTruncate, BacklogWrite,
      BacklogRename, BacklogKilled DEF BacklogNext, Step
<1> QED
  BY <1>1, <1>2

\* The backlog keeps its invariant, for any cards, agents, clashes and kills.
THEOREM BacklogInvariant == BacklogSpec => []BacklogInv
<1> QED
  BY BacklogInvInit, BacklogInvNext, PTL DEF BacklogSpec

\* Two cards that clash are both in progress only over a forced claim, an
\* edit without the lock beside another command, or a kill.
THEOREM ClaimsStayApart == BacklogSpec => []ClaimsKeepApart
<1>1. BacklogInv => ClaimsKeepApart
  BY DEF BacklogInv
<1> QED
  BY <1>1, BacklogInvariant, PTL

\* A card has one home and keeps every review reported as appended, under the
\* same condition.
THEOREM NothingGetsLost == BacklogSpec => []NothingLost
<1>1. BacklogInv => NothingLost
  BY DEF BacklogInv
<1> QED
  BY <1>1, BacklogInvariant, PTL

-----------------------------------------------------------------------------
(* The datums (horus/datums.py).                                           *)

\* What is read belongs to a run, and a run has consumed no more than all have.
ReadsAreOwned ==
    /\ \A p \in Writers : hand[p].op = "read" => hand[p].task \in Tasks
    /\ \A r \in Tasks : own[r] <= used

\* One operation on the file at a time, and the file is empty only in one.
OneAtATime ==
    /\ \A p, q \in Writers : hand[p].op # "none" /\ hand[q].op # "none" => p = q
    /\ torn => \E p \in Writers : hand[p].op = "fill"

\* A run that goes on has not ended, and none ended later than now.
Live == {"new", "started", "running"}
RunsAreDated ==
    \A r \in Tasks : /\ ended[r] <= clock
                     /\ phase[r] \in Live => ended[r] = None
                     /\ phase[r] = "new" => hand[r].op = "none"

\* The file f, which is the datums or what an operation makes of them: nothing
\* in it is dated later than now, and a run that goes on has no end.
EndIn(f, r) == IF f[r].end # None THEN f[r].end ELSE IF ended[r] # None THEN ended[r] ELSE clock
IsDated(f) ==
    \A r \in Tasks : /\ f[r].at <= clock /\ f[r].end <= clock
                     /\ phase[r] \in Live => f[r].end = None

\* Who consumed beside whom is seen in it: the consumer has a row, which does
\* not end before the other's starts, nor start after the end of the other's,
\* once that has the reading of its end.
Measured(row) == row.post # None /\ ~row.late
SeesMixed(f) ==
    \A r, q \in Tasks : <<r, q>> \in mixed =>
        /\ f[q].at # None /\ f[r].at <= EndIn(f, q)
        /\ Measured(f[r]) => f[q].at <= EndIn(f, r)

\* It loses nothing of the datums.
KeepsRows(f) ==
    \A r \in Tasks : /\ datums[r].at # None => f[r].at # None
                     /\ datums[r].outcome => f[r].outcome
                     /\ datums[r].end # None => f[r].end # None

\* The row of t ends after all that is on file.
EndsLast(f, t) == f[t].end # None /\ \A q \in Tasks : f[q].at <= f[t].end

\* A row with the reading of its end has the end; one that has just got it
\* ends last.
MeasuresEnd(f) ==
    \A r \in Tasks : Measured(f[r]) =>
        f[r].end # None /\ (datums[r].end = None => EndsLast(f, r))

HandIsSound(p) ==
    hand[p].op # "none" =>
        /\ IsDated(hand[p].rows) /\ SeesMixed(hand[p].rows)
        /\ KeepsRows(hand[p].rows) /\ MeasuresEnd(hand[p].rows)
        /\ hand[p].op = "read" => EndsLast(hand[p].rows, hand[p].task)

\* Who is mixed has consumed.
MixedConsumed == \A r, q \in Tasks : <<r, q>> \in mixed => r # q /\ own[q] > 0

\* With one operation on the file at a time.
CalOrder ==
    /\ OneAtATime /\ RunsAreDated /\ MixedConsumed
    /\ IsDated(datums) /\ SeesMixed(datums)
    /\ \A r \in Tasks : Measured(datums[r]) => datums[r].end # None
    /\ \A p \in Writers : HandIsSound(p)

CalInv == CalTypeOK /\ ReadsAreOwned /\ (~Overlaps => CalOrder)

CalTyped == CalTypeOK /\ ReadsAreOwned

\* A row that is stamped is a row.
LEMMA RowsStay ==
    ASSUME NEW row \in Rows, NEW t \in None..MaxClock, NEW u \in None..MaxUse,
           NEW a \in BOOLEAN, NEW b \in BOOLEAN
    PROVE  /\ [row EXCEPT !.end = t] \in Rows
           /\ [row EXCEPT !.pre = u] \in Rows
           /\ [row EXCEPT !.at = t, !.pre = u, !.outcome = a] \in Rows
           /\ [row EXCEPT !.post = u, !.late = b] \in Rows
           /\ [row EXCEPT !.outcome = a, !.post = u, !.late = b] \in Rows
  BY DEF Rows

\* The clock and the account are what rows are stamped with.
LEMMA Stamps == CalTypeOK => clock \in None..MaxClock /\ used \in None..MaxUse
  BY CalibrationAssumption DEF CalTypeOK, None

\* A command of the clerk is counted.
LEMMA ErrandsCount == CalTypeOK /\ Errand => errands' \in 0..MaxClerk
  BY CalibrationAssumption DEF CalTypeOK, Errand

\* A file that is empty, and a hand that is, have rows.
LEMMA RowsHave ==
    ASSUME CalTypeOK
    PROVE  /\ NoRow \in Rows /\ NoRows \in [Tasks -> Rows] /\ Loaded \in [Tasks -> Rows]
           /\ Quiet \in [op : {"none", "read", "save", "fill"}, task : Writers, rows : [Tasks -> Rows]]
<1>1. NoRow \in Rows
  BY CalibrationAssumption DEF NoRow, Rows, None
<1> QED
  BY <1>1 DEF CalTypeOK, NoRows, Loaded, Quiet, Writers

Hands == [op : {"none", "read", "save", "fill"}, task : Writers, rows : [Tasks -> Rows]]

\* A hand that is given something sound is one.
LEMMA HandsStay ==
    ASSUME CalTypeOK, NEW p \in Writers, NEW h \in Hands, hand' = [hand EXCEPT ![p] = h]
    PROVE  /\ hand' \in [Writers -> Hands] /\ hand'[p] = h
           /\ \A q \in Writers \ {p} : hand'[q] = hand[q]
  BY DEF CalTypeOK, Hands

\* What the operations take is in hand, and belongs to a run if it is to be read.
LEMMA TakesTyped ==
    ASSUME CalTyped, NEW p \in Writers, NEW op \in {"read", "save"}, NEW r \in Writers,
           NEW new \in [Tasks -> Rows], Takes(p, op, r, new), op = "read" => r \in Tasks
    PROVE  /\ hand' \in [Writers -> Hands] /\ hand'[p] = [op |-> op, task |-> r, rows |-> new]
           /\ \A q \in Writers \ {p} : hand'[q] = hand[q]
           /\ \A q \in Writers : hand'[q].op = "read" => hand'[q].task \in Tasks
<1> DEFINE h == [op |-> op, task |-> r, rows |-> new]
<1>1. h \in Hands /\ hand' = [hand EXCEPT ![p] = h]
  BY DEF Hands, Takes
<1> HIDE DEF h
<1>2. /\ hand' \in [Writers -> Hands] /\ hand'[p] = h
      /\ \A q \in Writers \ {p} : hand'[q] = hand[q]
  BY <1>1, HandsStay DEF CalTyped
<1> QED
  BY <1>2 DEF CalTyped, ReadsAreOwned, h

\* A completion of r by p.
LEMMA CompletesTyped ==
    ASSUME CalTyped, NEW p \in Writers, NEW r \in Tasks, Completes(p, r)
    PROVE  LET new == [Loaded EXCEPT ![r].end = clock] IN
           /\ new \in [Tasks -> Rows] /\ Loaded[r].at # None
           /\ Takes(p, "read", r, new) /\ r \in Writers
<1>1. [Loaded[r] EXCEPT !.end = clock] \in Rows /\ Loaded \in [Tasks -> Rows]
  <2>1. Loaded \in [Tasks -> Rows] /\ clock \in None..MaxClock /\ used \in None..MaxUse
    BY RowsHave, Stamps DEF CalTyped
  <2>2. Loaded[r] \in Rows
    BY <2>1
  <2> QED
    BY <2>1, <2>2, RowsStay
<1> QED
  BY <1>1 DEF Completes, Writers

\* Every step keeps the types, whatever else is in hand.
LEMMA CalTypesNext == CalTyped /\ CalNext => CalTyped'
<1> SUFFICES ASSUME CalTyped, CalNext PROVE CalTyped'
  OBVIOUS
<1> USE CalibrationAssumption
<1>1. CASE SecondPasses
  BY <1>1 DEF CalTyped, CalTypeOK, ReadsAreOwned, SecondPasses, None
<1>2. CASE Reconciles
  <2> DEFINE new == [r \in Tasks |-> Reconciled(r, Loaded[r])]
  <2>1. \A r \in Tasks : Loaded[r] \in Rows /\ Reconciled(r, Loaded[r]) \in Rows
    BY RowsHave DEF CalTyped, CalTypeOK, Reconciled, Rows
  <2>2. new \in [Tasks -> Rows] /\ Takes(Clerk, "save", Clerk, new)
    BY <1>2, <2>1 DEF Reconciles
  <2> HIDE DEF new
  <2>3. Clerk \in Writers
    BY DEF Writers
  <2> QED
    BY <1>2, <2>2, <2>3, TakesTyped, ErrandsCount DEF CalTyped, CalTypeOK, ReadsAreOwned,
        Reconciles, Hands
<1>3. ASSUME NEW r \in Tasks, Consumes(r) PROVE CalTyped'
  BY <1>3 DEF CalTyped, CalTypeOK, ReadsAreOwned, Consumes
<1>4. ASSUME NEW r \in Tasks, Starts(r) PROVE CalTyped'
  <2> DEFINE h == [hand[r] EXCEPT !.rows[r].pre = used]
  <2>1. hand[r] \in Hands /\ hand[r].rows[r] \in Rows /\ r \in Writers
    BY DEF CalTyped, CalTypeOK, Writers, Hands
  <2>2. [hand[r].rows[r] EXCEPT !.pre = used] \in Rows
    BY <2>1, Stamps, RowsStay DEF CalTyped
  <2>3. h \in Hands /\ h.op = hand[r].op /\ h.task = hand[r].task /\ hand' = [hand EXCEPT ![r] = h]
    BY <1>4, <2>1, <2>2 DEF Hands, Starts
  <2> HIDE DEF h
  <2>4. /\ hand' \in [Writers -> Hands] /\ hand'[r] = h
        /\ \A q \in Writers \ {r} : hand'[q] = hand[q]
    BY <2>1, <2>3, HandsStay DEF CalTyped
  <2> QED
    BY <1>4, <2>3, <2>4 DEF CalTyped, CalTypeOK, ReadsAreOwned, Starts, Hands
<1>5. ASSUME NEW r \in Tasks, RecordLaunch(r) PROVE CalTyped'
  <2> DEFINE row == [NoRow EXCEPT !.at = clock,
                     !.pre = IF phase[r] = "started" THEN hand[r].rows[r].pre ELSE datums[r].pre,
                     !.outcome = Loaded[r].outcome]
             new == [Loaded EXCEPT ![r] = row]
  <2>1. hand[r].rows[r] \in Rows /\ datums[r] \in Rows /\ Loaded \in [Tasks -> Rows] /\ r \in Writers
    BY RowsHave DEF CalTyped, CalTypeOK, Writers
  <2>2. row \in Rows
    <3>1. /\ hand[r].rows[r].pre \in None..MaxUse /\ datums[r].pre \in None..MaxUse
          /\ Loaded[r].outcome \in BOOLEAN
      BY <2>1 DEF Rows
    <3>2. NoRow \in Rows /\ clock \in None..MaxClock
      BY RowsHave, Stamps DEF CalTyped
    <3>3. (IF phase[r] = "started" THEN hand[r].rows[r].pre ELSE datums[r].pre) \in None..MaxUse
      BY <3>1
    <3> QED
      BY <3>1, <3>2, <3>3, RowsStay
  <2>3. new \in [Tasks -> Rows] /\ Takes(r, "save", r, new)
    BY <1>5, <2>1, <2>2 DEF RecordLaunch
  <2> HIDE DEF new
  <2> QED
    BY <1>5, <2>1, <2>3, TakesTyped DEF CalTyped, CalTypeOK, ReadsAreOwned, RecordLaunch, Hands
<1>6. ASSUME NEW r \in Tasks, Finishes(r) PROVE CalTyped'
  <2>1. clock \in None..MaxClock
    BY Stamps DEF CalTyped
  <2>2. phase' \in [Tasks -> {"new", "started", "running", "ended", "over", "dead"}]
    BY <1>6 DEF CalTyped, CalTypeOK, Finishes
  <2>3. ended' \in [Tasks -> None..MaxClock]
    BY <1>6, <2>1 DEF CalTyped, CalTypeOK, Finishes
  <2> QED
    BY <1>6, <2>2, <2>3 DEF CalTyped, CalTypeOK, ReadsAreOwned, Finishes
<1>7. ASSUME NEW r \in Tasks, CompletesOwn(r) PROVE CalTyped'
  <2>1. CASE UNCHANGED hand
    BY <1>7, <2>1 DEF CalTyped, CalTypeOK, ReadsAreOwned, CompletesOwn
  <2>2. CASE Completes(r, r)
    <3> DEFINE new == [Loaded EXCEPT ![r].end = clock]
    <3>1. new \in [Tasks -> Rows] /\ Takes(r, "read", r, new) /\ r \in Writers
      BY <2>2, CompletesTyped DEF Writers
    <3> HIDE DEF new
    <3> QED
      BY <1>7, <3>1, TakesTyped DEF CalTyped, CalTypeOK, ReadsAreOwned, CompletesOwn, Hands
  <2> QED
    BY <1>7, <2>1, <2>2 DEF CompletesOwn
<1>8. ASSUME NEW r \in Tasks, Killed(r) PROVE CalTyped'
  <2>1. Quiet \in Hands /\ r \in Writers /\ Quiet.op = "none"
    BY RowsHave DEF CalTyped, Hands, Writers, Quiet
  <2>2. /\ hand' \in [Writers -> Hands] /\ hand'[r] = Quiet
        /\ \A q \in Writers \ {r} : hand'[q] = hand[q]
    BY <1>8, <2>1, HandsStay DEF CalTyped, Killed
  <2> QED
    BY <1>8, <2>1, <2>2 DEF CalTyped, CalTypeOK, ReadsAreOwned, Killed, Hands
<1>9. ASSUME NEW r \in Tasks, Closes(r) PROVE CalTyped'
  <2> DEFINE row == [Loaded[r] EXCEPT !.outcome = TRUE,
                                      !.post = IF @ = None THEN used ELSE @,
                                      !.late = (Loaded[r].post = None \/ @)]
             new == [Loaded EXCEPT ![r] = row]
  <2>1. Loaded \in [Tasks -> Rows] /\ Loaded[r] \in Rows /\ r \in Writers /\ Clerk \in Writers
    BY RowsHave DEF CalTyped, CalTypeOK, Writers
  <2>2. row \in Rows
    <3>1. /\ used \in None..MaxUse /\ clock \in None..MaxClock /\ Loaded[r].post \in None..MaxUse
          /\ Loaded[r].late \in BOOLEAN
      BY <2>1, Stamps DEF CalTyped, Rows
    <3>2. (IF Loaded[r].post = None THEN used ELSE Loaded[r].post) \in None..MaxUse
      BY <3>1
    <3>3. (Loaded[r].post = None \/ Loaded[r].late) \in BOOLEAN
      OBVIOUS
    <3> QED
      BY <2>1, <3>1, <3>2, <3>3, RowsStay
  <2>3. new \in [Tasks -> Rows] /\ Takes(Clerk, "save", r, new)
    BY <1>9, <2>1, <2>2 DEF Closes
  <2> HIDE DEF new
  <2> QED
    BY <1>9, <2>1, <2>3, TakesTyped, ErrandsCount DEF CalTyped, CalTypeOK, ReadsAreOwned,
        Closes, Hands
<1>10. ASSUME NEW r \in Tasks, ClosesDead(r) PROVE CalTyped'
  <2> DEFINE new == [Loaded EXCEPT ![r].end = clock]
  <2>1. new \in [Tasks -> Rows] /\ Takes(Clerk, "read", r, new) /\ r \in Writers /\ Clerk \in Writers
    BY <1>10, CompletesTyped DEF Writers, ClosesDead
  <2> HIDE DEF new
  <2> QED
    BY <1>10, <2>1, TakesTyped, ErrandsCount DEF CalTyped, CalTypeOK, ReadsAreOwned,
        ClosesDead, Hands
<1>11. ASSUME NEW p \in Writers, ReadsUsage(p) PROVE CalTyped'
  <2> DEFINE t == hand[p].task
             h == [hand[p] EXCEPT !.op = "save", !.rows[t].post = used, !.rows[t].late = FALSE]
  <2>1. hand[p] \in Hands /\ t \in Tasks /\ hand[p].rows[t] \in Rows
    BY <1>11 DEF CalTyped, CalTypeOK, ReadsAreOwned, Hands, ReadsUsage
  <2>2. [hand[p].rows[t] EXCEPT !.post = used, !.late = FALSE] \in Rows
    BY <2>1, Stamps, RowsStay DEF CalTyped
  <2>3. h \in Hands /\ h.op = "save" /\ hand' = [hand EXCEPT ![p] = h]
    BY <1>11, <2>1, <2>2 DEF Hands, ReadsUsage
  <2> HIDE DEF h
  <2>4. /\ hand' \in [Writers -> Hands] /\ hand'[p] = h
        /\ \A q \in Writers \ {p} : hand'[q] = hand[q]
    BY <2>1, <2>3, HandsStay DEF CalTyped
  <2> QED
    BY <1>11, <2>3, <2>4 DEF CalTyped, CalTypeOK, ReadsAreOwned, ReadsUsage, Hands
<1>12. ASSUME NEW p \in Writers, Empties(p) PROVE CalTyped'
  BY <1>12 DEF CalTyped, CalTypeOK, ReadsAreOwned, Empties, Passes
<1>13. ASSUME NEW p \in Writers, Fills(p) PROVE CalTyped'
  <2>1. Quiet \in Hands /\ Quiet.op = "none" /\ hand[p].rows \in [Tasks -> Rows]
    BY RowsHave DEF CalTyped, CalTypeOK, Hands, Quiet
  <2>2. /\ hand' \in [Writers -> Hands] /\ hand'[p] = Quiet
        /\ \A q \in Writers \ {p} : hand'[q] = hand[q]
    BY <1>13, <2>1, HandsStay DEF CalTyped, Fills
  <2> QED
    BY <1>13, <2>1, <2>2 DEF CalTyped, CalTypeOK, ReadsAreOwned, Fills, Hands
<1> QED
  BY <1>1, <1>2, <1>3, <1>4, <1>5, <1>6, <1>7, <1>8, <1>9, <1>10, <1>11, <1>12, <1>13
      DEF CalNext, Executor, Saves

-----------------------------------------------------------------------------
\* A file whose rows are dated stays so as time passes, runs start and end, and
\* fewer are mixed.
LEMMA FileStands ==
    ASSUME CalTypeOK, CalTypeOK', RunsAreDated, NEW f \in [Tasks -> Rows], IsDated(f), SeesMixed(f),
           clock' >= clock, mixed' \subseteq mixed,
           \A r \in Tasks : phase'[r] \in Live => phase[r] \in Live,
           \A r \in Tasks : ended'[r] = ended[r] \/ (phase[r] \in Live /\ ended'[r] = clock')
    PROVE  IsDated(f)' /\ SeesMixed(f)'
<1>1. \A r \in Tasks : f[r].at \in None..MaxClock /\ f[r].end \in None..MaxClock
  BY DEF Rows
<1>2. clock \in Nat /\ clock' \in Nat /\ \A r \in Tasks : ended[r] \in Int
  BY DEF CalTypeOK, None
<1>3. \A r \in Tasks : EndIn(f, r) \in Int /\ EndIn(f, r)' \in Int /\ EndIn(f, r) <= EndIn(f, r)'
  BY <1>1, <1>2 DEF EndIn, IsDated, RunsAreDated, None
<1>4. IsDated(f)'
  BY <1>1, <1>2 DEF IsDated, None
<1>5. ASSUME NEW r \in Tasks, NEW q \in Tasks, <<r, q>> \in mixed'
      PROVE  /\ f[q].at # None /\ f[r].at <= EndIn(f, q)'
             /\ Measured(f[r]) => f[q].at <= EndIn(f, r)'
  BY <1>1, <1>3, <1>5 DEF SeesMixed, None
<1> QED
  BY <1>4, <1>5 DEF SeesMixed

\* What stands, and is in hand, when the datums do.
LEMMA HandStands ==
    ASSUME NEW p \in Writers, HandIsSound(p), hand'[p].rows = hand[p].rows, datums' = datums,
           hand'[p].op # "none" => hand[p].op # "none",
           hand'[p].op = "read" => hand[p].op = "read" /\ hand'[p].task = hand[p].task,
           hand[p].op # "none" => IsDated(hand[p].rows)' /\ SeesMixed(hand[p].rows)'
    PROVE  HandIsSound(p)'
  BY SMTT(30) DEF HandIsSound, KeepsRows, MeasuresEnd, EndsLast, IsDated, SeesMixed, EndIn

\* A step that leaves the datums and what is in hand as they are, or lets go.
LEMMA OrderStands ==
    ASSUME CalTypeOK, CalTypeOK', CalOrder, datums' = datums, clock' >= clock, mixed' = mixed,
           own' = own,
           \A r \in Tasks : phase'[r] \in Live => phase[r] \in Live,
           \A r \in Tasks : ended'[r] = ended[r] \/ (phase[r] \in Live /\ ended'[r] = clock'),
           \A p \in Writers : \/ hand'[p] = hand[p]
                              \/ hand'[p].op = "none"
                              \/ /\ hand'[p].rows = hand[p].rows /\ hand[p].op # "none"
                                 /\ hand'[p].op # "read",
           OneAtATime', RunsAreDated'
    PROVE  CalOrder'
<1>1. ASSUME NEW f \in [Tasks -> Rows], IsDated(f), SeesMixed(f) PROVE IsDated(f)' /\ SeesMixed(f)'
  BY <1>1, FileStands DEF CalOrder
<1>2. IsDated(datums)' /\ SeesMixed(datums)'
  <2> PICK f \in [Tasks -> Rows] : f = datums
    BY DEF CalTypeOK
  <2>1. IsDated(f) /\ SeesMixed(f)
    BY DEF CalOrder
  <2>2. IsDated(f)' /\ SeesMixed(f)'
    BY <1>1, <2>1
  <2> QED
    BY <2>2 DEF IsDated, SeesMixed, EndIn
<1>3. ASSUME NEW p \in Writers PROVE HandIsSound(p)'
  <2>1. CASE hand'[p].op = "none"
    BY <2>1 DEF HandIsSound
  <2>2. CASE hand'[p].op # "none"
    <3>1. hand'[p].rows = hand[p].rows /\ hand[p].op # "none" /\ HandIsSound(p)
      BY <2>2 DEF CalOrder
    <3> PICK f \in [Tasks -> Rows] : f = hand[p].rows
      BY DEF CalTypeOK
    <3>2. IsDated(f) /\ SeesMixed(f)
      BY <3>1 DEF HandIsSound
    <3>3. IsDated(f)' /\ SeesMixed(f)'
      BY <1>1, <3>2
    <3>4. IsDated(hand[p].rows)' /\ SeesMixed(hand[p].rows)'
      BY <3>1, <3>3 DEF IsDated, SeesMixed, EndIn
    <3> QED
      BY <2>2, <3>1, <3>4, HandStands
  <2> QED
    BY <2>1, <2>2
<1>4. MixedConsumed'
  BY DEF CalOrder, MixedConsumed
<1> QED
  BY <1>2, <1>3, <1>4 DEF CalOrder

\* An operation starts: nothing else is in hand, and the file is whole.
LEMMA TakesAlone ==
    ASSUME CalTypeOK, CalOrder, ~Overlaps, NEW p \in Writers, NEW op, NEW r, NEW new,
           Takes(p, op, r, new)
    PROVE  Loaded = datums /\ ~torn /\ \A q \in Writers : hand[q].op = "none"
<1>1. \A q \in Writers : hand[q].op = "none"
  BY DEF Takes, Free
<1>2. ~torn
  BY <1>1 DEF CalOrder, OneAtATime
<1> QED
  BY <1>1, <1>2 DEF Loaded

\* What an operation makes of the datums goes on as they do.
LEMMA OrderTaken ==
    ASSUME CalTyped, CalTypeOK', CalOrder, ~Overlaps, clock' = clock, datums' = datums, torn' = torn,
           mixed' \subseteq mixed, own' = own, ended' = ended,
           \A x \in Tasks : phase'[x] \in Live => phase[x] \in Live,
           \A x \in Tasks : phase'[x] = "new" => phase[x] = "new",
           NEW p \in Writers, NEW op \in {"read", "save"}, NEW r \in Writers,
           NEW new \in [Tasks -> Rows],
           Takes(p, op, r, new), op = "read" => r \in Tasks,
           p \in Tasks => phase'[p] # "new",
           IsDated(new), SeesMixed(new)', KeepsRows(new), MeasuresEnd(new),
           op = "read" => EndsLast(new, r)
    PROVE  CalOrder'
<1>1. /\ hand'[p] = [op |-> op, task |-> r, rows |-> new]
      /\ \A q \in Writers \ {p} : hand'[q] = hand[q]
  BY TakesTyped
<1>2. ~torn /\ \A q \in Writers : hand[q].op = "none"
  BY TakesAlone DEF CalTyped
<1>3. OneAtATime'
  BY <1>1, <1>2 DEF OneAtATime
<1>4. RunsAreDated'
  BY <1>1 DEF CalOrder, RunsAreDated, Writers
<1>5. MixedConsumed'
  BY DEF CalOrder, MixedConsumed
<1>6. IsDated(datums)' /\ SeesMixed(datums)'
  <2> PICK f \in [Tasks -> Rows] : f = datums
    BY DEF CalTyped, CalTypeOK
  <2>1. IsDated(f)' /\ SeesMixed(f)'
    BY FileStands DEF CalOrder, CalTyped, CalTypeOK
  <2> QED
    BY <2>1 DEF IsDated, SeesMixed, EndIn
<1>7. HandIsSound(p)'
  <2>1. hand'[p].op = op /\ hand'[p].task = r /\ hand'[p].rows = new
    BY <1>1
  <2>2. IsDated(new)'
    BY DEF IsDated
  <2>3. KeepsRows(new)' /\ MeasuresEnd(new)' /\ (op = "read" => EndsLast(new, r)')
    BY DEF KeepsRows, MeasuresEnd, EndsLast
  <2> QED
    BY <2>1, <2>2, <2>3 DEF HandIsSound, IsDated, SeesMixed, KeepsRows, MeasuresEnd, EndsLast, EndIn
<1>8. \A q \in Writers \ {p} : HandIsSound(q)'
  BY <1>1, <1>2 DEF HandIsSound
<1>9. \A x \in Tasks : Measured(datums'[x]) => datums'[x].end # None
  BY DEF CalOrder
<1> QED
  BY <1>3, <1>4, <1>5, <1>6, <1>7, <1>8, <1>9 DEF CalOrder

\* A row that is stamped with an end, or not at all, and has a reading of its
\* end only with it or as before, may take the place of that of r.
LEMMA RowTakesPlace ==
    ASSUME CalTypeOK, CalOrder, NEW r \in Tasks, NEW row \in Rows,
           row.at = datums[r].at, datums[r].outcome => row.outcome,
           \/ row.end = clock /\ phase[r] \notin Live
           \/ row.end = datums[r].end /\ (Measured(row) => Measured(datums[r]))
    PROVE  LET new == [datums EXCEPT ![r] = row] IN
           /\ IsDated(new) /\ SeesMixed(new) /\ KeepsRows(new) /\ MeasuresEnd(new)
           /\ row.end = clock => EndsLast(new, r)
<1> DEFINE new == [datums EXCEPT ![r] = row]
<1>1. /\ new \in [Tasks -> Rows] /\ new[r] = row
      /\ \A q \in Tasks \ {r} : new[q] = datums[q]
      /\ \A q \in Tasks : new[q].at = datums[q].at
  BY DEF CalTypeOK
<1> HIDE DEF new
<1>2. /\ clock \in Nat /\ \A q \in Tasks : ended[q] \in None..MaxClock
      /\ \A q \in Tasks : /\ new[q].at \in None..MaxClock /\ new[q].end \in None..MaxClock
                          /\ datums[q].at \in None..MaxClock /\ datums[q].end \in None..MaxClock
  BY <1>1 DEF CalTypeOK, Rows
<1>3. IsDated(datums) /\ SeesMixed(datums) /\ RunsAreDated
  BY DEF CalOrder
<1>4. IsDated(new)
  BY <1>1, <1>2, <1>3 DEF IsDated, None
<1>5. \A q \in Tasks : new[q].at <= clock
  BY <1>4 DEF IsDated
<1>6. row.end = clock => row.end # None /\ EndsLast(new, r)
  BY <1>1, <1>2, <1>5 DEF EndsLast, None
<1>7. \A q \in Tasks : EndIn(new, q) = EndIn(datums, q) \/ (q = r /\ EndIn(new, q) = clock)
  BY <1>1, <1>2 DEF EndIn, None
<1>8. SeesMixed(new)
  <2> SUFFICES ASSUME NEW x \in Tasks, NEW q \in Tasks, <<x, q>> \in mixed
               PROVE  /\ new[q].at # None /\ new[x].at <= EndIn(new, q)
                      /\ Measured(new[x]) => new[q].at <= EndIn(new, x)
    BY DEF SeesMixed
  <2>1. /\ datums[q].at # None /\ datums[x].at <= EndIn(datums, q)
        /\ Measured(datums[x]) => datums[q].at <= EndIn(datums, x)
    BY <1>3 DEF SeesMixed
  <2>2. new[q].at # None /\ new[x].at <= EndIn(new, q)
    BY <1>1, <1>5, <1>7, <2>1
  <2>3. ASSUME Measured(new[x]) PROVE new[q].at <= EndIn(new, x)
    <3>1. CASE EndIn(new, x) = clock
      BY <1>5, <3>1
    <3>2. CASE EndIn(new, x) = EndIn(datums, x) /\ (x # r \/ row.end # clock)
      <4>1. Measured(datums[x])
        BY <1>1, <2>3, <3>2
      <4> QED
        BY <1>1, <2>1, <3>2, <4>1
    <3>3. CASE x = r /\ row.end = clock
      <4>1. EndIn(new, x) = clock
        BY <1>1, <1>6, <3>3 DEF EndIn
      <4> QED
        BY <1>5, <4>1
    <3> QED
      BY <1>7, <3>1, <3>2, <3>3
  <2> QED
    BY <2>2, <2>3
<1>9. KeepsRows(new)
  BY <1>1, <1>6 DEF KeepsRows
<1>10. MeasuresEnd(new)
  BY <1>1, <1>6 DEF MeasuresEnd, CalOrder
<1> QED
  BY <1>4, <1>6, <1>8, <1>9, <1>10 DEF new

\* A launch stamps a row anew, and forgets who was beside the run before.
LEMMA CalRecordLaunch ==
    ASSUME CalTyped, CalTypeOK', CalOrder, ~Overlaps, NEW r \in Tasks, RecordLaunch(r)
    PROVE  CalOrder'
<1> DEFINE row == [NoRow EXCEPT !.at = clock,
                     !.pre = IF phase[r] = "started" THEN hand[r].rows[r].pre ELSE datums[r].pre,
                     !.outcome = Loaded[r].outcome]
<1>1. Takes(r, "save", r, [Loaded EXCEPT ![r] = row]) /\ r \in Writers
  BY DEF RecordLaunch, Writers
<1>2. Loaded = datums
  BY <1>1, TakesAlone DEF CalTyped
<1>4. /\ row.at = clock /\ row.end = None /\ row.post = None /\ ~Measured(row)
      /\ row.outcome = datums[r].outcome /\ row \in Rows
  <2>1. row.at = clock /\ row.end = None /\ row.post = None /\ row.outcome = datums[r].outcome
    BY <1>2 DEF NoRow
  <2>2. row \in Rows
    <3>1. /\ hand[r].rows[r] \in Rows /\ datums[r] \in Rows
      BY <1>1 DEF CalTyped, CalTypeOK
    <3>2. /\ hand[r].rows[r].pre \in None..MaxUse /\ datums[r].pre \in None..MaxUse
          /\ Loaded[r].outcome \in BOOLEAN
      BY <1>2, <3>1 DEF Rows
    <3>3. NoRow \in Rows /\ clock \in None..MaxClock
      BY RowsHave, Stamps DEF CalTyped
    <3> QED
      BY <3>2, <3>3, RowsStay
  <2> QED
    BY <2>1, <2>2 DEF Measured
<1> HIDE DEF row
<1>3. PICK new \in [Tasks -> Rows] : new = [datums EXCEPT ![r] = row] /\ Takes(r, "save", r, new)
  BY <1>1, <1>2, <1>4 DEF CalTyped, CalTypeOK
<1>5. /\ new \in [Tasks -> Rows] /\ new[r] = row
      /\ \A q \in Tasks \ {r} : new[q] = datums[q]
  BY <1>3 DEF CalTyped, CalTypeOK
<1>6. /\ phase[r] \in Live /\ phase' = [phase EXCEPT ![r] = "running"] /\ phase'[r] = "running"
      /\ mixed' = {pair \in mixed : r # pair[1]} /\ (datums[r].at = None \/ own[r] = 0)
      /\ UNCHANGED <<clock, used, own, datums, torn, ended, errands>>
  BY DEF RecordLaunch, Live, CalTyped, CalTypeOK
<1>7. IsDated(datums) /\ SeesMixed(datums) /\ RunsAreDated /\ MixedConsumed
  BY DEF CalOrder
<1>8. clock \in Nat
  BY DEF CalTyped, CalTypeOK
<1>9. IsDated(new)
  BY <1>4, <1>5, <1>7, <1>8 DEF IsDated, None
<1>10. KeepsRows(new) /\ MeasuresEnd(new)
  BY <1>4, <1>5, <1>6, <1>7, <1>8 DEF KeepsRows, MeasuresEnd, CalOrder, IsDated, None
<1>11. SeesMixed(new)'
  <2> SUFFICES ASSUME NEW x \in Tasks, NEW q \in Tasks, <<x, q>> \in mixed'
               PROVE  /\ new[q].at # None /\ new[x].at <= EndIn(new, q)'
                      /\ Measured(new[x]) => new[q].at <= EndIn(new, x)'
    BY DEF SeesMixed
  <2>1. x # r /\ <<x, q>> \in mixed
    BY <1>6
  <2>2. own[q] > 0 /\ datums[q].at # None
    BY <1>7, <2>1 DEF MixedConsumed, SeesMixed
  <2>3. q # r
    BY <1>6, <2>2
  <2>4. /\ datums[x].at <= EndIn(datums, q)
        /\ Measured(datums[x]) => datums[q].at <= EndIn(datums, x)
    BY <1>7, <2>1 DEF SeesMixed
  <2>5. new[x] = datums[x] /\ new[q] = datums[q]
    BY <1>5, <2>1, <2>3
  <2> QED
    BY <1>6, <2>2, <2>4, <2>5 DEF EndIn
<1>12. \A x \in Tasks :
           (phase'[x] \in Live => phase[x] \in Live) /\ (phase'[x] = "new" => phase[x] = "new")
  BY <1>6 DEF CalTyped, CalTypeOK
<1>13. mixed' \subseteq mixed
  BY <1>6
<1> QED
  BY <1>1, <1>3, <1>5, <1>6, <1>9, <1>10, <1>11, <1>12, <1>13, OrderTaken

\* A row is stamped by a completion of r, by its own executor or the clerk.
LEMMA OrderCompleted ==
    ASSUME CalTyped, CalTypeOK', CalOrder, ~Overlaps, NEW p \in Writers, NEW r \in Tasks,
           Completes(p, r), phase[r] \notin Live, phase'[r] \notin Live,
           \A x \in Tasks \ {r} : phase'[x] = phase[x],
           p \in Tasks => p = r,
           UNCHANGED <<clock, own, datums, torn, ended, mixed>>
    PROVE  CalOrder'
<1>1. r \in Writers /\ Takes(p, "read", r, [Loaded EXCEPT ![r].end = clock])
  BY CompletesTyped
<1>2. Loaded = datums
  BY <1>1, TakesAlone DEF CalTyped
<1> DEFINE row == [datums[r] EXCEPT !.end = clock]
<1>3. /\ row \in Rows /\ row.at = datums[r].at /\ row.outcome = datums[r].outcome /\ row.end = clock
  <2>1. datums[r] \in Rows /\ clock \in None..MaxClock /\ used \in None..MaxUse
    BY Stamps DEF CalTyped, CalTypeOK
  <2>2. row \in Rows
    BY <2>1, RowsStay
  <2> QED
    BY <2>1, <2>2 DEF Rows
<1>4. Takes(p, "read", r, [datums EXCEPT ![r] = row])
  BY <1>1, <1>2
<1> HIDE DEF row
<1>5. PICK new \in [Tasks -> Rows] : new = [datums EXCEPT ![r] = row]
  BY <1>3 DEF CalTyped, CalTypeOK
<1>6. Takes(p, "read", r, new)
  BY <1>4, <1>5
<1>7. IsDated(new) /\ SeesMixed(new) /\ KeepsRows(new) /\ MeasuresEnd(new) /\ EndsLast(new, r)
  BY <1>3, <1>5, RowTakesPlace DEF CalTyped
<1>8. SeesMixed(new)'
  BY <1>7 DEF SeesMixed, EndIn
<1>9. \A x \in Tasks :
          (phase'[x] \in Live => phase[x] \in Live) /\ (phase'[x] = "new" => phase[x] = "new")
  BY DEF Live
<1>10. p \in Tasks => phase'[p] # "new"
  BY DEF Live
<1> QED
  BY <1>1, <1>6, <1>7, <1>8, <1>9, <1>10, OrderTaken

\* The owner closes a row: the outcome, and a reading that is late.
LEMMA CalCloses ==
    ASSUME CalTyped, CalTypeOK', CalOrder, ~Overlaps, NEW r \in Tasks, Closes(r)
    PROVE  CalOrder'
<1> DEFINE row == [datums[r] EXCEPT !.outcome = TRUE,
                                    !.post = IF @ = None THEN used ELSE @,
                                    !.late = (datums[r].post = None \/ @)]
<1>1. /\ Loaded = datums /\ Clerk \in Writers /\ r \in Writers /\ Clerk \notin Tasks
      /\ UNCHANGED <<clock, used, own, datums, torn, phase, ended, mixed>>
  BY TakesAlone, CalibrationAssumption DEF Closes, Writers, CalTyped
<1>2. Takes(Clerk, "save", r, [datums EXCEPT ![r] = row])
  BY <1>1 DEF Closes
<1>3. /\ row \in Rows /\ row.at = datums[r].at /\ row.end = datums[r].end /\ row.outcome = TRUE
      /\ Measured(row) => Measured(datums[r])
  <2>1. datums[r] \in Rows /\ used \in None..MaxUse /\ clock \in None..MaxClock
    BY Stamps DEF CalTyped, CalTypeOK
  <2>2. (IF datums[r].post = None THEN used ELSE datums[r].post) \in None..MaxUse
    BY <2>1 DEF Rows
  <2>3. (datums[r].post = None \/ datums[r].late) \in BOOLEAN
    OBVIOUS
  <2>4. row \in Rows
    BY <2>1, <2>2, <2>3, RowsStay
  <2>5. /\ row.at = datums[r].at /\ row.end = datums[r].end /\ row.outcome = TRUE
        /\ row.late = (datums[r].post = None \/ datums[r].late)
    BY <2>1 DEF Rows
  <2> QED
    BY <2>4, <2>5 DEF Measured
<1> HIDE DEF row
<1>4. PICK new \in [Tasks -> Rows] : new = [datums EXCEPT ![r] = row] /\ Takes(Clerk, "save", r, new)
  BY <1>2, <1>3 DEF CalTyped, CalTypeOK
<1>5. IsDated(new) /\ SeesMixed(new) /\ KeepsRows(new) /\ MeasuresEnd(new)
  BY <1>3, <1>4, RowTakesPlace DEF CalTyped
<1>6. SeesMixed(new)'
  BY <1>1, <1>5 DEF SeesMixed, EndIn
<1> QED
  BY <1>1, <1>4, <1>5, <1>6, OrderTaken

\* The rows of runs that have ended get their end.
LEMMA CalReconciles ==
    ASSUME CalTyped, CalTypeOK', CalOrder, ~Overlaps, Reconciles
    PROVE  CalOrder'
<1>1. /\ Loaded = datums /\ Clerk \in Writers /\ Clerk \notin Tasks
      /\ Takes(Clerk, "save", Clerk, [r \in Tasks |-> Reconciled(r, Loaded[r])])
      /\ UNCHANGED <<clock, used, own, datums, torn, phase, ended, mixed>>
  BY TakesAlone, CalibrationAssumption DEF Reconciles, Writers, CalTyped
<1>2. \A r \in Tasks :
          LET row == Reconciled(r, datums[r]) IN
          /\ row \in Rows /\ row.at = datums[r].at /\ row.post = datums[r].post
          /\ row.late = datums[r].late /\ row.outcome = datums[r].outcome
          /\ \/ row.end = datums[r].end
             \/ datums[r].end = None /\ ended[r] # None /\ row.end = ended[r]
  <2> SUFFICES ASSUME NEW r \in Tasks
               PROVE  LET row == Reconciled(r, datums[r]) IN
                      /\ row \in Rows /\ row.at = datums[r].at /\ row.post = datums[r].post
                      /\ row.late = datums[r].late /\ row.outcome = datums[r].outcome
                      /\ \/ row.end = datums[r].end
                         \/ datums[r].end = None /\ ended[r] # None /\ row.end = ended[r]
    OBVIOUS
  <2>1. datums[r] \in Rows /\ ended[r] \in None..MaxClock
    BY DEF CalTyped, CalTypeOK
  <2> QED
    BY <2>1 DEF Reconciled, Rows
<1>3. PICK new \in [Tasks -> Rows] : new = [r \in Tasks |-> Reconciled(r, datums[r])]
  BY <1>2
<1>4. Takes(Clerk, "save", Clerk, new)
  BY <1>1, <1>3
<1>5. \A r \in Tasks :
          /\ new[r].at = datums[r].at /\ Measured(new[r]) = Measured(datums[r])
          /\ new[r].outcome = datums[r].outcome
          /\ \/ new[r].end = datums[r].end
             \/ datums[r].end = None /\ ended[r] # None /\ new[r].end = ended[r]
  BY <1>2, <1>3 DEF Measured
<1>6. IsDated(datums) /\ SeesMixed(datums) /\ RunsAreDated
  BY DEF CalOrder
<1>7. IsDated(new)
  BY <1>5, <1>6 DEF IsDated, RunsAreDated
<1>8. \A r \in Tasks : EndIn(new, r) = EndIn(datums, r)
  BY <1>5 DEF EndIn
<1>9. SeesMixed(new)
  BY <1>5, <1>6, <1>8 DEF SeesMixed
<1>10. KeepsRows(new)
  BY <1>5 DEF KeepsRows
<1>11. MeasuresEnd(new)
  BY <1>5 DEF MeasuresEnd, CalOrder
<1>12. SeesMixed(new)'
  BY <1>1, <1>9 DEF SeesMixed, EndIn
<1> QED
  BY <1>1, <1>4, <1>7, <1>10, <1>11, <1>12, OrderTaken

\* Time passes.
LEMMA CalSecondPasses ==
    ASSUME CalTyped, CalTypeOK', CalOrder, SecondPasses PROVE CalOrder'
<1>1. clock \in Nat /\ clock' = clock + 1 /\ \A r \in Tasks : ended[r] \in None..MaxClock
  BY DEF CalTyped, CalTypeOK, SecondPasses
<1>2. OneAtATime' /\ RunsAreDated'
  BY <1>1 DEF CalOrder, OneAtATime, RunsAreDated, SecondPasses, None
<1> QED
  BY <1>1, <1>2, OrderStands DEF CalTyped, SecondPasses

\* A run starts with nothing in hand but the launch reading.
LEMMA CalStarts ==
    ASSUME CalTyped, CalTypeOK', CalOrder, NEW r \in Tasks, Starts(r) PROVE CalOrder'
<1>1. hand[r].op = "none" /\ r \in Writers /\ phase[r] \in Live
  BY DEF CalOrder, RunsAreDated, Starts, Writers, Live
<1>2. /\ hand'[r].op = "none" /\ \A q \in Writers \ {r} : hand'[q] = hand[q]
      /\ phase'[r] = "started" /\ \A q \in Tasks \ {r} : phase'[q] = phase[q]
  BY <1>1 DEF CalTyped, CalTypeOK, Starts
<1>3. UNCHANGED <<clock, own, datums, torn, ended, mixed>>
  BY DEF Starts
<1>4. OneAtATime'
  BY <1>1, <1>2, <1>3 DEF CalOrder, OneAtATime
<1>5. RunsAreDated'
  BY <1>1, <1>2, <1>3 DEF CalOrder, RunsAreDated, Live, Writers
<1>6. clock' >= clock
  BY <1>3 DEF CalTyped, CalTypeOK
<1>7. \A q \in Tasks : phase'[q] \in Live => phase[q] \in Live
  BY <1>1, <1>2
<1> QED
  BY <1>2, <1>3, <1>4, <1>5, <1>6, <1>7, OrderStands DEF CalTyped

\* A run ends now.
LEMMA CalFinishes ==
    ASSUME CalTyped, CalTypeOK', CalOrder, NEW r \in Tasks, Finishes(r) PROVE CalOrder'
<1>1. /\ phase[r] \in Live /\ phase'[r] = "ended" /\ \A q \in Tasks \ {r} : phase'[q] = phase[q]
      /\ ended'[r] = clock /\ \A q \in Tasks \ {r} : ended'[q] = ended[q]
      /\ UNCHANGED <<clock, own, datums, torn, hand, mixed>> /\ clock \in Nat
  BY DEF CalTyped, CalTypeOK, Finishes, Live
<1>2. OneAtATime'
  BY <1>1 DEF CalOrder, OneAtATime
<1>3. RunsAreDated'
  BY <1>1 DEF CalOrder, RunsAreDated, Live
<1>4. \A q \in Tasks : phase'[q] \in Live => phase[q] \in Live
  BY <1>1
<1>5. clock' >= clock /\ \A q \in Tasks : ended'[q] = ended[q] \/ (phase[q] \in Live /\ ended'[q] = clock')
  BY <1>1
<1> QED
  BY <1>1, <1>2, <1>3, <1>4, <1>5, OrderStands DEF CalTyped

\* A run that has ended completes its own row, if it has one.
LEMMA CalCompletesOwn ==
    ASSUME CalTyped, CalTypeOK', CalOrder, ~Overlaps, NEW r \in Tasks, CompletesOwn(r)
    PROVE  CalOrder'
<1>1. /\ phase[r] \notin Live /\ phase'[r] = "over" /\ \A q \in Tasks \ {r} : phase'[q] = phase[q]
      /\ UNCHANGED <<clock, own, datums, torn, ended, mixed>> /\ r \in Writers
  BY DEF CalTyped, CalTypeOK, CompletesOwn, Live, Writers
<1>2. CASE UNCHANGED hand
  <2>1. OneAtATime'
    BY <1>1, <1>2 DEF CalOrder, OneAtATime
  <2>2. RunsAreDated'
    BY <1>1, <1>2 DEF CalOrder, RunsAreDated, Live
  <2>3. clock' >= clock
    BY <1>1 DEF CalTyped, CalTypeOK
  <2>4. \A q \in Tasks : phase'[q] \in Live => phase[q] \in Live
    BY <1>1 DEF Live
  <2> QED
    BY <1>1, <1>2, <2>1, <2>2, <2>3, <2>4, OrderStands DEF CalTyped
<1>3. CASE Completes(r, r)
  <2>1. phase'[r] \notin Live
    BY <1>1 DEF Live
  <2> QED
    BY <1>1, <1>3, <2>1, OrderCompleted
<1> QED
  BY <1>2, <1>3 DEF CompletesOwn

\* A run is killed: what it had in hand is dropped, unless the file is empty.
LEMMA CalKilled ==
    ASSUME CalTyped, CalTypeOK', CalOrder, NEW r \in Tasks, Killed(r) PROVE CalOrder'
<1>1. /\ r \in Writers /\ hand[r].op # "fill"
      /\ hand'[r].op = "none" /\ \A q \in Writers \ {r} : hand'[q] = hand[q]
      /\ phase'[r] = "dead" /\ \A q \in Tasks \ {r} : phase'[q] = phase[q]
      /\ UNCHANGED <<clock, own, datums, torn, ended, mixed>>
  BY DEF CalTyped, CalTypeOK, Killed, Writers, Quiet
<1>2. OneAtATime'
  BY <1>1 DEF CalOrder, OneAtATime
<1>3. RunsAreDated'
  BY <1>1 DEF CalOrder, RunsAreDated, Live, Writers
<1>4. clock' >= clock
  BY <1>1 DEF CalTyped, CalTypeOK
<1>5. \A q \in Tasks : phase'[q] \in Live => phase[q] \in Live
  BY <1>1 DEF Live
<1> QED
  BY <1>1, <1>2, <1>3, <1>4, <1>5, OrderStands DEF CalTyped

\* The clerk completes the row of a run that is dead.
LEMMA CalClosesDead ==
    ASSUME CalTyped, CalTypeOK', CalOrder, ~Overlaps, NEW r \in Tasks, ClosesDead(r)
    PROVE  CalOrder'
<1>1. /\ Clerk \in Writers /\ Clerk \notin Tasks /\ Completes(Clerk, r) /\ phase[r] \notin Live
      /\ phase' = phase /\ UNCHANGED <<clock, own, datums, torn, ended, mixed>>
  BY CalibrationAssumption DEF ClosesDead, Writers, Live
<1> QED
  BY <1>1, OrderCompleted

\* A run that goes on consumes: the file has its row, which is not over, beside
\* those that are open.
LEMMA ConsumptionIsSeen ==
    ASSUME CalTyped, CalOrder, NEW r \in Tasks, Consumes(r),
           NEW f \in [Tasks -> Rows], IsDated(f), SeesMixed(f), KeepsRows(f), MeasuresEnd(f)
    PROVE  SeesMixed(f)'
<1> SUFFICES ASSUME NEW x \in Tasks, NEW q \in Tasks, <<x, q>> \in mixed', <<x, q>> \notin mixed
             PROVE  /\ f[q].at # None /\ f[x].at <= EndIn(f, q)
                    /\ Measured(f[x]) => f[q].at <= EndIn(f, x)
  BY DEF SeesMixed, EndIn, Consumes
<1>1. q = r /\ x # r /\ Open(x) /\ Open(r)
  BY DEF Consumes
<1>2. phase[r] \in Live /\ ended[r] = None /\ f[r].end = None
  BY DEF Consumes, Live, IsDated, CalOrder, RunsAreDated
<1>3. f[q].at # None
  BY <1>1 DEF KeepsRows, Open
<1>4. f[x].at <= EndIn(f, q)
  BY <1>1, <1>2 DEF IsDated, EndIn
<1>5. Measured(f[x]) => f[q].at <= EndIn(f, x)
  BY <1>1 DEF MeasuresEnd, EndsLast, Open, EndIn
<1> QED
  BY <1>3, <1>4, <1>5

\* A run consumes: who has an open row beside it sees it in the file.
LEMMA CalConsumes ==
    ASSUME CalTyped, CalTypeOK', CalOrder, NEW r \in Tasks, Consumes(r) PROVE CalOrder'
<1>1. UNCHANGED <<clock, datums, torn, phase, ended, hand>>
  BY DEF Consumes
<1>2. OneAtATime' /\ RunsAreDated' /\ IsDated(datums)'
  BY <1>1 DEF CalOrder, OneAtATime, RunsAreDated, IsDated
<1>3. SeesMixed(datums)'
  <2> PICK f \in [Tasks -> Rows] : f = datums
    BY DEF CalTyped, CalTypeOK
  <2>1. IsDated(f) /\ SeesMixed(f) /\ KeepsRows(f) /\ MeasuresEnd(f)
    BY DEF CalOrder, KeepsRows, MeasuresEnd, EndsLast
  <2>2. SeesMixed(f)'
    BY <2>1, ConsumptionIsSeen
  <2> QED
    BY <1>1, <2>2 DEF SeesMixed, EndIn
<1>4. ASSUME NEW p \in Writers PROVE HandIsSound(p)'
  <2>1. CASE hand[p].op = "none"
    BY <1>1, <2>1 DEF HandIsSound
  <2>2. CASE hand[p].op # "none"
    <3> PICK f \in [Tasks -> Rows] : f = hand[p].rows
      BY DEF CalTyped, CalTypeOK
    <3>1. IsDated(f) /\ SeesMixed(f) /\ KeepsRows(f) /\ MeasuresEnd(f)
      BY <2>2 DEF CalOrder, HandIsSound
    <3>2. SeesMixed(f)'
      BY <3>1, ConsumptionIsSeen
    <3>3. IsDated(f)' /\ KeepsRows(f)' /\ MeasuresEnd(f)'
      BY <1>1, <3>1 DEF IsDated, KeepsRows, MeasuresEnd, EndsLast
    <3>4. hand[p].op = "read" => EndsLast(hand[p].rows, hand[p].task)
      BY <2>2 DEF CalOrder, HandIsSound
    <3> QED
      BY <1>1, <3>2, <3>3, <3>4
          DEF HandIsSound, IsDated, SeesMixed, KeepsRows, MeasuresEnd, EndsLast, EndIn
  <2> QED
    BY <2>1, <2>2
<1>5. MixedConsumed'
  <2> SUFFICES ASSUME NEW x \in Tasks, NEW q \in Tasks, <<x, q>> \in mixed'
               PROVE  x # q /\ own'[q] > 0
    BY DEF MixedConsumed
  <2>1. own[q] \in Nat /\ own'[q] = (IF q = r THEN own[q] + 1 ELSE own[q])
    BY DEF CalTyped, CalTypeOK, Consumes
  <2>2. CASE <<x, q>> \in mixed
    BY <2>1, <2>2 DEF CalOrder, MixedConsumed
  <2>3. CASE <<x, q>> \notin mixed
    <3>1. q = r /\ x # r
      BY <2>3 DEF Consumes
    <3> QED
      BY <2>1, <3>1
  <2> QED
    BY <2>2, <2>3
<1>6. \A x \in Tasks : Measured(datums'[x]) => datums'[x].end # None
  BY <1>1 DEF CalOrder
<1> QED
  BY <1>2, <1>3, <1>4, <1>5, <1>6 DEF CalOrder

\* The row of a run that has just been stamped has the reading of its end.
LEMMA CalReadsUsage ==
    ASSUME CalTyped, CalTypeOK', CalOrder, NEW p \in Writers, ReadsUsage(p) PROVE CalOrder'
<1> PICK t \in Tasks : t = hand[p].task
  BY DEF CalTyped, ReadsAreOwned, ReadsUsage
<1> PICK f \in [Tasks -> Rows] : f = hand[p].rows
  BY DEF CalTyped, CalTypeOK
<1> DEFINE row == [f[t] EXCEPT !.post = used, !.late = FALSE]
<1>0. row \in Rows
  BY Stamps, RowsStay DEF CalTyped
<1> PICK g \in [Tasks -> Rows] : g = [f EXCEPT ![t] = row]
  BY <1>0
<1>1. /\ hand[p].op = "read" /\ hand'[p].op = "save" /\ hand'[p].rows = g
      /\ \A q \in Writers \ {p} : hand'[q] = hand[q]
      /\ UNCHANGED <<clock, own, datums, torn, phase, ended, mixed>>
  <2> DEFINE h == [hand[p] EXCEPT !.op = "save", !.rows[t].post = used, !.rows[t].late = FALSE]
  <2>0. hand[p] \in Hands /\ hand \in [Writers -> Hands]
    BY DEF CalTyped, CalTypeOK, Hands
  <2>1. hand[p] \in Hands /\ hand' = [hand EXCEPT ![p] = h] /\ hand[p].op = "read"
    BY <2>0 DEF ReadsUsage, Hands
  <2>2. h.op = "save" /\ h.rows = g
    BY <2>1 DEF Hands
  <2> HIDE DEF h
  <2>3. hand'[p] = h /\ \A q \in Writers \ {p} : hand'[q] = hand[q]
    BY <2>1 DEF CalTyped, CalTypeOK
  <2> QED
    BY <2>1, <2>2, <2>3 DEF ReadsUsage
<1>2. /\ g[t] = row /\ \A r \in Tasks \ {t} : g[r] = f[r]
  OBVIOUS
<1>3. \A r \in Tasks : /\ g[r].at = f[r].at /\ g[r].end = f[r].end /\ g[r].outcome = f[r].outcome
                       /\ EndIn(g, r) = EndIn(f, r)
                       /\ Measured(g[r]) => r = t \/ Measured(f[r])
  <2>1. row.at = f[t].at /\ row.end = f[t].end /\ row.outcome = f[t].outcome
    BY DEF Rows
  <2> HIDE DEF row
  <2> QED
    BY <1>2, <2>1 DEF EndIn
<1>4. IsDated(f) /\ SeesMixed(f) /\ KeepsRows(f) /\ MeasuresEnd(f) /\ EndsLast(f, t)
  BY <1>1 DEF CalOrder, HandIsSound
<1>5. IsDated(g) /\ KeepsRows(g) /\ EndsLast(g, t)
  BY ZenonT(60), <1>3, <1>4 DEF IsDated, KeepsRows, EndsLast
<1>6. SeesMixed(g)
  <2> SUFFICES ASSUME NEW x \in Tasks, NEW q \in Tasks, <<x, q>> \in mixed
               PROVE  /\ g[q].at # None /\ g[x].at <= EndIn(g, q)
                      /\ Measured(g[x]) => g[q].at <= EndIn(g, x)
    BY DEF SeesMixed
  <2>1. g[q].at # None /\ g[x].at <= EndIn(g, q)
    BY SMTT(30), <1>3, <1>4 DEF SeesMixed
  <2>2. CASE x = t
    <3>1. g[q].at <= g[t].end /\ EndIn(g, t) = g[t].end
      BY <1>5 DEF EndsLast, EndIn
    <3> QED
      BY <2>1, <2>2, <3>1
  <2>3. CASE x # t
    BY <1>3, <1>4, <2>1, <2>3 DEF SeesMixed
  <2> QED
    BY <2>2, <2>3
<1>7. MeasuresEnd(g)
  <2> SUFFICES ASSUME NEW r \in Tasks, Measured(g[r])
               PROVE  g[r].end # None /\ (datums[r].end = None => EndsLast(g, r))
    BY DEF MeasuresEnd
  <2>1. CASE r = t
    BY <1>5, <2>1 DEF EndsLast
  <2>2. CASE r # t
    BY <1>3, <1>4, <2>2 DEF MeasuresEnd, EndsLast
  <2> QED
    BY <2>1, <2>2
<1>8. HandIsSound(p)'
  <2>1. IsDated(g)' /\ SeesMixed(g)' /\ KeepsRows(g)' /\ MeasuresEnd(g)'
    BY <1>1, <1>5, <1>6, <1>7 DEF IsDated, SeesMixed, KeepsRows, MeasuresEnd, EndsLast, EndIn
  <2>2. hand'[p].op = "save" /\ hand'[p].rows = g
    BY <1>1
  <2> HIDE DEF row
  <2> QED
    BY SMTT(30), <2>1, <2>2 DEF HandIsSound, IsDated, SeesMixed, KeepsRows, MeasuresEnd, EndsLast, EndIn
<1>9. ASSUME NEW q \in Writers \ {p} PROVE HandIsSound(q)'
  BY <1>1, <1>9 DEF CalOrder, OneAtATime, HandIsSound
<1>10. OneAtATime'
  BY <1>1 DEF CalOrder, OneAtATime
<1>11. RunsAreDated' /\ MixedConsumed'
  BY <1>1 DEF CalOrder, RunsAreDated, MixedConsumed, Writers
<1>12. IsDated(datums)' /\ SeesMixed(datums)'
  BY <1>1 DEF CalOrder, IsDated, SeesMixed, EndIn
<1>13. \A x \in Tasks : Measured(datums'[x]) => datums'[x].end # None
  BY <1>1 DEF CalOrder
<1> QED
  BY <1>8, <1>9, <1>10, <1>11, <1>12, <1>13 DEF CalOrder

\* The file is emptied: what is in hand stays.
LEMMA CalEmpties ==
    ASSUME CalTyped, CalTypeOK', CalOrder, NEW p \in Writers, Empties(p) PROVE CalOrder'
<1>1. /\ hand[p].op = "save" /\ hand'[p].op = "fill" /\ hand'[p].rows = hand[p].rows
      /\ \A q \in Writers \ {p} : hand'[q] = hand[q]
      /\ UNCHANGED <<clock, own, datums, phase, ended, mixed>>
  BY DEF Empties, Passes, CalTyped, CalTypeOK
<1>2. OneAtATime'
  BY <1>1 DEF CalOrder, OneAtATime
<1>3. RunsAreDated'
  BY <1>1 DEF CalOrder, RunsAreDated, Writers
<1>4. clock' >= clock
  BY <1>1 DEF CalTyped, CalTypeOK
<1> QED
  BY <1>1, <1>2, <1>3, <1>4, OrderStands DEF CalTyped

\* The file has what was in hand.
LEMMA CalFills ==
    ASSUME CalTyped, CalTypeOK', CalOrder, NEW p \in Writers, Fills(p) PROVE CalOrder'
<1>1. /\ hand[p].op = "fill" /\ hand'[p].op = "none" /\ datums' = hand[p].rows /\ torn' = FALSE
      /\ \A q \in Writers \ {p} : hand'[q] = hand[q]
      /\ UNCHANGED <<clock, own, phase, ended, mixed>>
  BY DEF Fills, Quiet, CalTyped, CalTypeOK
<1>2. \A q \in Writers : hand'[q].op = "none"
  BY <1>1 DEF CalOrder, OneAtATime
<1>3. HandIsSound(p)
  BY DEF CalOrder
<1>4. IsDated(datums)' /\ SeesMixed(datums)'
  BY <1>1, <1>3 DEF HandIsSound, IsDated, SeesMixed, EndIn
<1>5. \A x \in Tasks : Measured(datums'[x]) => datums'[x].end # None
  BY <1>1, <1>3 DEF HandIsSound, MeasuresEnd
<1>6. OneAtATime' /\ RunsAreDated' /\ MixedConsumed'
  BY <1>1, <1>2 DEF CalOrder, OneAtATime, RunsAreDated, MixedConsumed, Writers
<1> QED
  BY <1>2, <1>4, <1>5, <1>6 DEF CalOrder, HandIsSound

\* It holds at first.
LEMMA CalInvInit == CalInit => CalInv
<1> SUFFICES ASSUME CalInit PROVE CalInv
  OBVIOUS
<1> USE CalibrationAssumption
<1>1. NoRow \in Rows /\ NoRow.at = None /\ NoRow.end = None /\ NoRow.post = None /\ NoRows \in [Tasks -> Rows]
  BY DEF NoRow, Rows, None, NoRows
<1>2. Quiet \in [op : {"none", "read", "save", "fill"}, task : Writers, rows : [Tasks -> Rows]] /\ Quiet.op = "none"
  BY <1>1 DEF Quiet, Writers
<1>3. CalTypeOK
  <2>1. /\ clock \in 0..MaxClock /\ used \in 0..MaxUse /\ own \in [Tasks -> 0..MaxUse]
        /\ errands \in 0..MaxClerk /\ ended \in [Tasks -> None..MaxClock]
    BY DEF CalInit, None
  <2>2. hand \in [Writers -> [op : {"none", "read", "save", "fill"}, task : Writers, rows : [Tasks -> Rows]]]
    BY <1>2 DEF CalInit
  <2>3. /\ datums \in [Tasks -> Rows] /\ torn \in BOOLEAN /\ mixed \subseteq Tasks \X Tasks
        /\ phase \in [Tasks -> {"new", "started", "running", "ended", "over", "dead"}]
    BY <1>1 DEF CalInit
  <2> QED
    BY <2>1, <2>2, <2>3 DEF CalTypeOK
<1>4. ReadsAreOwned
  BY <1>2 DEF CalInit, ReadsAreOwned
<1>5. OneAtATime /\ RunsAreDated /\ MixedConsumed
  BY <1>2 DEF CalInit, OneAtATime, RunsAreDated, MixedConsumed, Writers, None
<1>6. IsDated(datums) /\ SeesMixed(datums) /\ \A r \in Tasks : Measured(datums[r]) => datums[r].end # None
  BY <1>1 DEF CalInit, IsDated, SeesMixed, Measured, NoRows, None
<1>7. \A p \in Writers : HandIsSound(p)
  BY <1>2 DEF CalInit, HandIsSound
<1> QED
  BY <1>3, <1>4, <1>5, <1>6, <1>7 DEF CalInv, CalOrder

\* The invariant is inductive.
LEMMA CalInvNext == CalInv /\ [CalNext]_calVars => CalInv'
<1> SUFFICES ASSUME CalInv, [CalNext]_calVars PROVE CalInv'
  OBVIOUS
<1>1. CASE CalNext
  <2>1. CalTyped'
    BY <1>1, CalTypesNext DEF CalInv, CalTyped
  <2>2. ASSUME ~Overlaps PROVE CalOrder'
    <3>1. CalTyped /\ CalTypeOK' /\ CalOrder
      BY <2>1, <2>2 DEF CalInv, CalTyped
    <3> QED
      BY <1>1, <2>2, <3>1, CalSecondPasses, CalReconciles, CalConsumes, CalStarts, CalRecordLaunch,
         CalFinishes, CalCompletesOwn, CalKilled, CalCloses, CalClosesDead, CalReadsUsage,
         CalEmpties, CalFills DEF CalNext, Executor, Saves
  <2> QED
    BY <2>1, <2>2 DEF CalInv, CalTyped
<1>2. CASE UNCHANGED calVars
  BY SMTT(30), <1>2 DEF calVars, CalInv, CalTypeOK, ReadsAreOwned, CalOrder, OneAtATime, RunsAreDated,
      MixedConsumed, IsDated, SeesMixed, HandIsSound, KeepsRows, MeasuresEnd, EndsLast, EndIn
<1> QED
  BY <1>1, <1>2

\* The types hold of the measurements, however their operations interleave.
THEOREM CalTypeCorrect == CalSpec => []CalTypeOK
<1>1. CalInv => CalTypeOK
  BY DEF CalInv
<1> QED
  BY <1>1, CalInvInit, CalInvNext, PTL DEF CalSpec

\* One operation at a time: no run is called isolated beside which another
\* consumed with its row open.
THEOREM IsolatedAlone == ASSUME ~Overlaps PROVE CalSpec => []IsolatedIsAlone
<1>1. ASSUME CalInv PROVE IsolatedIsAlone
  <2> SUFFICES ASSUME NEW r \in Recorded, Observed(r, Recorded), ~datums[r].late,
                      NEW q, NEW x, <<x, q>> \in mixed, x = r
               PROVE  FALSE
    <3>1. mixed \subseteq Tasks \X Tasks
      BY <1>1 DEF CalInv, CalTypeOK
    <3> QED
      BY <3>1 DEF IsolatedIsAlone
  <2>1. r \in Tasks /\ q \in Tasks /\ <<r, q>> \in mixed
    BY <1>1 DEF CalInv, CalTypeOK
  <2>2. CalOrder /\ Measured(datums[r])
    BY <1>1 DEF CalInv, Observed, Measured
  <2>3. /\ r # q /\ datums[q].at # None /\ datums[r].at <= EndIn(datums, q)
        /\ datums[q].at <= EndIn(datums, r)
    BY <2>1, <2>2 DEF CalOrder, MixedConsumed, SeesMixed
  <2>4. Overlap(r, q) /\ q \in Recorded \ {r}
    BY <2>1, <2>3 DEF Overlap, End, EndIn, Recorded
  <2> QED
    BY <2>3, <2>4 DEF Observed
<1> QED
  BY <1>1, CalInvInit, CalInvNext, PTL DEF CalSpec

\* One operation at a time: no row is lost, no outcome taken back, and no run
\* that is over is open again until it is launched again.
THEOREM RowsAreKept == ASSUME ~Overlaps PROVE CalSpec => RowsKept
<1>1. ASSUME CalInv, [CalNext]_calVars
      PROVE  [\A r \in Recorded :
               /\ datums'[r].at # None
               /\ datums[r].outcome => datums'[r].outcome
               /\ datums[r].end # None => datums'[r].end # None \/ phase[r] = "running"]_calVars
  <2>1. CASE UNCHANGED datums
    BY <2>1 DEF Recorded
  <2>2. ASSUME NEW p \in Writers, Fills(p) PROVE KeepsRows(datums')
    BY <1>1, <2>2 DEF CalInv, CalOrder, HandIsSound, Fills
  <2>3. ASSUME NEW p \in Writers, Fills(p)
        PROVE  \A r \in Recorded :
               /\ datums'[r].at # None
               /\ datums[r].outcome => datums'[r].outcome
               /\ datums[r].end # None => datums'[r].end # None \/ phase[r] = "running"
    BY <2>2, <2>3 DEF KeepsRows, Recorded
  <2>4. UNCHANGED datums \/ \E p \in Writers : Fills(p)
    BY <1>1 DEF CalNext, calVars, Executor, Saves, SecondPasses, Reconciles, Consumes, Starts,
        RecordLaunch, Finishes, CompletesOwn, Killed, Closes, ClosesDead, ReadsUsage, Empties
  <2> QED
    BY <2>1, <2>3, <2>4
<1> QED
  BY <1>1, CalInvInit, CalInvNext, PTL DEF CalSpec, RowsKept

-----------------------------------------------------------------------------
(* The worktrees (horus/worktree.py).                                      *)

\* A branch is missing or has commits, and one that is checked out is not.
BranchesAreThere ==
    /\ \A b \in Branches : 0 \in tip[b] => tip[b] = Missing
    /\ \A d \in Paths : tree[d] # NoTree => 0 \notin tip[tree[d]]

\* A branch that was judged merged without its upstream being gone was in the
\* default branch, which never loses a commit.
JudgedByTrunk ==
    \A q \in Cleaners :
        /\ cleaner[q].pc # "idle" => cleaner[q].branch \in Branches /\ cleaner[q].at \in Paths
        /\ cleaner[q].pc # "idle" /\ ~cleaner[q].gone => cleaner[q].had \subseteq trunk

TreeInv == TreeTypeOK /\ BranchesAreThere /\ JudgedByTrunk /\ DiscardsJudged

\* The steps, one by one: each keeps every part of the invariant.
LEMMA TreeEnsure == ASSUME TreeInv, NEW w \in Workers, NEW b \in Branches, Ensure(w, b) PROVE TreeInv'
<1> USE WorktreesAssumption DEF TreeInv, remoteVars
<1>1. TreeTypeOK'
  <2>1. Slug[b] \in Paths
    OBVIOUS
  <2>2. worker' \in [Workers -> [at : Paths \cup {NoTree}, told : Branches \cup {NoTree}]]
    BY <2>1 DEF TreeTypeOK, Ensure
  <2>3. tip' \in [Branches -> SUBSET (0..MaxCommits)]
    BY DEF TreeTypeOK, Ensure
  <2>4. tree' \in [Paths -> Branches \cup {NoTree}]
    <3>1. tree \in [Paths -> Branches \cup {NoTree}]
      BY DEF TreeTypeOK
    <3>2. tree' = tree \/ tree' = [tree EXCEPT ![Slug[b]] = b]
      BY DEF Ensure
    <3> QED
      BY <2>1, <3>1, <3>2
  <2> QED
    BY <2>2, <2>3, <2>4 DEF TreeTypeOK, Ensure
<1>2. BranchesAreThere'
  <2>1. CASE UNCHANGED <<tip, tree>>
    BY <2>1 DEF BranchesAreThere
  <2>2. CASE /\ tip' = [tip EXCEPT ![b] = IF @ = Missing THEN {} ELSE @]
             /\ tree' = [tree EXCEPT ![Slug[b]] = b]
    <3>1. tip'[b] = IF tip[b] = Missing THEN {} ELSE tip[b]
      BY <2>2 DEF TreeTypeOK
    <3>2. 0 \notin tip'[b]
      BY <3>1 DEF BranchesAreThere
    <3>3. \A c \in Branches \ {b} : tip'[c] = tip[c]
      BY <2>2 DEF TreeTypeOK
    <3>4. \A d \in Paths : tree'[d] = b \/ tree'[d] = tree[d]
      BY <2>2 DEF TreeTypeOK
    <3>5. \A d \in Paths : tree[d] # NoTree => tree[d] \in Branches
      BY DEF TreeTypeOK
    <3> QED
      BY <3>2, <3>3, <3>4, <3>5 DEF BranchesAreThere
  <2> QED
    BY <2>1, <2>2 DEF Ensure
<1>3. JudgedByTrunk'
  BY DEF TreeTypeOK, JudgedByTrunk, Ensure, Away
<1>4. DiscardsJudged'
  BY DEF TreeTypeOK, JudgedByTrunk, DiscardsJudged, Ensure, Away
<1> QED
  BY <1>1, <1>2, <1>3, <1>4

LEMMA TreeEdits == ASSUME TreeInv, NEW w \in Workers, Edits(w) PROVE TreeInv'
<1> USE WorktreesAssumption DEF TreeInv, remoteVars
<1>1. TreeTypeOK'
  BY DEF TreeTypeOK, BranchesAreThere, JudgedByTrunk, Edits, AtWork
<1>2. BranchesAreThere'
  BY DEF TreeTypeOK, BranchesAreThere, JudgedByTrunk, Edits, AtWork
<1>3. JudgedByTrunk'
  BY DEF TreeTypeOK, JudgedByTrunk, Edits, AtWork
<1>4. DiscardsJudged'
  BY DEF TreeTypeOK, JudgedByTrunk, DiscardsJudged, Edits, AtWork
<1> QED
  BY <1>1, <1>2, <1>3, <1>4

LEMMA TreeCommits == ASSUME TreeInv, NEW w \in Workers, Commits(w) PROVE TreeInv'
<1> USE WorktreesAssumption DEF TreeInv, remoteVars
<1>1. TreeTypeOK'
  <2>1. worker[w].at \in Paths /\ tree[worker[w].at] \in Branches
    BY DEF TreeTypeOK, Commits, AtWork
  <2>2. commits + 1 \in 0..MaxCommits /\ commits' = commits + 1
    <3>1. commits \in 0..MaxCommits
      BY DEF TreeTypeOK
    <3>2. commits < MaxCommits /\ commits' = commits + 1
      BY DEF Commits
    <3> QED
      BY <3>1, <3>2
  <2>3. tip' \in [Branches -> SUBSET (0..MaxCommits)]
    BY <2>1, <2>2 DEF TreeTypeOK, Commits
  <2> QED
    BY <2>2, <2>3 DEF TreeTypeOK, Commits
<1>2. BranchesAreThere'
  <2> DEFINE b == tree[worker[w].at]
  <2>1. worker[w].at \in Paths /\ b \in Branches
    BY DEF TreeTypeOK, Commits, AtWork
  <2>2. tip'[b] = tip[b] \cup {commits + 1} /\ \A c \in Branches \ {b} : tip'[c] = tip[c]
    BY <2>1 DEF TreeTypeOK, Commits
  <2>3. commits \in Nat /\ 0 \notin tip[b]
    <3>1. commits \in Nat
      BY DEF TreeTypeOK
    <3>2. 0 \notin tip[tree[worker[w].at]]
      BY <2>1 DEF BranchesAreThere, Commits, AtWork
    <3> QED
      BY <3>1, <3>2
  <2>4. 0 \notin tip'[b] /\ tree' = tree
    BY <2>2, <2>3 DEF Commits
  <2>5. \A d \in Paths : tree[d] # NoTree => tree[d] \in Branches
    BY DEF TreeTypeOK
  <2> QED
    BY <2>2, <2>4, <2>5 DEF BranchesAreThere
<1>3. JudgedByTrunk'
  BY DEF TreeTypeOK, JudgedByTrunk, Commits, AtWork
<1>4. DiscardsJudged'
  BY DEF TreeTypeOK, JudgedByTrunk, DiscardsJudged, Commits, AtWork
<1> QED
  BY <1>1, <1>2, <1>3, <1>4

LEMMA TreePushes == ASSUME TreeInv, NEW w \in Workers, Pushes(w) PROVE TreeInv'
<1> USE WorktreesAssumption DEF TreeInv, remoteVars
<1>1. TreeTypeOK'
  <2> DEFINE b == tree[worker[w].at]
  <2>1. worker[w].at \in Paths /\ b \in Branches
    BY DEF TreeTypeOK, Pushes, AtWork
  <2>2. tip[b] \in SUBSET (1..MaxCommits)
    <3>1. tip[b] \subseteq 0..MaxCommits
      BY <2>1 DEF TreeTypeOK
    <3>2. 0 \notin tip[b]
      BY <2>1 DEF BranchesAreThere, Pushes, AtWork
    <3> QED
      BY <3>1, <3>2
  <2>3. /\ pushed' \in [Branches -> SUBSET (1..MaxCommits)]
        /\ upstream' \in [Branches -> {"none", "live", "gone"}]
    BY <2>1, <2>2 DEF TreeTypeOK, Pushes
  <2> QED
    BY <2>3 DEF TreeTypeOK, Pushes
<1>2. BranchesAreThere'
  BY DEF TreeTypeOK, BranchesAreThere, JudgedByTrunk, Pushes, AtWork
<1>3. JudgedByTrunk'
  BY DEF TreeTypeOK, JudgedByTrunk, Pushes, AtWork
<1>4. DiscardsJudged'
  BY DEF TreeTypeOK, JudgedByTrunk, DiscardsJudged, Pushes, AtWork
<1> QED
  BY <1>1, <1>2, <1>3, <1>4

LEMMA TreeLeaves == ASSUME TreeInv, NEW w \in Workers, Leaves(w) PROVE TreeInv'
<1> USE WorktreesAssumption DEF TreeInv, remoteVars
<1>1. TreeTypeOK'
  BY DEF TreeTypeOK, BranchesAreThere, JudgedByTrunk, Leaves, Away
<1>2. BranchesAreThere'
  BY DEF TreeTypeOK, BranchesAreThere, JudgedByTrunk, Leaves, Away
<1>3. JudgedByTrunk'
  BY DEF TreeTypeOK, JudgedByTrunk, Leaves, Away
<1>4. DiscardsJudged'
  BY DEF TreeTypeOK, JudgedByTrunk, DiscardsJudged, Leaves, Away
<1> QED
  BY <1>1, <1>2, <1>3, <1>4

LEMMA TreeSettles == ASSUME TreeInv, NEW b \in Branches, Settles(b) PROVE TreeInv'
<1> USE WorktreesAssumption DEF TreeInv, remoteVars
<1>1. TreeTypeOK'
  BY DEF TreeTypeOK, BranchesAreThere, JudgedByTrunk, Settles
<1>2. BranchesAreThere'
  BY DEF TreeTypeOK, BranchesAreThere, JudgedByTrunk, Settles
<1>3. JudgedByTrunk'
  BY DEF TreeTypeOK, JudgedByTrunk, Settles
<1>4. DiscardsJudged'
  BY DEF TreeTypeOK, JudgedByTrunk, DiscardsJudged, Settles
<1> QED
  BY <1>1, <1>2, <1>3, <1>4

LEMMA TreeMerged == ASSUME TreeInv, NEW b \in Branches, Merged(b) PROVE TreeInv'
<1> USE WorktreesAssumption DEF TreeInv, remoteVars
<1>1. TreeTypeOK'
  BY DEF TreeTypeOK, BranchesAreThere, JudgedByTrunk, Merged
<1>2. BranchesAreThere'
  BY DEF TreeTypeOK, BranchesAreThere, JudgedByTrunk, Merged
<1>3. JudgedByTrunk'
  BY DEF TreeTypeOK, JudgedByTrunk, Merged
<1>4. DiscardsJudged'
  BY DEF TreeTypeOK, JudgedByTrunk, DiscardsJudged, Merged
<1> QED
  BY <1>1, <1>2, <1>3, <1>4

LEMMA TreeChecks == ASSUME TreeInv, NEW q \in Cleaners, NEW d \in Paths, Checks(q, d) PROVE TreeInv'
<1> USE WorktreesAssumption DEF TreeInv, remoteVars
<1>1. TreeTypeOK'
  BY DEF TreeTypeOK, BranchesAreThere, JudgedByTrunk, Checks, LooksMerged
<1>2. BranchesAreThere'
  BY DEF TreeTypeOK, BranchesAreThere, JudgedByTrunk, Checks, LooksMerged
<1>3. JudgedByTrunk'
  BY DEF TreeTypeOK, JudgedByTrunk, Checks, LooksMerged
<1>4. DiscardsJudged'
  BY DEF TreeTypeOK, JudgedByTrunk, DiscardsJudged, Checks, LooksMerged
<1> QED
  BY <1>1, <1>2, <1>3, <1>4

\* A cleaner that goes on or rests stays one ...
LEMMA CleanersTyped ==
    ASSUME TreeTypeOK, NEW q \in Cleaners,
           \/ cleaner' = cleaner
           \/ cleaner' = [cleaner EXCEPT ![q] = Resting]
           \/ cleaner' = [cleaner EXCEPT ![q].pc = "removed"]
    PROVE  cleaner' \in [Cleaners ->
          [pc : {"idle", "checked", "removed"}, at : Paths \cup {NoTree},
           branch : Branches \cup {NoTree}, had : SUBSET (0..MaxCommits), gone : BOOLEAN]]
<1> DEFINE Types == [pc : {"idle", "checked", "removed"}, at : Paths \cup {NoTree},
                     branch : Branches \cup {NoTree}, had : SUBSET (0..MaxCommits), gone : BOOLEAN]
<1>1. cleaner \in [Cleaners -> Types] /\ Resting \in Types
  BY DEF TreeTypeOK, Resting
<1>2. [cleaner[q] EXCEPT !.pc = "removed"] \in Types
  BY <1>1
<1> HIDE DEF Types
<1>3. cleaner' \in [Cleaners -> Types]
  BY <1>1, <1>2
<1> QED
  BY <1>3 DEF Types

\* ... and knows what it knew.
LEMMA CleanersKeep ==
    ASSUME TreeTypeOK, JudgedByTrunk, trunk' = trunk, NEW q \in Cleaners,
           \/ cleaner' = [cleaner EXCEPT ![q] = Resting]
           \/ cleaner' = [cleaner EXCEPT ![q].pc = "removed"] /\ cleaner[q].pc # "idle"
    PROVE  JudgedByTrunk'
<1>1. \A p \in Cleaners \ {q} : cleaner'[p] = cleaner[p]
  BY DEF TreeTypeOK
<1>2. \/ cleaner'[q] = Resting
      \/ cleaner'[q] = [cleaner[q] EXCEPT !.pc = "removed"] /\ cleaner[q].pc # "idle"
  BY DEF TreeTypeOK
<1>3. \/ cleaner'[q].pc = "idle"
      \/ /\ cleaner[q].pc # "idle" /\ cleaner'[q].branch = cleaner[q].branch
         /\ cleaner'[q].at = cleaner[q].at /\ cleaner'[q].had = cleaner[q].had
         /\ cleaner'[q].gone = cleaner[q].gone
  BY <1>2 DEF TreeTypeOK, Resting
<1> QED
  BY <1>1, <1>3 DEF JudgedByTrunk

\* A cleaner removes the directory, if git finds it clean ...
LEMMA TreeRemoves == ASSUME TreeInv, NEW q \in Cleaners, Removes(q) PROVE TreeInv'
<1> USE WorktreesAssumption DEF TreeInv, remoteVars
<1>1. TreeTypeOK'
  <2>1. cleaner[q].at \in Paths
    BY DEF Removes, JudgedByTrunk
  <2>2. tree' \in [Paths -> Branches \cup {NoTree}]
    BY <2>1 DEF Removes, TreeTypeOK
  <2>3. cleaner' \in [Cleaners ->
          [pc : {"idle", "checked", "removed"}, at : Paths \cup {NoTree},
           branch : Branches \cup {NoTree}, had : SUBSET (0..MaxCommits), gone : BOOLEAN]]
    BY CleanersTyped DEF Removes, TreeTypeOK
  <2> QED
    BY <2>2, <2>3 DEF Removes, TreeTypeOK
<1>2. BranchesAreThere'
  BY DEF TreeTypeOK, BranchesAreThere, JudgedByTrunk, Removes, Resting
<1>3. JudgedByTrunk'
  <2>1. \/ cleaner' = [cleaner EXCEPT ![q] = Resting]
        \/ cleaner' = [cleaner EXCEPT ![q].pc = "removed"] /\ cleaner[q].pc # "idle"
    BY DEF Removes
  <2> QED
    BY <2>1, CleanersKeep DEF Removes
<1>4. DiscardsJudged'
  BY DEF TreeTypeOK, JudgedByTrunk, DiscardsJudged, Removes, Resting
<1> QED
  BY <1>1, <1>2, <1>3, <1>4

\* ... and deletes the branch: what is lost was judged.
LEMMA TreeDeletes == ASSUME TreeInv, NEW q \in Cleaners, Deletes(q) PROVE TreeInv'
<1> USE WorktreesAssumption DEF TreeInv, remoteVars
<1>1. TreeTypeOK'
  <2>1. cleaner[q].branch \in Branches
    BY DEF Deletes, JudgedByTrunk
  <2>2. tip' \in [Branches -> SUBSET (0..MaxCommits)]
    <3>1. tip \in [Branches -> SUBSET (0..MaxCommits)] /\ Missing \in SUBSET (0..MaxCommits)
      BY DEF TreeTypeOK, Missing
    <3>2. tip' = tip \/ tip' = [tip EXCEPT ![cleaner[q].branch] = Missing]
      BY DEF Deletes
    <3> QED
      BY <2>1, <3>1, <3>2
  <2>3. /\ upstream' \in [Branches -> {"none", "live", "gone"}]
        /\ pushed' \in [Branches -> SUBSET (1..MaxCommits)]
    BY <2>1 DEF Deletes, TreeTypeOK
  <2>4. cleaner' \in [Cleaners ->
          [pc : {"idle", "checked", "removed"}, at : Paths \cup {NoTree},
           branch : Branches \cup {NoTree}, had : SUBSET (0..MaxCommits), gone : BOOLEAN]]
    BY CleanersTyped DEF Deletes, TreeTypeOK
  <2> QED
    BY <2>2, <2>3, <2>4 DEF Deletes, TreeTypeOK
<1>2. BranchesAreThere'
  BY DEF TreeTypeOK, BranchesAreThere, JudgedByTrunk, Deletes, Resting
<1>3. JudgedByTrunk'
  BY DEF TreeTypeOK, JudgedByTrunk, Deletes, Resting
<1>4. DiscardsJudged'
  <2> DEFINE rest == tip[cleaner[q].branch] \ (trunk \cup squashed \cup
                        IF upstream[cleaner[q].branch] = "live" THEN pushed[cleaner[q].branch] ELSE {})
  <2>1. ~cleaner[q].gone => cleaner[q].had \subseteq trunk
    BY DEF Deletes, JudgedByTrunk
  <2>2. rest \cap trunk = {}
    OBVIOUS
  <2>3. ASSUME NEW n \in rest, n \in cleaner[q].had PROVE cleaner[q].gone
    BY <2>1, <2>2, <2>3
  <2>4. lost' \subseteq lost \cup
          {[id |-> n, seen |-> n \in cleaner[q].had, gone |-> cleaner[q].gone] : n \in rest}
    BY DEF Deletes
  <2> HIDE DEF rest
  <2>5. ASSUME NEW c \in lost', c.seen PROVE c.gone
    <3>1. CASE c \in lost
      BY <2>5, <3>1 DEF DiscardsJudged
    <3>2. CASE c \notin lost
      <4>1. PICK n \in rest : c = [id |-> n, seen |-> n \in cleaner[q].had, gone |-> cleaner[q].gone]
        BY <2>4, <3>2
      <4>2. c.seen = (n \in cleaner[q].had) /\ c.gone = cleaner[q].gone
        BY <4>1
      <4> QED
        BY <2>3, <2>5, <4>2
    <3> QED
      BY <3>1, <3>2
  <2> QED
    BY <2>5 DEF DiscardsJudged
<1> QED
  BY <1>1, <1>2, <1>3, <1>4

\* It holds at first.
LEMMA TreeInvInit == TreeInit => TreeInv
<1> SUFFICES ASSUME TreeInit PROVE TreeInv
  OBVIOUS
<1> USE WorktreesAssumption DEF TreeInit, Away, Resting
<1>1. TreeTypeOK
  <2>1. /\ tip \in [Branches -> SUBSET (0..MaxCommits)]
        /\ upstream \in [Branches -> {"none", "live", "gone"}]
        /\ pushed \in [Branches -> SUBSET (1..MaxCommits)]
        /\ tree \in [Paths -> Branches \cup {NoTree}]
    BY DEF Missing
  <2>2. worker \in [Workers -> [at : Paths \cup {NoTree}, told : Branches \cup {NoTree}]]
    OBVIOUS
  <2>3. cleaner \in [Cleaners ->
          [pc : {"idle", "checked", "removed"}, at : Paths \cup {NoTree},
           branch : Branches \cup {NoTree}, had : SUBSET (0..MaxCommits), gone : BOOLEAN]]
    OBVIOUS
  <2>4. trunk \subseteq 1..MaxCommits /\ squashed \subseteq 1..MaxCommits /\ dirty \subseteq Paths
    OBVIOUS
  <2>5. commits \in 0..MaxCommits
    OBVIOUS
  <2> QED
    BY ONLY <2>1, <2>2, <2>3, <2>4, <2>5 DEF TreeTypeOK
<1>2. BranchesAreThere /\ JudgedByTrunk /\ DiscardsJudged
  BY DEF BranchesAreThere, JudgedByTrunk, DiscardsJudged
<1> QED
  BY <1>1, <1>2 DEF TreeInv

\* The invariant is inductive.
LEMMA TreeInvNext == TreeInv /\ [TreeNext]_treeVars => TreeInv'
<1> SUFFICES ASSUME TreeInv, [TreeNext]_treeVars PROVE TreeInv'
  OBVIOUS
<1>1. CASE UNCHANGED treeVars
  BY <1>1 DEF treeVars, TreeInv, TreeTypeOK, BranchesAreThere, JudgedByTrunk, DiscardsJudged
<1>2. CASE TreeNext
  BY <1>2, TreeEnsure, TreeEdits, TreeCommits, TreePushes, TreeLeaves, TreeSettles,
      TreeMerged, TreeChecks, TreeRemoves, TreeDeletes DEF TreeNext, Prunes
<1> QED
  BY <1>1, <1>2

\* The worktrees keep their types, for any branches, paths, workers and
\* cleaners: a branch that is checked out is there, whoever deletes.
THEOREM TreeTypeCorrect == TreeSpec => []TreeTypeOK
<1>1. TreeInv => TreeTypeOK
  BY DEF TreeInv
<1> QED
  BY <1>1, TreeInvInit, TreeInvNext, PTL DEF TreeSpec

\* Work that was there when its branch was judged, and is on no remote, is
\* discarded only with a branch whose upstream was deleted.
THEOREM DiscardsAreJudged == TreeSpec => []DiscardsJudged
<1>1. TreeInv => DiscardsJudged
  BY DEF TreeInv
<1> QED
  BY <1>1, TreeInvInit, TreeInvNext, PTL DEF TreeSpec

-----------------------------------------------------------------------------
(* The usage window (horus/keepwarm.py, the hooks).                        *)

\* A window that is open began and has not ended, and nobody is without one.
OpenIsNow == IsOpen => opened <= now /\ now < ResetsAt /\ cold = 0

\* A recorded reset that is still to come is the open window's.
ResetIsKnown == reset > now => IsOpen /\ reset = ResetsAt

\* The service wakes in time: no later than Offset after the reset of the window
\* that is open, and of the one that closed last.
WakesInTime ==
    /\ wake >= now /\ cold <= now
    /\ sure => IF IsOpen THEN wake <= ResetsAt + Offset ELSE cold + wake <= now + Offset

\* The rescue of this window is on record.
RescueIsMarked == saves <= 1 /\ rescuedAt <= now /\ (IsOpen /\ saves >= 1 => rescuedAt >= opened)

\* The prompts of this window are on record, in a band no lower than theirs.
PromptsAreMarked ==
    /\ ~again
    /\ IsOpen => \A h \in Hooks, b \in Bands : <<h, b>> \in asks =>
          /\ b <= nudged[h].band /\ b <= level
          /\ opened <= nudged[h].ts /\ nudged[h].ts <= now
          /\ nudged[h].reset \in {ResetsAt, Never}

WindowInv ==
    /\ WindowTypeOK /\ OpenIsNow /\ ResetIsKnown /\ WakesInTime
    /\ Window <= Rearm => RescueIsMarked /\ PromptsAreMarked

\* The steps, one by one: each keeps every part of the invariant.
LEMMA WindowTick == ASSUME WindowInv, Tick PROVE WindowInv'
<1> USE WindowAssumption DEF WindowInv, Never
<1>1. WindowTypeOK'
  BY DEF WindowTypeOK, OpenIsNow, WakesInTime, Tick, IsOpen, ResetsAt, serviceVars, hookVars, givenVars
<1>2. OpenIsNow'
  BY DEF WindowTypeOK, OpenIsNow, Tick, IsOpen, ResetsAt, serviceVars, hookVars, givenVars
<1>3. ResetIsKnown'
  BY DEF WindowTypeOK, OpenIsNow, ResetIsKnown, Tick, IsOpen, ResetsAt, serviceVars, hookVars, givenVars
<1>4. WakesInTime'
  BY DEF WindowTypeOK, OpenIsNow, ResetIsKnown, WakesInTime,
         Tick, IsOpen, ResetsAt, serviceVars, hookVars, givenVars
<1>5. ASSUME Window <= Rearm PROVE RescueIsMarked'
  BY <1>5 DEF WindowTypeOK, OpenIsNow, RescueIsMarked, Tick, IsOpen, ResetsAt, serviceVars,
      hookVars, givenVars
<1>6. ASSUME Window <= Rearm PROVE PromptsAreMarked'
  BY <1>6 DEF WindowTypeOK, OpenIsNow, PromptsAreMarked, Bands, Tick, IsOpen, ResetsAt,
      serviceVars, hookVars, givenVars
<1> QED
  BY <1>1, <1>2, <1>3, <1>4, <1>5, <1>6

LEMMA WindowTurn == ASSUME WindowInv, NEW recorded \in BOOLEAN, Turn(recorded) PROVE WindowInv'
<1> USE WindowAssumption DEF WindowInv, Never
<1>1. WindowTypeOK'
  BY DEF WindowTypeOK, OpenIsNow, WakesInTime, Turn, Opens, IsOpen, ResetsAt, serviceVars
<1>2. OpenIsNow'
  BY DEF WindowTypeOK, OpenIsNow, Turn, Opens, IsOpen, ResetsAt, serviceVars
<1>3. ResetIsKnown'
  BY DEF WindowTypeOK, OpenIsNow, ResetIsKnown, Turn, Opens, IsOpen, ResetsAt, serviceVars
<1>4. WakesInTime'
  BY DEF WindowTypeOK, OpenIsNow, ResetIsKnown, WakesInTime,
         Turn, Opens, IsOpen, ResetsAt, serviceVars
<1>5. ASSUME Window <= Rearm PROVE RescueIsMarked'
  BY <1>5 DEF WindowTypeOK, OpenIsNow, RescueIsMarked, Turn, Opens, IsOpen, ResetsAt, serviceVars
<1>6. ASSUME Window <= Rearm PROVE PromptsAreMarked'
  BY <1>6 DEF WindowTypeOK, OpenIsNow, PromptsAreMarked, Bands, Turn, Opens, IsOpen, ResetsAt,
      serviceVars
<1> QED
  BY <1>1, <1>2, <1>3, <1>4, <1>5, <1>6

LEMMA WindowWarms == ASSUME WindowInv, NEW ok \in BOOLEAN, Warms(ok) PROVE WindowInv'
<1> USE WindowAssumption DEF WindowInv, Never
<1>1. WindowTypeOK'
  BY DEF WindowTypeOK, OpenIsNow, WakesInTime, Warms, Opens, NextDelay, IsOpen, ResetsAt
<1>2. OpenIsNow'
  BY DEF WindowTypeOK, OpenIsNow, Warms, Opens, NextDelay, IsOpen, ResetsAt
<1>3. ResetIsKnown'
  BY DEF WindowTypeOK, OpenIsNow, ResetIsKnown, Warms, Opens, NextDelay, IsOpen, ResetsAt
<1>4. WakesInTime'
  <2>1. wake' >= now' /\ cold' <= now'
    BY DEF WindowTypeOK, OpenIsNow, ResetIsKnown, WakesInTime, Warms, Opens, NextDelay, IsOpen, ResetsAt
  <2>2. CASE ok /\ IsOpen /\ reset = ResetsAt
    BY <2>1, <2>2 DEF WindowTypeOK, OpenIsNow, ResetIsKnown, WakesInTime, Warms, Opens,
        NextDelay, IsOpen, ResetsAt
  <2>3. CASE ok /\ ~IsOpen
    BY <2>1, <2>3 DEF WindowTypeOK, OpenIsNow, ResetIsKnown, WakesInTime, Warms, Opens,
        NextDelay, IsOpen, ResetsAt
  <2>4. CASE ~(ok /\ (~IsOpen \/ reset = ResetsAt))
    BY <2>1, <2>4 DEF WakesInTime, Warms
  <2> QED
    BY <2>2, <2>3, <2>4
<1>5. ASSUME Window <= Rearm PROVE RescueIsMarked'
  BY <1>5 DEF WindowTypeOK, OpenIsNow, RescueIsMarked, Warms, Opens, NextDelay, IsOpen, ResetsAt
<1>6. ASSUME Window <= Rearm PROVE PromptsAreMarked'
  BY <1>6 DEF WindowTypeOK, OpenIsNow, PromptsAreMarked, Bands, Warms, Opens, NextDelay,
      IsOpen, ResetsAt
<1> QED
  BY <1>1, <1>2, <1>3, <1>4, <1>5, <1>6

LEMMA WindowRestarts == ASSUME WindowInv, Restarts PROVE WindowInv'
<1> USE WindowAssumption DEF WindowInv, Never
<1>1. WindowTypeOK'
  BY DEF WindowTypeOK, OpenIsNow, WakesInTime, Restarts, IsOpen, ResetsAt, hookVars, givenVars
<1>2. OpenIsNow'
  BY DEF WindowTypeOK, OpenIsNow, Restarts, IsOpen, ResetsAt, hookVars, givenVars
<1>3. ResetIsKnown'
  BY DEF WindowTypeOK, OpenIsNow, ResetIsKnown, Restarts, IsOpen, ResetsAt, hookVars, givenVars
<1>4. WakesInTime'
  BY DEF WindowTypeOK, OpenIsNow, ResetIsKnown, WakesInTime,
         Restarts, IsOpen, ResetsAt, hookVars, givenVars
<1>5. ASSUME Window <= Rearm PROVE RescueIsMarked'
  BY <1>5 DEF WindowTypeOK, OpenIsNow, RescueIsMarked, Restarts, IsOpen, ResetsAt, hookVars,
      givenVars
<1>6. ASSUME Window <= Rearm PROVE PromptsAreMarked'
  BY <1>6 DEF WindowTypeOK, OpenIsNow, PromptsAreMarked, Bands, Restarts, IsOpen, ResetsAt,
      hookVars, givenVars
<1> QED
  BY <1>1, <1>2, <1>3, <1>4, <1>5, <1>6

LEMMA WindowGuard == ASSUME WindowInv, Guard PROVE WindowInv'
<1> USE WindowAssumption DEF WindowInv, Never
<1>1. WindowTypeOK'
  BY DEF WindowTypeOK, OpenIsNow, WakesInTime, Guard, AtLimit, Rescued, IsOpen, ResetsAt, serviceVars
<1>2. OpenIsNow'
  BY DEF WindowTypeOK, OpenIsNow, Guard, AtLimit, Rescued, IsOpen, ResetsAt, serviceVars
<1>3. ResetIsKnown'
  BY DEF WindowTypeOK, OpenIsNow, ResetIsKnown, Guard, AtLimit, Rescued, IsOpen, ResetsAt, serviceVars
<1>4. WakesInTime'
  BY DEF WindowTypeOK, OpenIsNow, ResetIsKnown, WakesInTime,
         Guard, AtLimit, Rescued, IsOpen, ResetsAt, serviceVars
<1>5. ASSUME Window <= Rearm PROVE RescueIsMarked'
  BY <1>5 DEF WindowTypeOK, OpenIsNow, RescueIsMarked, Guard, AtLimit, Rescued, IsOpen,
      ResetsAt, serviceVars
<1>6. ASSUME Window <= Rearm PROVE PromptsAreMarked'
  BY <1>6 DEF WindowTypeOK, OpenIsNow, PromptsAreMarked, Bands, Guard, AtLimit, Rescued,
      IsOpen, ResetsAt, serviceVars
<1> QED
  BY <1>1, <1>2, <1>3, <1>4, <1>5, <1>6

LEMMA WindowAsks == ASSUME WindowInv, NEW h \in Hooks, Asks(h) PROVE WindowInv'
<1> USE WindowAssumption DEF WindowInv, Never
<1>1. WindowTypeOK'
  BY DEF WindowTypeOK, OpenIsNow, WakesInTime, Asks, Nudged, IsOpen, ResetsAt, serviceVars, Bands
<1>2. OpenIsNow'
  BY DEF WindowTypeOK, OpenIsNow, Asks, Nudged, IsOpen, ResetsAt, serviceVars, Bands
<1>3. ResetIsKnown'
  BY DEF WindowTypeOK, OpenIsNow, ResetIsKnown, Asks, Nudged, IsOpen, ResetsAt, serviceVars, Bands
<1>4. WakesInTime'
  BY DEF WindowTypeOK, OpenIsNow, ResetIsKnown, WakesInTime,
         Asks, Nudged, IsOpen, ResetsAt, serviceVars, Bands
<1>5. ASSUME Window <= Rearm PROVE RescueIsMarked'
  BY <1>5 DEF WindowTypeOK, OpenIsNow, RescueIsMarked, Asks, Nudged, IsOpen, ResetsAt,
      serviceVars, Bands
<1>6. ASSUME Window <= Rearm PROVE PromptsAreMarked'
  <2>1. PICK seen \in {ResetsAt, Never} :
            /\ ~Nudged(h, level, seen)
            /\ nudged' = [nudged EXCEPT ![h] = [band |-> level, reset |-> seen, ts |-> now]]
    BY DEF Asks
  <2>2. IsOpen /\ level \in Bands /\ opened <= now /\ now < ResetsAt /\ ResetsAt \in Int
    BY DEF Asks, WindowTypeOK, OpenIsNow, IsOpen, ResetsAt
  <2>3. <<h, level>> \notin asks
    <3>1. SUFFICES ASSUME <<h, level>> \in asks PROVE Nudged(h, level, seen)
      BY <2>1
    <3> DEFINE mark == nudged[h]
    <3>2. /\ level <= mark.band /\ opened <= mark.ts /\ mark.ts <= now
          /\ mark.reset \in {ResetsAt, Never}
      BY <1>6, <2>2, <3>1 DEF PromptsAreMarked
    <3>3. mark.ts \in Never..Horizon /\ mark.band \in 0..2 /\ level \in 0..2
      BY DEF WindowTypeOK
    <3>4. opened # Never /\ opened \in Never..Horizon /\ now \in 0..Horizon /\ now < opened + Window
      BY <2>2 DEF IsOpen, ResetsAt, WindowTypeOK
    <3> HIDE DEF mark
    <3>5. mark.ts # Never /\ mark.band >= level /\ now - mark.ts < Rearm
      BY <1>6, <3>2, <3>3, <3>4
    <3> QED
      BY <2>1, <3>2, <3>5 DEF Nudged, mark
  <2>4. ~again'
    BY <1>6, <2>3 DEF PromptsAreMarked, Asks
  <2>5. ASSUME NEW g \in Hooks, NEW b \in Bands, <<g, b>> \in asks'
        PROVE  /\ b <= nudged'[g].band /\ b <= level'
               /\ opened' <= nudged'[g].ts /\ nudged'[g].ts <= now'
               /\ nudged'[g].reset \in {ResetsAt, Never}'
    <3>1. level' = level /\ opened' = opened /\ now' = now /\ ResetsAt' = ResetsAt
      BY DEF Asks, ResetsAt
    <3>2. CASE g = h
      <4>1. nudged'[g] = [band |-> level, reset |-> seen, ts |-> now]
        BY <2>1, <3>2 DEF WindowTypeOK
      <4>2. b <= level
        BY <1>6, <2>2, <2>5, <3>2 DEF PromptsAreMarked, Asks, WindowTypeOK, Bands
      <4> QED
        BY <2>1, <2>2, <3>1, <4>1, <4>2 DEF WindowTypeOK
    <3>3. CASE g # h
      <4>1. nudged'[g] = nudged[g] /\ <<g, b>> \in asks
        BY <2>1, <2>5, <3>3 DEF WindowTypeOK, Asks
      <4> QED
        BY <1>6, <2>2, <3>1, <4>1 DEF PromptsAreMarked
    <3> QED
      BY <3>2, <3>3
  <2> QED
    BY <2>4, <2>5 DEF PromptsAreMarked
<1> QED
  BY <1>1, <1>2, <1>3, <1>4, <1>5, <1>6

\* It holds at first.
LEMMA WindowInvInit == WindowInit => WindowInv
<1> SUFFICES ASSUME WindowInit PROVE WindowInv
  OBVIOUS
<1> USE WindowAssumption DEF WindowInit, Never, Unmarked
<1>1. WindowTypeOK
  <2>1. nudged \in [Hooks -> [band : 0..2, reset : Never..(Horizon + Window), ts : Never..Horizon]]
    OBVIOUS
  <2>2. asks \subseteq Hooks \X Bands
    OBVIOUS
  <2>3. /\ now \in 0..Horizon /\ opened \in Never..Horizon /\ rescuedAt \in Never..Horizon
        /\ level \in 0..2 /\ cold \in 0..Horizon /\ fails \in 0..MaxFails
    OBVIOUS
  <2>4. reset \in Never..(Horizon + Window) /\ wake \in Nat /\ saves \in Nat
    OBVIOUS
  <2>5. sure \in BOOLEAN /\ again \in BOOLEAN
    BY Zenon
  <2> QED
    BY ONLY <2>1, <2>2, <2>3, <2>4, <2>5 DEF WindowTypeOK
<1>2. OpenIsNow /\ ResetIsKnown /\ WakesInTime
  BY DEF OpenIsNow, ResetIsKnown, WakesInTime, IsOpen
<1>3. RescueIsMarked /\ PromptsAreMarked
  BY DEF RescueIsMarked, PromptsAreMarked, IsOpen
<1> QED
  BY <1>1, <1>2, <1>3 DEF WindowInv

\* The invariant is inductive.
LEMMA WindowInvNext == WindowInv /\ [WindowNext]_windowVars => WindowInv'
<1> SUFFICES ASSUME WindowInv, [WindowNext]_windowVars PROVE WindowInv'
  OBVIOUS
<1>1. CASE UNCHANGED windowVars
  BY <1>1 DEF windowVars, givenVars, WindowInv, WindowTypeOK, OpenIsNow, ResetIsKnown,
      WakesInTime, RescueIsMarked, PromptsAreMarked, IsOpen, ResetsAt
<1>2. CASE WindowNext
  BY <1>2, WindowTick, WindowTurn, WindowWarms, WindowRestarts, WindowGuard, WindowAsks
      DEF WindowNext
<1> QED
  BY <1>1, <1>2

\* The usage window keeps its invariant: the strengthening the two properties
\* of keep-warm and of the hooks rest on.
THEOREM WindowInvariant == WindowSpec => []WindowInv
<1> QED
  BY WindowInvInit, WindowInvNext, PTL DEF WindowSpec

\* Once the service has known a window's reset, the account is without a
\* window for at most Offset ticks, for every value of the constants.
THEOREM WarmStays == WindowSpec => []StaysWarm
<1>1. WindowInv => StaysWarm
  BY WindowAssumption DEF WindowInv, WindowTypeOK, OpenIsNow, WakesInTime, StaysWarm, IsOpen,
      ResetsAt
<1> QED
  BY <1>1, WindowInvariant, PTL

\* A session saves its work once in a window and is asked once for a band, if
\* the markers stay silent for no less than a window, as the six hours they
\* are given do for the five of a window.
THEOREM NudgesOnce == ASSUME Window <= Rearm PROVE WindowSpec => []NudgedOnce
<1>1. WindowInv => NudgedOnce
  BY DEF WindowInv, RescueIsMarked, PromptsAreMarked, NudgedOnce
<1> QED
  BY <1>1, WindowInvariant, PTL

=============================================================================
