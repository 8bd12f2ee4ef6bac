---------------------------- MODULE ContinuitySync ----------------------------
(***************************************************************************)
(* One project in several clones: `horus close` (closure.py), `horus sync` *)
(* (sync.py, gitstate.py), the dashboard's refresh of generated artifacts  *)
(* (with integration.py), the rescue at the usage limit (rescue.py), and   *)
(* the hook that watches an agent's pushes (cli.py).  A commit is its      *)
(* number in the log, a branch the commit at its tip; commits differ only  *)
(* in what they touch.  One program or agent at a time is at work in a     *)
(* clone, so that its local steps are one action; it can be killed between *)
(* actions.  Git and GitHub are external.                                  *)
(***************************************************************************)
EXTENDS Naturals, FiniteSets, Sequences

CONSTANTS Clones,    \* the owner's clones of one repository
          Knows,     \* those whose origin/HEAD is set
          Ways,      \* what may happen besides: agents "chain" a commit and a
                     \* push to main in one command, workers run "inplace",
                     \* topics are "merge"d locally, the network is "offline"
          MaxEdits,  \* bound on the edits of all clones together
          MaxCommits \* bound on the log

ASSUME ContinuityAssumption ==
    Knows \subseteq Clones /\ MaxEdits \in Nat /\ MaxCommits \in Nat \ {0}

VARIABLES log,     \* log[c]: the commits before c, and what c touches
          origin,  \* origin[b]: branch b on GitHub, or None
          passed,  \* the commits whose pull request was merged
          tip,     \* tip[m][b]: branch b of clone m, or None
          seen,    \* seen[m][b]: origin/b as m last saw it, or None
          tracks,  \* tracks[m]: the branches of m that have an upstream
          on,      \* on[m]: the branch that is checked out
          dirty,   \* dirty[m]: what differs from it in the work tree
          index,   \* index[m]: the part of dirty that is staged
          marker,  \* marker[m]: .consolidated-to
          noted,   \* noted[m]: the commits offered to the recovery note, and
                   \* the closing commits, which are not meant to be
          owed,    \* owed[m]: what the program at work in m has still to do
          said,    \* said[m]: "fresh" while close --check stands
          edits    \* the edits so far

hub      == <<origin, passed>>
refs     == <<tip, seen, tracks, on>>
tree     == <<dirty, index>>
harvest  == <<marker, noted>>
syncVars == <<log, hub, refs, tree, harvest, owed, said, edits>>

None == 0
Branches == {"main", "topic", "refresh"}
Continuity == {"lane", "art"}   \* prose the sessions write, files Horus generates
Kinds == Continuity \cup {"work"}

\* What git log shows at commit c.
Reach(commits, c) == IF c = None THEN {} ELSE commits[c].past \cup {c}
Hist(c) == Reach(log, c)
At(m) == tip[m][on[m]]
Free(m) == owed[m] = "nothing"
Says(m, word) == said' = [said EXCEPT ![m] = word]

ContinuityInit ==
    /\ log = <<[past |-> {}, touches |-> {}]>>
    /\ origin = [b \in Branches |-> IF b = "main" THEN 1 ELSE None] /\ passed = {}
    /\ tip = [m \in Clones |-> origin] /\ seen = tip
    /\ tracks = [m \in Clones |-> {"main"}] /\ on = [m \in Clones |-> "main"]
    /\ dirty = [m \in Clones |-> {}] /\ index = dirty
    /\ marker = [m \in Clones |-> 1] /\ noted = [m \in Clones |-> {1}]
    /\ owed = [m \in Clones |-> "nothing"] /\ said = [m \in Clones |-> "nothing"]
    /\ edits = 0

-----------------------------------------------------------------------------
(* What git does.                                                          *)

Appends(past, touches) ==
    /\ Len(log) < MaxCommits
    /\ log' = Append(log, [past |-> past, touches |-> touches])

\* git commit on branch b takes everything that is staged, whoever staged it.
Commits(m, b, staged) ==
    /\ Appends(Hist(At(m)), staged)
    /\ tip' = [tip EXCEPT ![m][b] = Len(log) + 1]
    /\ dirty' = [dirty EXCEPT ![m] = @ \ staged]
    /\ index' = [index EXCEPT ![m] = {}]

\* git push of commit c, which adds to the branch or is refused.
Accepts(b, before) == origin[b] = None \/ origin[b] \in before
Pushes(m, b, c) ==
    /\ origin' = [origin EXCEPT ![b] = c] /\ seen' = [seen EXCEPT ![m][b] = c]
Follows(m, b) == tracks' = [tracks EXCEPT ![m] = @ \cup {b}]   \* push -u

-----------------------------------------------------------------------------
(* What an agent, or the owner, does in a clone.                           *)

Edit(m) == \E k \in {"lane", "work"} \ dirty[m] :
    /\ Free(m) /\ edits < MaxEdits
    /\ dirty' = [dirty EXCEPT ![m] = @ \cup {k}] /\ edits' = edits + 1
    /\ Says(m, "nothing")
    /\ UNCHANGED <<log, hub, refs, index, harvest, owed>>

Stage(m) == \E k \in dirty[m] \ index[m] :
    /\ Free(m) /\ index' = [index EXCEPT ![m] = @ \cup {k}]
    /\ UNCHANGED <<log, hub, refs, dirty, harvest, owed, said, edits>>

Commit(m) ==
    /\ Free(m) /\ index[m] # {} /\ Commits(m, on[m], index[m]) /\ Says(m, "nothing")
    /\ UNCHANGED <<hub, seen, tracks, on, harvest, owed, edits>>

\* git checkout topic, or main: a branch that is new starts at origin's, or
\* where the clone stands.
Switch(m) == \E b \in {"main", "topic"} \ {on[m]} :
    /\ Free(m) /\ on' = [on EXCEPT ![m] = b] /\ Says(m, "nothing")
    /\ tip' = [tip EXCEPT ![m][b] = IF @ # None THEN @
                                    ELSE IF seen[m][b] # None THEN seen[m][b] ELSE At(m)]
    /\ IF tip[m][b] = None /\ seen[m][b] # None THEN Follows(m, b) ELSE UNCHANGED tracks
    /\ UNCHANGED <<log, hub, seen, tree, harvest, owed, edits>>

\* git merge of commit c.
Merges(m, c) ==
    /\ Free(m) /\ ~ Hist(c) \subseteq Hist(At(m)) /\ Says(m, "nothing")
    /\ IF Hist(At(m)) \subseteq Hist(c)
       THEN tip' = [tip EXCEPT ![m][on[m]] = c] /\ log' = log
       ELSE /\ Appends(Hist(At(m)) \cup Hist(c), {})
            /\ tip' = [tip EXCEPT ![m][on[m]] = Len(log) + 1]
    /\ UNCHANGED <<hub, seen, tracks, on, tree, harvest, owed, edits>>

MergeTopic(m) == "merge" \in Ways /\ on[m] = "main" /\ Merges(m, tip[m]["topic"])

\* What sync leaves to the owner: to merge (or rebase) deliberately, with
\* what is uncommitted put aside.
MergeUpstream(m) == on[m] \in tracks[m] /\ Merges(m, seen[m][on[m]])

\* Mutant: only the commit at the tip is looked at.
Violations_Tip(m, unpushed) ==
    IF on[m] # "main" \/ m \notin Knows THEN {}
    ELSE {c \in unpushed \cap {At(m)} : ~ log[c].touches \subseteq Continuity}

\* direct_push_violations: what is not continuity in the unpushed commits, on
\* the default branch, where it is known.
Violations(m, unpushed) ==
    IF on[m] # "main" \/ m \notin Knows THEN {}
    ELSE {c \in unpushed : ~ log[c].touches \subseteq Continuity}

\* Mutant: what the clone lacks for what it has in advance.
Unpushed_Swapped(m, b) == Hist(seen[m][b]) \ Hist(At(m))

Unpushed(m, b) == Hist(At(m)) \ Hist(seen[m][b])

\* An agent's git push, which the hook looks at before it is run.
AgentPush(m) ==
    /\ Free(m) /\ Violations(m, Unpushed(m, "main")) = {}
    /\ At(m) # origin[on[m]] /\ Accepts(on[m], Hist(At(m)))
    /\ Pushes(m, on[m], At(m)) /\ Follows(m, on[m])
    /\ UNCHANGED <<log, passed, tip, on, tree, harvest, owed, said, edits>>

\* Everything is committed and pushed at once.
CommitsAndPushes(m) ==
    /\ Free(m) /\ dirty[m] # {} /\ Commits(m, on[m], dirty[m]) /\ Says(m, "nothing")
    /\ \/ /\ Accepts(on[m], Hist(At(m))) /\ Follows(m, on[m])
          /\ Pushes(m, on[m], Len(log) + 1)
       \/ /\ "offline" \in Ways \/ ~ Accepts(on[m], Hist(At(m)))
          /\ UNCHANGED <<origin, seen, tracks>>
    /\ UNCHANGED <<passed, on, harvest, owed, edits>>

\* git add -A && git commit && git push: the hook looks before any of it ran.
AgentChain(m) ==
    /\ on[m] \in (IF "chain" \in Ways THEN Branches ELSE Branches \ {"main"})
    /\ Violations(m, Unpushed(m, "main")) = {} /\ CommitsAndPushes(m)

\* rescue_worker at the usage limit.  (The rescue of a main checkout writes
\* a ref of its own and leaves all of this alone.)
Rescue(m) ==
    /\ on[m] \in (IF "inplace" \in Ways THEN Branches ELSE {"topic"})
    /\ CommitsAndPushes(m)

\* A pull request whose checks are green is merged on GitHub.
MergePR(b) ==
    /\ b # "main" /\ ~ Hist(origin[b]) \subseteq Hist(origin["main"])
    /\ Appends(Hist(origin["main"]) \cup Hist(origin[b]), {})
    /\ origin' = [origin EXCEPT !["main"] = Len(log) + 1]
    /\ passed' = passed \cup Hist(origin[b])
    /\ UNCHANGED <<refs, tree, harvest, owed, said, edits>>

\* A clone that is not among Clones pushes continuity.
PushElsewhere ==
    /\ edits < MaxEdits /\ edits' = edits + 1
    /\ Appends(Hist(origin["main"]), {"lane"})
    /\ origin' = [origin EXCEPT !["main"] = Len(log) + 1]
    /\ UNCHANGED <<passed, refs, tree, harvest, owed, said>>

-----------------------------------------------------------------------------
(* horus close.                                                            *)

\* remote_lane_divergence: newer continuity on the upstream.
Newer(m) ==
    IF on[m] \notin tracks[m] THEN {}
    ELSE {c \in Hist(origin[on[m]]) \ Hist(At(m)) : log[c].touches \cap Continuity # {}}

\* Mutant: just the commit at the tip, as when the marker is unknown.
Harvested_Tip(m) == {At(m)} \ Hist(marker[m])

\* harvest_checkpoint: what lies between the marker and HEAD.
Harvested(m) == Hist(At(m)) \ Hist(marker[m])
Harvest(m) ==
    /\ Free(m) /\ marker[m] # At(m)
    /\ noted' = [noted EXCEPT ![m] = @ \cup Harvested(m)]
    /\ marker' = [marker EXCEPT ![m] = At(m)]
    /\ UNCHANGED <<log, hub, refs, tree, owed, said, edits>>

\* commit_continuity after its guard: harvest, stage, commit, seal.
ClosesLocally(m) ==
    LET staged == index[m] \cup (dirty[m] \cap Continuity) IN
    /\ staged \cap Continuity # {} /\ Commits(m, on[m], staged)
    /\ noted' = [noted EXCEPT ![m] = @ \cup Harvested(m) \cup {Len(log) + 1}]
    /\ marker' = [marker EXCEPT ![m] = Len(log) + 1]

Close(m) ==
    /\ Free(m) /\ ClosesLocally(m) /\ Says(m, "nothing")
    /\ UNCHANGED <<hub, seen, tracks, on, owed, edits>>

\* --push: fetch (or go on without), refuse, or commit and have it to push.
ClosePush(m) ==
    /\ Free(m)
    /\ \/ /\ seen' = [seen EXCEPT ![m] = origin] /\ Newer(m) # {}
          /\ UNCHANGED <<log, tip, tree, harvest, owed, said>>
       \/ /\ \/ seen' = [seen EXCEPT ![m] = origin] /\ Newer(m) = {}
             \/ seen' = seen /\ "offline" \in Ways
          /\ ClosesLocally(m) /\ Says(m, "nothing")
          /\ owed' = [owed EXCEPT ![m] = "push"]
    /\ UNCHANGED <<hub, tracks, on, edits>>

\* The push, or what is said instead of it.
CloseShares(m) ==
    /\ owed[m] = "push" /\ owed' = [owed EXCEPT ![m] = "nothing"]
    /\ \/ /\ Violations(m, Unpushed(m, "main")) = {} /\ Accepts(on[m], Hist(At(m)))
          /\ Pushes(m, on[m], At(m))
       \/ /\ \/ Violations(m, Unpushed(m, "main")) # {} \/ "offline" \in Ways
             \/ ~ Accepts(on[m], Hist(At(m)))
          /\ UNCHANGED <<origin, seen>>
    /\ UNCHANGED <<log, passed, tip, tracks, on, tree, harvest, said, edits>>

\* pending_delivery_commits: product commits after the last canonical one.
Pending(m) ==
    LET lanes == {c \in Hist(At(m)) : "lane" \in log[c].touches} IN
    \E last \in lanes : /\ \A c \in lanes : c <= last
                        /\ \E c \in Hist(At(m)) \ Hist(last) : "work" \in log[c].touches

\* close --check: a clean tree, nothing the upstream does not have, nothing
\* pending.
CloseCheck(m) ==
    /\ Free(m) /\ dirty[m] = {} /\ ~ Pending(m)
    /\ on[m] \in tracks[m] => Unpushed(m, on[m]) = {}
    /\ Says(m, "fresh")
    /\ UNCHANGED <<log, hub, refs, tree, harvest, owed, edits>>

-----------------------------------------------------------------------------
(* horus sync: fetch, and move only what is strictly behind, and clean.    *)

FastForwards(m, there) ==
    /\ on[m] \in tracks[m] /\ dirty[m] = {}
    /\ Hist(At(m)) \subseteq Hist(there) /\ Hist(there) # Hist(At(m))

Sync(m) ==
    /\ Free(m)
    /\ \/ seen' = [seen EXCEPT ![m] = origin]
       \/ "offline" \in Ways /\ seen' = seen
    /\ LET there == seen'[m][on[m]] IN
       tip' = IF FastForwards(m, there) THEN [tip EXCEPT ![m][on[m]] = there] ELSE tip
    /\ UNCHANGED <<log, hub, tracks, on, tree, harvest, owed, said, edits>>

-----------------------------------------------------------------------------
(* The dashboard refreshes the artifacts: process_upgrade_project, and     *)
(* integrate in its modes with a branch and a pull request.                *)

\* The artifacts are written; git checkout -b fails when the branch is there;
\* otherwise they are committed, and the branch is to be pushed.
Refresh(m) ==
    /\ Free(m) /\ dirty[m] = {}
    /\ \A c \in Hist(At(m)) : "art" \notin log[c].touches
    /\ IF tip[m]["refresh"] # None
       THEN /\ dirty' = [dirty EXCEPT ![m] = {"art"}]
            /\ UNCHANGED <<log, tip, on, index, owed>>
       ELSE /\ Commits(m, "refresh", {"art"})
            /\ on' = [on EXCEPT ![m] = "refresh"]
            /\ owed' = [owed EXCEPT ![m] = "publish"]
    /\ Says(m, "nothing")
    /\ UNCHANGED <<hub, seen, tracks, harvest, edits>>

\* Pushed, with its pull request open, the clone goes back to the base branch;
\* a push that fails leaves it where it is.
RefreshPublish(m) ==
    /\ owed[m] = "publish" /\ owed' = [owed EXCEPT ![m] = "nothing"]
    /\ \/ /\ Accepts("refresh", Hist(At(m))) /\ Pushes(m, "refresh", At(m))
          /\ Follows(m, "refresh") /\ on' = [on EXCEPT ![m] = "main"]
       \/ /\ "offline" \in Ways \/ ~ Accepts("refresh", Hist(At(m)))
          /\ UNCHANGED <<origin, seen, tracks, on>>
    /\ UNCHANGED <<log, passed, tip, tree, harvest, said, edits>>

-----------------------------------------------------------------------------
Agent(m) == Edit(m) \/ Stage(m) \/ Commit(m) \/ Switch(m) \/ MergeTopic(m)
            \/ MergeUpstream(m) \/ AgentPush(m) \/ AgentChain(m) \/ Rescue(m)
Horus(m) == Harvest(m) \/ Close(m) \/ ClosePush(m) \/ CloseShares(m) \/ CloseCheck(m)
            \/ Sync(m) \/ Refresh(m) \/ RefreshPublish(m)

ContinuityNext ==
    \/ \E m \in Clones : Agent(m) \/ Horus(m)
    \/ \E b \in Branches : MergePR(b)
    \/ PushElsewhere

ContinuitySpec == ContinuityInit /\ [][ContinuityNext]_syncVars

-----------------------------------------------------------------------------
Ids == 1..Len(log)
Maybe == Ids \cup {None}

\* Every variable holds what the code can put there.
ContinuityTypeOK ==
    /\ log \in Seq([past : SUBSET Nat, touches : SUBSET Kinds])
    /\ \A c \in Ids : log[c].past \subseteq 1..(c - 1)
    /\ origin \in [Branches -> Maybe] /\ passed \subseteq Ids
    /\ tip \in [Clones -> [Branches -> Maybe]] /\ seen \in [Clones -> [Branches -> Maybe]]
    /\ tracks \in [Clones -> SUBSET Branches] /\ on \in [Clones -> Branches]
    /\ dirty \in [Clones -> SUBSET Kinds] /\ index \in [Clones -> SUBSET Kinds]
    /\ marker \in [Clones -> Ids] /\ noted \in [Clones -> SUBSET Ids]
    /\ owed \in [Clones -> {"nothing", "push", "publish"}]
    /\ said \in [Clones -> {"nothing", "fresh"}] /\ edits \in Nat

\* What reaches origin's main without a pull request is continuity only,
\* whoever pushes it (direct_push_violations, asked by closure and the hook).
MainIsReviewed ==
    \A c \in Hist(origin["main"]) : "work" \in log[c].touches => c \in passed

\* A commit the marker has passed was offered to the recovery note, unless it
\* is a closing commit (harvest_checkpoint and the seal).
HarvestComplete == \A m \in Clones : Hist(marker[m]) \subseteq noted[m]

\* While `close --check` stands at fresh, on a branch with an upstream, all the
\* clone has is on GitHub (checkpoint_gate).
FreshIsShared ==
    \A m \in Clones : said[m] = "fresh" /\ on[m] \in tracks[m] =>
        /\ dirty[m] = {}
        /\ Hist(At(m)) \subseteq UNION {Hist(origin[b]) : b \in Branches}

\* A refresh leaves no artifacts behind that are not committed
\* (process_upgrade_project with a pull-request policy).
RefreshLeavesClean == \A m \in Clones : "art" \notin dirty[m]
=============================================================================
