------------------------------- MODULE Worktrees -------------------------------
(***************************************************************************)
(* The worktrees workers run in (horus/worktree.py): created or reused by  *)
(* `horus run --worktree`, reclaimed with their branch by `horus prune`    *)
(* and `datum close --remove-worktree` when the branch looks merged.       *)
(***************************************************************************)
EXTENDS Integers, FiniteSets

CONSTANTS Branches, Paths,
          Slug,        \* Slug[b]: the path branch_slug gives branch b
          Workers, Cleaners,
          MaxCommits   \* bound: commits

ASSUME WorktreesAssumption == Slug \in [Branches -> Paths] /\ MaxCommits \in Nat

VARIABLES tip,        \* tip[b]: what b has beyond its start, or Missing
          upstream,   \* upstream[b]: "none", "live" or "gone"
          pushed,     \* pushed[b]: what its remote has
          trunk,      \* the commits in origin's default branch
          squashed,   \* the commits whose content is, in a squash
          tree,       \* tree[d]: the branch checked out in d, or NoTree
          dirty,      \* the worktrees with uncommitted changes
          worker,     \* worker[w]: [at, told]: the path w runs in, the branch it asked for
          cleaner,    \* cleaner[q]: [pc, at, branch, had, gone]
          commits,    \* commits made so far
          lost        \* the commits a removal has discarded: [id, seen, gone]

treeVars == <<tip, upstream, pushed, trunk, squashed, tree, dirty, worker, cleaner,
              commits, lost>>

NoTree == "no tree"
Missing == {0}
Away == [at |-> NoTree, told |-> NoTree]
Resting == [pc |-> "idle", at |-> NoTree, branch |-> NoTree, had |-> {}, gone |-> FALSE]

TreeInit ==
    /\ tip = [b \in Branches |-> Missing] /\ upstream = [b \in Branches |-> "none"]
    /\ pushed = [b \in Branches |-> {}] /\ trunk = {} /\ squashed = {}
    /\ tree = [d \in Paths |-> NoTree] /\ dirty = {}
    /\ worker = [w \in Workers |-> Away] /\ cleaner = [q \in Cleaners |-> Resting]
    /\ commits = 0 /\ lost = {}

remoteVars == <<upstream, pushed, trunk, squashed>>

-----------------------------------------------------------------------------
(* The workers.                                                            *)

\* ensure_worktree: a worktree at the path is reused as it is; else the branch,
\* new or not, is checked out there, which git refuses if it already is
\* somewhere.
Ensure(w, b) ==
    /\ worker[w] = Away
    /\ \/ tree[Slug[b]] # NoTree /\ UNCHANGED <<tip, tree>>
       \/ /\ tree[Slug[b]] = NoTree /\ \A d \in Paths : tree[d] # b
          /\ tip' = [tip EXCEPT ![b] = IF @ = Missing THEN {} ELSE @]
          /\ tree' = [tree EXCEPT ![Slug[b]] = b]
    /\ worker' = [worker EXCEPT ![w] = [at |-> Slug[b], told |-> b]]
    /\ UNCHANGED <<remoteVars, dirty, cleaner, commits, lost>>

AtWork(w) == worker[w].at # NoTree /\ tree[worker[w].at] # NoTree

Edits(w) ==
    /\ AtWork(w) /\ dirty' = dirty \cup {worker[w].at}
    /\ UNCHANGED <<tip, remoteVars, tree, worker, cleaner, commits, lost>>

Commits(w) ==
    /\ AtWork(w) /\ worker[w].at \in dirty /\ commits < MaxCommits
    /\ commits' = commits + 1 /\ dirty' = dirty \ {worker[w].at}
    /\ tip' = [tip EXCEPT ![tree[worker[w].at]] = @ \cup {commits + 1}]
    /\ UNCHANGED <<remoteVars, tree, worker, cleaner, lost>>

Pushes(w) ==
    LET b == tree[worker[w].at] IN
    /\ AtWork(w) /\ upstream' = [upstream EXCEPT ![b] = "live"]
    /\ pushed' = [pushed EXCEPT ![b] = tip[b]]
    /\ UNCHANGED <<tip, trunk, squashed, tree, dirty, worker, cleaner, commits, lost>>

Leaves(w) ==
    /\ worker[w] # Away /\ worker' = [worker EXCEPT ![w] = Away]
    /\ UNCHANGED <<tip, remoteVars, tree, dirty, cleaner, commits, lost>>

-----------------------------------------------------------------------------
\* A pull request is merged, squashed or closed, its branch deleted on the
\* remote, and this clone has pruned it.
Settles(b) ==
    /\ upstream[b] = "live" /\ upstream' = [upstream EXCEPT ![b] = "gone"]
    /\ \/ trunk' = trunk \cup pushed[b] /\ UNCHANGED squashed
       \/ squashed' = squashed \cup pushed[b] /\ UNCHANGED trunk
       \/ UNCHANGED <<trunk, squashed>>
    /\ UNCHANGED <<tip, pushed, tree, dirty, worker, cleaner, commits, lost>>

\* A merge that leaves the branch on the remote.
Merged(b) ==
    /\ upstream[b] = "live" /\ trunk' = trunk \cup pushed[b]
    /\ UNCHANGED <<tip, upstream, pushed, squashed, tree, dirty, worker, cleaner, commits, lost>>

-----------------------------------------------------------------------------
(* remove_if_merged, for a path that survey listed or a datum names.       *)

\* Mutant: a branch whose start is merged is.
LooksMerged_Start(b) == upstream[b] # "live"

\* The upstream is gone, or all of the branch is in the default branch.
LooksMerged(b) == upstream[b] = "gone" \/ tip[b] \subseteq trunk

Checks(q, d) ==
    LET b == tree[d] IN
    /\ cleaner[q].pc = "idle" /\ b # NoTree /\ LooksMerged(b)
    /\ cleaner' = [cleaner EXCEPT ![q] = [pc |-> "checked", at |-> d, branch |-> b,
                                          had |-> tip[b], gone |-> upstream[b] = "gone"]]
    /\ UNCHANGED <<tip, remoteVars, tree, dirty, worker, commits, lost>>

\* git worktree remove, which refuses one with changes, or none.
Removes(q) ==
    LET d == cleaner[q].at IN
    /\ cleaner[q].pc = "checked"
    /\ IF d \in dirty \/ tree[d] = NoTree
         THEN cleaner' = [cleaner EXCEPT ![q] = Resting] /\ UNCHANGED tree
         ELSE /\ cleaner' = [cleaner EXCEPT ![q].pc = "removed"]
              /\ tree' = [tree EXCEPT ![d] = NoTree]
    /\ UNCHANGED <<tip, remoteVars, dirty, worker, commits, lost>>

\* git branch -D, which refuses one that is checked out, or none.
Deletes(q) ==
    LET b == cleaner[q].branch IN
    /\ cleaner[q].pc = "removed" /\ cleaner' = [cleaner EXCEPT ![q] = Resting]
    /\ IF tip[b] = Missing \/ \E d \in Paths : tree[d] = b
         THEN UNCHANGED <<tip, upstream, pushed, lost>>
         ELSE /\ tip' = [tip EXCEPT ![b] = Missing]
              /\ upstream' = [upstream EXCEPT ![b] = "none"]
              /\ pushed' = [pushed EXCEPT ![b] = {}]
              /\ lost' = lost \cup
                   {[id |-> n, seen |-> n \in cleaner[q].had, gone |-> cleaner[q].gone] :
                      n \in tip[b] \ (trunk \cup squashed \cup
                                      IF upstream[b] = "live" THEN pushed[b] ELSE {})}
    /\ UNCHANGED <<trunk, squashed, tree, dirty, worker, commits>>

Prunes(q) == Removes(q) \/ Deletes(q) \/ \E d \in Paths : Checks(q, d)

-----------------------------------------------------------------------------
TreeNext ==
    \/ \E w \in Workers : \/ Edits(w) \/ Commits(w) \/ Pushes(w) \/ Leaves(w)
                          \/ \E b \in Branches : Ensure(w, b)
    \/ \E b \in Branches : Settles(b) \/ Merged(b)
    \/ \E q \in Cleaners : Prunes(q)

TreeSpec == TreeInit /\ [][TreeNext]_treeVars

-----------------------------------------------------------------------------
(* Properties.                                                             *)

TreeTypeOK ==
    /\ tip \in [Branches -> SUBSET (0..MaxCommits)]
    /\ upstream \in [Branches -> {"none", "live", "gone"}]
    /\ pushed \in [Branches -> SUBSET (1..MaxCommits)]
    /\ trunk \subseteq 1..MaxCommits /\ squashed \subseteq 1..MaxCommits
    /\ tree \in [Paths -> Branches \cup {NoTree}] /\ dirty \subseteq Paths
    /\ worker \in [Workers -> [at : Paths \cup {NoTree}, told : Branches \cup {NoTree}]]
    /\ cleaner \in [Cleaners ->
          [pc : {"idle", "checked", "removed"}, at : Paths \cup {NoTree},
           branch : Branches \cup {NoTree}, had : SUBSET (0..MaxCommits), gone : BOOLEAN]]
    /\ commits \in 0..MaxCommits

\* Work that was there when a branch was judged, and is on no remote, is
\* discarded only with a branch whose upstream was deleted, though workers
\* reuse, recreate and push the branch while it is removed.
DiscardsJudged == \A c \in lost : c.seen => c.gone

\* What the documentation says: a worktree that is live work is never reclaimed.
LiveTreesStay == \A w \in Workers : worker[w] # Away => AtWork(w)
=============================================================================
