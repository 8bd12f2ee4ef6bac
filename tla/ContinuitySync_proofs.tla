------------------------- MODULE ContinuitySync_proofs -------------------------
(***************************************************************************)
(* What holds of any number of clones and commits, as long as origin/HEAD  *)
(* is set in each clone, nobody chains a commit and a push to main in one  *)
(* command, and no worker runs in a main checkout: what reaches main       *)
(* without a pull request is continuity, no commit is kept from the        *)
(* recovery note, and what is called fresh is on GitHub.                   *)
(***************************************************************************)
EXTENDS ContinuitySync, TLAPS

\* The guard knows the default branch and sees each push for what it is.
Guarded == Clones \subseteq Knows /\ Ways \cap {"chain", "inplace"} = {}

Commit1 == [past : SUBSET Nat, touches : SUBSET Kinds]
Upto(l) == 1..Len(l)

\* Numbers grow along the log, and what lies before a commit contains what
\* lies before each commit in it.
LogOK(l) ==
    /\ l \in Seq(Commit1)
    /\ \A c \in Upto(l) : l[c].past \subseteq 1..(c - 1)
    /\ \A c \in Upto(l) : \A d \in Reach(l, c) : Reach(l, d) \subseteq Reach(l, c)

\* A clone stands on a commit, and has a main to go back to.
Standing == \A m \in Clones : At(m) # None /\ tip[m]["main"] # None

\* A clone never knows more of origin's branches than there is.
SeenIsThere == \A m \in Clones : \A b \in Branches : Hist(seen[m][b]) \subseteq Hist(origin[b])

\* Where close --check stands at fresh, nothing is to be pushed.
FreshIsPushed == \A m \in Clones : said[m] = "fresh" =>
    /\ dirty[m] = {} /\ owed[m] = "nothing"
    /\ on[m] \in tracks[m] => Hist(At(m)) \subseteq Hist(seen[m][on[m]])

Shape == ContinuityTypeOK /\ LogOK(log) /\ Standing /\ SeenIsThere
SyncInv == Shape /\ MainIsReviewed /\ HarvestComplete /\ FreshIsPushed

USE ContinuityAssumption DEF ContinuityAssumption

-----------------------------------------------------------------------------
(* The log.                                                                *)

\* What a commit reaches is in the log, the commit included.
LEMMA Reached ==
  ASSUME NEW l, LogOK(l), NEW c \in 0..Len(l)
  PROVE  /\ Reach(l, c) \subseteq Upto(l)
         /\ c # None => c \in Reach(l, c)
         /\ c = None => Reach(l, c) = {}
         /\ \A d \in Reach(l, c) : Reach(l, d) \subseteq Reach(l, c)
<1>1. Len(l) \in Nat
  BY DEF LogOK
<1>2. CASE c = None
  BY <1>2 DEF Reach
<1>3. CASE c # None
  <2>1. c \in Upto(l)
    BY <1>1, <1>3 DEF Upto, None
  <2>2. l[c].past \subseteq 1..(c - 1)
    BY <2>1 DEF LogOK
  <2>3. Reach(l, c) = l[c].past \cup {c}
    BY <1>3 DEF Reach
  <2>4. 1..(c - 1) \subseteq Upto(l)
    BY <1>1, <2>1 DEF Upto
  <2> QED
    BY <1>3, <2>1, <2>2, <2>3, <2>4 DEF LogOK
<1> QED
  BY <1>2, <1>3

Extends(l2, l, past, touches) ==
    /\ LogOK(l2) /\ Len(l2) = Len(l) + 1 /\ Len(l) \in Nat
    /\ \A c \in 0..Len(l) : Reach(l2, c) = Reach(l, c)
    /\ Reach(l2, Len(l) + 1) = past \cup {Len(l) + 1}
    /\ \A c \in 1..Len(l) : l2[c] = l[c]
    /\ l2[Len(l) + 1].touches = touches

\* A commit added on top of what is closed leaves the others as they are.
LEMMA Extended ==
  ASSUME NEW l, LogOK(l), NEW past, NEW touches \in SUBSET Kinds,
         past \subseteq Upto(l), \A d \in past : Reach(l, d) \subseteq past
  PROVE  Extends(Append(l, [past |-> past, touches |-> touches]), l, past, touches)
<1> DEFINE l2 == Append(l, [past |-> past, touches |-> touches])
<1> DEFINE n == Len(l) + 1
<1>1. l \in Seq(Commit1) /\ Len(l) \in Nat
  BY DEF LogOK
<1>2. past \in SUBSET Nat
  BY <1>1 DEF Upto
<1>3. [past |-> past, touches |-> touches] \in Commit1
  BY <1>2 DEF Commit1
<1>4. /\ l2 \in Seq(Commit1) /\ Len(l2) = n
      /\ \A c \in 1..Len(l) : l2[c] = l[c]
      /\ l2[n] = [past |-> past, touches |-> touches]
  BY <1>1, <1>3
<1> HIDE DEF l2
<1>5. \A c \in 0..Len(l) : Reach(l2, c) = Reach(l, c)
  <2>1. SUFFICES ASSUME NEW c \in 0..Len(l) PROVE Reach(l2, c) = Reach(l, c)
    OBVIOUS
  <2>2. c = 0 \/ (c # 0 /\ l2[c] = l[c])
    BY <1>1, <1>4
  <2> QED
    BY <2>2 DEF Reach, None
<1>6. Reach(l2, n) = past \cup {n}
  BY <1>1, <1>4 DEF Reach, None
<1>7. \A c \in Upto(l2) : l2[c].past \subseteq 1..(c - 1)
  BY <1>1, <1>4 DEF LogOK, Upto
<1>8. ASSUME NEW c \in Upto(l2), NEW d \in Reach(l2, c)
      PROVE  Reach(l2, d) \subseteq Reach(l2, c)
  <2>1. CASE c \in Upto(l)
    <3>1. c \in 0..Len(l)
      BY <1>1, <2>1 DEF Upto
    <3>2. Reach(l2, c) = Reach(l, c) /\ d \in Upto(l)
      BY <1>5, <3>1, Reached
    <3>3. Reach(l, d) \subseteq Reach(l, c) /\ d \in 0..Len(l)
      BY <1>1, <3>1, <3>2, Reached DEF Upto
    <3> QED
      BY <1>5, <3>2, <3>3
  <2>2. CASE c = n
    <3>1. CASE d = n
      BY <2>2, <3>1
    <3>2. CASE d # n
      <4>1. d \in past /\ d \in 0..Len(l)
        <5>1. d \in past
          BY <1>6, <2>2, <3>2
        <5> QED
          BY <1>1, <5>1 DEF Upto
      <4> QED
        BY <1>5, <1>6, <2>2, <4>1
    <3> QED
      BY <3>1, <3>2
  <2> QED
    BY <1>1, <1>4, <2>1, <2>2 DEF Upto
<1>9. LogOK(l2)
  BY <1>4, <1>7, <1>8 DEF LogOK
<1>10. Extends(l2, l, past, touches)
  BY <1>1, <1>4, <1>5, <1>6, <1>9 DEF Extends
<1> QED
  BY <1>10 DEF l2

\* The log stays, or has grown.
Grown ==
    /\ LogOK(log') /\ Len(log) \in Nat /\ Len(log') \in Nat /\ Len(log) <= Len(log')
    /\ \A c \in 0..Len(log) : Reach(log', c) = Reach(log, c)
    /\ \A c \in 1..Len(log) : log'[c] = log[c]

LEMMA Kept ==
  ASSUME Shape, log' = log
  PROVE  Grown
BY DEF Shape, LogOK, Grown

LEMMA Named ==
  ASSUME Shape
  PROVE  /\ LogOK(log) /\ Len(log) \in Nat
         /\ Ids = 1..Len(log) /\ Maybe = 0..Len(log)
         /\ \A m \in Clones : At(m) \in 1..Len(log) /\ At(m) \in 0..Len(log)
         /\ \A b \in Branches : origin[b] \in 0..Len(log)
         /\ \A m \in Clones, b \in Branches :
               tip[m][b] \in 0..Len(log) /\ seen[m][b] \in 0..Len(log)
         /\ \A m \in Clones : marker[m] \in 0..Len(log)
<1>1. LogOK(log) /\ Len(log) \in Nat /\ ContinuityTypeOK /\ Standing
  BY DEF Shape, LogOK
<1>2. Ids = 1..Len(log) /\ Maybe = 0..Len(log)
  BY <1>1 DEF Ids, Maybe, None
<1>3. \A m \in Clones, b \in Branches :
        tip[m][b] \in 0..Len(log) /\ seen[m][b] \in 0..Len(log)
  BY <1>1, <1>2 DEF ContinuityTypeOK
<1>4. \A m \in Clones : At(m) \in 0..Len(log) /\ At(m) # 0
  BY <1>1, <1>3 DEF ContinuityTypeOK, Standing, At, None
<1>5. \A m \in Clones : At(m) \in 1..Len(log)
  BY <1>1, <1>4
<1> QED
  BY <1>1, <1>2, <1>3, <1>4, <1>5 DEF ContinuityTypeOK

\* Appends, on top of something closed.
LEMMA Appended ==
  ASSUME Shape, NEW past, NEW touches \in SUBSET Kinds,
         past \subseteq 1..Len(log), \A d \in past : Hist(d) \subseteq past,
         Appends(past, touches)
  PROVE  /\ Grown /\ Len(log') = Len(log) + 1
         /\ Reach(log', Len(log) + 1) = past \cup {Len(log) + 1}
         /\ log'[Len(log) + 1].touches = touches
<1>1. LogOK(log)
  BY Named
<1>2. log' = Append(log, [past |-> past, touches |-> touches])
  BY DEF Appends
<1>3. past \subseteq Upto(log) /\ \A d \in past : Reach(log, d) \subseteq past
  BY DEF Upto, Hist
<1>4. Extends(Append(log, [past |-> past, touches |-> touches]), log, past, touches)
  BY <1>1, <1>3, Extended
<1>5. Extends(log', log, past, touches)
  BY <1>2, <1>4
<1> QED
  BY <1>5 DEF Extends, Grown

\* What one or two commits reach is closed.
LEMMA Joined ==
  ASSUME Shape, NEW c \in 0..Len(log), NEW d \in 0..Len(log)
  PROVE  /\ Hist(c) \cup Hist(d) \subseteq 1..Len(log)
         /\ \A e \in Hist(c) \cup Hist(d) : Hist(e) \subseteq Hist(c) \cup Hist(d)
         /\ c # None => c \in Hist(c)
         /\ c \in Hist(d) => Hist(c) \subseteq Hist(d)
BY Named, Reached DEF Hist, Upto

\* git commit.
LEMMA Committed ==
  ASSUME Shape, NEW m \in Clones, NEW b \in Branches, NEW staged \in SUBSET Kinds,
         Commits(m, b, staged)
  PROVE  /\ Grown /\ Len(log') = Len(log) + 1
         /\ Reach(log', Len(log) + 1) = Hist(At(m)) \cup {Len(log) + 1}
         /\ log'[Len(log) + 1].touches = staged
<1>1. At(m) \in 0..Len(log)
  BY Named
<1>2. /\ Hist(At(m)) \subseteq 1..Len(log)
      /\ \A d \in Hist(At(m)) : Hist(d) \subseteq Hist(At(m))
  BY <1>1, Joined
<1> QED
  BY <1>2, Appended DEF Commits

\* Where nothing is forgotten of what origin has, no clone knows more.
LEMMA StillThere ==
  ASSUME Shape, Grown,
         \A b \in Branches : \/ origin'[b] = origin[b]
                             \/ Reach(log', origin[b]) \subseteq Reach(log', origin'[b]),
         \A m \in Clones, b \in Branches : seen'[m][b] \in {seen[m][b], origin'[b]}
  PROVE  SeenIsThere'
<1>1. SUFFICES ASSUME NEW m \in Clones, NEW b \in Branches
               PROVE  Reach(log', seen'[m][b]) \subseteq Reach(log', origin'[b])
  BY DEF SeenIsThere, Hist
<1>2. /\ origin[b] \in 0..Len(log) /\ seen[m][b] \in 0..Len(log)
  BY Named
<1>3. Reach(log, seen[m][b]) \subseteq Reach(log, origin[b])
  BY DEF Shape, SeenIsThere, Hist
<1>4. Reach(log', seen[m][b]) \subseteq Reach(log', origin[b])
  BY <1>2, <1>3 DEF Grown
<1> QED
  BY <1>4

\* What had its type still has it.
LEMMA Wider ==
  ASSUME Shape, Grown
  PROVE  /\ log' \in Seq([past : SUBSET Nat, touches : SUBSET Kinds])
         /\ \A c \in Ids' : log'[c].past \subseteq 1..(c - 1)
         /\ Ids' = 1..Len(log') /\ Maybe' = 0..Len(log')
         /\ Ids \subseteq Ids' /\ Maybe \subseteq Maybe'
         /\ origin \in [Branches -> Maybe'] /\ passed \subseteq Ids'
         /\ tip \in [Clones -> [Branches -> Maybe']]
         /\ seen \in [Clones -> [Branches -> Maybe']]
         /\ marker \in [Clones -> Ids'] /\ noted \in [Clones -> SUBSET Ids']
<1>1. ContinuityTypeOK /\ Ids = 1..Len(log) /\ Maybe = 0..Len(log)
  BY Named DEF Shape
<1>2. Ids' = 1..Len(log') /\ Maybe' = 0..Len(log')
  BY DEF Ids, Maybe, None, Grown
<1>3. Ids \subseteq Ids' /\ Maybe \subseteq Maybe'
  BY <1>1, <1>2 DEF Grown
<1>4. /\ log' \in Seq([past : SUBSET Nat, touches : SUBSET Kinds])
      /\ \A c \in Ids' : log'[c].past \subseteq 1..(c - 1)
  BY <1>2 DEF Grown, LogOK, Commit1, Upto
<1>5. origin \in [Branches -> Maybe] /\ passed \subseteq Ids
  BY <1>1 DEF ContinuityTypeOK
<1>6. /\ tip \in [Clones -> [Branches -> Maybe]] /\ seen \in [Clones -> [Branches -> Maybe]]
      /\ marker \in [Clones -> Ids] /\ noted \in [Clones -> SUBSET Ids]
  BY <1>1 DEF ContinuityTypeOK
<1>7. tip \in [Clones -> [Branches -> Maybe']] /\ seen \in [Clones -> [Branches -> Maybe']]
  BY <1>3, <1>6
<1>8. marker \in [Clones -> Ids'] /\ noted \in [Clones -> SUBSET Ids']
  BY <1>3, <1>6
<1> QED
  BY <1>2, <1>3, <1>4, <1>5, <1>7, <1>8

\* git push of what contains the branch on origin.
LEMMA Pushed ==
  ASSUME Shape, Grown, NEW m \in Clones, NEW b \in Branches, NEW c \in 0..Len(log'),
         Reach(log, origin[b]) \subseteq Reach(log', c), Pushes(m, b, c)
  PROVE  /\ SeenIsThere'
         /\ origin' \in [Branches -> Maybe'] /\ seen' \in [Clones -> [Branches -> Maybe']]
         /\ \A n \in Clones, d \in Branches :
               Reach(log', seen[n][d]) \subseteq Reach(log', seen'[n][d])
<1>1. /\ origin \in [Branches -> Maybe'] /\ seen \in [Clones -> [Branches -> Maybe']]
      /\ c \in Maybe'
  BY Wider
<1>2. /\ origin' \in [Branches -> Maybe'] /\ seen' \in [Clones -> [Branches -> Maybe']]
      /\ origin'[b] = c /\ \A d \in Branches \ {b} : origin'[d] = origin[d]
      /\ seen'[m][b] = c
      /\ \A n \in Clones, d \in Branches : <<n, d>> # <<m, b>> => seen'[n][d] = seen[n][d]
  BY <1>1 DEF Pushes
<1>3. Reach(log', origin[b]) = Reach(log, origin[b])
  BY Named DEF Grown
<1>4. SeenIsThere'
  BY <1>2, <1>3, StillThere
<1>5. /\ Reach(log', seen[m][b]) = Reach(log, seen[m][b])
      /\ Reach(log, seen[m][b]) \subseteq Reach(log, origin[b])
  BY Named DEF Grown, Shape, SeenIsThere, Hist
<1>6. Reach(log', seen[m][b]) \subseteq Reach(log', seen'[m][b])
  BY <1>2, <1>5
<1>7. ASSUME NEW n \in Clones, NEW d \in Branches
      PROVE  Reach(log', seen[n][d]) \subseteq Reach(log', seen'[n][d])
  <2>1. CASE n = m /\ d = b
    BY <1>6, <2>1
  <2>2. CASE ~ (n = m /\ d = b)
    BY <1>2, <2>2
  <2> QED
    BY <2>1, <2>2
<1> QED
  BY <1>2, <1>4, <1>7

\* A push that origin accepts.
LEMMA Accepted ==
  ASSUME Shape, NEW b \in Branches, NEW c \in 0..Len(log), Accepts(b, Hist(c))
  PROVE  Reach(log, origin[b]) \subseteq Reach(log, c)
<1>1. CASE origin[b] = None
  BY <1>1 DEF Reach
<1>2. CASE origin[b] \in Hist(c)
  BY <1>2, Joined, Named DEF Hist
<1> QED
  BY <1>1, <1>2 DEF Accepts

\* git fetch.
LEMMA Fetched ==
  ASSUME Shape, Grown, UNCHANGED origin, NEW m \in Clones,
         seen' \in {seen, [seen EXCEPT ![m] = origin]}
  PROVE  /\ SeenIsThere' /\ seen' \in [Clones -> [Branches -> Maybe']]
         /\ \A n \in Clones, d \in Branches :
               Reach(log', seen[n][d]) \subseteq Reach(log', seen'[n][d])
<1>1. /\ origin \in [Branches -> Maybe'] /\ seen \in [Clones -> [Branches -> Maybe']]
  BY Wider
<1>2. /\ seen' \in [Clones -> [Branches -> Maybe']]
      /\ \A n \in Clones, d \in Branches : seen'[n][d] \in {seen[n][d], origin[d]}
  BY <1>1
<1>3. SeenIsThere'
  BY <1>2, StillThere
<1>4. ASSUME NEW n \in Clones, NEW d \in Branches
      PROVE  Reach(log', seen[n][d]) \subseteq Reach(log', origin[d])
  BY Named DEF Grown, Shape, SeenIsThere, Hist
<1> QED
  BY <1>2, <1>3, <1>4

\* What the guard lets through to main.
LEMMA Guards ==
  ASSUME Shape, Guarded, NEW m \in Clones, on[m] = "main",
         Violations(m, Unpushed(m, "main")) = {}, NEW c \in Hist(At(m))
  PROVE  c \in Hist(origin["main"]) \/ "work" \notin log[c].touches
<1>1. CASE c \in Hist(seen[m]["main"])
  BY <1>1 DEF Shape, SeenIsThere, Branches
<1>2. CASE c \notin Hist(seen[m]["main"])
  <2>1. c \in Unpushed(m, "main")
    BY <1>2 DEF Unpushed
  <2>2. log[c].touches \subseteq Continuity
    BY <2>1 DEF Violations, Guarded
  <2> QED
    BY <2>2 DEF Continuity
<1> QED
  BY <1>1, <1>2

\* Every commit that comes to main is reviewed or continuity.
LEMMA StillReviewed ==
  ASSUME Shape, MainIsReviewed, Grown, passed \subseteq passed',
         \A c \in Reach(log', origin'["main"]) :
            c \in Hist(origin["main"]) \/ "work" \notin log'[c].touches \/ c \in passed'
  PROVE  MainIsReviewed'
<1>1. Hist(origin["main"]) \subseteq 1..Len(log)
  BY Named, Joined DEF Branches
<1> QED
  BY <1>1 DEF MainIsReviewed, Hist, Grown

LEMMA SameMain ==
  ASSUME Shape, MainIsReviewed, Grown, passed' = passed, origin'["main"] = origin["main"]
  PROVE  MainIsReviewed'
<1>1. Reach(log', origin'["main"]) = Hist(origin["main"])
  BY Named DEF Grown, Hist, Branches
<1> QED
  BY <1>1, StillReviewed

\* Each marker stays, or what it passes is noted.
LEMMA StillHarvested ==
  ASSUME Shape, HarvestComplete, Grown,
         \A m \in Clones : \/ marker'[m] = marker[m] /\ noted'[m] = noted[m]
                           \/ Reach(log', marker'[m]) \subseteq noted'[m]
  PROVE  HarvestComplete'
BY Named DEF HarvestComplete, Grown, Hist

\* A clone that was fresh has not changed but for what it knows of origin, or
\* is where origin is.
LEMMA StillFresh ==
  ASSUME Shape, FreshIsPushed, Grown,
         \A m \in Clones : said'[m] = "fresh" =>
            /\ said[m] = "fresh" /\ dirty'[m] = dirty[m] /\ owed'[m] = owed[m]
            /\ on'[m] = on[m]
            /\ \/ /\ tip'[m] = tip[m] /\ tracks'[m] = tracks[m]
                  /\ \A b \in Branches :
                        Reach(log', seen[m][b]) \subseteq Reach(log', seen'[m][b])
               \/ tip'[m][on[m]] = seen'[m][on[m]]
  PROVE  FreshIsPushed'
<1>1. SUFFICES ASSUME NEW m \in Clones, said'[m] = "fresh"
               PROVE  /\ dirty'[m] = {} /\ owed'[m] = "nothing"
                      /\ on'[m] \in tracks'[m] =>
                           Reach(log', tip'[m][on'[m]]) \subseteq Reach(log', seen'[m][on'[m]])
  BY DEF FreshIsPushed, Hist, At
<1>2. on[m] \in Branches
  BY DEF Shape, ContinuityTypeOK
<1>3. /\ dirty[m] = {} /\ owed[m] = "nothing"
      /\ on[m] \in tracks[m] => Reach(log, tip[m][on[m]]) \subseteq Reach(log, seen[m][on[m]])
  BY <1>1 DEF FreshIsPushed, Hist, At
<1>4. /\ Reach(log', tip[m][on[m]]) = Reach(log, tip[m][on[m]])
      /\ Reach(log', seen[m][on[m]]) = Reach(log, seen[m][on[m]])
  BY <1>2, Named DEF Grown
<1> QED
  BY <1>1, <1>2, <1>3, <1>4

-----------------------------------------------------------------------------
(* The actions that leave the log and origin alone.                        *)

\* An edit only makes a tree dirty.
LEMMA EditKeeps ==
  ASSUME SyncInv, NEW m \in Clones, Edit(m)
  PROVE  SyncInv'
<1>1. Shape /\ MainIsReviewed /\ HarvestComplete /\ FreshIsPushed
  BY DEF SyncInv
<1>2. Grown
  BY <1>1, Kept DEF Edit, hub, refs, tree, harvest, Says
<1>3. ContinuityTypeOK'
  <2>1. ContinuityTypeOK
    BY <1>1 DEF Shape
  <2>2. dirty' \in [Clones -> SUBSET Kinds] /\ edits' \in Nat
    BY <2>1 DEF Edit, ContinuityTypeOK, Kinds, Continuity
  <2>3. said' \in [Clones -> {"nothing", "fresh"}]
    BY <2>1 DEF Edit, Says, ContinuityTypeOK
  <2>4. UNCHANGED <<origin, passed, tip, seen, tracks, on, index, marker, noted, owed>>
    BY DEF Edit, hub, refs, harvest
  <2> QED
    BY <1>1, <1>2, Wider, <2>1, <2>2, <2>3, <2>4 DEF ContinuityTypeOK
<1>4. Standing'
  BY <1>1, <1>2, <1>3, Named DEF Edit, hub, refs, tree, harvest, Says, Shape, ContinuityTypeOK, Standing, At, None
<1>5. SeenIsThere'
  BY <1>1, <1>2, StillThere DEF Edit, hub, refs, tree, harvest, Says, Shape, ContinuityTypeOK
<1>6. MainIsReviewed'
  BY <1>1, <1>2, SameMain DEF Edit, hub, refs, tree, harvest, Says
<1>7. HarvestComplete'
  BY <1>1, <1>2, StillHarvested DEF Edit, hub, refs, tree, harvest, Says
<1>8. FreshIsPushed'
  BY <1>1, <1>2, StillFresh DEF Edit, hub, refs, tree, harvest, Says, Shape, ContinuityTypeOK
<1> QED
  BY <1>2, <1>3, <1>4, <1>5, <1>6, <1>7, <1>8 DEF SyncInv, Shape, Grown

\* Staging only moves what is dirty.
LEMMA StageKeeps ==
  ASSUME SyncInv, NEW m \in Clones, Stage(m)
  PROVE  SyncInv'
<1>1. Shape /\ MainIsReviewed /\ HarvestComplete /\ FreshIsPushed
  BY DEF SyncInv
<1>2. Grown
  BY <1>1, Kept DEF Stage, hub, refs, tree, harvest, Says
<1>3. ContinuityTypeOK'
  <2>1. ContinuityTypeOK
    BY <1>1 DEF Shape
  <2>2. index' \in [Clones -> SUBSET Kinds]
    BY <2>1 DEF Stage, ContinuityTypeOK
  <2>3. UNCHANGED <<origin, passed, tip, seen, tracks, on, dirty, marker, noted, owed, said, edits>>
    BY DEF Stage, hub, refs, harvest
  <2> QED
    BY <1>1, <1>2, Wider, <2>1, <2>2, <2>3 DEF ContinuityTypeOK
<1>4. Standing'
  BY <1>1, <1>2, <1>3, Named DEF Stage, hub, refs, tree, harvest, Says, Shape, ContinuityTypeOK, Standing, At, None
<1>5. SeenIsThere'
  BY <1>1, <1>2, StillThere DEF Stage, hub, refs, tree, harvest, Says, Shape, ContinuityTypeOK
<1>6. MainIsReviewed'
  BY <1>1, <1>2, SameMain DEF Stage, hub, refs, tree, harvest, Says
<1>7. HarvestComplete'
  BY <1>1, <1>2, StillHarvested DEF Stage, hub, refs, tree, harvest, Says
<1>8. FreshIsPushed'
  <2>1. dirty[m] # {} /\ said' = said /\ UNCHANGED <<dirty, owed, on, tip, tracks, seen>>
    BY DEF Stage, hub, refs
  <2> QED
    BY <1>1, <1>2, <2>1, StillFresh
<1> QED
  BY <1>2, <1>3, <1>4, <1>5, <1>6, <1>7, <1>8 DEF SyncInv, Shape, Grown

\* A checkout ends on a commit that is known.
LEMMA SwitchKeeps ==
  ASSUME SyncInv, NEW m \in Clones, Switch(m)
  PROVE  SyncInv'
<1>1. Shape /\ MainIsReviewed /\ HarvestComplete /\ FreshIsPushed
  BY DEF SyncInv
<1>2. Grown
  BY <1>1, Kept DEF Switch, Follows, hub, refs, tree, harvest, Says
<1>3. ContinuityTypeOK'
  <2>1. ContinuityTypeOK
    BY <1>1 DEF Shape
  <2>2. on' \in [Clones -> Branches] /\ tracks' \in [Clones -> SUBSET Branches]
    BY SMTT(30), <2>1 DEF Switch, Follows, ContinuityTypeOK, Branches
  <2>3. tip' \in [Clones -> [Branches -> Maybe]]
    <3>1. PICK b \in {"main", "topic"} : tip' = [tip EXCEPT ![m][b] =
                 IF @ # None THEN @ ELSE IF seen[m][b] # None THEN seen[m][b] ELSE At(m)]
      BY DEF Switch
    <3>2. b \in Branches /\ tip \in [Clones -> [Branches -> Maybe]]
      BY <2>1 DEF Branches, ContinuityTypeOK
    <3>3. tip[m][b] \in Maybe /\ seen[m][b] \in Maybe /\ At(m) \in Maybe
      BY <1>1, <3>2, Named
    <3> QED
      BY <3>1, <3>2, <3>3
  <2>4. said' \in [Clones -> {"nothing", "fresh"}]
    BY <2>1 DEF Switch, Says, ContinuityTypeOK
  <2>5. UNCHANGED <<origin, passed, seen, dirty, index, marker, noted, owed, edits, log>>
    BY DEF Switch, hub, tree, harvest
  <2> QED
    BY <1>1, <1>2, Wider, <2>1, <2>2, <2>3, <2>4, <2>5 DEF ContinuityTypeOK
<1>4. Standing'
  BY <1>1, <1>2, <1>3, Named DEF Switch, Follows, hub, refs, tree, harvest, Says, Shape, ContinuityTypeOK, Standing, At, None
<1>5. SeenIsThere'
  BY <1>1, <1>2, StillThere DEF Switch, Follows, hub, refs, tree, harvest, Says, Shape, ContinuityTypeOK
<1>6. MainIsReviewed'
  BY <1>1, <1>2, SameMain DEF Switch, Follows, hub, refs, tree, harvest, Says
<1>7. HarvestComplete'
  BY <1>1, <1>2, StillHarvested DEF Switch, Follows, hub, refs, tree, harvest, Says
<1>8. FreshIsPushed'
  BY <1>1, <1>2, StillFresh DEF Switch, Follows, hub, refs, tree, harvest, Says, Shape, ContinuityTypeOK
<1> QED
  BY <1>2, <1>3, <1>4, <1>5, <1>6, <1>7, <1>8 DEF SyncInv, Shape, Grown

\* What the check calls fresh is pushed.
LEMMA CheckKeeps ==
  ASSUME SyncInv, NEW m \in Clones, CloseCheck(m)
  PROVE  SyncInv'
<1>1. Shape /\ MainIsReviewed /\ HarvestComplete /\ FreshIsPushed
  BY DEF SyncInv
<1>2. Grown
  BY <1>1, Kept DEF CloseCheck, hub, refs, tree, harvest, Says
<1>3. ContinuityTypeOK'
  BY <1>1, <1>2, Wider, Named DEF CloseCheck, hub, refs, tree, harvest, Says, Shape, ContinuityTypeOK
<1>4. Standing'
  BY <1>1, <1>2, <1>3, Named DEF CloseCheck, hub, refs, tree, harvest, Says, Shape, ContinuityTypeOK, Standing, At, None
<1>5. SeenIsThere'
  BY <1>1, <1>2, StillThere DEF CloseCheck, hub, refs, tree, harvest, Says, Shape, ContinuityTypeOK
<1>6. MainIsReviewed'
  BY <1>1, <1>2, SameMain DEF CloseCheck, hub, refs, tree, harvest, Says
<1>7. HarvestComplete'
  BY <1>1, <1>2, StillHarvested DEF CloseCheck, hub, refs, tree, harvest, Says
<1>8. FreshIsPushed'
  <2>1. SUFFICES ASSUME NEW n \in Clones, said'[n] = "fresh"
                 PROVE  /\ dirty[n] = {} /\ owed[n] = "nothing"
                        /\ on[n] \in tracks[n] => Hist(At(n)) \subseteq Hist(seen[n][on[n]])
    BY DEF CloseCheck, FreshIsPushed, hub, refs, tree, Hist, At
  <2>2. CASE n = m
    BY <2>2 DEF CloseCheck, Free, Unpushed
  <2>3. CASE n # m
    BY <1>1, <2>1, <2>3 DEF CloseCheck, Says, FreshIsPushed, Shape, ContinuityTypeOK
  <2> QED
    BY <2>2, <2>3
<1> QED
  BY <1>2, <1>3, <1>4, <1>5, <1>6, <1>7, <1>8 DEF SyncInv, Shape, Grown

\* What the marker passes is noted.
LEMMA HarvestKeeps ==
  ASSUME SyncInv, NEW m \in Clones, Harvest(m)
  PROVE  SyncInv'
<1>1. Shape /\ MainIsReviewed /\ HarvestComplete /\ FreshIsPushed
  BY DEF SyncInv
<1>2. Grown
  BY <1>1, Kept DEF Harvest
<1>3. UNCHANGED <<log, origin, passed, tip, seen, tracks, on, dirty, index, owed, said, edits>>
  BY DEF Harvest, hub, refs, tree
<1>4. /\ marker' = [marker EXCEPT ![m] = At(m)]
      /\ noted' = [noted EXCEPT ![m] = @ \cup Harvested(m)]
      /\ marker \in [Clones -> Ids] /\ noted \in [Clones -> SUBSET Ids]
  BY <1>1 DEF Harvest, Shape, ContinuityTypeOK
<1>5. ContinuityTypeOK'
  <2>1. At(m) \in Ids /\ Hist(At(m)) \subseteq Ids
    BY <1>1, Named, Joined
  <2>2. marker' \in [Clones -> Ids] /\ noted' \in [Clones -> SUBSET Ids]
    BY <1>4, <2>1 DEF Harvested
  <2> QED
    BY <1>1, <1>2, <1>3, <2>2, Wider DEF Shape, ContinuityTypeOK
<1>6. Standing' /\ SeenIsThere'
  BY <1>1, <1>3 DEF Shape, Standing, At, SeenIsThere, Hist
<1>7. MainIsReviewed' /\ FreshIsPushed'
  BY <1>1, <1>2, <1>3, SameMain, StillFresh
<1>8. HarvestComplete'
  <2>1. Hist(At(m)) \subseteq noted[m] \cup Harvested(m)
    BY <1>1 DEF Harvested, HarvestComplete
  <2>2. Reach(log', marker'[m]) \subseteq noted'[m]
    BY <1>3, <1>4, <2>1 DEF Hist
  <2> QED
    BY <1>1, <1>2, <1>4, <2>2, StillHarvested
<1> QED
  BY <1>2, <1>5, <1>6, <1>7, <1>8 DEF SyncInv, Shape, Grown

-----------------------------------------------------------------------------
(* The actions that leave the log alone and move what is known of origin.  *)

\* The hook guards what an agent pushes.
LEMMA AgentPushKeeps ==
  ASSUME SyncInv, Guarded, NEW m \in Clones, AgentPush(m)
  PROVE  SyncInv'
<1>1. Shape /\ MainIsReviewed /\ HarvestComplete /\ FreshIsPushed
  BY DEF SyncInv
<1>2. Grown
  BY <1>1, Kept DEF AgentPush
<1>3. UNCHANGED <<log, passed, tip, on, dirty, index, marker, noted, owed, said, edits>>
  BY DEF AgentPush, tree, harvest
<1>4. on[m] \in Branches /\ At(m) \in 0..Len(log)
  BY <1>1, Named DEF Shape, ContinuityTypeOK
<1>5. /\ SeenIsThere' /\ origin' \in [Branches -> Maybe']
      /\ seen' \in [Clones -> [Branches -> Maybe']]
      /\ \A n \in Clones, d \in Branches :
            Reach(log', seen[n][d]) \subseteq Reach(log', seen'[n][d])
  <2>1. Reach(log, origin[on[m]]) \subseteq Reach(log', At(m))
    BY <1>1, <1>3, <1>4, Accepted DEF AgentPush
  <2> QED
    BY <1>1, <1>2, <1>3, <1>4, <2>1, Pushed DEF AgentPush
<1>6. ContinuityTypeOK'
  <2>1. tracks' \in [Clones -> SUBSET Branches]
    BY <1>1, <1>4 DEF AgentPush, Follows, Shape, ContinuityTypeOK
  <2> QED
    BY <1>1, <1>2, <1>3, <1>5, <2>1, Wider DEF Shape, ContinuityTypeOK
<1>7. Standing' /\ HarvestComplete'
  BY <1>1, <1>3 DEF Shape, Standing, At, HarvestComplete, Hist
<1>8. MainIsReviewed'
  <2>1. CASE on[m] = "main"
    <3>1. origin'["main"] = At(m)
      BY <1>1, <2>1 DEF AgentPush, Pushes, Shape, ContinuityTypeOK, Branches
    <3>2. \A c \in Hist(At(m)) : c \in Hist(origin["main"]) \/ "work" \notin log[c].touches
      BY <1>1, <2>1, Guards DEF AgentPush
    <3> QED
      BY <1>1, <1>2, <1>3, <3>1, <3>2, StillReviewed DEF Hist
  <2>2. CASE on[m] # "main"
    BY <1>1, <1>2, <1>3, <2>2, SameMain DEF AgentPush, Pushes
  <2> QED
    BY <2>1, <2>2
<1>9. FreshIsPushed'
  <2>1. tip'[m][on[m]] = seen'[m][on[m]]
    BY <1>1, <1>3, <1>4 DEF AgentPush, Pushes, At, Shape, ContinuityTypeOK
  <2>2. \A n \in Clones \ {m} : tracks'[n] = tracks[n]
    BY <1>1 DEF AgentPush, Follows, Shape, ContinuityTypeOK
  <2> QED
    BY <1>1, <1>2, <1>3, <1>5, <2>1, <2>2, StillFresh
<1> QED
  BY <1>2, <1>5, <1>6, <1>7, <1>8, <1>9 DEF SyncInv, Shape, Grown

\* The push of a close, or not.
LEMMA ClosePushed ==
  ASSUME SyncInv, Guarded, NEW m \in Clones, CloseShares(m)
  PROVE  SyncInv'
<1>1. Shape /\ MainIsReviewed /\ HarvestComplete /\ FreshIsPushed
  BY DEF SyncInv
<1>2. Grown
  BY <1>1, Kept DEF CloseShares
<1>3. /\ UNCHANGED <<log, passed, tip, tracks, on, dirty, index, marker, noted, said, edits>>
      /\ owed' = [owed EXCEPT ![m] = "nothing"] /\ said[m] # "fresh"
  BY <1>1 DEF CloseShares, tree, harvest, FreshIsPushed
<1>4. on[m] \in Branches /\ At(m) \in 0..Len(log)
  BY <1>1, Named DEF Shape, ContinuityTypeOK
<1>5. ASSUME ContinuityTypeOK', SeenIsThere', MainIsReviewed',
             \A n \in Clones, d \in Branches :
                Reach(log', seen[n][d]) \subseteq Reach(log', seen'[n][d])
      PROVE  SyncInv'
  <2>1. Standing' /\ HarvestComplete'
    BY <1>1, <1>3 DEF Shape, Standing, At, HarvestComplete, Hist
  <2>2. FreshIsPushed'
    <3>1. \A n \in Clones \ {m} : owed'[n] = owed[n]
      BY <1>1, <1>3 DEF Shape, ContinuityTypeOK
    <3> QED
      BY <1>1, <1>2, <1>3, <1>5, <3>1, StillFresh
  <2> QED
    BY <1>2, <1>5, <2>1, <2>2 DEF SyncInv, Shape, Grown
<1>6. owed' \in [Clones -> {"nothing", "push", "publish"}]
  BY <1>1, <1>3 DEF Shape, ContinuityTypeOK
<1>7. CASE UNCHANGED <<origin, seen>>
  <2>1. ContinuityTypeOK' /\ SeenIsThere' /\ MainIsReviewed'
    BY <1>1, <1>2, <1>3, <1>6, <1>7, Wider, StillThere, SameMain DEF Shape, ContinuityTypeOK
  <2> QED
    BY <1>5, <1>7, <2>1
<1>8. CASE /\ Violations(m, Unpushed(m, "main")) = {} /\ Accepts(on[m], Hist(At(m)))
           /\ Pushes(m, on[m], At(m))
  <2>1. Reach(log, origin[on[m]]) \subseteq Reach(log', At(m))
    BY <1>1, <1>3, <1>4, <1>8, Accepted
  <2>2. /\ SeenIsThere' /\ origin' \in [Branches -> Maybe']
        /\ seen' \in [Clones -> [Branches -> Maybe']]
        /\ \A n \in Clones, d \in Branches :
              Reach(log', seen[n][d]) \subseteq Reach(log', seen'[n][d])
    BY <1>1, <1>2, <1>3, <1>4, <1>8, <2>1, Pushed
  <2>3. ContinuityTypeOK'
    BY <1>1, <1>2, <1>3, <1>6, <2>2, Wider DEF Shape, ContinuityTypeOK
  <2>4. MainIsReviewed'
    <3>1. CASE on[m] = "main"
      <4>1. origin'["main"] = At(m)
        BY <1>1, <1>8, <3>1 DEF Pushes, Shape, ContinuityTypeOK, Branches
      <4>2. \A c \in Hist(At(m)) : c \in Hist(origin["main"]) \/ "work" \notin log[c].touches
        BY <1>1, <1>8, <3>1, Guards
      <4> QED
        BY <1>1, <1>2, <1>3, <4>1, <4>2, StillReviewed DEF Hist
    <3>2. CASE on[m] # "main"
      BY <1>1, <1>2, <1>3, <1>8, <3>2, SameMain DEF Pushes
    <3> QED
      BY <3>1, <3>2
  <2> QED
    BY <1>5, <2>2, <2>3, <2>4
<1> QED
  BY <1>7, <1>8 DEF CloseShares

\* horus sync.
LEMMA SyncKeeps ==
  ASSUME SyncInv, NEW m \in Clones, Sync(m)
  PROVE  SyncInv'
<1>1. Shape /\ MainIsReviewed /\ HarvestComplete /\ FreshIsPushed
  BY DEF SyncInv
<1>2. Grown
  BY <1>1, Kept DEF Sync
<1>3. /\ UNCHANGED <<log, origin, passed, tracks, on, dirty, index, marker, noted, owed, said, edits>>
      /\ seen' \in {seen, [seen EXCEPT ![m] = origin]}
      /\ tip' \in {tip, [tip EXCEPT ![m][on[m]] = seen'[m][on[m]]]}
      /\ tip' # tip => seen'[m][on[m]] # None
  <2>1. FastForwards(m, None) => FALSE
    BY <1>1, Joined, Named DEF FastForwards, Hist, Reach, Shape, Standing, None
  <2> QED
    BY <2>1 DEF Sync, hub, tree, harvest
<1>4. /\ SeenIsThere' /\ seen' \in [Clones -> [Branches -> Maybe']]
      /\ \A n \in Clones, d \in Branches :
            Reach(log', seen[n][d]) \subseteq Reach(log', seen'[n][d])
  BY <1>1, <1>2, <1>3, Fetched
<1>5. /\ tip \in [Clones -> [Branches -> Maybe']] /\ on \in [Clones -> Branches]
  BY <1>1, <1>2, Wider DEF Shape, ContinuityTypeOK
<1>6. tip' \in [Clones -> [Branches -> Maybe']]
  <2>1. seen'[m][on[m]] \in Maybe' /\ on[m] \in Branches
    BY <1>4, <1>5
  <2>2. CASE tip' = tip
    BY <1>5, <2>2
  <2>3. CASE tip' = [tip EXCEPT ![m][on[m]] = seen'[m][on[m]]]
    BY <1>5, <2>1, <2>3
  <2> QED
    BY <1>3, <2>2, <2>3
<1>7. ContinuityTypeOK'
  BY <1>1, <1>2, <1>3, <1>4, <1>6, Wider DEF Shape, ContinuityTypeOK
<1>8. Standing'
  <2>1. ASSUME NEW n \in Clones, NEW b \in Branches, tip[n][b] # None
        PROVE  tip'[n][b] # None
    <3>1. CASE tip' = tip
      BY <2>1, <3>1
    <3>2. CASE tip' # tip
      BY <1>3, <1>5, <2>1, <3>2
    <3> QED
      BY <3>1, <3>2
  <2>2. \A n \in Clones : on[n] \in Branches /\ "main" \in Branches
    BY <1>5 DEF Branches
  <2> QED
    BY <1>1, <1>3, <2>1, <2>2 DEF Shape, Standing, At
<1>9. MainIsReviewed' /\ HarvestComplete'
  BY <1>1, <1>2, <1>3, SameMain, StillHarvested
<1>10. FreshIsPushed'
  <2>1. \A n \in Clones : tip'[n] = tip[n] \/ tip'[n][on[n]] = seen'[n][on[n]]
    BY <1>3, <1>5
  <2> QED
    BY <1>1, <1>2, <1>3, <1>4, <2>1, StillFresh
<1> QED
  BY <1>2, <1>4, <1>7, <1>8, <1>9, <1>10 DEF SyncInv, Shape, Grown

\* The push of a refresh.
LEMMA PublishKeeps ==
  ASSUME SyncInv, NEW m \in Clones, RefreshPublish(m)
  PROVE  SyncInv'
<1>1. Shape /\ MainIsReviewed /\ HarvestComplete /\ FreshIsPushed
  BY DEF SyncInv
<1>2. Grown
  BY <1>1, Kept DEF RefreshPublish
<1>3. /\ UNCHANGED <<log, passed, tip, dirty, index, marker, noted, said, edits>>
      /\ owed' = [owed EXCEPT ![m] = "nothing"] /\ said[m] # "fresh"
  BY <1>1 DEF RefreshPublish, tree, harvest, FreshIsPushed
<1>4. At(m) \in 0..Len(log) /\ "refresh" \in Branches /\ "main" \in Branches
  BY <1>1, Named DEF Branches
<1>5. /\ on' \in [Clones -> Branches] /\ tracks' \in [Clones -> SUBSET Branches]
      /\ on' \in {on, [on EXCEPT ![m] = "main"]}
      /\ \A n \in Clones \ {m} : on'[n] = on[n] /\ tracks'[n] = tracks[n]
  <2>1. /\ on \in [Clones -> Branches] /\ tracks \in [Clones -> SUBSET Branches]
    BY <1>1 DEF Shape, ContinuityTypeOK
  <2>2. CASE UNCHANGED <<tracks, on>>
    BY <2>1, <2>2
  <2>3. CASE /\ tracks' = [tracks EXCEPT ![m] = @ \cup {"refresh"}]
             /\ on' = [on EXCEPT ![m] = "main"]
    BY <1>4, <2>1, <2>3
  <2> QED
    BY <2>2, <2>3 DEF RefreshPublish, Follows
<1>6. /\ SeenIsThere' /\ origin' \in [Branches -> Maybe']
      /\ seen' \in [Clones -> [Branches -> Maybe']]
      /\ \A n \in Clones, d \in Branches :
            Reach(log', seen[n][d]) \subseteq Reach(log', seen'[n][d])
  <2>1. CASE UNCHANGED <<origin, seen>>
    BY <1>1, <1>2, <2>1, Wider, StillThere
  <2>2. CASE Accepts("refresh", Hist(At(m))) /\ Pushes(m, "refresh", At(m))
    <3>1. Reach(log, origin["refresh"]) \subseteq Reach(log', At(m))
      BY <1>1, <1>3, <1>4, <2>2, Accepted
    <3> QED
      BY <1>1, <1>2, <1>3, <1>4, <2>2, <3>1, Pushed
  <2> QED
    BY <2>1, <2>2 DEF RefreshPublish
<1>7. ContinuityTypeOK'
  <2>1. owed' \in [Clones -> {"nothing", "push", "publish"}]
    BY <1>1, <1>3 DEF Shape, ContinuityTypeOK
  <2> QED
    BY <1>1, <1>2, <1>3, <1>5, <1>6, <2>1, Wider DEF Shape, ContinuityTypeOK
<1>8. Standing' /\ HarvestComplete'
  BY <1>1, <1>3, <1>5 DEF Shape, ContinuityTypeOK, Standing, At, HarvestComplete, Hist
<1>9. MainIsReviewed'
  <2>1. origin'["main"] = origin["main"]
    BY <1>1 DEF RefreshPublish, Pushes, Shape, ContinuityTypeOK, Branches
  <2> QED
    BY <1>1, <1>2, <1>3, <2>1, SameMain
<1>10. FreshIsPushed'
  <2>1. \A n \in Clones \ {m} : owed'[n] = owed[n]
    BY <1>1, <1>3 DEF Shape, ContinuityTypeOK
  <2> QED
    BY <1>1, <1>2, <1>3, <1>5, <1>6, <2>1, StillFresh
<1> QED
  BY <1>2, <1>6, <1>7, <1>8, <1>9, <1>10 DEF SyncInv, Shape, Grown

-----------------------------------------------------------------------------
(* The actions that add to the log.                                        *)

\* What git commit leaves of the branches and the tree.
LEMMA CommitTypes ==
  ASSUME Shape, NEW m \in Clones, NEW b \in Branches, NEW staged \in SUBSET Kinds,
         Commits(m, b, staged)
  PROVE  /\ tip' \in [Clones -> [Branches -> Maybe']]
         /\ dirty' \in [Clones -> SUBSET Kinds] /\ index' \in [Clones -> SUBSET Kinds]
         /\ tip'[m][b] = Len(log) + 1 /\ Len(log) + 1 \in Ids' /\ Len(log) + 1 # None
         /\ Len(log) + 1 \in 0..Len(log')
         /\ \A n \in Clones, d \in Branches : tip[n][d] # None => tip'[n][d] # None
         /\ \A n \in Clones \ {m} : tip'[n] = tip[n] /\ dirty'[n] = dirty[n]
<1>1. Grown /\ Len(log') = Len(log) + 1 /\ Len(log) \in Nat
  BY Committed, Named
<1>2. tip \in [Clones -> [Branches -> Maybe']] /\ Maybe' = 0..Len(log') /\ Ids' = 1..Len(log')
  BY <1>1, Wider
<1>3. /\ Len(log) + 1 \in Maybe' /\ Len(log) + 1 \in Ids' /\ Len(log) + 1 # None
  BY <1>1, <1>2 DEF None
<1>4. tip' = [tip EXCEPT ![m][b] = Len(log) + 1]
  BY DEF Commits
<1>5. /\ tip' \in [Clones -> [Branches -> Maybe']] /\ tip'[m][b] = Len(log) + 1
      /\ \A n \in Clones \ {m} : tip'[n] = tip[n]
  BY <1>2, <1>3, <1>4
<1>6. \A n \in Clones, d \in Branches : tip'[n][d] \in {tip[n][d], Len(log) + 1}
  BY <1>2, <1>4
<1>7. /\ dirty' \in [Clones -> SUBSET Kinds] /\ index' \in [Clones -> SUBSET Kinds]
      /\ \A n \in Clones \ {m} : dirty'[n] = dirty[n]
  BY DEF Commits, Shape, ContinuityTypeOK
<1> QED
  BY <1>2, <1>3, <1>5, <1>6, <1>7

\* A commit, and nothing else.
LEMMA CommitKeeps ==
  ASSUME SyncInv, NEW m \in Clones, Commit(m)
  PROVE  SyncInv'
<1>1. Shape /\ MainIsReviewed /\ HarvestComplete /\ FreshIsPushed
  BY DEF SyncInv
<1>2. on[m] \in Branches /\ index[m] \in SUBSET Kinds /\ Commits(m, on[m], index[m])
  BY <1>1 DEF Commit, Shape, ContinuityTypeOK
<1>3. /\ UNCHANGED <<origin, passed, seen, tracks, on, marker, noted, owed, edits>>
      /\ said' = [said EXCEPT ![m] = "nothing"]
  BY DEF Commit, hub, harvest, Says
<1>4. Grown
  BY <1>1, <1>2, Committed
<1>5. /\ tip' \in [Clones -> [Branches -> Maybe']]
      /\ dirty' \in [Clones -> SUBSET Kinds] /\ index' \in [Clones -> SUBSET Kinds]
      /\ \A n \in Clones, d \in Branches : tip[n][d] # None => tip'[n][d] # None
      /\ \A n \in Clones \ {m} : tip'[n] = tip[n] /\ dirty'[n] = dirty[n]
  BY <1>1, <1>2, CommitTypes
<1>6. said \in [Clones -> {"nothing", "fresh"}]
  BY <1>1 DEF Shape, ContinuityTypeOK
<1>7. ContinuityTypeOK'
  <2>1. said' \in [Clones -> {"nothing", "fresh"}]
    BY <1>3, <1>6
  <2> QED
    BY <1>1, <1>3, <1>4, <1>5, <2>1, Wider DEF Shape, ContinuityTypeOK
<1>8. Standing'
  <2>1. \A n \in Clones : on[n] \in Branches /\ "main" \in Branches
    BY <1>1 DEF Shape, ContinuityTypeOK, Branches
  <2> QED
    BY <1>1, <1>3, <1>5, <2>1 DEF Shape, Standing, At
<1>9. SeenIsThere' /\ MainIsReviewed' /\ HarvestComplete'
  BY <1>1, <1>3, <1>4, StillThere, SameMain, StillHarvested
<1>10. FreshIsPushed'
  <2>1. said'[m] # "fresh" /\ \A n \in Clones \ {m} : said'[n] = said[n]
    BY <1>3, <1>6
  <2> QED
    BY <1>1, <1>3, <1>4, <1>5, <2>1, StillFresh
<1> QED
  BY <1>4, <1>7, <1>8, <1>9, <1>10 DEF SyncInv, Shape, Grown

\* git merge.
LEMMA MergeKeeps ==
  ASSUME SyncInv, NEW m \in Clones, NEW c \in 0..Len(log), Merges(m, c)
  PROVE  SyncInv'
<1>1. Shape /\ MainIsReviewed /\ HarvestComplete /\ FreshIsPushed
  BY DEF SyncInv
<1>2. /\ UNCHANGED <<origin, passed, seen, tracks, on, dirty, index, marker, noted, owed, edits>>
      /\ said' = [said EXCEPT ![m] = "nothing"]
  BY DEF Merges, hub, tree, harvest, Says
<1>3. /\ on \in [Clones -> Branches] /\ said \in [Clones -> {"nothing", "fresh"}]
  BY <1>1 DEF Shape, ContinuityTypeOK
<1>4. At(m) \in 0..Len(log) /\ c # None
  <2>1. c = None => Hist(c) = {}
    BY DEF Hist, Reach
  <2> QED
    BY <1>1, <2>1, Named DEF Merges
<1>5. Grown /\ \E d \in 1..Len(log') : tip' = [tip EXCEPT ![m][on[m]] = d]
  <2>1. CASE tip' = [tip EXCEPT ![m][on[m]] = c] /\ log' = log
    <3>1. Grown /\ c \in 1..Len(log')
      BY <1>1, <1>4, <2>1, Kept, Named DEF None
    <3> QED
      BY <2>1, <3>1
  <2>2. CASE /\ Appends(Hist(At(m)) \cup Hist(c), {})
             /\ tip' = [tip EXCEPT ![m][on[m]] = Len(log) + 1]
    <3>1. /\ Hist(At(m)) \cup Hist(c) \subseteq 1..Len(log)
          /\ \A e \in Hist(At(m)) \cup Hist(c) : Hist(e) \subseteq Hist(At(m)) \cup Hist(c)
      BY <1>1, <1>4, Joined
    <3>2. {} \in SUBSET Kinds
      OBVIOUS
    <3>3. Grown /\ Len(log') = Len(log) + 1
      BY <1>1, <2>2, <3>1, <3>2, Appended
    <3>4. Len(log) + 1 \in 1..Len(log')
      BY <1>1, <3>3, Named
    <3> QED
      BY <2>2, <3>3, <3>4
  <2> QED
    BY <2>1, <2>2 DEF Merges
<1>6. /\ tip' \in [Clones -> [Branches -> Maybe']]
      /\ \A n \in Clones, b \in Branches : tip[n][b] # None => tip'[n][b] # None
      /\ \A n \in Clones \ {m} : tip'[n] = tip[n]
  <2>1. PICK d \in 1..Len(log') : tip' = [tip EXCEPT ![m][on[m]] = d]
    BY <1>5
  <2>2. d \in Maybe' /\ d # None /\ tip \in [Clones -> [Branches -> Maybe']]
    BY <1>1, <1>5, Wider DEF Grown, None
  <2>3. \A n \in Clones, b \in Branches : tip'[n][b] \in {tip[n][b], d}
    BY <1>3, <2>1, <2>2
  <2> QED
    BY <1>3, <2>1, <2>2, <2>3
<1>7. ContinuityTypeOK'
  <2>1. said' \in [Clones -> {"nothing", "fresh"}]
    BY <1>2, <1>3
  <2> QED
    BY <1>1, <1>2, <1>5, <1>6, <2>1, Wider DEF Shape, ContinuityTypeOK
<1>8. Standing'
  BY <1>1, <1>2, <1>3, <1>6 DEF Shape, Standing, At, Branches
<1>9. SeenIsThere' /\ MainIsReviewed' /\ HarvestComplete'
  BY <1>1, <1>2, <1>5, StillThere, SameMain, StillHarvested
<1>10. FreshIsPushed'
  <2>1. said'[m] # "fresh" /\ \A n \in Clones \ {m} : said'[n] = said[n]
    BY <1>2, <1>3
  <2> QED
    BY <1>1, <1>2, <1>5, <1>6, <2>1, StillFresh
<1> QED
  BY <1>5, <1>7, <1>8, <1>9, <1>10 DEF SyncInv, Shape, Grown

\* A commit and a push at once, off main.
LEMMA CommitAndPushKeeps ==
  ASSUME SyncInv, NEW m \in Clones, CommitsAndPushes(m), on[m] # "main"
  PROVE  SyncInv'
<1>1. Shape /\ MainIsReviewed /\ HarvestComplete /\ FreshIsPushed
  BY DEF SyncInv
<1>2. on[m] \in Branches /\ dirty[m] \in SUBSET Kinds /\ Commits(m, on[m], dirty[m])
  BY <1>1 DEF CommitsAndPushes, Shape, ContinuityTypeOK
<1>3. /\ UNCHANGED <<passed, on, marker, noted, owed, edits>>
      /\ said' = [said EXCEPT ![m] = "nothing"]
  BY DEF CommitsAndPushes, harvest, Says
<1>4. /\ Grown /\ Reach(log', Len(log) + 1) = Hist(At(m)) \cup {Len(log) + 1}
  BY <1>1, <1>2, Committed
<1>5. /\ tip' \in [Clones -> [Branches -> Maybe']]
      /\ dirty' \in [Clones -> SUBSET Kinds] /\ index' \in [Clones -> SUBSET Kinds]
      /\ Len(log) + 1 \in 0..Len(log')
      /\ \A n \in Clones, d \in Branches : tip[n][d] # None => tip'[n][d] # None
      /\ \A n \in Clones \ {m} : tip'[n] = tip[n] /\ dirty'[n] = dirty[n]
  BY <1>1, <1>2, CommitTypes
<1>6. /\ said \in [Clones -> {"nothing", "fresh"}] /\ tracks \in [Clones -> SUBSET Branches]
      /\ \A n \in Clones : on[n] \in Branches
  BY <1>1 DEF Shape, ContinuityTypeOK
<1>7. /\ SeenIsThere' /\ origin' \in [Branches -> Maybe']
      /\ seen' \in [Clones -> [Branches -> Maybe']]
      /\ \A n \in Clones, d \in Branches :
            Reach(log', seen[n][d]) \subseteq Reach(log', seen'[n][d])
  <2>1. CASE UNCHANGED <<origin, seen>>
    BY <1>1, <1>4, <2>1, Wider, StillThere
  <2>2. CASE Accepts(on[m], Hist(At(m))) /\ Pushes(m, on[m], Len(log) + 1)
    <3>1. At(m) \in 0..Len(log)
      BY <1>1, Named
    <3>2. Reach(log, origin[on[m]]) \subseteq Reach(log, At(m))
      BY <1>1, <1>2, <2>2, <3>1, Accepted
    <3>3. Reach(log, origin[on[m]]) \subseteq Reach(log', Len(log) + 1)
      BY <1>4, <3>2 DEF Hist
    <3> QED
      BY <1>1, <1>2, <1>4, <1>5, <2>2, <3>3, Pushed
  <2> QED
    BY <2>1, <2>2 DEF CommitsAndPushes
<1>8. /\ tracks' \in [Clones -> SUBSET Branches]
      /\ \A n \in Clones \ {m} : tracks'[n] = tracks[n]
  <2>1. CASE tracks' = tracks
    BY <1>6, <2>1
  <2>2. CASE tracks' = [tracks EXCEPT ![m] = @ \cup {on[m]}]
    BY <1>2, <1>6, <2>2
  <2> QED
    BY <2>1, <2>2 DEF CommitsAndPushes, Follows
<1>9. said' \in [Clones -> {"nothing", "fresh"}]
  BY <1>3, <1>6
<1>10. ContinuityTypeOK'
  BY <1>1, <1>3, <1>4, <1>5, <1>7, <1>8, <1>9, Wider DEF Shape, ContinuityTypeOK
<1>11. Standing'
  BY <1>1, <1>3, <1>5, <1>6 DEF Shape, Standing, At, Branches
<1>12. MainIsReviewed'
  <2>1. origin'["main"] = origin["main"]
    BY <1>1 DEF CommitsAndPushes, Pushes, Shape, ContinuityTypeOK, Branches
  <2> QED
    BY <1>1, <1>3, <1>4, <2>1, SameMain
<1>13. HarvestComplete'
  BY <1>1, <1>3, <1>4, StillHarvested
<1>14. FreshIsPushed'
  <2>1. said'[m] # "fresh" /\ \A n \in Clones \ {m} : said'[n] = said[n]
    BY <1>3, <1>6
  <2> QED
    BY <1>1, <1>3, <1>4, <1>5, <1>7, <1>8, <2>1, StillFresh
<1> QED
  BY <1>4, <1>7, <1>10, <1>11, <1>12, <1>13, <1>14 DEF SyncInv, Shape, Grown

\* origin's main moves on GitHub, or by a clone beside.
LEMMA MainMoves ==
  ASSUME SyncInv, NEW past, NEW touches \in SUBSET Kinds,
         past \subseteq 1..Len(log), \A d \in past : Hist(d) \subseteq past,
         Hist(origin["main"]) \subseteq past, Appends(past, touches),
         origin' = [origin EXCEPT !["main"] = Len(log) + 1],
         "work" \notin touches, passed' \subseteq Ids', passed \subseteq passed',
         \A c \in past : c \in Hist(origin["main"]) \/ c \in passed',
         edits' \in Nat, UNCHANGED <<refs, tree, harvest, owed, said>>
  PROVE  SyncInv'
<1>1. Shape /\ MainIsReviewed /\ HarvestComplete /\ FreshIsPushed
  BY DEF SyncInv
<1>2. UNCHANGED <<tip, seen, tracks, on, dirty, index, marker, noted, owed, said>>
  BY DEF refs, tree, harvest
<1>3. /\ Grown /\ Len(log') = Len(log) + 1 /\ log'[Len(log) + 1].touches = touches
      /\ Reach(log', Len(log) + 1) = past \cup {Len(log) + 1}
  BY <1>1, Appended
<1>4. /\ Len(log) + 1 \in Maybe' /\ origin \in [Branches -> Maybe'] /\ "main" \in Branches
  BY <1>1, <1>3, Named, Wider DEF Branches
<1>5. /\ origin' \in [Branches -> Maybe'] /\ origin'["main"] = Len(log) + 1
      /\ \A b \in Branches \ {"main"} : origin'[b] = origin[b]
  BY <1>4
<1>6. ContinuityTypeOK'
  BY <1>1, <1>2, <1>3, <1>5, Wider DEF Shape, ContinuityTypeOK
<1>7. Standing'
  BY <1>1, <1>2 DEF Shape, Standing, At
<1>8. SeenIsThere'
  <2>1. Reach(log', origin["main"]) = Hist(origin["main"])
    BY <1>1, <1>3, <1>4, Named DEF Grown, Hist
  <2>2. Reach(log', origin["main"]) \subseteq Reach(log', origin'["main"])
    BY <1>3, <1>5, <2>1
  <2> QED
    BY <1>1, <1>2, <1>3, <1>5, <2>2, StillThere
<1>9. MainIsReviewed'
  BY <1>1, <1>3, <1>5, StillReviewed
<1>10. HarvestComplete' /\ FreshIsPushed'
  BY <1>1, <1>2, <1>3, StillHarvested, StillFresh
<1> QED
  BY <1>3, <1>6, <1>7, <1>8, <1>9, <1>10 DEF SyncInv, Shape, Grown

LEMMA MergePRKeeps ==
  ASSUME SyncInv, NEW b \in Branches, MergePR(b)
  PROVE  SyncInv'
<1>1. Shape
  BY DEF SyncInv
<1> DEFINE past == Hist(origin["main"]) \cup Hist(origin[b])
<1>2. /\ past \subseteq 1..Len(log) /\ \A d \in past : Hist(d) \subseteq past
      /\ Hist(origin[b]) \subseteq Ids
  BY <1>1, Named, Joined DEF Branches
<1>3. {} \in SUBSET Kinds /\ Appends(past, {})
  BY DEF MergePR
<1>4. Grown
  BY <1>1, <1>2, <1>3, Appended
<1>5. passed' \subseteq Ids' /\ passed' = passed \cup Hist(origin[b])
  BY <1>1, <1>2, <1>4, Wider DEF MergePR
<1>6. edits' \in Nat
  BY <1>1 DEF MergePR, Shape, ContinuityTypeOK
<1> HIDE DEF past
<1>7. Hist(origin["main"]) \subseteq past /\ \A c \in past : c \in Hist(origin["main"]) \/ c \in passed'
  BY <1>5 DEF past
<1>8. origin' = [origin EXCEPT !["main"] = Len(log) + 1] /\ UNCHANGED <<refs, tree, harvest, owed, said>>
  BY DEF MergePR
<1> QED
  BY <1>2, <1>3, <1>5, <1>6, <1>7, <1>8, MainMoves

LEMMA PushElsewhereKeeps ==
  ASSUME SyncInv, PushElsewhere
  PROVE  SyncInv'
<1>1. Shape
  BY DEF SyncInv
<1> DEFINE past == Hist(origin["main"])
<1>2. past \subseteq 1..Len(log) /\ \A d \in past : Hist(d) \subseteq past
  BY <1>1, Named, Joined DEF Branches
<1>3. {"lane"} \in SUBSET Kinds /\ "work" \notin {"lane"} /\ Appends(past, {"lane"})
  BY DEF PushElsewhere, Kinds, Continuity
<1>4. Grown
  BY <1>1, <1>2, <1>3, Appended
<1>5. passed' \subseteq Ids' /\ passed \subseteq passed'
  BY <1>1, <1>4, Wider DEF PushElsewhere
<1>6. edits' \in Nat
  BY <1>1 DEF PushElsewhere, Shape, ContinuityTypeOK
<1>7. origin' = [origin EXCEPT !["main"] = Len(log) + 1] /\ UNCHANGED <<refs, tree, harvest, owed, said>>
  BY DEF PushElsewhere
<1> QED
  BY <1>2, <1>3, <1>5, <1>6, <1>7, MainMoves

\* harvest, stage, commit and seal, whatever is learned of origin before.
LEMMA ClosedLocally ==
  ASSUME SyncInv, NEW m \in Clones, ClosesLocally(m),
         seen' \in {seen, [seen EXCEPT ![m] = origin]},
         owed' \in [Clones -> {"nothing", "push", "publish"}],
         \A n \in Clones \ {m} : owed'[n] = owed[n],
         said' = [said EXCEPT ![m] = "nothing"], UNCHANGED <<hub, tracks, on, edits>>
  PROVE  SyncInv'
<1>1. Shape /\ MainIsReviewed /\ HarvestComplete /\ FreshIsPushed
  BY DEF SyncInv
<1> DEFINE staged == index[m] \cup (dirty[m] \cap Continuity)
<1>2. on[m] \in Branches /\ staged \in SUBSET Kinds /\ Commits(m, on[m], staged)
  BY <1>1 DEF ClosesLocally, Shape, ContinuityTypeOK
<1> HIDE DEF staged
<1>3. /\ marker' = [marker EXCEPT ![m] = Len(log) + 1]
      /\ noted' = [noted EXCEPT ![m] = @ \cup Harvested(m) \cup {Len(log) + 1}]
      /\ UNCHANGED <<origin, passed>>
  BY DEF ClosesLocally, hub
<1>4. /\ Grown /\ Reach(log', Len(log) + 1) = Hist(At(m)) \cup {Len(log) + 1}
  BY <1>1, <1>2, Committed
<1>5. /\ tip' \in [Clones -> [Branches -> Maybe']]
      /\ dirty' \in [Clones -> SUBSET Kinds] /\ index' \in [Clones -> SUBSET Kinds]
      /\ Len(log) + 1 \in Ids'
      /\ \A n \in Clones, d \in Branches : tip[n][d] # None => tip'[n][d] # None
      /\ \A n \in Clones \ {m} : tip'[n] = tip[n] /\ dirty'[n] = dirty[n]
  BY <1>1, <1>2, CommitTypes
<1>6. /\ said \in [Clones -> {"nothing", "fresh"}] /\ \A n \in Clones : on[n] \in Branches
  BY <1>1 DEF Shape, ContinuityTypeOK
<1>7. /\ SeenIsThere' /\ seen' \in [Clones -> [Branches -> Maybe']]
      /\ \A n \in Clones, d \in Branches :
            Reach(log', seen[n][d]) \subseteq Reach(log', seen'[n][d])
  BY <1>1, <1>3, <1>4, Fetched
<1>8. marker \in [Clones -> Ids'] /\ noted \in [Clones -> SUBSET Ids']
  BY <1>1, <1>4, Wider
<1>9. /\ marker' \in [Clones -> Ids'] /\ noted' \in [Clones -> SUBSET Ids']
      /\ marker'[m] = Len(log) + 1
      /\ noted'[m] = noted[m] \cup Harvested(m) \cup {Len(log) + 1}
      /\ \A n \in Clones \ {m} : marker'[n] = marker[n] /\ noted'[n] = noted[n]
  <2>1. Hist(At(m)) \subseteq Ids'
    BY <1>1, <1>4, Joined, Named, Wider
  <2>2. Harvested(m) \subseteq Ids'
    BY <2>1 DEF Harvested
  <2> QED
    BY <1>3, <1>5, <1>8, <2>2
<1>10. ContinuityTypeOK'
  <2>1. said' \in [Clones -> {"nothing", "fresh"}]
    BY <1>6
  <2> QED
    BY <1>1, <1>3, <1>4, <1>5, <1>7, <1>9, <2>1, Wider DEF Shape, ContinuityTypeOK
<1>11. Standing'
  BY <1>1, <1>5, <1>6 DEF Shape, Standing, At, Branches
<1>12. MainIsReviewed'
  BY <1>1, <1>3, <1>4, SameMain
<1>13. HarvestComplete'
  <2>1. Hist(At(m)) \subseteq noted[m] \cup Harvested(m)
    BY <1>1 DEF Harvested, HarvestComplete
  <2>2. Reach(log', marker'[m]) \subseteq noted'[m]
    BY <1>4, <1>9, <2>1
  <2> QED
    BY <1>1, <1>4, <1>9, <2>2, StillHarvested
<1>14. FreshIsPushed'
  <2>1. said'[m] # "fresh" /\ \A n \in Clones \ {m} : said'[n] = said[n]
    BY <1>6
  <2> QED
    BY <1>1, <1>4, <1>5, <1>7, <2>1, StillFresh
<1> QED
  BY <1>4, <1>7, <1>10, <1>11, <1>12, <1>13, <1>14 DEF SyncInv, Shape, Grown

LEMMA CloseKeeps ==
  ASSUME SyncInv, NEW m \in Clones, Close(m)
  PROVE  SyncInv'
<1>1. /\ ClosesLocally(m) /\ seen' = seen /\ owed' = owed
      /\ said' = [said EXCEPT ![m] = "nothing"] /\ UNCHANGED <<hub, tracks, on, edits>>
  BY DEF Close, Says
<1>2. owed' \in [Clones -> {"nothing", "push", "publish"}]
  BY <1>1 DEF SyncInv, Shape, ContinuityTypeOK
<1> QED
  BY <1>1, <1>2, ClosedLocally

\* The close that is to push, or is refused.
LEMMA ClosePushKeeps ==
  ASSUME SyncInv, NEW m \in Clones, ClosePush(m)
  PROVE  SyncInv'
<1>1. Shape /\ MainIsReviewed /\ HarvestComplete /\ FreshIsPushed
  BY DEF SyncInv
<1>2. owed \in [Clones -> {"nothing", "push", "publish"}] /\ UNCHANGED <<hub, tracks, on, edits>>
  BY <1>1 DEF ClosePush, Shape, ContinuityTypeOK
<1>3. CASE /\ ClosesLocally(m) /\ Says(m, "nothing") /\ owed' = [owed EXCEPT ![m] = "push"]
           /\ seen' \in {seen, [seen EXCEPT ![m] = origin]}
  <2>1. /\ owed' \in [Clones -> {"nothing", "push", "publish"}]
        /\ \A n \in Clones \ {m} : owed'[n] = owed[n]
    BY <1>2, <1>3
  <2>2. said' = [said EXCEPT ![m] = "nothing"]
    BY <1>3 DEF Says
  <2> QED
    BY <1>2, <1>3, <2>1, <2>2, ClosedLocally
<1>4. CASE seen' = [seen EXCEPT ![m] = origin] /\ UNCHANGED <<log, tip, tree, harvest, owed, said>>
  <2>1. UNCHANGED <<log, origin, passed, tip, tracks, on, dirty, index, marker, noted, owed, said, edits>>
    BY <1>2, <1>4 DEF hub, tree, harvest
  <2>2. Grown
    BY <1>1, <2>1, Kept
  <2>3. /\ SeenIsThere' /\ seen' \in [Clones -> [Branches -> Maybe']]
        /\ \A n \in Clones, d \in Branches :
              Reach(log', seen[n][d]) \subseteq Reach(log', seen'[n][d])
    BY <1>1, <1>4, <2>1, <2>2, Fetched
  <2>4. ContinuityTypeOK'
    BY <1>1, <2>1, <2>2, <2>3, Wider DEF Shape, ContinuityTypeOK
  <2>5. Standing' /\ MainIsReviewed' /\ HarvestComplete'
    BY <1>1, <2>1, <2>2, SameMain, StillHarvested DEF Shape, Standing, At
  <2>6. FreshIsPushed'
    BY <1>1, <2>1, <2>2, <2>3, StillFresh
  <2> QED
    BY <2>2, <2>3, <2>4, <2>5, <2>6 DEF SyncInv, Shape, Grown
<1> QED
  BY <1>3, <1>4 DEF ClosePush

\* The artifacts on their branch, or left in the tree.
LEMMA RefreshKeeps ==
  ASSUME SyncInv, NEW m \in Clones, Refresh(m)
  PROVE  SyncInv'
<1>1. Shape /\ MainIsReviewed /\ HarvestComplete /\ FreshIsPushed
  BY DEF SyncInv
<1>2. /\ UNCHANGED <<origin, passed, seen, tracks, marker, noted, edits>>
      /\ said' = [said EXCEPT ![m] = "nothing"]
  BY DEF Refresh, hub, harvest, Says
<1>3. /\ on \in [Clones -> Branches] /\ said \in [Clones -> {"nothing", "fresh"}]
      /\ owed \in [Clones -> {"nothing", "push", "publish"}]
      /\ dirty \in [Clones -> SUBSET Kinds] /\ index \in [Clones -> SUBSET Kinds]
      /\ {"art"} \in SUBSET Kinds /\ "refresh" \in Branches /\ "main" \in Branches
  BY <1>1 DEF Shape, ContinuityTypeOK, Kinds, Continuity, Branches
<1>4. /\ Grown
      /\ tip' \in [Clones -> [Branches -> Maybe']] /\ on' \in [Clones -> Branches]
      /\ dirty' \in [Clones -> SUBSET Kinds] /\ index' \in [Clones -> SUBSET Kinds]
      /\ owed' \in [Clones -> {"nothing", "push", "publish"}]
      /\ \A n \in Clones : tip'[n]["main"] # None /\ tip'[n][on'[n]] # None
      /\ \A n \in Clones \ {m} : /\ tip'[n] = tip[n] /\ dirty'[n] = dirty[n]
                                 /\ on'[n] = on[n] /\ owed'[n] = owed[n]
  <2>1. CASE tip[m]["refresh"] # None
    <3>1. dirty' = [dirty EXCEPT ![m] = {"art"}] /\ UNCHANGED <<log, tip, on, index, owed>>
      BY <2>1 DEF Refresh
    <3>2. Grown /\ tip' \in [Clones -> [Branches -> Maybe']]
      BY <1>1, <3>1, Kept, Wider
    <3> QED
      BY <1>1, <1>3, <3>1, <3>2 DEF Shape, Standing, At
  <2>2. CASE tip[m]["refresh"] = None
    <3>1. /\ Commits(m, "refresh", {"art"}) /\ on' = [on EXCEPT ![m] = "refresh"]
          /\ owed' = [owed EXCEPT ![m] = "publish"]
      BY <2>2 DEF Refresh
    <3>2. /\ Grown /\ tip' \in [Clones -> [Branches -> Maybe']]
          /\ dirty' \in [Clones -> SUBSET Kinds] /\ index' \in [Clones -> SUBSET Kinds]
          /\ tip'[m]["refresh"] # None
          /\ \A n \in Clones, d \in Branches : tip[n][d] # None => tip'[n][d] # None
          /\ \A n \in Clones \ {m} : tip'[n] = tip[n] /\ dirty'[n] = dirty[n]
      BY <1>1, <1>3, <3>1, Committed, CommitTypes
    <3>3. /\ on' \in [Clones -> Branches] /\ owed' \in [Clones -> {"nothing", "push", "publish"}]
          /\ on'[m] = "refresh"
          /\ \A n \in Clones \ {m} : on'[n] = on[n] /\ owed'[n] = owed[n]
      BY <1>3, <3>1
    <3>4. \A n \in Clones : tip'[n]["main"] # None /\ tip'[n][on'[n]] # None
      BY <1>1, <1>3, <3>2, <3>3 DEF Shape, Standing, At
    <3> QED
      BY <3>2, <3>3, <3>4
  <2> QED
    BY <2>1, <2>2
<1>5. ContinuityTypeOK'
  <2>1. said' \in [Clones -> {"nothing", "fresh"}]
    BY <1>2, <1>3
  <2> QED
    BY <1>1, <1>2, <1>4, <2>1, Wider DEF Shape, ContinuityTypeOK
<1>6. Standing'
  BY <1>4 DEF Standing, At
<1>7. SeenIsThere' /\ MainIsReviewed' /\ HarvestComplete'
  BY <1>1, <1>2, <1>4, StillThere, SameMain, StillHarvested
<1>8. FreshIsPushed'
  <2>1. said'[m] # "fresh" /\ \A n \in Clones \ {m} : said'[n] = said[n]
    BY <1>2, <1>3
  <2> QED
    BY <1>1, <1>2, <1>4, <2>1, StillFresh
<1> QED
  BY <1>4, <1>5, <1>6, <1>7, <1>8 DEF SyncInv, Shape, Grown

-----------------------------------------------------------------------------
(* The theorems.                                                           *)

LEMMA SyncInvInit == ContinuityInit => SyncInv
<1> SUFFICES ASSUME ContinuityInit PROVE SyncInv
  OBVIOUS
<1> USE DEF ContinuityInit
<1>1. Len(log) = 1 /\ log \in Seq(Commit1) /\ log[1] = [past |-> {}, touches |-> {}]
  BY DEF Commit1
<1>2. Ids = {1} /\ Maybe = {0, 1} /\ Upto(log) = {1}
  BY <1>1 DEF Ids, Maybe, None, Upto
<1>3. Reach(log, 1) = {1} /\ Reach(log, 0) = {}
  BY <1>1 DEF Reach, None
<1>4. LogOK(log)
  BY <1>1, <1>2, <1>3 DEF LogOK
<1>5. ContinuityTypeOK
  <2>1. log \in Seq([past : SUBSET Nat, touches : SUBSET Kinds])
    BY <1>1 DEF Commit1
  <2>2. \A c \in Ids : log[c].past \subseteq 1..(c - 1)
    BY <1>1, <1>2
  <2>3. origin \in [Branches -> Maybe] /\ passed \subseteq Ids
    BY <1>2 DEF None
  <2>4. tip \in [Clones -> [Branches -> Maybe]] /\ seen \in [Clones -> [Branches -> Maybe]]
    BY <2>3
  <2>5. tracks \in [Clones -> SUBSET Branches] /\ on \in [Clones -> Branches]
    BY DEF Branches
  <2>6. marker \in [Clones -> Ids] /\ noted \in [Clones -> SUBSET Ids]
    BY <1>2
  <2>7. /\ dirty \in [Clones -> SUBSET Kinds] /\ index \in [Clones -> SUBSET Kinds]
        /\ owed \in [Clones -> {"nothing", "push", "publish"}]
        /\ said \in [Clones -> {"nothing", "fresh"}] /\ edits \in Nat
    OBVIOUS
  <2> QED
    BY <2>1, <2>2, <2>3, <2>4, <2>5, <2>6, <2>7 DEF ContinuityTypeOK
<1>6. Standing
  BY DEF Standing, At, Branches, None
<1>7. SeenIsThere
  BY DEF SeenIsThere
<1>8. MainIsReviewed
  BY <1>1, <1>3 DEF MainIsReviewed, Hist, Branches
<1>9. HarvestComplete /\ FreshIsPushed
  BY <1>3 DEF HarvestComplete, FreshIsPushed, Hist
<1> QED
  BY <1>4, <1>5, <1>6, <1>7, <1>8, <1>9 DEF SyncInv, Shape

LEMMA SyncInvNext == Guarded /\ SyncInv /\ [ContinuityNext]_syncVars => SyncInv'
<1> SUFFICES ASSUME Guarded, SyncInv, [ContinuityNext]_syncVars PROVE SyncInv'
  OBVIOUS
<1>1. ASSUME NEW m \in Clones, Agent(m) PROVE SyncInv'
  <2>1. MergeTopic(m) \/ MergeUpstream(m) => SyncInv'
    <3>1. /\ tip[m]["topic"] \in 0..Len(log) /\ seen[m][on[m]] \in 0..Len(log)
      BY Named DEF SyncInv, Shape, ContinuityTypeOK, Branches
    <3> QED
      BY <3>1, MergeKeeps DEF MergeTopic, MergeUpstream
  <2>2. AgentChain(m) \/ Rescue(m) => SyncInv'
    <3>1. AgentChain(m) \/ Rescue(m) => on[m] # "main" /\ CommitsAndPushes(m)
      BY DEF AgentChain, Rescue, Guarded
    <3> QED
      BY <3>1, CommitAndPushKeeps
  <2> QED
    BY <1>1, <2>1, <2>2, EditKeeps, StageKeeps, CommitKeeps, SwitchKeeps, AgentPushKeeps DEF Agent
<1>2. ASSUME NEW m \in Clones, Horus(m) PROVE SyncInv'
  BY <1>2, HarvestKeeps, CloseKeeps, ClosePushKeeps, ClosePushed, CheckKeeps, SyncKeeps,
     RefreshKeeps, PublishKeeps DEF Horus
<1>3. ASSUME NEW b \in Branches, MergePR(b) PROVE SyncInv'
  BY <1>3, MergePRKeeps
<1>4. CASE PushElsewhere
  BY <1>4, PushElsewhereKeeps
<1>5. CASE UNCHANGED syncVars
  BY <1>5 DEF syncVars, hub, refs, tree, harvest, SyncInv, Shape, ContinuityTypeOK, LogOK,
     Standing, SeenIsThere, MainIsReviewed, HarvestComplete, FreshIsPushed, Hist, At, Ids, Maybe,
     Reach, Upto
<1> QED
  BY <1>1, <1>2, <1>3, <1>4, <1>5 DEF ContinuityNext

\* The log, the branches, the trees and the markers keep their types, and the
\* strengthening holds that the other theorems rest on.
THEOREM SyncInvariant == ASSUME Guarded PROVE ContinuitySpec => []SyncInv
<1>1. ContinuityInit => SyncInv
  BY SyncInvInit
<1>2. SyncInv /\ [ContinuityNext]_syncVars => SyncInv'
  BY SyncInvNext
<1> QED
  BY <1>1, <1>2, PTL DEF ContinuitySpec

\* Every variable of every clone keeps its type.
THEOREM ContinuityTypeCorrect == ASSUME Guarded PROVE ContinuitySpec => []ContinuityTypeOK
<1>1. SyncInv => ContinuityTypeOK
  BY DEF SyncInv, Shape
<1> QED
  BY <1>1, SyncInvariant, PTL

\* Work reaches main only through a merged pull request, whatever the clones
\* commit, merge, close, sync and push, in any order.
THEOREM MainStaysReviewed == ASSUME Guarded PROVE ContinuitySpec => []MainIsReviewed
<1>1. SyncInv => MainIsReviewed
  BY DEF SyncInv
<1> QED
  BY <1>1, SyncInvariant, PTL

\* No commit passes under the marker without being offered to the note.
THEOREM HarvestMissesNothing == ASSUME Guarded PROVE ContinuitySpec => []HarvestComplete
<1>1. SyncInv => HarvestComplete
  BY DEF SyncInv
<1> QED
  BY <1>1, SyncInvariant, PTL

\* What close --check called fresh is on GitHub as long as it stands.
THEOREM FreshStaysShared == ASSUME Guarded PROVE ContinuitySpec => []FreshIsShared
<1>1. SyncInv => FreshIsShared
  <2>1. SUFFICES ASSUME SyncInv, NEW m \in Clones, said[m] = "fresh", on[m] \in tracks[m]
                 PROVE  /\ dirty[m] = {}
                        /\ Hist(At(m)) \subseteq UNION {Hist(origin[b]) : b \in Branches}
    BY DEF FreshIsShared
  <2>2. on[m] \in Branches
    BY <2>1 DEF SyncInv, Shape, ContinuityTypeOK
  <2>3. dirty[m] = {} /\ Hist(At(m)) \subseteq Hist(seen[m][on[m]])
    BY <2>1 DEF SyncInv, FreshIsPushed
  <2>4. Hist(seen[m][on[m]]) \subseteq Hist(origin[on[m]])
    BY <2>1, <2>2 DEF SyncInv, Shape, SeenIsThere
  <2> QED
    BY <2>2, <2>3, <2>4
<1> QED
  BY <1>1, SyncInvariant, PTL
=============================================================================
