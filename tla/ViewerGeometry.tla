---------------------------- MODULE ViewerGeometry ----------------------------
(***************************************************************************)
(* One terminal of the dashboard's PtyHost, seen by several browser pages  *)
(* (horus/pty_host.py, and the page script in horus/dashboard.py).  A PTY  *)
(* has one geometry; each page registers the grid it fits and the PTY      *)
(* takes the per-dimension minimum.  Every POST of a page, and the end of  *)
(* a page's stream, is handled by a server thread of its own.              *)
(***************************************************************************)
EXTENDS Integers, FiniteSets, FiniteSetsExt, Functions

CONSTANTS Pages,       \* the pages that show the terminal
          Grids,       \* the grids a page may fit, as <<cols, rows>>
          Start,       \* the grid the terminal was started with
          Serial,      \* is each request handled before the next is sent?
          Spaced,      \* are requests further apart than the debounce time?
          MaxThreads,  \* bound on the requests and ended streams
          MaxDrops     \* bound on the dropped connections

ASSUME GeometryAssumption ==
    /\ Grids \subseteq (Nat \ {0}) \X (Nat \ {0}) /\ Start \in (Nat \ {0}) \X (Nat \ {0})
    /\ Serial \in BOOLEAN /\ Spaced \in BOOLEAN
    /\ MaxThreads \in Nat /\ MaxDrops \in Nat

VARIABLES page,     \* page[v]: "new", "visible", "hidden" or "closed"
          fit,      \* fit[v]: the grid page v fits
          conns,  \* conns[v]: the streams the server holds for v
          drops,    \* dropped connections so far
          threads,  \* threads[i]: the i-th server thread
          viewers,  \* the registered grids, a function from pages
          term,     \* term.cols and term.rows
          cooling,  \* was a resize applied less than the debounce time ago?
          pty       \* the grid the kernel has

client == <<page, fit, conns, drops>>
server == <<viewers, term, cooling, pty>>
geoVars   == <<client, threads, server>>

Requests == DOMAIN threads
NextId == Cardinality(Requests) + 1
Over(i) == threads[i].pc = "over"

\* A new server thread for page v.
Thread(kind, v, grid) == [kind |-> kind, who |-> v, grid |-> grid, pc |-> "begin"]
Spawn(kind, v, grid) ==
    /\ NextId <= MaxThreads
    /\ Serial => \A i \in Requests : Over(i)
    /\ Spaced => ~ cooling
    /\ threads' = [i \in 1..NextId |->
                      IF i = NextId THEN Thread(kind, v, grid) ELSE threads[i]]

-----------------------------------------------------------------------------
(* The page script.                                                        *)

Loaded(v) == page[v] \in {"visible", "hidden"}

Open(v) ==
    /\ page[v] = "new" /\ page' = [page EXCEPT ![v] = "visible"]
    /\ conns' = [conns EXCEPT ![v] = @ + 1]
    /\ \E grid \in Grids : /\ fit' = [fit EXCEPT ![v] = grid]
                           /\ Spawn("resize", v, grid)
    /\ UNCHANGED <<drops, server>>

\* sync(): a visible page posts its fit when it has changed.
Refit(v) ==
    /\ page[v] = "visible"
    /\ \E grid \in Grids \ {fit[v]} : /\ fit' = [fit EXCEPT ![v] = grid]
                                      /\ Spawn("resize", v, grid)
    /\ UNCHANGED <<page, conns, drops, server>>

\* claimSize(): a page that is shown or focused posts its fit in any case.
Claim(v) ==
    /\ Loaded(v) /\ page' = [page EXCEPT ![v] = "visible"]
    /\ Spawn("resize", v, fit[v])
    /\ UNCHANGED <<fit, conns, drops, server>>

Hide(v) ==
    /\ page[v] = "visible" /\ page' = [page EXCEPT ![v] = "hidden"]
    /\ Spawn("release", v, fit[v])
    /\ UNCHANGED <<fit, conns, drops, server>>

\* pagehide
Leave(v) ==
    /\ Loaded(v) /\ page' = [page EXCEPT ![v] = "closed"]
    /\ Spawn("release", v, fit[v])
    /\ UNCHANGED <<fit, conns, drops, server>>

\* The EventSource lost its connection and opened another.
Reconnect(v) ==
    /\ Loaded(v) /\ drops < MaxDrops /\ drops' = drops + 1
    /\ conns' = [conns EXCEPT ![v] = @ + 1]
    /\ UNCHANGED <<page, fit, threads, server>>

AskRedraw(v) ==
    /\ page[v] = "visible" /\ Spawn("redraw", v, fit[v])
    /\ UNCHANGED <<client, server>>

\* subscribe(): the server notices, at a write, that a client is gone.
Broken(v) == conns[v] > IF Loaded(v) THEN 1 ELSE 0
StreamEnds(v) ==
    /\ Broken(v) /\ conns' = [conns EXCEPT ![v] = @ - 1]
    /\ Spawn("release", v, fit[v])
    /\ UNCHANGED <<page, fit, drops, server>>

Client(v) == \/ Open(v) \/ Refit(v) \/ Claim(v) \/ Hide(v) \/ Leave(v)
             \/ Reconnect(v) \/ AskRedraw(v) \/ StreamEnds(v)

-----------------------------------------------------------------------------
(* The server threads.                                                     *)

Reached(i, from) == threads[i].pc = from
Goto(i, to) == threads' = [threads EXCEPT ![i].pc = to]

\* viewer_resize
Register(i) ==
    /\ Reached(i, "begin") /\ threads[i].kind = "resize" /\ Goto(i, "effective")
    /\ viewers' = [v \in DOMAIN viewers \cup {threads[i].who} |->
                     IF v = threads[i].who THEN threads[i].grid ELSE viewers[v]]
    /\ UNCHANGED <<client, term, cooling, pty>>

\* Mutant: the remaining viewers do not get their size back.
Release_NoApply(i) ==
    /\ Reached(i, "begin") /\ threads[i].kind = "release" /\ Goto(i, "over")
    /\ viewers' = Restrict(viewers, DOMAIN viewers \ {threads[i].who})
    /\ UNCHANGED <<client, term, cooling, pty>>

\* viewer_release
Release(i) ==
    LET left == DOMAIN viewers \ {threads[i].who}
    IN  /\ Reached(i, "begin") /\ threads[i].kind = "release"
        /\ viewers' = Restrict(viewers, left)
        /\ Goto(i, IF left = {} THEN "over" ELSE "effective")
        /\ UNCHANGED <<client, term, cooling, pty>>

\* Mutant: the largest viewer wins.
Effective_Largest(grids) == <<Max({g[1] : g \in grids}), Max({g[2] : g \in grids})>>

Effective(grids) == <<Min({g[1] : g \in grids}), Min({g[2] : g \in grids})>>

\* _apply_effective: the minimum, under the lock.
ApplyEffective(i) ==
    /\ Reached(i, "effective")
    /\ IF viewers = <<>> THEN Goto(i, "over")
       ELSE threads' = [threads EXCEPT ![i].pc = "resize",
                                       ![i].grid = Effective(Range(viewers))]
    /\ UNCHANGED <<client, server>>

\* resize: not when the terminal already has the size, nor too soon after the
\* last resize.
Resize(i) ==
    /\ Reached(i, "resize")
    /\ Goto(i, IF term = threads[i].grid \/ cooling THEN "over" ELSE "set")
    /\ UNCHANGED <<client, server>>

SetTerm(i) ==
    /\ Reached(i, "set") /\ Goto(i, "ioctl")
    /\ term' = threads[i].grid /\ cooling' = TRUE
    /\ UNCHANGED <<client, viewers, pty>>

Ioctl(i) ==
    /\ Reached(i, "ioctl") /\ Goto(i, "over")
    /\ pty' = threads[i].grid
    /\ UNCHANGED <<client, viewers, term, cooling>>

\* redraw: one row less, and back; not for a terminal of one row.
Shrink(i) ==
    /\ Reached(i, "begin") /\ threads[i].kind = "redraw"
    /\ IF term[2] <= 1 THEN Goto(i, "over") /\ UNCHANGED pty
       ELSE Goto(i, "restore") /\ pty' = <<term[1], term[2] - 1>>
    /\ UNCHANGED <<client, viewers, term, cooling>>

Restore(i) ==
    /\ Reached(i, "restore") /\ Goto(i, "over") /\ pty' = term
    /\ UNCHANGED <<client, viewers, term, cooling>>

CoolDown == /\ cooling /\ cooling' = FALSE
            /\ UNCHANGED <<client, threads, viewers, term, pty>>

Serve(i) == \/ Register(i) \/ Release(i) \/ ApplyEffective(i) \/ Resize(i)
            \/ SetTerm(i) \/ Ioctl(i) \/ Shrink(i) \/ Restore(i)

-----------------------------------------------------------------------------
GeoInit ==
    /\ page = [v \in Pages |-> "new"] /\ fit = [v \in Pages |-> Start]
    /\ conns = [v \in Pages |-> 0] /\ drops = 0
    /\ threads = <<>> /\ viewers = <<>>
    /\ term = Start /\ pty = Start /\ cooling = FALSE

GeoNext == \/ \E v \in Pages : Client(v)
        \/ \E i \in Requests : Serve(i)
        \/ CoolDown

GeoSpec == GeoInit /\ [][GeoNext]_geoVars

-----------------------------------------------------------------------------
GeoTypeOK ==
    LET Sizes == (Nat \ {0}) \X (Nat \ {0})
    IN  /\ page \in [Pages -> {"new", "visible", "hidden", "closed"}]
        /\ fit \in [Pages -> Sizes]
        /\ conns \in [Pages -> Nat] /\ drops \in 0..MaxDrops
        /\ Requests = 1..Cardinality(Requests)
        /\ \A i \in Requests : threads[i].grid \in Sizes
        /\ DOMAIN viewers \subseteq Pages /\ Range(viewers) \subseteq Sizes
        /\ {term, pty} \subseteq Sizes /\ cooling \in BOOLEAN

Visible == {v \in Pages : page[v] = "visible"}
Quiet   == (\A i \in Requests : Over(i)) /\ ~ \E v \in Pages : Broken(v)

\* "Each viewer registers the size it fits, and the PTY takes the per-dimension
\* minimum": once every request is handled, and as long as no connection was
\* dropped, every visible page can render the whole grid, and the grid is the
\* largest such one.
EveryScreenFits ==
    Quiet /\ drops = 0 /\ Visible # {} =>
        pty = Effective({fit[v] : v \in Visible})

\* "A closed/backgrounded desktop tab stops constraining the phone", and "when
\* the stream ends (client gone), the viewer stops constraining", not before:
\* once every request is handled, the visible pages are registered, and only
\* they.
VisibleCount ==
    Quiet => /\ DOMAIN viewers \subseteq Visible
             /\ drops = 0 => Visible \subseteq DOMAIN viewers

\* Both: the grid is the one the pages in view, and only they, ask for.
GridFitsViewers == EveryScreenFits /\ VisibleCount
=============================================================================
