----------------------------- MODULE TerminalUI -----------------------------
(***************************************************************************)
(* horus/terminal_tui.py: one frame of the terminal cockpit after another. *)
(* A frame is a screen, its rows, the row under the cursor and what the    *)
(* owner has chosen so far.  Enter acts on the row; an action that needs   *)
(* the terminal ends the frame, and run() opens the next one.              *)
(***************************************************************************)
EXTENDS Integers, Sequences, SequencesExt

CONSTANTS
    Projects,    \* the registered projects, in the order they are listed
    Cockpit,     \* the project that supervises the others, if registered
    CardsOf,     \* CardsOf[p]: the cards of project p, in order
    Ready,       \* the cards a readiness filter leaves
    Accounts,    \* the accounts that can be launched, in order
    Models,      \* the models on offer
    Postures,
    Recorded,    \* the sessions listed: running ones and vanished ones
    MaxKeys      \* bound: the keys pressed in a behaviour

ASSUME UIAssumption == MaxKeys \in Nat /\ Len(Projects) > 0 /\ Len(Accounts) > 0 /\ Len(Postures) > 0

Unset == "none"
Efforts == <<"high">>

VARIABLES ui,      \* the frame
          result,  \* what the frame ended with
          conf,    \* the configured default posture, the saved profile
          meant,   \* history: what the owner chose to launch
          keys

uiVars == <<ui, result, conf, meant, keys>>

-----------------------------------------------------------------------------
(* The rows of a screen; where they depend on the world, several are        *)
(* possible.                                                                *)

Row(kind, value) == <<kind, value>>
RowsOf(kind, values) == [i \in 1..Len(values) |-> Row(kind, values[i])]
Single(kind) == <<Row(kind, Unset)>>
Optional(cond, rows) == IF cond THEN rows ELSE <<>>
HasCockpit == Contains(Projects, Cockpit)

\* A lens groups the cards, a filter leaves some of them out.
BacklogRows(u) ==
    LET cards == IF u.project = Unset THEN <<>> ELSE CardsOf[u.project]
        group(i) == <<Row("group", i)>> \o Optional(i \notin u.collapsed, RowsOf("card", <<cards[i]>>))
    IN  CASE u.view = "list"     -> RowsOf("card", cards)
          [] u.view = "filtered" -> RowsOf("card", SelectSeq(cards, LAMBDA c : c \in Ready))
          [] u.view = "groups"   -> FlattenSeq([i \in 1..Len(cards) |-> group(i)])

\* The choices of the expanded row come below it.
LaunchFormItems(u) ==
    LET part(row, choices) == <<Row("launch_row", row)>> \o Optional(u.expanded = row, RowsOf(row, choices))
    IN  part("model", <<Unset>> \o Models) \o part("effort", <<Unset>> \o Efforts)
        \o part("posture", Postures) \o Single("save_defaults") \o Single("launch")

SessionRows == { RowsOf("act", <<"attach", "close", "back">>),
                 RowsOf("act", <<"restore", "back">>), RowsOf("act", <<"unavailable", "back">>) }

Rows(u) ==
    CASE u.screen = "projects" ->
            {RowsOf("project", Projects) \o Single("remote_project")
             \o Single("projection_sync") \o Single("fleet_review") \o Optional(HasCockpit, Single("campaign"))}
      [] u.screen = "project" ->
            {RowsOf("mode", <<"resume", "fresh">>) \o RowsOf("page", <<"backlog", "vision", "receipts">>)}
      [] u.screen = "accounts"       -> {RowsOf("account", u.accounts)}
      [] u.screen = "launch_form"    -> {LaunchFormItems(u)}
      [] u.screen = "backlog"        -> {BacklogRows(u)}
      [] u.screen = "card_priority"  -> {RowsOf("priority_choice", <<"high", "low">>)}
      [] u.screen = "backlog_fields" -> {Single("backlog_field")}
      [] u.screen = "receipts"       -> {Single("receipt")}
      [] u.screen = "card"           -> {RowsOf("card_resume", <<u.card>>)}
      [] u.screen = "sessions"       -> {RowsOf("session", Recorded)}
      [] u.screen = "session"        -> SessionRows
      [] u.screen = "confirm"        -> {RowsOf("answer", <<"no", "yes">>)}
      [] u.screen = "settings"       -> {RowsOf("posture", Postures) \o Single("window")}
      [] u.screen = "toggles"        -> {Single("proxy"), Single("restart") \o Single("proxy")}
      [] u.screen \in {"fleet_review", "projection_sync"} ->
            {Optional(HasCockpit, RowsOf("curator", <<Cockpit>>)) \o Single("reviewed")}
      [] OTHER -> {<<>>}      \* read-outs: vision, receipt, mission

-----------------------------------------------------------------------------
(* Frames.                                                                 *)

NoLaunch == [mode |-> Unset, card |-> Unset, prompt |-> Unset, origin |-> Unset]
NoForm == [account |-> Unset, model |-> Unset, effort |-> Unset, posture |-> Unset]
Home == [screen |-> "projects", items |-> <<>>, selected |-> 0, project |-> Unset,
         card |-> Unset, priority |-> Unset, session |-> Unset, pending |-> NoLaunch, form |-> NoForm,
         expanded |-> Unset, view |-> "list", collapsed |-> {}, accounts |-> Accounts]

Clamped(u) == [u EXCEPT !.selected = IF @ < Len(u.items) THEN @ ELSE IF u.items = <<>> THEN 0 ELSE Len(u.items) - 1]
PostureRow(p) == (CHOOSE i \in 1..Len(Postures) : Postures[i] = p) - 1

\* _refresh_items: the settings put the cursor on the posture in force.
Refreshed(u) ==
    {[u EXCEPT !.items = rows, !.selected = IF u.screen = "settings" THEN PostureRow(conf.posture) ELSE @] : rows \in Rows(u)}

\* _show: the cursor on the first row, or on the last of the launch form.
Shown(u, screen) ==
    {IF screen = "launch_form" THEN [v EXCEPT !.selected = Len(v.items) - 1] ELSE v :
        v \in Refreshed([u EXCEPT !.screen = screen, !.selected = 0])}

Shows(u, screen) == ui' \in Shown(u, screen) /\ UNCHANGED <<result, conf, meant>>
Refreshes(u) == ui' \in Refreshed(u) /\ UNCHANGED <<result, meant>>
RefreshesClamped(u) == ui' \in {Clamped(v) : v \in Refreshed(u)} /\ UNCHANGED <<result, conf, meant>>
Leaves(r) == result' = r /\ UNCHANGED <<ui, conf, meant>>

UIInit ==
    /\ ui \in Shown(Home, "projects") /\ result = [kind |-> Unset] /\ keys = 0
    /\ meant = [project |-> Unset, mode |-> Unset, card |-> Unset, prompt |-> Unset, form |-> NoForm]
    /\ conf = [posture |-> Postures[1], profile |-> NoForm]

-----------------------------------------------------------------------------
(* What the owner decides to launch: a mode of a project, a card, a pass    *)
(* over the backlog, or a prompt for the cockpit.                           *)

Prepares(u, project, mode, card, prompt) ==
    /\ ui' \in Shown(u, "accounts") /\ UNCHANGED <<result, conf>>
    /\ meant' = [project |-> project, mode |-> mode, card |-> card, prompt |-> prompt, form |-> NoForm]

PicksMode(u, mode) ==
    Prepares([u EXCEPT !.pending = [NoLaunch EXCEPT !.mode = mode, !.origin = "project"]],
             u.project, mode, Unset, Unset)

ResumesCard(u) ==
    Prepares([u EXCEPT !.pending = [NoLaunch EXCEPT !.mode = "resume", !.card = u.card, !.origin = "card"]],
             u.project, "resume", u.card, Unset)

\* The card of the launch before stays.
StartsRefinePass_Keeps(u) ==
    /\ u.screen = "backlog" /\ u.project # Unset
    /\ Prepares([u EXCEPT !.pending.mode = "refine", !.pending.prompt = Unset, !.pending.origin = "backlog"],
                u.project, "refine", Unset, Unset)

StartsRefinePass(u) ==
    /\ u.screen = "backlog" /\ u.project # Unset
    /\ Prepares([u EXCEPT !.pending = [NoLaunch EXCEPT !.mode = "refine", !.origin = "backlog"]],
                u.project, "refine", Unset, Unset)

AsksCurator(u, curator) ==
    LET prompt == IF u.screen = "projection_sync" THEN "projections" ELSE Unset
    IN  Prepares([u EXCEPT !.project = curator,
                           !.pending = [NoLaunch EXCEPT !.mode = "resume", !.prompt = prompt, !.origin = u.screen]],
                 curator, "resume", Unset, prompt)

\* The saved profile fills the form; without a posture, the default one.
PicksAccount(u, account) ==
    LET posture == IF conf.profile.posture = Unset THEN conf.posture ELSE conf.profile.posture
        form == [conf.profile EXCEPT !.account = account, !.posture = posture]
    IN  /\ ui' \in Shown([u EXCEPT !.form = form, !.expanded = Unset], "launch_form")
        /\ meant' = [meant EXCEPT !.form = form] /\ UNCHANGED <<result, conf>>

\* _handle_launch_form: the cursor stays where it is.
LaunchForm(u, kind, value) ==
    \/ /\ kind = "launch_row"
       /\ Refreshes([u EXCEPT !.expanded = IF @ = value THEN Unset ELSE value]) /\ UNCHANGED conf
    \/ /\ kind \in {"model", "effort", "posture"}
       /\ ui' \in Refreshed([u EXCEPT !.form[kind] = value, !.expanded = Unset])
       /\ meant' = [meant EXCEPT !.form[kind] = value] /\ UNCHANGED <<result, conf>>
    \/ kind = "save_defaults" /\ conf' = [conf EXCEPT !.profile = [u.form EXCEPT !.account = Unset]]
       /\ ui' = u /\ UNCHANGED <<result, meant>>
    \/ /\ kind = "launch" /\ u.project # Unset /\ u.pending.mode # Unset
       /\ Leaves([kind |-> "launch", project |-> u.project, launch |-> u.pending, form |-> u.form])

-----------------------------------------------------------------------------
(* activate: Enter on a row.  The guards are the chain of screens and kinds *)
(* of the code; a row of another kind does nothing.                         *)

OnProjects(u, kind, value) ==
    \/ kind = "project" /\ Shows([u EXCEPT !.project = value], "project")
    \/ kind \in {"fleet_review", "projection_sync"} /\ Shows(u, kind)
    \/ kind = "remote_project" /\ Leaves([kind |-> "remote_start"])
    \/ kind = "campaign" /\ Leaves([kind |-> "campaign"])

OnBacklog(u, kind, value) ==
    \/ kind = "card" /\ Shows([u EXCEPT !.card = value], "card")
    \/ kind = "group" /\ RefreshesClamped(
           [u EXCEPT !.collapsed = IF value \in @ THEN @ \ {value} ELSE @ \cup {value}])

\* The choice is saved at once, and shown from the file.
OnSettings(u, kind, value) ==
    \/ /\ kind = "posture" /\ conf' = [conf EXCEPT !.posture = value]
       /\ ui' = [u EXCEPT !.selected = PostureRow(value)] /\ UNCHANGED <<result, meant>>
    \/ kind = "window" /\ ui' = [u EXCEPT !.selected = Len(Postures)] /\ UNCHANGED <<result, conf, meant>>

OnSession(u, value) ==
    \/ value \in {"attach", "restore"} /\ Leaves([kind |-> value, session |-> u.session])
    \/ value = "close" /\ Shows(u, "confirm")
    \/ value = "back" /\ Shows(u, "sessions")

Activates(u, kind, value) ==
    \/ u.screen = "projects" /\ OnProjects(u, kind, value)
    \/ u.screen = "project" /\ kind = "mode" /\ PicksMode(u, value)
    \/ u.screen = "project" /\ kind = "page" /\ Shows(u, value)
    \/ u.screen = "backlog" /\ OnBacklog(u, kind, value)
    \/ u.screen = "receipts" /\ Shows(u, "receipt")
    \/ u.screen = "backlog_fields" /\ RefreshesClamped(u)
    \/ u.screen = "card_priority" /\ Shows([u EXCEPT !.priority = Unset], "backlog")
    \/ u.screen = "card" /\ ResumesCard(u)
    \/ u.screen = "accounts" /\ PicksAccount(u, value)
    \/ u.screen = "launch_form" /\ LaunchForm(u, kind, value)
    \/ u.screen = "settings" /\ OnSettings(u, kind, value)
    \/ u.screen = "toggles" /\ RefreshesClamped(u)
    \/ u.screen \in {"fleet_review", "projection_sync"} /\ kind = "curator" /\ AsksCurator(u, value)
    \/ u.screen = "sessions" /\ Shows([u EXCEPT !.session = value], "session")
    \/ u.screen = "session" /\ OnSession(u, value)
    \/ u.screen = "confirm" /\ value = "yes" /\ Leaves([kind |-> "stop", session |-> u.session])
    \/ u.screen = "confirm" /\ value = "no" /\ Shows(u, "session")

\* A cursor beyond the rows raises IndexError, which ends the program.
Enter ==
    /\ ui.items # <<>>
    /\ IF ui.selected < Len(ui.items)
       THEN LET row == ui.items[ui.selected + 1] IN Activates(ui, row[1], row[2])
       ELSE Leaves([kind |-> "crash"])

ClicksRow(i) == i <= Len(ui.items) /\ Activates([ui EXCEPT !.selected = i - 1], ui.items[i][1], ui.items[i][2])

\* Arrows and pages move the cursor within the rows.
Moves == \E row \in 1..Len(ui.items) :
             row - 1 # ui.selected /\ ui' = [ui EXCEPT !.selected = row - 1] /\ UNCHANGED <<result, conf, meant>>

-----------------------------------------------------------------------------
(* Back, the other keys, and the next frame.                               *)

\* Sessions, settings, mission control, toggles and the two reviews.
UpFromMachine == "projects"

UpFrom(screen) ==
    CASE screen \in {"backlog", "vision", "receipts"} -> "project"
      [] screen \in {"card", "card_priority", "backlog_fields"} -> "backlog"
      [] screen = "receipt" -> "receipts"
      [] screen = "session" -> "sessions"
      [] screen = "confirm" -> "session"
      [] OTHER -> UpFromMachine

Back ==
    \/ ui.screen = "project" /\ Shows([ui EXCEPT !.project = Unset], "projects")
    \/ ui.screen = "accounts" /\ Shows(ui, ui.pending.origin)
    \/ ui.screen = "launch_form" /\ ui.expanded # Unset /\ Refreshes([ui EXCEPT !.expanded = Unset]) /\ UNCHANGED conf
    \/ ui.screen = "launch_form" /\ ui.expanded = Unset /\ Shows(ui, "accounts")
    \/ /\ ui.screen \notin {"projects", "project", "accounts", "launch_form"}
       /\ Shows([ui EXCEPT !.priority = IF ui.screen = "card_priority" THEN Unset ELSE @], UpFrom(ui.screen))

\* s, d, m and t work on every screen, f, p, o, g, r, b and e on some.
Presses ==
    \/ \E screen \in {"sessions", "settings", "mission", "toggles"} : Shows(ui, screen)
    \/ ui.screen = "projects" /\ Shows(ui, "fleet_review")
    \/ ui.screen = "backlog" /\ Shows(ui, "backlog_fields")
    \/ /\ ui.screen = "backlog" /\ ui.selected < Len(ui.items)
       /\ LET row == ui.items[ui.selected + 1]
          IN  row[1] = "card" /\ Shows([ui EXCEPT !.priority = row[2]], "card_priority")
    \/ StartsRefinePass(ui)
    \/ /\ ui.screen = "backlog"
       /\ \E view \in {"list", "groups", "filtered"} :
             Refreshes([ui EXCEPT !.view = view, !.selected = 0]) /\ UNCHANGED conf
    \/ ui.screen = "card" /\ Leaves([kind |-> "edit", project |-> ui.project, card |-> ui.card])

\* u and U read the accounts again; one may have been removed meanwhile.
RefreshesUsage ==
    \E accounts \in {ui.accounts, Front(Accounts)} :
        LET u == [ui EXCEPT !.accounts = accounts]
        IN  IF ui.screen = "accounts" THEN RefreshesClamped(u) ELSE ui' = u /\ UNCHANGED <<result, conf, meant>>

\* run(): the result is acted on, and a new frame starts from nothing.  The
\* prompt of a campaign goes to an account of the cockpit.
NextFrame ==
    /\ result.kind \notin {Unset, "crash"} /\ result' = [kind |-> Unset] /\ UNCHANGED conf
    /\ \/ ui' \in Shown(Home, "projects") /\ UNCHANGED meant
       \/ /\ result.kind = "campaign" /\ HasCockpit
          /\ ui' \in Shown([Home EXCEPT !.project = Cockpit,
                 !.pending = [mode |-> "resume", card |-> Unset, prompt |-> "campaign", origin |-> "projects"]], "accounts")
          /\ meant' = [project |-> Cockpit, mode |-> "resume", card |-> Unset, prompt |-> "campaign", form |-> NoForm]

UINext ==
    \/ /\ result.kind = Unset /\ keys < MaxKeys /\ keys' = keys + 1
       /\ Enter \/ Back \/ Presses \/ Moves \/ RefreshesUsage \/ \E i \in 1..Len(ui.items) : ClicksRow(i)
    \/ NextFrame /\ UNCHANGED keys

UISpec == UIInit /\ [][UINext]_uiVars

-----------------------------------------------------------------------------
(* Properties.                                                             *)

\* The frame is one screen, a cursor and the choices so far.
UITypeOK ==
    /\ ui.selected \in Nat /\ ui.project \in {Projects[i] : i \in 1..Len(Projects)} \cup {Unset}
    /\ ui.view \in {"list", "groups", "filtered"} /\ keys \in 0..MaxKeys
    /\ ui.expanded \in {Unset, "model", "effort", "posture"}

\* What a frame launches is what the owner chose last: that project, that
\* mode, card or prompt, with the account and the rows of the form, whatever
\* was chosen and left before (terminal_tui.py, _exit_launch).
LaunchedAsChosen ==
    result.kind = "launch" =>
        /\ result.project = meant.project /\ result.form = meant.form
        /\ result.launch.mode = meant.mode /\ result.launch.card = meant.card
        /\ result.launch.prompt = meant.prompt

\* "picking one collapses back" (_handle_launch_form) and "an expanded row
\* collapses first" (back): the cursor is on a row of what is left.
EnterFindsItsRow == result.kind # "crash"
=============================================================================
