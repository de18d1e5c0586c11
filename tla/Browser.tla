------------------------------ MODULE Browser ------------------------------
(***************************************************************************)
(* The file browser: two panes (browser_pane.cpp) that each list one       *)
(* directory of a remote, and the view around them (browser_view.cpp) with *)
(* its transfer, swap, delete, compare and new-folder buttons.             *)
(*                                                                         *)
(* A listing is an rclone process that answers later (RcloneCli::lsjson),  *)
(* so a pane may move on, or be swapped, while answers are on their way.   *)
(* A directory is [remote, path]; an entry of the disk is [at, name] with  *)
(* "at" the directory it lies in, which also tells where a row of a stale  *)
(* list came from.                                                         *)
(***************************************************************************)
EXTENDS Naturals, Sequences, SequencesExt

CONSTANTS
  Remotes,      \* the configured remotes, as positions 1..n of the dropdown
  Disk0,        \* the entries that exist at first
  DirNames,     \* the names that are directories
  HiddenNames,  \* the names that begin with a dot
  BadNames,     \* the names of local entries that cannot be stat()ed
  Home,         \* the path of the local home directory
  NewName,      \* the name given to a new folder
  MaxMoves      \* bound: what the user does

ASSUME BrowserAssumption ==
  /\ MaxMoves \in Nat /\ BadNames \cap DirNames = {}
  /\ Home \in Seq(DirNames) /\ "none" \notin Remotes

VARIABLES pane, asks, active, disk, alert, ops, moves

browserVars == <<pane, asks, active, disk, alert, ops, moves>>

Panes     == {"left", "right"}
Other(p)  == CHOOSE q \in Panes : q # p
Local     == "Local"
NoRemote  == "none"
At(r)     == [remote |-> r.remote, path |-> r.path]
IsDir(e)  == e.name \in DirNames
Sub(e)    == [remote |-> e.at.remote, path |-> Append(e.at.path, e.name)]

(***************************************************************************)
(* A pane before its first map.                                            *)
(***************************************************************************)
FreshPane ==
  [ remote |-> NoRemote, path |-> <<>>, history |-> <<>>, gen |-> 0,
    content |-> "no-remote", list |-> {}, chosen |-> {}, known |-> {},
    mapped |-> FALSE, hidden |-> FALSE, shownAt |-> NoRemote ]

BrowserInit ==
  /\ pane = [p \in Panes |-> FreshPane] /\ asks = {} /\ active = "left"
  /\ disk = Disk0 /\ alert = FALSE /\ ops = {} /\ moves = 0

(***************************************************************************)
(* The window behind the delete alert takes no input.                      *)
(***************************************************************************)
User == /\ pane["left"].mapped /\ ~alert /\ moves < MaxMoves /\ moves' = moves + 1

(***************************************************************************)
(* navigate(): the new path, a new load generation, the loading page, and  *)
(* one more rclone process; the rows of the old listing stay in the store. *)
(***************************************************************************)
Moved(r, path) ==
  IF r.remote = NoRemote THEN r
  ELSE [r EXCEPT !.path = path, !.gen = @ + 1, !.content = "loading"]

Ask(p, r) == IF r.remote = NoRemote THEN {} ELSE {[p |-> p, gen |-> r.gen, at |-> At(r)]}

Navigate(p, r, path) ==
  LET m == Moved(r, path) IN
  /\ pane' = [pane EXCEPT ![p] = m]
  /\ asks' = asks \cup Ask(p, m)

(***************************************************************************)
(* A history entry is a path; the remote it was recorded under is carried  *)
(* along for the property only.                                            *)
(***************************************************************************)
Here(r)       == [remote |-> r.remote, path |-> r.path]
Remembered(r) == [r EXCEPT !.history = Append(@, Here(r))]
AtRoot(r)     == r.path = <<>>

(***************************************************************************)
(* on_remote_selection_changed(): home of the local disk or root of the    *)
(* remote, history forgotten, pane focused.                                *)
(***************************************************************************)
SlipSwitched(r, remote) == [r EXCEPT !.remote = remote]
Switched(r, remote) == [r EXCEPT !.remote = remote, !.history = <<>>]
StartOf(remote) == IF remote = Local THEN Home ELSE <<>>

(***************************************************************************)
(* The view is mapped, and its panes with it, left before right:           *)
(* load_remotes() goes to the local home and asks for the remotes, which   *)
(* arrive later or never.                                                  *)
(***************************************************************************)
MapPanes ==
  LET Went(p) == Moved(Switched([pane[p] EXCEPT !.mapped = TRUE], Local), Home) IN
  /\ ~pane["left"].mapped
  /\ pane' = [p \in Panes |-> Went(p)]
  /\ asks' = UNION {Ask(p, Went(p)) : p \in Panes}
  /\ active' = "right"
  /\ UNCHANGED <<disk, alert, ops, moves>>

RemotesArrive(p) ==
  /\ pane[p].mapped /\ pane[p].known # Remotes
  /\ pane' = [pane EXCEPT ![p].known = Remotes]
  /\ UNCHANGED <<asks, active, disk, alert, ops, moves>>

SelectRemote(p, remote) ==
  /\ User /\ pane[p].mapped /\ remote \in pane[p].known \cup {Local}
  /\ remote # pane[p].remote
  /\ Navigate(p, Switched(pane[p], remote), StartOf(remote))
  /\ active' = p
  /\ UNCHANGED <<disk, alert, ops>>

(***************************************************************************)
(* The navigation controls. A breadcrumb does not focus its pane; the root *)
(* is one that stays clickable at the root.                                *)
(***************************************************************************)
Crumb(p, n) ==
  /\ User /\ pane[p].remote # NoRemote /\ (n = 0 \/ n < Len(pane[p].path))
  /\ Navigate(p, Remembered(pane[p]), SubSeq(pane[p].path, 1, n))
  /\ UNCHANGED <<active, disk, alert, ops>>

OpenRow(p, e) ==
  /\ User /\ pane[p].content = "files" /\ e \in pane[p].list
  /\ IsDir(e) /\ e.name \notin BadNames
  /\ Navigate(p, Remembered(pane[p]), Append(pane[p].path, e.name))
  /\ active' = p
  /\ UNCHANGED <<disk, alert, ops>>

GoBack(p) ==
  /\ User /\ pane[p].history # <<>>
  /\ Navigate(p, [pane[p] EXCEPT !.history = Front(@)], Last(pane[p].history).path)
  /\ active' = p
  /\ UNCHANGED <<disk, alert, ops>>

GoUp(p) ==
  /\ User /\ pane[p].content \in {"files", "empty"} /\ ~AtRoot(pane[p])
  /\ Navigate(p, Remembered(pane[p]), Front(pane[p].path))
  /\ active' = p
  /\ UNCHANGED <<disk, alert, ops>>

RefreshPane(p) ==
  /\ User /\ pane[p].remote # NoRemote
  /\ Navigate(p, pane[p], pane[p].path)
  /\ active' = p
  /\ UNCHANGED <<disk, alert, ops>>

ToggleHidden(p) ==
  /\ User
  /\ Navigate(p, [pane[p] EXCEPT !.hidden = ~@], pane[p].path)
  /\ UNCHANGED <<active, disk, alert, ops>>

(***************************************************************************)
(* Selecting rows: a click on a readable row, or select-all, which takes   *)
(* the disabled rows along. The click also focuses the pane.               *)
(***************************************************************************)
Choose(p, rows) ==
  /\ User /\ pane[p].content = "files"
  /\ rows = pane[p].list \/ \E e \in pane[p].list : e.name \notin BadNames /\ rows = {e}
  /\ pane' = [pane EXCEPT ![p].chosen = rows]
  /\ active' = p
  /\ UNCHANGED <<asks, disk, alert, ops>>

(***************************************************************************)
(* swap_location_with(): remote, path and history change sides, the lists  *)
(* and the load generations do not, and both panes load again.             *)
(***************************************************************************)
SwapPanes ==
  LET To(p) == [pane[p] EXCEPT !.remote  = pane[Other(p)].remote,
                               !.path    = pane[Other(p)].path,
                               !.history = pane[Other(p)].history]
      Went(p) == Moved(To(p), To(p).path) IN
  /\ User
  /\ pane' = [p \in Panes |-> Went(p)]
  /\ asks' = asks \cup UNION {Ask(p, Went(p)) : p \in Panes}
  /\ UNCHANGED <<active, disk, alert, ops>>

(***************************************************************************)
(* The answer of lsjson. An answer of an earlier generation is dropped. A  *)
(* local directory that rclone cannot list is read natively, row by row,   *)
(* with the rows it cannot stat() marked; the rest is the error page,      *)
(* which leaves the rows of the listing before it in the store.            *)
(***************************************************************************)
Entries(at)  == {e \in disk : e.at = at}
Unlistable(at) == at.remote = Local /\ \E e \in Entries(at) : e.name \in BadNames
Visible(r, rows) == {e \in rows : r.hidden \/ e.name \notin HiddenNames}

SlipListed(r, at) ==
  [r EXCEPT !.list = Visible(r, Entries(at)), !.shownAt = at,
            !.content = IF Entries(at) = {} THEN "empty" ELSE "files"]
Listed(r, at) ==
  [r EXCEPT !.list = Visible(r, Entries(at)), !.chosen = {}, !.shownAt = at,
            !.content = IF Entries(at) = {} THEN "empty" ELSE "files"]
Failed(r, at) == [r EXCEPT !.content = "error", !.shownAt = at]

SlipCurrent(a) == a.gen <= pane[a.p].gen
Current(a) == a.gen = pane[a.p].gen

AnswerListing(a) ==
  /\ a \in asks /\ asks' = asks \ {a}
  /\ IF Current(a)
     THEN \/ /\ ~Unlistable(a.at)                      \* rclone lists it
             /\ pane' = [pane EXCEPT ![a.p] = Listed(@, a.at)]
          \/ /\ Unlistable(a.at)                       \* list_local_directory()
             /\ pane' = [pane EXCEPT ![a.p] = Listed(@, a.at)]
          \/ pane' = [pane EXCEPT ![a.p] = Failed(@, a.at)]
     ELSE pane' = pane
  /\ UNCHANGED <<active, disk, alert, ops, moves>>

(***************************************************************************)
(* get_selected_files(): never an unreadable row.                          *)
(***************************************************************************)
SlipSelected(r) == r.chosen
SelectedFiles(r) == {e \in r.chosen : e.name \notin BadNames}

(***************************************************************************)
(* The include patterns made of a selection: the name of a file, or        *)
(* everything below a directory.                                           *)
(***************************************************************************)
Patterns(rows) == {[name |-> e.name, below |-> IsDir(e)] : e \in rows}

(***************************************************************************)
(* rclone (external): an include pattern without a leading slash matches   *)
(* at every depth below the directory.                                     *)
(***************************************************************************)
Matches(dir, pats) ==
  {e \in disk : /\ ~IsDir(e) /\ e.at.remote = dir.remote /\ IsPrefix(dir.path, e.at.path)
                /\ \E pt \in pats :
                     IF pt.below
                     THEN \E i \in Len(dir.path) + 1 .. Len(e.at.path) : e.at.path[i] = pt.name
                     ELSE e.name = pt.name}

(***************************************************************************)
(* Delete: on_delete_confirm() looks at the active pane's selection and    *)
(* opens the alert; on_delete() reads selection and path again when the    *)
(* user has confirmed, and refreshes the then active pane when rclone is   *)
(* done, whatever it answered.                                             *)
(***************************************************************************)
DeleteAsked ==
  /\ User /\ SelectedFiles(pane[active]) # {}
  /\ alert' = TRUE
  /\ UNCHANGED <<pane, asks, active, disk, ops>>

DeleteAnswered(yes) ==
  LET r == pane[active] IN
  /\ alert /\ alert' = FALSE
  /\ IF yes /\ SelectedFiles(r) # {} /\ r.remote # NoRemote
     THEN ops' = ops \cup {[kind |-> "delete", dir |-> At(r),
                            pats |-> Patterns(SelectedFiles(r)), rows |-> SelectedFiles(r)]}
     ELSE ops' = ops
  /\ UNCHANGED <<pane, asks, active, disk, moves>>

MakeFolder ==
  /\ User /\ pane[active].remote # NoRemote
  /\ ops' = ops \cup {[kind |-> "mkdir", dir |-> At(pane[active]), pats |-> {}, rows |-> {}]}
  /\ UNCHANGED <<pane, asks, active, disk, alert>>

(***************************************************************************)
(* show_job_dialog(): a new dialog, which replaces the last one, gets the  *)
(* two places and the selection of the left pane; it ends by itself.       *)
(***************************************************************************)
JobAsked ==
  /\ User
  /\ ops' = {op \in ops : op.kind # "job"} \cup
             {[kind |-> "job", dir |-> At(pane["left"]),
               pats |-> Patterns(SelectedFiles(pane["left"])), rows |-> SelectedFiles(pane["left"])]}
  /\ UNCHANGED <<pane, asks, active, disk, alert>>

JobDialogEnds(op) ==
  /\ op \in ops /\ op.kind = "job" /\ ops' = ops \ {op}
  /\ UNCHANGED <<pane, asks, active, disk, alert, moves>>

OpDone(op, ok) ==
  /\ op \in ops /\ op.kind # "job" /\ ops' = ops \ {op}
  /\ disk' = CASE ~ok -> disk
               [] ok /\ op.kind = "delete" -> disk \ Matches(op.dir, op.pats)
               [] OTHER -> disk \cup {[at |-> op.dir, name |-> NewName]}
  /\ Navigate(active, pane[active], pane[active].path)
  /\ UNCHANGED <<active, alert, moves>>

(***************************************************************************)
(* Properties.                                                             *)
(***************************************************************************)
BrowserTypeOK ==
  /\ active \in Panes /\ alert \in BOOLEAN /\ moves \in 0 .. MaxMoves
  /\ \A p \in Panes :
       /\ pane[p].remote \in Remotes \cup {Local, NoRemote}
       /\ pane[p].chosen \subseteq pane[p].list
       /\ pane[p].content \in {"no-remote", "loading", "empty", "error", "files"}
       /\ pane[p].known \in {{}, Remotes}
  /\ \A a \in asks : a.p \in Panes /\ a.gen <= pane[a.p].gen

\* A pane that shows rows, an empty page or an error shows them for the
\* directory its path names, in whatever order the answers of rclone arrive
\* and whatever was swapped meanwhile (the generation test in navigate()).
ShownIsCurrent ==
  \A p \in Panes : pane[p].content \in {"files", "empty", "error"} =>
    /\ pane[p].shownAt = At(pane[p])
    /\ pane[p].content # "error" => \A e \in pane[p].list : e.at = At(pane[p])

\* Going back never leads to a path that was recorded under another remote:
\* a change of remote forgets the history and a swap moves it with the path.
HistoryOfRemote ==
  \A p \in Panes : \A i \in DOMAIN pane[p].history : pane[p].history[i].remote = pane[p].remote

\* A row the pane greys out as unreadable is never handed to a deletion or a
\* job, although select-all selects it.
UnreadableSpared ==
  \A op \in ops : \A e \in op.rows : e.name \notin BadNames

\* The tooltip of the Delete button promises to delete the selected files or
\* folders: what a deletion would remove is what was selected, in the place
\* where it was shown.
OnlySelectedDeleted ==
  \A op \in ops : op.kind = "delete" =>
    \A e \in Matches(op.dir, op.pats) :
      \/ e \in op.rows
      \/ \E d \in op.rows : /\ IsDir(d) /\ d.at.remote = e.at.remote
                            /\ IsPrefix(Sub(d).path, e.at.path)

BrowserNext ==
  \/ MapPanes
  \/ \E p \in Panes : RemotesArrive(p) \/ GoBack(p) \/ GoUp(p)
                      \/ RefreshPane(p) \/ ToggleHidden(p)
  \/ \E p \in Panes, r \in Remotes \cup {Local} : SelectRemote(p, r)
  \/ \E p \in Panes : \E n \in 0 .. Len(pane[p].path) : Crumb(p, n)
  \/ \E p \in Panes : \E e \in pane[p].list : OpenRow(p, e) \/ Choose(p, {e})
  \/ \E p \in Panes : Choose(p, pane[p].list)
  \/ SwapPanes
  \/ \E a \in asks : AnswerListing(a)
  \/ DeleteAsked \/ (\E yes \in BOOLEAN : DeleteAnswered(yes)) \/ MakeFolder
  \/ JobAsked
  \/ \E op \in ops : JobDialogEnds(op)
  \/ \E op \in ops, ok \in BOOLEAN : OpDone(op, ok)

BrowserSpec == BrowserInit /\ [][BrowserNext]_browserVars
=============================================================================
