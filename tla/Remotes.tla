------------------------------ MODULE Remotes ------------------------------
(***************************************************************************)
(* The remotes page and its edit page (backends_view.cpp,                  *)
(* backend_edit_view.cpp) over rclone's configuration, which the           *)
(* subprocesses of rclone_cli.cpp read and write one question at a time.   *)
(*                                                                         *)
(* A remote is [name, type, token, open]: open while rclone still has a    *)
(* question about it. A provider stands for its form, a token for the      *)
(* provider that granted it. The options of a form and the capacities are  *)
(* left out. A subprocess that reads or writes the configuration ends in   *)
(* one step and its callback runs in another.                              *)
(***************************************************************************)
EXTENDS Naturals, FiniteSets, FiniteSetsExt

CONSTANTS
  RemoteNames, Providers, First, \* First: the provider that heads the list
  OAuth,                         \* the providers that need a token
  Conf0,                         \* the remotes at first
  MaxSteps,                      \* questions answered in one save, kMaxConfigSteps
  MaxActs, MaxLists              \* bounds: what the user does, listings asked for

ASSUME RemotesAssumption ==
  /\ First \in Providers /\ OAuth \subseteq Providers
  /\ MaxSteps \in Nat /\ MaxActs \in Nat /\ MaxLists \in Nat
  /\ \A c, d \in Conf0 : c.name \in RemoteNames /\ ~c.open /\ (c.name = d.name => c = d)

VARIABLES
  conf,                          \* rclone's configuration
  listings, lists,               \* config dump under way, how many were asked for
  remotes,                       \* the rows of the page
  edit, onTop,                   \* m_edit_view, whether its page is shown
  views,                         \* edit pages opened
  loading, auths, saves, deletions, \* subprocesses under way
  acts,
  died,                          \* the window, of a callback on a view that is gone
  unsure                         \* names whose last save ended in an error (for the properties)

remoteVars == <<conf, listings, lists, remotes, edit, onTop, views, loading, auths, saves,
                deletions, acts, died, unsure>>
listVars   == <<listings, lists>>
procVars   == <<loading, auths, saves, deletions>>

None    == "none"
Answers == {"complete", "question", "refused", "error"}
NoEdit == [id |-> 0, editing |-> None, type |-> None, loaded |-> FALSE, provider |-> None,
           token |-> None, waiting |-> FALSE, saving |-> FALSE, name |-> None]
Named(name) == {c \in conf : c.name = name}

Acts == acts < MaxActs /\ acts' = acts + 1

\* refresh(): a listing is asked for.
Refreshed ==
  IF lists < MaxLists
  THEN /\ lists' = lists + 1 /\ listings' = listings \cup {[n |-> lists + 1, read |-> FALSE, seen |-> {}]}
  ELSE UNCHANGED listVars

RemotesInit ==
  /\ conf = Conf0 /\ remotes = {} /\ lists = 1
  /\ listings = {[n |-> 1, read |-> FALSE, seen |-> {}]}
  /\ edit = NoEdit /\ onTop = FALSE /\ views = 0
  /\ loading = {} /\ auths = {} /\ saves = {} /\ deletions = {} /\ acts = 0
  /\ died = FALSE /\ unsure = {}

(***************************************************************************)
(* The page is mapped, or the theme changes.                               *)
(***************************************************************************)
Remapped ==
  /\ lists < MaxLists /\ Refreshed
  /\ UNCHANGED <<conf, remotes, edit, onTop, views, procVars, died, unsure, acts>>

ListReads(l) ==
  /\ ~l.read /\ listings' = (listings \ {l}) \cup {[l EXCEPT !.read = TRUE, !.seen = conf]}
  /\ UNCHANGED <<conf, lists, remotes, edit, onTop, views, procVars, died, unsure, acts>>

ListAnswered(l, ok) ==
  /\ l.read /\ listings' = listings \ {l}
  /\ remotes' = IF ok THEN {[name |-> c.name, type |-> c.type] : c \in l.seen} ELSE remotes
  /\ UNCHANGED <<conf, lists, edit, onTop, views, procVars, died, unsure, acts>>

(***************************************************************************)
(* on_delete_remote(): rclone deletes, or fails to; its callback follows.  *)
(***************************************************************************)
ClickDeleteRemote(row) ==
  /\ Acts /\ ~onTop /\ \A d \in deletions : d.name # row.name
  /\ deletions' = deletions \cup {[name |-> row.name, answer |-> None]}
  /\ UNCHANGED <<conf, listVars, remotes, edit, onTop, views, loading, auths, saves, died, unsure>>

DeletionEnds(d, ok) ==
  /\ d.answer = None
  /\ deletions' = (deletions \ {d}) \cup {[d EXCEPT !.answer = IF ok THEN "complete" ELSE "error"]}
  /\ conf' = IF ok THEN conf \ Named(d.name) ELSE conf
  /\ UNCHANGED <<listVars, remotes, edit, onTop, views, loading, auths, saves, died, unsure, acts>>

RemoteDeleted(d) ==
  /\ d.answer # None /\ deletions' = deletions \ {d}
  /\ IF d.answer = "complete" THEN Refreshed ELSE UNCHANGED listVars
  /\ UNCHANGED <<conf, remotes, edit, onTop, views, loading, auths, saves, died, unsure, acts>>

(***************************************************************************)
(* show_add_remote(), show_edit_remote(): a new edit view replaces the     *)
(* old one, which is destroyed. The callbacks of its sign-ins and saves    *)
(* are guarded and void from now on, that of its providers is not.         *)
(***************************************************************************)
Opened(editing, type) ==
  /\ Acts /\ ~onTop /\ views' = views + 1 /\ onTop' = TRUE
  /\ edit' = [NoEdit EXCEPT !.id = views + 1, !.editing = editing, !.type = type]
  /\ loading' = loading \cup {views + 1}
  /\ UNCHANGED <<conf, listVars, remotes, auths, saves, deletions, died, unsure>>

ShowAddRemote       == Opened(None, None)
ShowEditRemote(row) == Opened(row.name, row.type)

Alive(view) == view = edit.id

(***************************************************************************)
(* load_providers(): the list selects its first row by itself, then the    *)
(* provider of the remote, if it is one that is offered. The callback has  *)
(* the bare view: the providers of a replaced page reach a view that is    *)
(* destroyed, which nobody sees or which ends the window.                  *)
(***************************************************************************)
Selecting(e, p) == [e EXCEPT !.provider = p, !.token = None, !.waiting = FALSE]

ProvidersLoaded(view, ok) ==
  /\ loading' = loading \ {view}
  /\ edit' = IF Alive(view) /\ ok
             THEN [Selecting(edit, IF edit.type \in Providers THEN edit.type ELSE First)
                     EXCEPT !.loaded = TRUE]
             ELSE edit
  /\ died' \in IF ok /\ ~Alive(view) THEN BOOLEAN ELSE {FALSE}
  /\ UNCHANGED <<conf, listVars, remotes, onTop, views, auths, saves, deletions, unsure, acts>>

SelectProvider(p) ==
  /\ Acts /\ onTop /\ edit.loaded /\ p # edit.provider /\ edit' = Selecting(edit, p)
  /\ UNCHANGED <<conf, listVars, remotes, onTop, views, procVars, died, unsure>>

(***************************************************************************)
(* on_authorize(): the button waits until the answer, or until another     *)
(* provider is selected.                                                   *)
(***************************************************************************)
Authorize ==
  /\ Acts /\ onTop /\ edit.provider \in OAuth /\ ~edit.waiting
  /\ edit' = [edit EXCEPT !.waiting = TRUE]
  /\ auths' = auths \cup {[view |-> edit.id, provider |-> edit.provider]}
  /\ UNCHANGED <<conf, listVars, remotes, onTop, views, loading, saves, deletions, died, unsure>>

AuthorizeAnswered(a, ok) ==
  /\ auths' = auths \ {a}
  /\ IF Alive(a.view)
     THEN edit' = [edit EXCEPT !.waiting = FALSE, !.token = IF ok THEN a.provider ELSE @]
     ELSE UNCHANGED edit
  /\ UNCHANGED <<conf, listVars, remotes, onTop, views, loading, saves, deletions, died, unsure,
                 acts>>

(***************************************************************************)
(* on_save(): config create or config update, then --continue for each     *)
(* question, until the state that rclone prints is empty.                  *)
(***************************************************************************)
Save(name) ==
  /\ Acts /\ onTop /\ edit.provider # None /\ ~edit.saving
  /\ edit.editing # None => name = edit.editing
  /\ edit' = [edit EXCEPT !.saving = TRUE, !.name = name]
  /\ saves' = saves \cup {[view |-> edit.id, name |-> name, type |-> edit.provider,
                           token |-> edit.token,
                           command |-> IF edit.editing = None THEN "create" ELSE "update",
                           left |-> MaxSteps, answer |-> None]}
  /\ unsure' = unsure \ {name}
  /\ UNCHANGED <<conf, listVars, remotes, onTop, views, loading, auths, deletions, died>>

\* What rclone leaves behind when it ends with or without a question: a create
\* begins the remote anew, an update keeps what it is not given.
Written(s, asks) ==
  LET old == CHOOSE c \in Named(s.name) : TRUE
      new == IF s.command = "create" THEN [name |-> s.name, type |-> s.type, token |-> s.token]
             ELSE [name |-> s.name, type |-> old.type,
                   token |-> IF s.command = "continue" \/ s.token = None THEN old.token ELSE s.token]
  IN (conf \ Named(s.name)) \cup {[name |-> new.name, type |-> new.type, token |-> new.token,
                                    open |-> asks]}

\* rclone ends: it has no question, or one, or one that on_save() may not answer
\* (an error in it, or the wish for its own sign-in), or it fails, at once or
\* after it has written.
CanRun(s) == s.command = "create" \/ Named(s.name) # {}

CommandEnds(s, answer) ==
  /\ s.answer = None
  /\ \/ answer = "error" /\ conf' = conf
     \/ CanRun(s) /\ conf' = Written(s, answer # "complete")
  /\ saves' = (saves \ {s}) \cup {[s EXCEPT !.answer = answer]}
  /\ UNCHANGED <<listVars, remotes, edit, onTop, views, loading, auths, deletions, died, unsure,
                 acts>>

\* The callback of on_save(): back to the remotes, or an error and the button.
Concluded(s, ok) ==
  /\ saves' = saves \ {s}
  /\ unsure' = IF ok THEN unsure ELSE unsure \cup {s.name}
  /\ IF ~Alive(s.view) THEN UNCHANGED <<edit, onTop, listVars>>
     ELSE /\ edit' = [edit EXCEPT !.saving = FALSE]
          /\ IF ok THEN onTop' = FALSE /\ Refreshed ELSE UNCHANGED <<onTop, listVars>>

(***************************************************************************)
(* continue_config(): a question gets the default for an answer, until     *)
(* there were too many.                                                    *)
(***************************************************************************)
SlipExhausted(s) == Concluded(s, TRUE)
Exhausted(s) == Concluded(s, FALSE)

Continued(s) ==
  /\ saves' = (saves \ {s}) \cup {[s EXCEPT !.left = @ - 1, !.command = "continue", !.answer = None]}
  /\ UNCHANGED <<edit, onTop, listVars, unsure>>

CommandAnswered(s) ==
  /\ \/ s.answer = "complete" /\ Concluded(s, TRUE)
     \/ s.answer \in {"error", "refused"} /\ Concluded(s, FALSE)
     \/ s.answer = "question" /\ s.left = 0 /\ Exhausted(s)
     \/ s.answer = "question" /\ s.left # 0 /\ Continued(s)
  /\ UNCHANGED <<conf, remotes, views, loading, auths, deletions, died, acts>>

(***************************************************************************)
(* The cancel button; and the navigation view's own way back, which asks   *)
(* for no listing. Neither stops what runs.                                *)
(***************************************************************************)
LeaveEditPage(cancel) ==
  /\ Acts /\ onTop /\ onTop' = FALSE
  /\ IF cancel THEN Refreshed ELSE UNCHANGED listVars
  /\ UNCHANGED <<conf, remotes, edit, views, procVars, died, unsure>>

WindowNext ==
  \/ Remapped \/ ShowAddRemote \/ Authorize
  \/ \E l \in listings : ListReads(l) \/ \E ok \in BOOLEAN : ListAnswered(l, ok)
  \/ \E row \in remotes : ClickDeleteRemote(row) \/ ShowEditRemote(row)
  \/ \E d \in deletions : RemoteDeleted(d) \/ \E ok \in BOOLEAN : DeletionEnds(d, ok)
  \/ \E view \in loading, ok \in BOOLEAN : ProvidersLoaded(view, ok)
  \/ \E p \in Providers : SelectProvider(p)
  \/ \E a \in auths, ok \in BOOLEAN : AuthorizeAnswered(a, ok)
  \/ \E name \in RemoteNames : Save(name)
  \/ \E s \in saves : CommandAnswered(s) \/ \E answer \in Answers : CommandEnds(s, answer)
  \/ \E cancel \in BOOLEAN : LeaveEditPage(cancel)

RemotesNext == ~died /\ WindowNext

RemotesSpec == RemotesInit /\ [][RemotesNext]_remoteVars

(***************************************************************************)
(* Properties.                                                             *)
(***************************************************************************)
RemotesTypeOK ==
  /\ \A c \in conf : c.name \in RemoteNames /\ Cardinality(Named(c.name)) = 1
  /\ edit.provider \in Providers \cup {None} /\ edit.token \in Providers \cup {None}
  /\ onTop => edit # NoEdit
  /\ \A s \in saves : s.left \in 0 .. MaxSteps

\* A remote that is written half is never passed off as saved: as long as rclone
\* has a question about it, a save of that name is under way and has not come
\* to its end, or the last one has ended in an error, however many questions
\* there were and whichever saves, of this page and of earlier ones, and
\* deletions of that name run side by side.
HalfSavedIsKnown ==
  \A c \in conf : c.open =>
    \/ \E s \in saves : s.name = c.name /\ s.answer # "complete"
    \/ c.name \in unsure
=============================================================================
