------------------------------ MODULE Compare ------------------------------
(***************************************************************************)
(* The compare dialog (compare_dialog.cpp): two recursive listings and one *)
(* rclone check run side by side, their results are merged into rows,      *)
(* filtered and shown page by page, and selected files are deleted or      *)
(* copied, after which everything is loaded again. Given a job, the dialog *)
(* previews a dry run of it instead.                                       *)
(*                                                                         *)
(* A file is [dir, name, raw]: "dir" and "name" order files as the dialog  *)
(* sorts them, "raw" is the rank of the whole path in a plain sort.        *)
(***************************************************************************)
EXTENDS Naturals, Sequences, FiniteSets, SequencesExt

CONSTANTS
  SrcFiles, DstFiles,   \* the two sides at first: sets of [file, version]
  BrokenFiles,          \* the files rclone check cannot compare
  DryLogs,              \* what a dry run may log: sequences of actions
  DryTypes,             \* the job types that are previewed
  PageSize,
  MaxClicks             \* bound: what the user does

FilesOf(listing) == {f.file : f \in listing}
Files == FilesOf(SrcFiles \cup DstFiles) \cup
         UNION {{log[i].file : i \in DOMAIN log} : log \in DryLogs}

ASSUME CompareAssumption ==
  /\ PageSize \in Nat \ {0} /\ MaxClicks \in Nat
  /\ IsFiniteSet(SrcFiles) /\ IsFiniteSet(DstFiles)
  /\ \A log \in DryLogs : log \in Seq([file : Files, skipped : STRING, error : BOOLEAN, fs : BOOLEAN])
  /\ \A f \in Files : f.dir \in Nat /\ f.raw \in Nat
  /\ \A f, g \in Files : f.raw = g.raw => f = g

VARIABLES
  mode,                 \* "compare", or the type of the previewed job
  side,                 \* the truth: side["src"], side["dst"]
  loads, latest,        \* the loads under way; m_load_state
  alive,                \* *m_alive
  stack, allRows, filteredRows, shownStatus, page, pages, picked,
  tally, fsErrors, commands, clicks

uiVars      == <<stack, allRows, filteredRows, shownStatus, page, pages, picked>>
compareVars == <<mode, side, loads, latest, alive, uiVars, tally, fsErrors,
                 commands, clicks>>

Parts     == {"src", "dst", "check"}
Statuses  == {"-", "+", "=", "*", "!"}
IsDry     == mode # "compare"
VersionIn(listing, f) == {g.version : g \in {h \in listing : h.file = f}}

(***************************************************************************)
(* start_load(): a fresh load state with three processes; m_load_state     *)
(* forgets the one before, which is neither cancelled nor waited for.      *)
(***************************************************************************)
NewLoad(n) == [id |-> n, answered |-> {}, src |-> {}, dst |-> {}, check |-> <<>>,
               failed |-> FALSE]

StartLoad ==
  /\ latest' = latest + 1
  /\ loads'  = loads \cup {NewLoad(latest + 1)}

CompareInit ==
  /\ mode \in {"compare"} \cup DryTypes
  /\ side = [src |-> SrcFiles, dst |-> DstFiles]
  /\ loads = {NewLoad(1)} /\ latest = 1 /\ alive = TRUE
  /\ stack = "loading" /\ allRows = <<>> /\ filteredRows = <<>> /\ shownStatus = Statuses
  /\ page = 0 /\ pages = 1 /\ picked = {}
  /\ tally = [k \in {} |-> 0] /\ fsErrors = 0 /\ commands = {} /\ clicks = 0

(***************************************************************************)
(* rclone check (external): '+' only in the source, '-' only in the        *)
(* destination.                                                            *)
(***************************************************************************)
StatusOf(f) ==
  LET s == VersionIn(side["src"], f)  d == VersionIn(side["dst"], f) IN
  IF f \in BrokenFiles THEN "!" ELSE IF d = {} THEN "+" ELSE IF s = {} THEN "-"
  ELSE IF s = d THEN "=" ELSE "*"

Checked == {[file |-> f, status |-> StatusOf(f)] :
              f \in FilesOf(side["src"]) \cup FilesOf(side["dst"])}

(***************************************************************************)
(* dry_run_to_checks(): the last action logged for a file decides its row; *)
(* a whole-directory move stands for a move of every source file, and an   *)
(* error of a whole remote is kept apart.                                  *)
(***************************************************************************)
TransferKind(f, isMove, dstFiles) ==
  IF isMove THEN "move" ELSE IF f \in dstFiles THEN "update" ELSE "copy"

KindsOfFile(a, load) ==
  CASE a.skipped = "copy"       -> {<<a.file, TransferKind(a.file, FALSE, FilesOf(load.dst))>>}
    [] a.skipped = "move"       -> {<<a.file, "move">>}
    [] a.skipped = "delete"     -> {<<a.file, IF mode = "move" THEN "del_src" ELSE "del">>}
    [] OTHER                    -> {}

KindsOf(a, load) ==
  CASE a.error /\ a.fs          -> {}
    [] a.error /\ ~a.fs         -> {<<a.file, "error">>}
    [] ~a.error /\ a.fs         -> IF a.skipped = "server-side directory move"
                                   THEN {<<f, "move">> : f \in FilesOf(load.src)} ELSE {}
    [] ~a.error /\ ~a.fs        -> KindsOfFile(a, load)

ByPath(load) ==
  LET kinds(i) == KindsOf(load.check[i], load) IN
  UNION {{k \in kinds(i) : \A j \in DOMAIN load.check : j > i => \A n \in kinds(j) : n[1] # k[1]} :
           i \in DOMAIN load.check}

DryStatus(kind, f, load) ==
  CASE kind = "copy" -> "+" [] kind = "update" -> "*" [] kind = "del" -> "-"
    [] kind = "del_src" -> "=" [] kind = "error" -> "!"
    [] kind = "move" -> IF f \in FilesOf(load.dst) THEN "*" ELSE "+"

DryChecks(load) ==
  {[file |-> k[1], status |-> DryStatus(k[2], k[1], load)] : k \in ByPath(load)}
\* Slip: counted as they are logged, not when the last one has decided.
SlipTallied(load) ==
  LET logged == UNION {KindsOf(load.check[i], load) : i \in DOMAIN load.check} IN
  [kind \in {k[2] : k \in logged} |-> Cardinality({k \in logged : k[2] = kind})]
Tallied(load) ==
  [kind \in {k[2] : k \in ByPath(load)} |-> Cardinality({k \in ByPath(load) : k[2] = kind})]
FsErrors(load) == Cardinality({i \in DOMAIN load.check : load.check[i].error /\ load.check[i].fs})

(***************************************************************************)
(* merge_results(): sorted by directory, then by path, with a header row   *)
(* whenever the directory changes.                                         *)
(***************************************************************************)
Before(a, b) ==
  \/ a.file.dir < b.file.dir
  \/ a.file.dir = b.file.dir /\ a.file.raw < b.file.raw

Sorted(checks) ==
  [n \in 1 .. Cardinality(checks) |->
     CHOOSE c \in checks : Cardinality({d \in checks : Before(d, c)}) = n - 1]

Header(dir) == [status |-> "/", file |-> [dir |-> dir, name |-> 0, raw |-> 0]]
Merged(checks) ==
  LET sorted == Sorted(checks)
      dir(n) == sorted[n].file.dir
      rows[n \in 0 .. Cardinality(checks)] ==
        IF n = 0 THEN <<>>
        ELSE IF n > 1 /\ dir(n - 1) = dir(n) THEN Append(rows[n - 1], sorted[n])
        ELSE Append(Append(rows[n - 1], Header(dir(n))), sorted[n])
  IN rows[Cardinality(checks)]

(***************************************************************************)
(* rebuild_filter_cache(): the rows whose status is switched on and the    *)
(* headers that still have a file behind them. The number of pages is      *)
(* computed from the files, the pages are cut from the rows.               *)
(***************************************************************************)
IsHeader(row) == row.status = "/"
Filtered(rows, on) ==
  LET visible == SelectSeq(rows, LAMBDA r : IsHeader(r) \/ r.status \in on)
      kept    == {i \in DOMAIN visible :
                    ~IsHeader(visible[i]) \/ (i < Len(visible) /\ ~IsHeader(visible[i + 1]))}
      order   == SetToSortSeq(kept, <) IN
  [i \in 1 .. Len(order) |-> visible[order[i]]]

FileCount(rows) == Cardinality({i \in DOMAIN rows : ~IsHeader(rows[i])})
PageCount(rows) ==
  IF FileCount(rows) = 0 THEN 1 ELSE (FileCount(rows) + PageSize - 1) \div PageSize
OnPage(rows, n) == SubSeq(rows, n * PageSize + 1,
                          IF (n + 1) * PageSize < Len(rows) THEN (n + 1) * PageSize ELSE Len(rows))

(***************************************************************************)
(* show_page(): the results page comes to the front, whatever was there,   *)
(* and the selection of the old page is gone.                              *)
(***************************************************************************)
ShowPage(n)  == /\ page' = n /\ stack' = "results" /\ picked' = {}
Refilter(rows, on) ==
  /\ filteredRows' = Filtered(rows, on) /\ pages' = PageCount(Filtered(rows, on))

(***************************************************************************)
(* try_finish(): the third answer of a load, good or bad, ends it and uses *)
(* the dialog, which by then may have been closed.                         *)
(***************************************************************************)
Result(load, part, ok) ==
  LET l == [load EXCEPT !.answered = @ \cup {part}] IN
  IF part # "check"
  THEN IF ok THEN {[l EXCEPT ![part] = side[part]]} ELSE {[l EXCEPT !.failed = @ \/ ~IsDry]}
  ELSE IF IsDry
       THEN IF ok THEN {[l EXCEPT !.check = log] : log \in DryLogs} ELSE {[l EXCEPT !.failed = TRUE]}
       ELSE {[l EXCEPT !.check = IF ok THEN SetToSeq(Checked) ELSE <<>>]}

Finish(l) ==
  LET checks == IF IsDry THEN DryChecks(l) ELSE ToSet(l.check)
      rows   == Merged(checks)
      quiet  == IsDry /\ rows = <<>> /\ FsErrors(l) = 0 IN
  IF l.failed
  THEN /\ stack' = "error"
       /\ UNCHANGED <<allRows, filteredRows, shownStatus, page, pages, picked, tally, fsErrors>>
  ELSE /\ allRows' = rows /\ UNCHANGED shownStatus
       /\ tally' = IF IsDry THEN Tallied(l) ELSE tally
       /\ fsErrors' = IF IsDry THEN FsErrors(l) ELSE fsErrors
       /\ IF quiet
          THEN /\ stack' = "empty" /\ pages' = PageCount(rows)
               /\ UNCHANGED <<filteredRows, page, picked>>
          ELSE Refilter(rows, shownStatus) /\ ShowPage(0)

Answer(load, part, ok) ==
  /\ load \in loads /\ part \in Parts \ load.answered
  /\ \E l \in Result(load, part, ok) :
       IF l.answered # Parts
       THEN /\ loads' = (loads \ {load}) \cup {l}
            /\ UNCHANGED <<uiVars, tally, fsErrors>>
       ELSE /\ loads' = loads \ {load}
            /\ IF alive THEN Finish(l) ELSE UNCHANGED <<uiVars, tally, fsErrors>>
  /\ UNCHANGED <<mode, side, latest, alive, commands, clicks>>

(***************************************************************************)
(* The user: filters and pages, a selection of one row or of the page, and *)
(* the four commands, which put up the loading page but leave the buttons  *)
(* and the selection as they are.                                          *)
(***************************************************************************)
Click == /\ alive /\ clicks < MaxClicks /\ clicks' = clicks + 1

ToggleFilter(s) ==
  /\ Click
  /\ shownStatus' = (shownStatus \ {s}) \cup ({s} \ shownStatus)
  /\ Refilter(allRows, shownStatus') /\ ShowPage(0)
  /\ UNCHANGED <<mode, side, loads, latest, alive, allRows, tally, fsErrors, commands>>

TurnPage(n) ==
  /\ Click /\ stack = "results" /\ n \in 0 .. pages - 1 /\ (n = page + 1 \/ n + 1 = page)
  /\ ShowPage(n)
  /\ UNCHANGED <<mode, side, loads, latest, alive, allRows, filteredRows, shownStatus,
                 pages, tally, fsErrors, commands>>

Pick(rows) ==
  /\ Click /\ stack = "results"
  /\ picked' = {r.file : r \in {x \in rows : ~IsHeader(x)}}
  /\ UNCHANGED <<mode, side, loads, latest, alive, stack, allRows, filteredRows,
                 shownStatus, page, pages, tally, fsErrors, commands>>

Verbs == {"delete_src", "copy", "copy_back", "delete_dst"}

Command(verb) ==
  /\ Click /\ ~IsDry /\ picked # {} /\ stack' = "loading"
  /\ commands' = commands \cup {[verb |-> verb, files |-> picked, n |-> clicks]}
  /\ UNCHANGED <<mode, side, loads, latest, alive, allRows, filteredRows, shownStatus,
                 page, pages, picked, tally, fsErrors>>

(***************************************************************************)
(* rclone (external) deletes or copies the files named from the root of a  *)
(* side; the callback of a dialog that is still alive loads again.         *)
(***************************************************************************)
Over(to, from, files) == {f \in to : f.file \notin files \cap FilesOf(from)} \cup
                         {f \in from : f.file \in files}
Carried(c) ==
  CASE c.verb = "delete_src" -> [side EXCEPT !["src"] = {f \in @ : f.file \notin c.files}]
    [] c.verb = "delete_dst" -> [side EXCEPT !["dst"] = {f \in @ : f.file \notin c.files}]
    [] c.verb = "copy"       -> [side EXCEPT !["dst"] = Over(@, side["src"], c.files)]
    [] c.verb = "copy_back"  -> [side EXCEPT !["src"] = Over(@, side["dst"], c.files)]

SlipCommandDone(c, ok) ==
  /\ c \in commands /\ commands' = commands \ {c}
  /\ side' = IF ok THEN Carried(c) ELSE side
  /\ StartLoad
  /\ UNCHANGED <<mode, alive, uiVars, tally, fsErrors, clicks>>

CommandDone(c, ok) ==
  /\ c \in commands /\ commands' = commands \ {c}
  /\ side' = IF ok THEN Carried(c) ELSE side
  /\ IF alive THEN StartLoad ELSE UNCHANGED <<loads, latest>>
  /\ UNCHANGED <<mode, alive, uiVars, tally, fsErrors, clicks>>

(***************************************************************************)
(* Close, or destruction by the owner: the latest load is cancelled.       *)
(***************************************************************************)
CloseDialog ==
  /\ alive /\ alive' = FALSE
  /\ loads' = {l \in loads : l.id # latest}
  /\ UNCHANGED <<mode, side, latest, uiVars, tally, fsErrors, commands, clicks>>

CompareNext ==
  \/ \E l \in loads, part \in Parts, ok \in BOOLEAN : Answer(l, part, ok)
  \/ \E s \in Statuses : ToggleFilter(s)
  \/ \E n \in {page + 1, page - 1} : TurnPage(n)
  \/ Pick(ToSet(OnPage(filteredRows, page)))
  \/ \E r \in ToSet(OnPage(filteredRows, page)) : Pick({r})
  \/ \E v \in Verbs : Command(v)
  \/ \E c \in commands, ok \in BOOLEAN : CommandDone(c, ok)
  \/ CloseDialog

CompareSpec == CompareInit /\ [][CompareNext]_compareVars

(***************************************************************************)
(* Properties.                                                             *)
(***************************************************************************)
CompareTypeOK ==
  /\ mode \in {"compare"} \cup DryTypes /\ alive \in BOOLEAN /\ clicks \in 0 .. MaxClicks
  /\ stack \in {"loading", "results", "error", "empty"} /\ shownStatus \subseteq Statuses
  /\ \A l \in loads : l.id \in 1 .. latest /\ l.answered \subseteq Parts
  /\ \A c \in commands : c.verb \in Verbs /\ c.files # {}

\* A dialog that was closed while a deletion or a copy was running starts no
\* further scan when that is done.
NoLoadAfterClose == [][~alive => latest' = latest]_compareVars

\* The summary of a dry run counts every file once: its numbers add up to the
\* file rows of the list (the comment on by_path in dry_run_to_checks).
TallyMatchesRows == IsDry => SumFunction(tally) = FileCount(allRows)
=============================================================================
