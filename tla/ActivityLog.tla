---------------------------- MODULE ActivityLog ----------------------------
(***************************************************************************)
(* The activity log (log/activity_log.cpp): daemon and window append to    *)
(* it, prune it and delete lines of it under a lock file, while the job    *)
(* view (job_view.cpp) shows and selects lines it read without the lock.   *)
(*                                                                         *)
(* A line is [day, link]: the day of its timestamp and the error log its   *)
(* text names, with the day that was saved. Lines may be equal. Each       *)
(* process has one operation under way; a rewrite reads, writes aside and  *)
(* renames. The lock file can be opened.                                   *)
(***************************************************************************)
EXTENDS Integers, Sequences, SequencesExt

CONSTANTS
  Retentions,                    \* the values the user types
  MaxDay, MaxLines,              \* bounds: days, lines written
  LastLines                      \* how many lines the view reads, 100

ASSUME LogAssumption ==
  /\ Retentions \subseteq Nat /\ MaxDay \in Nat /\ MaxLines \in Nat /\ LastLines \in Nat

VARIABLES
  today, log, errorLogs, holder,
  op,                            \* what each process does: [kind, phase, ...]
  store, selection, asked,       \* the view: rows, selected rows, the question
  retention,                     \* settings.json, saved at each key
  written,                       \* lines so far
  sequential, swept              \* the log had nothing overlapped; the latest cutoff
                                 \* that a prune has put to the error logs

logVars == <<today, log, errorLogs, holder, op, store, selection, asked, retention,
             written, sequential, swept>>

Writers == {"daemon", "window"}
Nobody  == "nobody"
NoLog   == [n |-> 0, day |-> 0]
Idle    == [kind |-> "idle", phase |-> "none", line |-> NoLog, lines |-> <<>>, days |-> 0,
            cutoff |-> 0, kept |-> <<>>]
Op(kind)   == [Idle EXCEPT !.kind = kind, !.phase = "called"]
Line(link) == [day |-> today, link |-> link]
Expired(x, cutoff) == x.day < cutoff

\* The lines at some of the rows, in the order of the rows.
Selected(lines, rows) ==
  LET taken[k \in 0 .. Len(lines)] ==
        IF k = 0 THEN <<>>
        ELSE IF k \in rows THEN Append(taken[k - 1], lines[k]) ELSE taken[k - 1]
  IN taken[Len(lines)]

\* delete_entries(): the first lines go that are equal to an entry, as many
\* as there are entries equal to them.
Occurrences(lines, x) == Cardinality({i \in DOMAIN lines : lines[i] = x})
Minus(lines, entries) == Selected(lines, {i \in DOMAIN lines :
  Occurrences(SubSeq(lines, 1, i), lines[i]) > Occurrences(entries, lines[i])})

Remaining(kind, cutoff, entries, lines) ==
  IF kind = "prune" THEN Selected(lines, {i \in DOMAIN lines : ~Expired(lines[i], cutoff)})
  ELSE Minus(lines, entries)
Kept(o, lines) == Remaining(o.kind, o.cutoff, o.lines, lines)

Links(lines) == {lines[i].link : i \in DOMAIN lines} \ {NoLog}

LogInit ==
  /\ today = 0 /\ log = <<>> /\ errorLogs = {} /\ holder = Nobody
  /\ op = [p \in Writers |-> Idle]
  /\ store = <<>> /\ selection = {} /\ asked = FALSE
  /\ retention \in Retentions /\ written = 0 /\ sequential = <<>> /\ swept = 0

shownVars == <<store, selection, asked, retention>>

DayPasses ==
  /\ today < MaxDay /\ today' = today + 1
  /\ UNCHANGED <<log, errorLogs, holder, op, shownVars, written, sequential, swept>>

(***************************************************************************)
(* The daemon reports an event of a job. The output of a failed run is     *)
(* saved first, and the line links it.                                     *)
(***************************************************************************)
Report(failed) ==
  LET link == IF failed THEN [n |-> written + 1, day |-> today] ELSE NoLog IN
  /\ op["daemon"] = Idle /\ written < MaxLines /\ written' = written + 1
  /\ errorLogs' = IF failed THEN errorLogs \cup {link} ELSE errorLogs
  /\ op' = [op EXCEPT !["daemon"] = [Op("append") EXCEPT !.line = link]]
  /\ UNCHANGED <<today, log, holder, shownVars, sequential, swept>>

(***************************************************************************)
(* prune(): daily in the daemon, and when the retention is applied or the  *)
(* settings page is left in the window; 0 keeps everything. The retention  *)
(* is the one that is saved at the call.                                   *)
(***************************************************************************)
Prune(p) ==
  /\ op[p] = Idle /\ retention > 0 /\ (p = "window" => ~asked)
  /\ op' = [op EXCEPT ![p] = [Op("prune") EXCEPT !.days = retention]]
  /\ UNCHANGED <<today, log, errorLogs, holder, shownVars, written, sequential, swept>>

TypeRetention(days) ==
  /\ op["window"] = Idle /\ ~asked /\ days # retention /\ retention' = days
  /\ UNCHANGED <<today, log, errorLogs, holder, op, store, selection, asked, written, sequential, swept>>

(***************************************************************************)
(* FileLock: a process waits for the lock and its end frees it.            *)
(***************************************************************************)
SlipMayEnter(p) == op[p].kind = "append" \/ holder = Nobody
MayEnter(p) == holder = Nobody

Enter(p) ==
  /\ op[p].phase = "called" /\ MayEnter(p) /\ holder' = p
  /\ op' = [op EXCEPT ![p].phase = "inside"]
  /\ UNCHANGED <<today, log, errorLogs, shownVars, written, sequential, swept>>

Leave(p) == holder' = IF holder = p THEN Nobody ELSE holder

AppendLine(p) ==
  /\ op[p].kind = "append" /\ op[p].phase = "inside"
  /\ log' = Append(log, Line(op[p].line))
  /\ sequential' = Append(sequential, Line(op[p].line))
  /\ Leave(p) /\ op' = [op EXCEPT ![p] = Idle]
  /\ UNCHANGED <<today, errorLogs, shownVars, written, swept>>

ReadForRewrite(p) ==
  LET o == [op[p] EXCEPT !.cutoff = today - op[p].days, !.phase = "read"] IN
  /\ op[p].kind \in {"prune", "delete"} /\ op[p].phase = "inside"
  /\ op' = [op EXCEPT ![p] = [o EXCEPT !.kept = Kept(o, log)]]
  /\ UNCHANGED <<today, log, errorLogs, holder, shownVars, written, sequential, swept>>

(***************************************************************************)
(* rewrite_atomic(), unless nothing is removed. The error logs go after    *)
(* the lock is released: the expired ones whatever became of the rewrite,  *)
(* those of the deleted entries only when it succeeded. What is expired is *)
(* decided anew, with the clock of that moment and in hours: a change to   *)
(* or from summer time sets it off from the calendar days of the lines, by  *)
(* an hour there and here by up to one step of the clock.                  *)
(***************************************************************************)
SweepCutoffs(o) ==
  IF o.kind = "prune" THEN {today - o.days + shift : shift \in {-1, 0, 1}} ELSE {0}

SlipDropLogs(o, done, cutoff) ==
  IF o.kind = "prune" THEN {x \in errorLogs : ~Expired(x, cutoff)}
  ELSE errorLogs \ Links(o.lines)
DropLogs(o, done, cutoff) ==
  CASE o.kind = "prune" -> {x \in errorLogs : ~Expired(x, cutoff)}
    [] o.kind = "delete" /\ done -> errorLogs \ Links(o.lines)
    [] OTHER -> errorLogs

Rename(p, done) ==
  /\ op[p].phase = "read" /\ (~done => op[p].kept # log)
  /\ log' = IF done THEN op[p].kept ELSE log
  /\ sequential' = IF done THEN Kept(op[p], sequential) ELSE sequential
  /\ Leave(p) /\ op' = [op EXCEPT ![p].phase = IF done THEN "renamed" ELSE "failed"]
  /\ UNCHANGED <<today, errorLogs, shownVars, written, swept>>

(***************************************************************************)
(* refresh_log(): the last lines, newest first; the selection is gone.     *)
(***************************************************************************)
Shown == SubSeq(log, IF Len(log) > LastLines THEN Len(log) - LastLines + 1 ELSE 1, Len(log))
ReadLog == store' = Reverse(Shown) /\ selection' = {}

FinishRewrite(p) ==
  /\ op[p].phase \in {"renamed", "failed"}
  /\ \E cutoff \in SweepCutoffs(op[p]) :
       /\ errorLogs' = DropLogs(op[p], op[p].phase = "renamed", cutoff)
       /\ swept' = IF op[p].kind = "prune" /\ cutoff > swept THEN cutoff ELSE swept
  /\ op' = [op EXCEPT ![p] = Idle]
  /\ IF op[p].kind = "delete" THEN ReadLog ELSE UNCHANGED <<store, selection>>
  /\ UNCHANGED <<today, log, holder, asked, retention, written, sequential>>

(***************************************************************************)
(* The daemon dies: the kernel drops its lock, the file aside is left.     *)
(***************************************************************************)
DaemonDies ==
  /\ op["daemon"] # Idle /\ Leave("daemon")
  /\ op' = [op EXCEPT !["daemon"] = Idle]
  /\ UNCHANGED <<today, log, errorLogs, shownVars, written, sequential, swept>>

(***************************************************************************)
(* The view: a broadcast or the page coming up refreshes it, even under    *)
(* the question; what is selected when the user confirms is deleted.       *)
(***************************************************************************)
Refresh ==
  /\ op["window"] = Idle /\ ReadLog /\ store' # store
  /\ UNCHANGED <<today, log, errorLogs, holder, op, asked, retention, written, sequential, swept>>

SelectLines(rows) ==
  /\ op["window"] = Idle /\ ~asked /\ rows # selection /\ selection' = rows
  /\ UNCHANGED <<today, log, errorLogs, holder, op, store, asked, retention, written, sequential, swept>>

AskDelete ==
  /\ op["window"] = Idle /\ ~asked /\ selection # {} /\ asked' = TRUE
  /\ UNCHANGED <<today, log, errorLogs, holder, op, store, selection, retention, written, sequential, swept>>

Chosen == Selected(store, selection)

Confirm(yes) ==
  /\ asked /\ op["window"] = Idle /\ asked' = FALSE
  /\ op' = IF yes /\ selection # {}
           THEN [op EXCEPT !["window"] = [Op("delete") EXCEPT !.lines = Chosen]] ELSE op
  /\ UNCHANGED <<today, log, errorLogs, holder, store, selection, retention, written, sequential, swept>>
LogNext ==
  \/ DayPasses \/ DaemonDies \/ Refresh \/ AskDelete
  \/ \E failed \in BOOLEAN : Report(failed)
  \/ \E days \in Retentions : TypeRetention(days)
  \/ \E rows \in SUBSET DOMAIN store : SelectLines(rows)
  \/ \E yes \in BOOLEAN : Confirm(yes)
  \/ \E p \in Writers :
       \/ Prune(p) \/ Enter(p) \/ AppendLine(p) \/ ReadForRewrite(p) \/ FinishRewrite(p)
       \/ \E done \in BOOLEAN : Rename(p, done)

LogSpec == LogInit /\ [][LogNext]_logVars

(***************************************************************************)
(* Properties.                                                             *)
(***************************************************************************)
LogTypeOK ==
  /\ today \in 0 .. MaxDay /\ written \in 0 .. MaxLines /\ retention \in Retentions
  /\ holder \in Writers \cup {Nobody} /\ selection \subseteq DOMAIN store
  /\ \A i \in DOMAIN log : log[i].day <= today

\* "Keeps appends from the daemon and rewrites from the GUI from racing each
\* other": the file holds what it would hold had each append, prune and
\* deletion been one step, so no line that the daemon adds during a rewrite is
\* lost and no deleted one comes back.
LogSequential == log = sequential

\* A line that links an error log can still show it, whichever rewrite fails and
\* whatever is deleted beside it, unless that file was older than the cutoff a
\* prune put to the error logs. The prune's own cutoff for the lines says
\* nothing: the clock is read again for the files, after the lock is released,
\* so a line may stay whose log has just gone.
LinkedLogKept ==
  \A i \in DOMAIN log : log[i].link # NoLog =>
     log[i].link \in errorLogs \/ Expired(log[i].link, swept)
=============================================================================
