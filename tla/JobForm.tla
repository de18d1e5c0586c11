------------------------------ MODULE JobForm ------------------------------
(***************************************************************************)
(* The job edit dialog (job_edit_dialog.cpp): a form over one job. A row   *)
(* that does not apply to the type is hidden and keeps its value. The cron *)
(* fields, the preset and the preview follow one another through signals.  *)
(*                                                                         *)
(* A job is [type, local, transfer, bisync, force, mountAtStartup, cache,  *)
(* watch, scheduled, time, weekdays]. The minute, hour and day entries are *)
(* one value, "time", and months are left out, being weekdays over again;  *)
(* dry_run, ignore_checksum and includes, whose rows come and go together, *)
(* are one value, "transfer".                                              *)
(***************************************************************************)
EXTENDS Integers, FiniteSets

CONSTANTS
  Weekdays,             \* the check buttons
  MaxTouches            \* bound: what the user does

\* Sunday is one of several days, or "Weekly" would be "Daily".
ASSUME FormAssumption ==
  /\ IsFiniteSet(Weekdays) /\ Weekdays \subseteq Nat /\ 0 \in Weekdays /\ Weekdays # {0}
  /\ MaxTouches \in Nat

VARIABLES
  job,                  \* the job that is stored, or NothingStored
  form, preset, preview, open,
  touches

formVars == <<job, form, preset, preview, open, touches>>

Types  == {"sync", "copy", "move", "mount"}
Caches == {"off", "minimal", "writes", "full"}
Times  == {"blank", "* * *", "0 * *", "0 0 *", "0 0 1"}
Every  == {-1}          \* the field "*"
Custom == "Custom"
Presets ==
  [p \in {"Every minute", "Hourly", "Daily", "Weekly", "Monthly"} |->
     CASE p = "Every minute" -> [time |-> "* * *", weekdays |-> Every]
       [] p = "Hourly"       -> [time |-> "0 * *", weekdays |-> Every]
       [] p = "Daily"        -> [time |-> "0 0 *", weekdays |-> Every]
       [] p = "Weekly"       -> [time |-> "0 0 *", weekdays |-> {0}]
       [] p = "Monthly"      -> [time |-> "0 0 1", weekdays |-> Every]]

NothingStored == [type |-> "none"]

(***************************************************************************)
(* dow_to_cron(), get_cron_job(): all the buttons are "*", none of them is *)
(* an empty field, which no date matches. An empty entry is "*".           *)
(***************************************************************************)
SlipDowToCron(checked) == checked
DowToCron(checked) == IF checked = Weekdays THEN Every ELSE checked
GetCron(f) == [time |-> IF f.time = "blank" THEN "* * *" ELSE f.time,
               weekdays |-> DowToCron(f.checked)]

\* set_dow_from_cron()
DowFromCron(weekdays) == IF weekdays = Every THEN Weekdays ELSE weekdays

(***************************************************************************)
(* setup_ui(): the form of a new job, or of the job that is edited, and    *)
(* the preset that is exactly its schedule.                                *)
(***************************************************************************)
NewForm(type) ==
  [type |-> type, paths |-> FALSE, local |-> FALSE, transfer |-> TRUE, bisync |-> FALSE,
   force |-> FALSE,
   mountAtStartup |-> FALSE, cache |-> "minimal", watch |-> FALSE, scheduled |-> FALSE,
   time |-> "0 * *", checked |-> Weekdays]

FormOf(j) ==
  [type |-> j.type, paths |-> TRUE, local |-> j.local, transfer |-> j.transfer,
   bisync |-> j.bisync, force |-> j.force,
   mountAtStartup |-> j.mountAtStartup, cache |-> IF j.cache = "" THEN "minimal" ELSE j.cache,
   watch |-> j.watch, scheduled |-> j.scheduled, time |-> j.time,
   checked |-> DowFromCron(j.weekdays)]

Detected(cron) ==
  IF \E p \in DOMAIN Presets : Presets[p] = cron
  THEN CHOOSE p \in DOMAIN Presets : Presets[p] = cron ELSE Custom

Touch == touches < MaxTouches /\ touches' = touches + 1

Show(f, cron) ==
  /\ ~open /\ Touch /\ open' = TRUE
  /\ form' = f /\ preset' = Detected(cron) /\ preview' = GetCron(f)
  /\ UNCHANGED job

OpenNew(type) == Show(NewForm(type), [time |-> "0 * *", weekdays |-> Every])
EditJob       == job # NothingStored /\ Show(FormOf(job), [time |-> job.time, weekdays |-> job.weekdays])

FormInit ==
  /\ job = NothingStored /\ form = NewForm("sync") /\ preset = Custom
  /\ preview = GetCron(form) /\ open = FALSE /\ touches = 0

(***************************************************************************)
(* What a row applies to: the handlers that show and hide. build_job() asks*)
(* whether a row is shown, but not for the transfer options, which a mount *)
(* stores too, hidden as they are.                                         *)
(***************************************************************************)
SlipApplies(row, f) ==
  CASE row = "bisync" -> TRUE
    [] row = "transfer" -> f.type # "mount"
    [] row \in {"mountAtStartup", "cache"} -> f.type = "mount"
    [] row = "watch"  -> f.type # "mount" /\ f.local
Applies(row, f) ==
  CASE row = "bisync" -> f.type = "sync"
    [] row = "transfer" -> f.type # "mount"
    [] row \in {"mountAtStartup", "cache"} -> f.type = "mount"
    [] row = "watch"  -> f.type # "mount" /\ f.local

BuildJob(f) ==
  LET bisync == Applies("bisync", f) /\ f.bisync IN
  [type |-> f.type, local |-> f.local, transfer |-> f.transfer,
   bisync |-> bisync, force |-> bisync /\ f.force,
   mountAtStartup |-> Applies("mountAtStartup", f) /\ f.mountAtStartup,
   cache |-> IF Applies("cache", f) THEN f.cache ELSE "",
   watch |-> Applies("watch", f) /\ f.watch, scheduled |-> f.scheduled,
   time |-> GetCron(f).time, weekdays |-> GetCron(f).weekdays]

(***************************************************************************)
(* The rows of the job. Only a row that is shown can be changed.           *)
(***************************************************************************)
Touched(f) ==
  /\ open /\ Touch /\ f # form /\ form' = f
  /\ UNCHANGED <<job, preset, preview, open>>

ChangeType(type)  == Touched([form EXCEPT !.type = type])
ChangePaths(full, local) == Touched([form EXCEPT !.paths = full, !.local = full /\ local])
ToggleTransfer    == Applies("transfer", form) /\ Touched([form EXCEPT !.transfer = ~@])
ToggleBisync      == Applies("bisync", form) /\ Touched([form EXCEPT !.bisync = ~@])
ToggleForce       == Applies("bisync", form) /\ form.bisync /\ Touched([form EXCEPT !.force = ~@])
ToggleStartup     == Applies("mountAtStartup", form) /\ Touched([form EXCEPT !.mountAtStartup = ~@])
ChangeCache(mode) == Applies("cache", form) /\ Touched([form EXCEPT !.cache = mode])
ToggleWatch       == Applies("watch", form) /\ Touched([form EXCEPT !.watch = ~@])
ToggleSchedule    == Touched([form EXCEPT !.scheduled = ~@])

(***************************************************************************)
(* The "changed" and "toggled" handlers of a cron field: the preset becomes*)
(* Custom, unless m_preset_updating tells that a preset is filling it in,  *)
(* and the preview is drawn anew. What the dialog shows is a record here.  *)
(***************************************************************************)
Display(f, p, v) == [form |-> f, preset |-> p, preview |-> v]

FieldChanged(shown, updating) ==
  Display(shown.form, IF updating THEN shown.preset ELSE Custom, GetCron(shown.form))

WithTime(shown, time, updating) ==
  FieldChanged([shown EXCEPT !.form = [@ EXCEPT !.time = time]], updating)
WithDays(shown, days, updating) ==
  FieldChanged([shown EXCEPT !.form = [@ EXCEPT !.checked = days]], updating)

Displays(shown) ==
  /\ open /\ Touch
  /\ form' = shown.form /\ preset' = shown.preset /\ preview' = shown.preview
  /\ UNCHANGED <<job, open>>

ChangeTime(time) ==
  time # form.time /\ Displays(WithTime(Display(form, preset, preview), time, FALSE))
ToggleDay(d) ==
  Displays(WithDays(Display(form, preset, preview),
                    IF d \in form.checked THEN form.checked \ {d} ELSE form.checked \cup {d}, FALSE))

(***************************************************************************)
(* A preset fills the entries in, then the check buttons.                  *)
(***************************************************************************)
FilledIn(shown, cron) ==
  WithDays(WithTime(shown, cron.time, TRUE), DowFromCron(cron.weekdays), TRUE)

SelectPreset(p) ==
  /\ p # preset
  /\ Displays(IF p = Custom THEN Display(form, p, preview)
              ELSE FilledIn(Display(form, p, preview), Presets[p]))

(***************************************************************************)
(* on_commit(), and on_save(), whose button is hidden with a schedule:     *)
(* nothing without both paths.                                             *)
(***************************************************************************)
Commit ==
  /\ open /\ form.paths /\ job' = BuildJob(form) /\ open' = FALSE
  /\ UNCHANGED <<form, preset, preview, touches>>

Discard ==
  /\ open /\ open' = FALSE
  /\ UNCHANGED <<job, form, preset, preview, touches>>

FormNext ==
  \/ EditJob \/ Commit \/ Discard
  \/ ToggleTransfer \/ ToggleBisync \/ ToggleForce \/ ToggleStartup \/ ToggleWatch
  \/ ToggleSchedule
  \/ \E type \in Types : OpenNew(type) \/ ChangeType(type)
  \/ \E full, local \in BOOLEAN : ChangePaths(full, local)
  \/ \E mode \in Caches : ChangeCache(mode)
  \/ \E time \in Times : ChangeTime(time)
  \/ \E d \in Weekdays : ToggleDay(d)
  \/ \E p \in DOMAIN Presets \cup {Custom} : SelectPreset(p)

FormSpec == FormInit /\ [][FormNext]_formVars

(***************************************************************************)
(* Properties.                                                             *)
(***************************************************************************)
FormTypeOK ==
  /\ form.type \in Types /\ form.cache \in Caches /\ form.time \in Times
  /\ form.checked \subseteq Weekdays
  /\ preset \in DOMAIN Presets \cup {Custom} /\ touches \in 0 .. MaxTouches

\* Of the options whose rows build_job() asks about, a stored job has none of
\* another type: no bi-directional sync and no forced deletes but for a sync, no
\* automatic mount and no cache mode but for a mount, no watching but of a local
\* source and never for a mount, though the hidden rows keep what was set before
\* the type or the source was changed, and though the form was opened, changed
\* and stored several times. (dry_run, ignore_checksum and includes of a mount
\* are stored as the hidden rows have them; a mount does not use them.)
GuardedRowsStayOut ==
  job # NothingStored =>
    /\ job.bisync => job.type = "sync"
    /\ job.force => job.bisync
    /\ (job.mountAtStartup \/ job.cache # "") => job.type = "mount"
    /\ job.watch => job.local /\ job.type # "mount"

\* As long as the dialog names a preset, the schedule that it would store is
\* that preset's, and what it previews is what it would store.
PresetIsTrue ==
  open => /\ preset # Custom => GetCron(form) = Presets[preset]
          /\ preview = GetCron(form)
=============================================================================
