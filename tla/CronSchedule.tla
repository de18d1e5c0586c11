---------------------------- MODULE CronSchedule ----------------------------
(***************************************************************************)
(* The schedule of one job: the search for the next occurrence of a cron   *)
(* expression (cron_utils.hpp) and the timer that schedule_job arms with   *)
(* it (daemon.cpp), minute by minute.                                      *)
(*                                                                         *)
(* A moment is [y, mo, d, h, mi], in a calendar with fewer hours to a day  *)
(* and minutes to an hour; the days, months and years are the real ones.   *)
(***************************************************************************)
EXTENDS Integers, Sequences

CONSTANTS
  Starts,           \* the moments at which the daemon may start
  Crons,            \* the schedules: [minute, hour, day, month, weekday], fields below
  HoursPerDay, MinutesPerHour,
  SearchDays,       \* the days next_occurrence looks ahead, 366 * 4
  CapDays,          \* the days after which the timer fires at the latest, 1
  MaxMinutes        \* bound: the time that is looked at

ASSUME CronAssumption ==
  /\ HoursPerDay \in Nat \ {0} /\ MinutesPerHour \in Nat \ {0}
  /\ SearchDays \in Nat /\ CapDays \in 1 .. SearchDays /\ MaxMinutes \in Nat

VARIABLES
  cron, now, busy, elapsed,
  timer,            \* the minutes until the timer fires, Unset when there is none
  armedAt, ranAt    \* when it was computed, when it last started a run (for the properties)

cronVars == <<cron, now, busy, elapsed, timer, armedAt, ranAt>>

Unset == -1

(***************************************************************************)
(* expand_field(): a field is a sequence of parts [from, to, step]; a part *)
(* that cannot be parsed has step 0, and makes the field match nothing.    *)
(***************************************************************************)
Expand(field, lo, hi) ==
  IF \E i \in DOMAIN field : field[i].step = 0 THEN {}
  ELSE {v \in lo .. hi : \E i \in DOMAIN field :
          /\ field[i].from <= v /\ v <= field[i].to
          /\ (v - field[i].from) % field[i].step = 0}

(***************************************************************************)
(* The calendar.                                                           *)
(***************************************************************************)
IsLeap(y) == (y % 4 = 0 /\ y % 100 # 0) \/ y % 400 = 0
SlipDaysInMonth(y, mo) ==
  IF mo = 2 THEN IF y % 4 = 0 THEN 29 ELSE 28
  ELSE <<31, 28, 31, 30, 31, 30, 31, 31, 30, 31, 30, 31>>[mo]
DaysInMonth(y, mo) ==
  IF mo = 2 THEN IF IsLeap(y) THEN 29 ELSE 28
  ELSE <<31, 28, 31, 30, 31, 30, 31, 31, 30, 31, 30, 31>>[mo]

IsMoment(t) ==
  /\ t = [y |-> t.y, mo |-> t.mo, d |-> t.d, h |-> t.h, mi |-> t.mi]
  /\ t.y \in Nat \ {0} /\ t.mo \in 1 .. 12 /\ t.d \in 1 .. DaysInMonth(t.y, t.mo)
  /\ t.h \in 0 .. HoursPerDay - 1 /\ t.mi \in 0 .. MinutesPerHour - 1

ASSUME StartsAssumption == \A t \in Starts : IsMoment(t)

DayOfWeek(t) ==
  LET y == IF t.mo < 3 THEN t.y - 1 ELSE t.y IN
  (y + (y \div 4) - (y \div 100) + (y \div 400)
     + <<0, 3, 2, 5, 0, 3, 5, 1, 4, 6, 2, 4>>[t.mo] + t.d) % 7

AddMinute(t) ==
  CASE t.mi + 1 < MinutesPerHour     -> [t EXCEPT !.mi = @ + 1]
    [] t.mi + 1 = MinutesPerHour /\ t.h + 1 < HoursPerDay
                                     -> [t EXCEPT !.mi = 0, !.h = @ + 1]
    [] OTHER ->
       LET d == [t EXCEPT !.mi = 0, !.h = 0] IN
       IF t.d + 1 <= DaysInMonth(t.y, t.mo) THEN [d EXCEPT !.d = @ + 1]
       ELSE IF t.mo < 12 THEN [d EXCEPT !.d = 1, !.mo = @ + 1]
       ELSE [d EXCEPT !.d = 1, !.mo = 1, !.y = @ + 1]

(***************************************************************************)
(* next_occurrence(): minute by minute from the one after t; how many      *)
(* minutes away it is, Unset when there is none.                           *)
(***************************************************************************)
Fields(c) ==
  [minute |-> Expand(c.minute, 0, MinutesPerHour - 1), hour |-> Expand(c.hour, 0, HoursPerDay - 1),
   day |-> Expand(c.day, 1, 31), month |-> Expand(c.month, 1, 12),
   weekday |-> Expand(c.weekday, 0, 6)]

Matching(f, t) ==
  /\ t.mi \in f.minute /\ t.h \in f.hour /\ t.d \in f.day /\ t.mo \in f.month
  /\ DayOfWeek(t) \in f.weekday

\* The loop: the moment it looks at next, and how far away the match is.
Search(f, t, first, tries) ==
  LET loop[i \in 0 .. tries] ==
        IF i = 0 THEN [at |-> t, away |-> Unset]
        ELSE LET before == loop[i - 1] IN
             IF before.away # Unset THEN before
             ELSE IF Matching(f, before.at) THEN [before EXCEPT !.away = first + i - 1]
             ELSE [before EXCEPT !.at = AddMinute(@)] IN
  loop[tries].away

DayLength == HoursPerDay * MinutesPerHour
SlipNextOccurrence(c, t) ==
  LET f == Fields(c) IN
  IF \E k \in DOMAIN f : f[k] = {} THEN Unset
  ELSE Search(f, AddMinute(AddMinute(t)), 2, SearchDays * DayLength)
NextOccurrence(c, t) ==
  LET f == Fields(c) IN
  IF \E k \in DOMAIN f : f[k] = {} THEN Unset
  ELSE Search(f, AddMinute(t), 1, SearchDays * DayLength)

(***************************************************************************)
(* schedule_job(): a timer for the next occurrence, at most CapDays away.  *)
(* The two readings of the clock are taken in the same minute.             *)
(***************************************************************************)
Armed(c, t) ==
  LET away == NextOccurrence(c, t) IN
  IF away = Unset \/ away < CapDays * DayLength THEN away ELSE CapDays * DayLength

CronInit ==
  /\ cron \in Crons /\ now \in Starts /\ timer = Armed(cron, now)
  /\ busy = FALSE /\ elapsed = 0 /\ armedAt = now /\ ranAt = <<>>

(***************************************************************************)
(* A minute passes; a timer that is due fires first.                       *)
(***************************************************************************)
MinutePasses ==
  /\ timer # 0 /\ elapsed < MaxMinutes
  /\ now' = AddMinute(now) /\ elapsed' = elapsed + 1
  /\ timer' = IF timer = Unset THEN Unset ELSE timer - 1
  /\ UNCHANGED <<cron, busy, armedAt, ranAt>>

(***************************************************************************)
(* The timer's callback runs the job; the verdict schedules it again. An   *)
(* edit of the job list schedules every job that is not disabled.          *)
(***************************************************************************)
TimerFires ==
  /\ timer = 0 /\ timer' = Unset
  /\ busy' = TRUE
  /\ ranAt' = IF busy THEN ranAt ELSE <<now>>
  /\ UNCHANGED <<cron, now, elapsed, armedAt>>

RunEnds ==
  /\ busy /\ busy' = FALSE /\ armedAt' = now
  /\ timer' = IF NextOccurrence(cron, now) = Unset THEN timer ELSE Armed(cron, now)
  /\ UNCHANGED <<cron, now, elapsed, ranAt>>

ListEdited(c) ==
  /\ c \in Crons /\ c # cron /\ elapsed < MaxMinutes
  /\ cron' = c /\ ranAt' = <<>> /\ armedAt' = now
  /\ timer' = IF NextOccurrence(c, now) = Unset THEN timer ELSE Armed(c, now)
  /\ UNCHANGED <<now, busy, elapsed>>

CronNext ==
  \/ MinutePasses \/ TimerFires \/ RunEnds
  \/ \E c \in Crons : ListEdited(c)

CronSpec == CronInit /\ [][CronNext]_cronVars

(***************************************************************************)
(* Properties.                                                             *)
(***************************************************************************)
CronTypeOK ==
  /\ cron \in Crons /\ busy \in BOOLEAN /\ elapsed \in 0 .. MaxMinutes
  /\ timer \in Int /\ timer <= CapDays * DayLength
  /\ now.d \in 1 .. 31 /\ now.mo \in 1 .. 12
  /\ now.h \in 0 .. HoursPerDay - 1 /\ now.mi \in 0 .. MinutesPerHour - 1

\* The weekday that day_of_week computes advances by one from each day to the
\* next, across the ends of months and years and 29 February, so that its
\* table and days_in_month describe the same calendar.
WeekdayAdvances ==
  [][now'.d # now.d => DayOfWeek(now') = (DayOfWeek(now) + 1) % 7]_cronVars

\* A minute that the schedule names does not pass while the job is idle and
\* its timer, computed in an earlier minute, waits for a later one: the search
\* neither skips nor overshoots an occurrence.
NoMinuteMissed ==
  (~busy /\ timer # Unset /\ armedAt # now /\ Matching(Fields(cron), now)) => timer = 0

\* The job view shows the schedule as, for example, "Every Sunday at 02:00":
\* a scheduled run starts in a minute that the expression names.
RunsOnlyWhenDue ==
  [][(ranAt' # ranAt /\ ranAt' # <<>>) => Matching(Fields(cron), now)]_cronVars
=============================================================================
