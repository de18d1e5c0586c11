----------------------------- MODULE MCDesktop -----------------------------
(***************************************************************************)
(* Instances for TLC of the components around the job engine. They share   *)
(* no variable: a behaviour explores one of them, "part", and the others   *)
(* rest in one of their initial states. So the state space is the sum of   *)
(* those of the components, and one run checks the properties of them all. *)
(***************************************************************************)
EXTENDS Browser, Compare, DirWatch, WatchTrigger, CronSchedule, GuiLink, IpcChannel,
        ActivityLog, Remotes, JobForm

CONSTANT Explored     \* the components that are explored

VARIABLE part

(***************************************************************************)
(* The browser: a home with an unreadable entry beside a remote whose root *)
(* and subdirectory hold files of one name.                                *)
(***************************************************************************)
Entry(remote, path, name) == [at |-> [remote |-> remote, path |-> path], name |-> name]
SmallDisk ==
  {Entry("Local", <<>>, "h"), Entry("Local", <<"h">>, "bad"), Entry("Local", <<"h">>, "f"),
   Entry("r", <<>>, "f"), Entry("r", <<>>, "d"), Entry("r", <<"d">>, "f")}
HomePath == <<"h">>

(***************************************************************************)
(* The compare dialog: a file on each side only and one on both, in two    *)
(* directories; dry runs with several actions for one file, a whole        *)
(* directory moved, and an error of a whole remote.                        *)
(***************************************************************************)
OnlySrc == [dir |-> 0, name |-> 1, raw |-> 1]
OnBoth  == [dir |-> 1, name |-> 2, raw |-> 2]
OnlyDst == [dir |-> 0, name |-> 3, raw |-> 3]
SrcSide == {[file |-> OnlySrc, version |-> 1], [file |-> OnBoth, version |-> 1]}
DstSide == {[file |-> OnBoth, version |-> 2], [file |-> OnlyDst, version |-> 1]}
Skip(file, what, fs) == [file |-> file, skipped |-> what, error |-> FALSE, fs |-> fs]
Failure(file, fs)    == [file |-> file, skipped |-> "", error |-> TRUE, fs |-> fs]
SmallDryLogs ==
  {<<>>,
   <<Skip(OnlySrc, "copy", FALSE), Failure(OnlySrc, FALSE), Skip(OnBoth, "copy", FALSE),
     Skip(OnlyDst, "delete", FALSE)>>,
   <<Skip(OnlySrc, "server-side directory move", TRUE), Skip(OnlySrc, "move", FALSE)>>,
   <<Failure(OnlySrc, TRUE)>>}

(***************************************************************************)
(* The directory watcher: an empty root, a chain one deeper than the       *)
(* watcher goes, and a tree with a link to its root.                       *)
(***************************************************************************)
LinkPath   == <<"l">>
Bare       == {<<>>}
Chain      == {<<>>, <<"a">>, <<"a", "a">>, <<"a", "a", "a">>}
Looped     == {<<>>, <<"l">>, <<"a">>, <<"a", "a">>, <<"a", "l">>}
SmallTrees == {Bare, Chain, Looped}

(***************************************************************************)
(* The debounce: times left to the settings, a maximum wait below the      *)
(* debounce time, a remote source and a mount.                             *)
(***************************************************************************)
WatchJob(mount, local, debounce, maxWait) ==
  [mount |-> mount, local |-> local, debounce |-> debounce, maxWait |-> maxWait]
Defaulted == WatchJob(FALSE, TRUE, -1, -1)
WatchJobs == {Defaulted, WatchJob(FALSE, TRUE, 4, 3), WatchJob(FALSE, FALSE, -1, -1),
              WatchJob(TRUE, TRUE, -1, -1)}

(***************************************************************************)
(* The schedule: starts before 29 February of a leap year, before the end  *)
(* of February of a century that is none, and before the end of a year.    *)
(***************************************************************************)
Midday(y, mo, d)     == [y |-> y, mo |-> mo, d |-> d, h |-> 1, mi |-> 0]
CronStarts           == {Midday(2024, 2, 27), Midday(2100, 2, 27), Midday(2025, 12, 30)}
Piece(from, to, step) == [from |-> from, to |-> to, step |-> step]
Star                 == <<Piece(0, 31, 1)>>
Only(n)              == <<Piece(n, n, 1)>>
CronLine(minute, hour, day, month, weekday) ==
  [minute |-> minute, hour |-> hour, day |-> day, month |-> month, weekday |-> weekday]
Weekly    == CronLine(Only(1), Only(0), Star, Star, Only(0))
WeeklyOnly == {Weekly}
CronLines ==
  {Weekly,
   CronLine(<<Piece(0, 3, 2)>>, Star, Star, Star, <<Piece(1, 1, 1), Piece(3, 5, 2)>>),
   CronLine(Only(0), Only(1), Only(1), Star, Star),
   CronLine(Only(0), Only(1), Only(31), Only(2), Star),
   CronLine(Star, Star, Star, Star, <<Piece(0, 0, 0)>>)}

(***************************************************************************)
(* The window and the daemon: from no job and from one.                    *)
(***************************************************************************)
OneJob     == <<Job(1, FALSE)>>
SmallLists == {<<>>, OneJob}

OneConf == {[name |-> "r", type |-> "q", token |-> "none", open |-> FALSE]}

-----------------------------------------------------------------------------
(* A resting component has one initial state. *)
Resting ==
  /\ part # "compare"  => mode = "compare"
  /\ part # "watcher"  => exists = Bare
  /\ part # "trigger"  => watchedJob = Defaulted
  /\ part # "schedule" => cron = Weekly /\ now = Midday(2024, 2, 27)
  /\ part # "log"      => retention = 0
  /\ part # "form"     => form = NewForm("sync")
  /\ part # "link"     => list = OneJob

DesktopInit ==
  /\ part \in Explored
  /\ BrowserInit /\ CompareInit /\ DirInit /\ TriggerInit /\ CronInit
  /\ LinkInit /\ ChannelInit /\ LogInit /\ RemotesInit /\ FormInit
  /\ Resting

Windows  == <<browserVars, compareVars, remoteVars, formVars>>
Services == <<dirVars, watchVars, cronVars, logVars>>
Sockets  == <<linkVars, channelVars>>

DesktopNext ==
  /\ UNCHANGED part
  /\ \/ /\ part = "browser" /\ BrowserNext
        /\ UNCHANGED <<compareVars, remoteVars, formVars, Sockets, Services>>
     \/ /\ part = "compare" /\ CompareNext
        /\ UNCHANGED <<browserVars, remoteVars, formVars, Sockets, Services>>
     \/ /\ part = "remotes" /\ RemotesNext
        /\ UNCHANGED <<browserVars, compareVars, formVars, Sockets, Services>>
     \/ /\ part = "form" /\ FormNext
        /\ UNCHANGED <<browserVars, compareVars, remoteVars, Sockets, Services>>
     \/ part = "link" /\ LinkNext /\ UNCHANGED <<channelVars, Windows, Services>>
     \/ part = "socket" /\ ChannelNext /\ UNCHANGED <<linkVars, Windows, Services>>
     \/ /\ part = "watcher" /\ DirNext
        /\ UNCHANGED <<watchVars, cronVars, logVars, Sockets, Windows>>
     \/ /\ part = "trigger" /\ TriggerNext
        /\ UNCHANGED <<dirVars, cronVars, logVars, Sockets, Windows>>
     \/ /\ part = "schedule" /\ CronNext
        /\ UNCHANGED <<dirVars, watchVars, logVars, Sockets, Windows>>
     \/ /\ part = "log" /\ LogNext
        /\ UNCHANGED <<dirVars, watchVars, cronVars, Sockets, Windows>>

desktopVars == <<part, Sockets, Windows, Services>>
DesktopSpec == DesktopInit /\ [][DesktopNext]_desktopVars

\* Every component keeps its types.
DesktopTypeOK ==
  /\ part \in Explored
  /\ BrowserTypeOK /\ CompareTypeOK /\ RemotesTypeOK /\ FormTypeOK /\ LinkTypeOK
  /\ ChannelTypeOK
  /\ DirTypeOK /\ TriggerTypeOK /\ CronTypeOK /\ LogTypeOK
=============================================================================
