------------------------------ MODULE DirWatch ------------------------------
(***************************************************************************)
(* DirectoryWatcher (watch/directory_watcher.cpp): one monitor for every   *)
(* directory below a job's source. Other programs create, delete and       *)
(* rename directories at any moment, also while add_watch_recursive walks  *)
(* the tree, and the monitors report what they saw later.                  *)
(*                                                                         *)
(* A directory is the sequence of names that leads to it from the root.    *)
(***************************************************************************)
EXTENDS Naturals, Sequences, FiniteSets, SequencesExt

CONSTANTS
  Names,          \* the names directories may have
  Link,           \* a path that is a symbolic link to the root, if it exists
  Trees0,         \* the trees there may be at first: sets of paths, closed upwards
  TreeDepth,      \* bound: the depth of the tree
  MaxDepth,       \* MAX_RECURSION_DEPTH
  MaxChanges      \* bound: what the other programs do


VARIABLES
  exists,         \* the directories there are
  watched,        \* m_watched: path |-> depth
  visited,        \* m_visited_real_paths
  walk,           \* the calls of add_watch_recursive still to be made or finished
  events,         \* monitor events on their way, in order
  reported,       \* m_error_reported
  gone,           \* the paths deleted or refused at some time (for the properties)
  changes

dirVars == <<exists, watched, visited, walk, events, reported, gone, changes>>

Root      == <<>>
Paths     == UNION {[1 .. n -> Names] : n \in 0 .. TreeDepth}
Parent(d) == Front(d)
Below(d)  == {e \in Paths : IsStrictPrefix(d, e)}

(***************************************************************************)
(* A directory lies in its parent, up to the root. The root is no link;    *)
(* what is below the link is reached, and counted, as what it leads to.    *)
(***************************************************************************)
IsTree(T) ==
  /\ IsFiniteSet(T) /\ T \subseteq Paths /\ Root \in T
  /\ \A p \in T, q \in Paths : IsPrefix(q, p) => q \in T
  /\ Below(Link) \cap T = {}

ASSUME DirWatchAssumption ==
  /\ TreeDepth \in Nat /\ MaxDepth \in Nat /\ MaxChanges \in Nat
  /\ Link \in Seq(Names) \ {Root} /\ \A T \in Trees0 : IsTree(T)

Canonical(d) == IF IsPrefix(Link, d) THEN SubSeq(d, Len(Link) + 1, Len(d)) ELSE d

(***************************************************************************)
(* The walk is a stack of calls: "enter" a directory, or "scan" one whose  *)
(* monitor is in place.                                                    *)
(***************************************************************************)
Call(d, depth, at) == [dir |-> d, depth |-> depth, at |-> at]

DirInit ==
  /\ exists \in Trees0
  /\ watched = [d \in {} |-> 0] /\ visited = {} /\ walk = <<Call(Root, 0, "enter")>>
  /\ events = <<>> /\ reported = FALSE /\ gone = {} /\ changes = 0

(***************************************************************************)
(* Other programs. A change is noticed by the monitor of the directory it  *)
(* happens in, and a deletion by the monitor of the directory itself too.  *)
(* Without WATCH_MOVES a rename is a deletion and a creation.              *)
(***************************************************************************)
Noted(kind, d) ==
  LET by == (IF d # Root /\ Parent(d) \in DOMAIN watched THEN {Parent(d)} ELSE {})
            \cup (IF kind = "deleted" /\ d \in DOMAIN watched THEN {d} ELSE {}) IN
  SetToSeq({[kind |-> kind, dir |-> d, by |-> b] : b \in by})

Elsewhere == changes < MaxChanges /\ changes' = changes + 1

CreateDir(d) ==
  /\ Elsewhere /\ d \in Paths \ exists /\ d # Root /\ Parent(d) \in exists \ {Link}
  /\ exists' = exists \cup {d}
  /\ events' = events \o Noted("created", d)
  /\ UNCHANGED <<watched, visited, walk, reported, gone>>

DeleteDir(d) ==
  /\ Elsewhere /\ d \in exists \ {Root} /\ Below(d) \cap exists = {}
  /\ exists' = exists \ {d} /\ gone' = gone \cup {d}
  /\ events' = events \o Noted("deleted", d)
  /\ UNCHANGED <<watched, visited, walk, reported>>

Renamed(d, to, e) == to \o SubSeq(e, Len(d) + 1, Len(e))
RenameDir(d, to) ==
  LET tree  == {d} \cup (Below(d) \cap exists)
      moved == {Renamed(d, to, e) : e \in tree} IN
  /\ Elsewhere /\ d \in exists \ {Root, Link} /\ to \in Paths \ exists
  /\ Len(to) = Len(d) /\ Parent(to) \in exists \ {Link} /\ ~IsPrefix(d, to) /\ Link \notin tree \cup moved
  /\ exists' = (exists \ tree) \cup moved
  /\ gone' = gone \cup tree
  /\ events' = events \o Noted("deleted", d) \o Noted("created", to)
  /\ UNCHANGED <<watched, visited, walk, reported>>

(***************************************************************************)
(* add_watch_recursive(): nothing for a directory that is gone or whose    *)
(* real path was visited before; one report when it lies too deep or the   *)
(* monitor cannot be made; otherwise a monitor, and then its children.     *)
(***************************************************************************)
TakeCall(rest) == walk' = rest \o Tail(walk)

Skipped(c) == c.dir \notin exists \/ Canonical(c.dir) \in visited

\* a slip: a directory that appears is watched, but not what is in it already
SlipPlaced(c) ==
  /\ visited' = visited \cup {Canonical(c.dir)}
  /\ watched' = [d \in DOMAIN watched \cup {c.dir} |->
                   IF d = c.dir THEN c.depth ELSE watched[d]]
  /\ TakeCall(<<>>)
  /\ UNCHANGED <<reported, gone>>

Placed(c) ==
  /\ visited' = visited \cup {Canonical(c.dir)}
  /\ watched' = [d \in DOMAIN watched \cup {c.dir} |->
                   IF d = c.dir THEN c.depth ELSE watched[d]]
  /\ TakeCall(<<Call(c.dir, c.depth, "scan")>>)
  /\ UNCHANGED <<reported, gone>>

EnterDir ==
  LET c == Head(walk) IN
  /\ walk # <<>> /\ c.at = "enter"
  /\ \/ Skipped(c) /\ TakeCall(<<>>) /\ UNCHANGED <<watched, visited, reported, gone>>
     \/ /\ ~Skipped(c) /\ c.depth > MaxDepth
        /\ TakeCall(<<>>) /\ reported' = TRUE /\ UNCHANGED <<watched, visited, gone>>
     \/ /\ ~Skipped(c) /\ c.depth <= MaxDepth /\ ~reported     \* bound: refused once
        /\ TakeCall(<<>>) /\ reported' = TRUE
        /\ gone' = gone \cup {c.dir} \cup Below(c.dir) /\ UNCHANGED <<watched, visited>>
     \/ ~Skipped(c) /\ c.depth <= MaxDepth /\ Placed(c)
  /\ UNCHANGED <<exists, events, changes>>

ChildCalls(c) ==
  LET here == IF c.dir = Link THEN {} ELSE {e \in exists : e # Root /\ Parent(e) = c.dir} IN
  SetToSeq({Call(e, c.depth + 1, "enter") : e \in here})

ScanDir ==
  /\ walk # <<>> /\ Head(walk).at = "scan"
  /\ TakeCall(ChildCalls(Head(walk)))
  /\ UNCHANGED <<exists, watched, visited, events, reported, gone, changes>>

(***************************************************************************)
(* on_monitor_event(), when no walk is under way: a created directory is   *)
(* walked, a deleted one loses its monitors and those below it, whose      *)
(* pending events are lost with them. m_visited_real_paths only grows.     *)
(***************************************************************************)
Unwatched(d) == {w \in DOMAIN watched : IsPrefix(d, w)}

Surviving(es, lost) ==
  LET kept[i \in 0 .. Len(es)] ==
        IF i = 0 THEN <<>>
        ELSE IF es[i].by \in lost THEN kept[i - 1] ELSE Append(kept[i - 1], es[i]) IN
  kept[Len(es)]

MonitorEvent ==
  LET e == Head(events) IN
  /\ walk = <<>> /\ events # <<>>
  /\ \/ /\ e.kind = "created"
        /\ walk' = IF e.dir \in exists
                   THEN <<Call(e.dir, (IF e.by \in DOMAIN watched THEN watched[e.by] ELSE 0) + 1,
                               "enter")>>
                   ELSE <<>>
        /\ events' = Tail(events) /\ UNCHANGED watched
     \/ /\ e.kind = "deleted"
        /\ LET lost == IF e.dir \in DOMAIN watched THEN Unwatched(e.dir) ELSE {} IN
           /\ watched' = [d \in DOMAIN watched \ lost |-> watched[d]]
           /\ events'  = Surviving(Tail(events), lost)
        /\ UNCHANGED walk
  /\ UNCHANGED <<exists, visited, reported, gone, changes>>

DirNext ==
  \/ \E d \in Paths : CreateDir(d) \/ DeleteDir(d)
  \/ \E d \in exists, to \in Paths : RenameDir(d, to)
  \/ EnterDir \/ ScanDir \/ MonitorEvent

DirSpec == DirInit /\ [][DirNext]_dirVars

(***************************************************************************)
(* Properties.                                                             *)
(***************************************************************************)
DirTypeOK ==
  /\ exists \subseteq Paths /\ DOMAIN watched \subseteq Paths /\ visited \subseteq Paths
  /\ \A d \in DOMAIN watched : watched[d] \in 0 .. MaxDepth
  /\ \A i \in DOMAIN events : events[i].kind \in {"created", "deleted"}

Quiet     == walk = <<>> /\ events = <<>>
Covered   == {d \in exists : Len(d) <= MaxDepth /\ d # Link}

Spared    == {d \in Paths : \A g \in gone : ~IsPrefix(g, d)}

NewDirsWatched == Covered \cap Spared \subseteq DOMAIN watched
NoStaleWatch   == DOMAIN watched \subseteq exists

\* When the watcher has caught up, every directory that was never away, whose
\* monitor was not refused, and that lies in no directory that was, has its
\* monitor, whatever was created between the monitor of its parent and the listing
\* of it; and no monitor is left on a directory that is gone: a deletion or a
\* rename takes the monitors of the subtree along.
WatchesMatchTree == Quiet => NewDirsWatched /\ NoStaleWatch
=============================================================================
