------------------------------ MODULE GuiLink ------------------------------
(***************************************************************************)
(* The window and the daemon as two processes: the daemon's job list, the  *)
(* job view's mirror of it (job_view.cpp), the requests and broadcasts     *)
(* between them (daemon_proxy.cpp, ipc/) and the jobs.json that both       *)
(* write.                                                                  *)
(*                                                                         *)
(* The socket is two sequences of messages. Requests and broadcasts name a *)
(* job by its index in the daemon's list. A job is [id, running], running  *)
(* being the field that is sent and saved; the runs themselves are "live": *)
(* a run knows the id and the index it was started with, and moves with    *)
(* its slot. The jobs are transfer jobs.                                   *)
(***************************************************************************)
EXTENDS Naturals, Sequences, SequencesExt

CONSTANTS
  JobIds, InitialLists,     \* the identities there are, and the lists at first
  MaxGestures,        \* bound: what the user does
  MaxAutoRuns         \* bound: runs the daemon starts by itself

ASSUME GuiLinkAssumption ==
  /\ MaxGestures \in Nat /\ MaxAutoRuns \in Nat
  /\ InitialLists \subseteq Seq([id : JobIds, running : BOOLEAN])

VARIABLES
  list, live, stops,              \* the daemon: jobs, tracked runs, job/stop calls out
  announced,                      \* the mounts were listed and the jobs broadcast
  saved,                          \* jobs.json
  up, down, linked,               \* the connection
  mirror, rows, dialog, pageShown,    \* the job view
  waiting, nextReq,               \* m_pending_callbacks, m_next_request_id
  gestures, autoRuns,
  staleMap, staleSave, addCrossed \* for the properties

daemonVars == <<list, live, stops, announced>>
viewVars   == <<mirror, rows, dialog, pageShown, waiting, nextReq>>
linkVars   == <<daemonVars, saved, up, down, linked, viewVars, gestures, autoRuns,
                staleMap, staleSave, addCrossed>>

Job(id, running) == [id |-> id, running |-> running]
Ids(jobs)        == [i \in DOMAIN jobs |-> jobs[i].id]
Without(s, i)    == RemoveAt(s, i)
NoDialog         == [index |-> 0, job |-> Job(0, FALSE)]

(***************************************************************************)
(* append_job_row(): a job saved as running gets a stop button, the others *)
(* a run button.                                                           *)
(***************************************************************************)
Row(job)       == [id |-> job.id, stop |-> job.running]
Rebuilt(jobs)  == [i \in DOMAIN jobs |-> Row(jobs[i])]
WithStop(i, b) == [j \in DOMAIN rows |-> IF j = i THEN [rows[j] EXCEPT !.stop = b] ELSE rows[j]]

InFlight  == up # <<>> \/ down # <<>>
ListComing == (\E k \in DOMAIN up : up[k].kind = "get_jobs")
              \/ \E k \in DOMAIN down : down[k].kind = "jobs_list"
AddComing  == \E k \in DOMAIN up : up[k].kind = "add_job"
Request(kind, index, job, req) == [kind |-> kind, index |-> index, job |-> job, req |-> req]
Note(kind, index, job, req)    == [kind |-> kind, index |-> index, job |-> job, req |-> req]
NoReq     == 0
NoJob     == Job(0, FALSE)

(***************************************************************************)
(* The window opens: it connects and asks for the jobs.                    *)
(***************************************************************************)
LinkInit ==
  /\ list \in InitialLists /\ live = {} /\ stops = {} /\ saved = list
  /\ announced = FALSE
  /\ up = <<Request("get_jobs", 0, NoJob, 1)>> /\ down = <<>> /\ linked = TRUE
  /\ mirror = <<>> /\ rows = <<>> /\ dialog = NoDialog /\ pageShown = FALSE
  /\ waiting = {[req |-> 1, kind |-> "list", index |-> 0]} /\ nextReq = 2
  /\ gestures = 0 /\ autoRuns = 0 /\ staleMap = FALSE /\ staleSave = FALSE
  /\ addCrossed = FALSE

(***************************************************************************)
(* send_request(): nothing without a connection.                           *)
(***************************************************************************)
Sent(requests) ==
  IF ~linked THEN UNCHANGED <<up, waiting, nextReq>>
  ELSE /\ up' = up \o [k \in DOMAIN requests |->
                         Request(requests[k].kind, requests[k].index, requests[k].job,
                                 nextReq + k - 1)]
       /\ waiting' = waiting \cup {[req |-> nextReq + k - 1, kind |-> requests[k].then,
                                    index |-> requests[k].index] : k \in DOMAIN requests}
       /\ nextReq' = nextReq + Len(requests)

Asking(kind, index, job, then) == [kind |-> kind, index |-> index, job |-> job, then |-> then]

(***************************************************************************)
(* save_jobs() of the view.                                                *)
(***************************************************************************)
ViewSaves(jobs, busy) == saved' = jobs /\ staleSave' = (staleSave \/ busy)

Gesture == dialog = NoDialog /\ gestures < MaxGestures /\ gestures' = gestures + 1

(***************************************************************************)
(* The Jobs page comes to the front: the view reads the file.              *)
(***************************************************************************)
ShowJobsPage ==
  /\ Gesture
  /\ pageShown' = TRUE /\ mirror' = saved /\ rows' = Rebuilt(saved)
  /\ staleMap' = (staleMap \/ InFlight \/ staleSave)
  /\ UNCHANGED <<daemonVars, saved, up, down, linked, dialog, waiting, nextReq, autoRuns,
                 staleSave, addCrossed>>

RowsUp == pageShown /\ Gesture

ClickRun(i) ==
  /\ RowsUp /\ i \in DOMAIN rows /\ i \in DOMAIN mirror /\ ~rows[i].stop
  /\ rows' = IF linked THEN WithStop(i, TRUE) ELSE rows
  /\ Sent(<<Asking("run_job", i, NoJob, "label")>>)
  /\ UNCHANGED <<daemonVars, saved, down, linked, mirror, dialog, pageShown, autoRuns,
                 staleMap, staleSave, addCrossed>>

ClickStop(i) ==
  /\ RowsUp /\ i \in DOMAIN rows /\ rows[i].stop
  /\ Sent(<<Asking("stop_job", i, NoJob, "stopped")>>)
  /\ UNCHANGED <<daemonVars, saved, down, linked, mirror, rows, dialog, pageShown, autoRuns,
                 staleMap, staleSave, addCrossed>>

(***************************************************************************)
(* on_delete_job(): asked of the daemon at once, or done here without one. *)
(***************************************************************************)
ClickDelete(i) ==
  /\ RowsUp /\ i \in DOMAIN rows /\ i \in DOMAIN mirror
  /\ Sent(<<Asking("delete_job", i, NoJob, "label")>>)
  /\ IF linked THEN UNCHANGED <<mirror, rows, saved, staleSave>>
     ELSE /\ mirror' = Without(mirror, i) /\ rows' = Rebuilt(Without(mirror, i))
          /\ ViewSaves(Without(mirror, i), FALSE)
  /\ UNCHANGED <<daemonVars, down, linked, dialog, pageShown, autoRuns, staleMap, addCrossed>>

(***************************************************************************)
(* add_job(), add_job_no_run(): also from the browser, page shown or not.  *)
(* The identity is a new uuid.                                             *)
(***************************************************************************)
Fresh(id) ==
  /\ \A jobs \in {list, mirror, saved} : id \notin ToSet(Ids(jobs))
  /\ \A x \in live \cup stops : x.id # id
  /\ \A k \in DOMAIN up : up[k].job.id # id

AddNew(id, run) ==
  LET jobs == Append(mirror, Job(id, FALSE)) IN
  /\ Gesture /\ Fresh(id)
  /\ mirror' = jobs /\ rows' = Append(rows, Row(Job(id, FALSE)))
  /\ ViewSaves(jobs, InFlight)
  /\ Sent(<<Asking("add_job", Len(jobs), Job(id, FALSE), IF run THEN "run" ELSE "label")>>)
  /\ addCrossed' = (addCrossed \/ ListComing)
  /\ UNCHANGED <<daemonVars, down, linked, dialog, pageShown, autoRuns, staleMap>>

(***************************************************************************)
(* show_edit_dialog(): modal; it holds an index and the job of its form,   *)
(* which has the identity of the old one but not its running flag.         *)
(***************************************************************************)
OpenEdit(i) ==
  /\ RowsUp /\ i \in DOMAIN rows /\ i \in DOMAIN mirror
  /\ dialog' = [index |-> i, job |-> Job(mirror[i].id, FALSE)]
  /\ UNCHANGED <<daemonVars, saved, up, down, linked, mirror, rows, pageShown, waiting, nextReq,
                 autoRuns, staleMap, staleSave, addCrossed>>

SaveEdit(run) ==
  LET i == dialog.index  jobs == [mirror EXCEPT ![i] = dialog.job] IN
  /\ dialog # NoDialog /\ dialog' = NoDialog
  /\ IF i \in DOMAIN mirror
     THEN /\ mirror' = jobs /\ ViewSaves(jobs, InFlight)
          /\ rows' = IF run /\ linked THEN [Rebuilt(jobs) EXCEPT ![i].stop = TRUE] ELSE Rebuilt(jobs)
          /\ Sent(<<Asking("update_job", i, dialog.job, "label")>> \o
                  (IF run THEN <<Asking("run_job", i, NoJob, "label")>> ELSE <<>>))
          /\ staleMap' = (staleMap \/ mirror[i].id # dialog.job.id)
     ELSE UNCHANGED <<mirror, saved, staleSave, staleMap, rows, up, waiting, nextReq>>
  /\ UNCHANGED <<daemonVars, down, linked, pageShown, gestures, autoRuns, addCrossed>>

(***************************************************************************)
(* on_message(): the job view handles the broadcast, then the callback     *)
(* that waits for its request number is called.                            *)
(*                                                                         *)
(* job_added: an index inside the list is the job that add_job() put there *)
(* already, one outside is a new one.                                      *)
(***************************************************************************)
SlipWithAdded(jobs, m) == Append(jobs, m.job)
WithAdded(jobs, m) ==
  IF m.index > Len(jobs) THEN Append(jobs, m.job) ELSE [jobs EXCEPT ![m.index] = m.job]

Marked(jobs, i, running) ==
  [j \in DOMAIN jobs |-> IF j = i THEN [jobs[j] EXCEPT !.running = running] ELSE jobs[j]]

Seen(m) ==
  CASE m.kind = "jobs_list"   -> m.jobs
    [] m.kind = "job_added"   -> WithAdded(mirror, m)
    [] m.kind = "job_updated" -> IF m.index \in DOMAIN mirror
                                 THEN [mirror EXCEPT ![m.index] = m.job] ELSE mirror
    [] m.kind = "job_deleted" -> IF m.index \in DOMAIN mirror
                                 THEN Without(mirror, m.index) ELSE mirror
    [] m.kind = "job_stopped" -> Marked(mirror, m.index, FALSE)
    [] OTHER                  -> mirror

SlipRowsAfter(m, jobs) ==
  CASE m.kind = "job_deleted" -> IF m.index \in DOMAIN rows THEN Without(rows, m.index) ELSE rows
    [] m.kind = "jobs_list"   -> rows
    [] OTHER                  -> rows
RowsAfter(m, jobs) ==
  CASE m.kind = "jobs_list"   -> Rebuilt(jobs)
    [] m.kind = "job_added"   -> IF Len(rows) < Len(jobs)
                                 THEN Append(rows, Row(jobs[Len(rows) + 1])) ELSE rows
    [] m.kind = "job_updated" -> IF m.index \in DOMAIN mirror
                                 THEN [rows EXCEPT ![m.index] = Row(m.job)] ELSE rows
    [] m.kind = "job_deleted" -> IF m.index \in DOMAIN mirror THEN Rebuilt(jobs) ELSE rows
    [] m.kind = "job_started" -> WithStop(m.index, TRUE)
    [] m.kind \in {"job_completed", "job_stopped"} -> WithStop(m.index, FALSE)

(***************************************************************************)
(* The callback of add_job runs the job at the index it had; a callback of *)
(* stop_job puts the run button back. An index past the end is read by the *)
(* first, to no further effect.                                            *)
(***************************************************************************)
Receive ==
  LET m    == Head(down)
      jobs == Seen(m)
      cbs  == {w \in waiting : m.req # NoReq /\ w.req = m.req}
      runs == {w \in cbs : w.kind = "run" /\ w.index \in DOMAIN jobs
                           /\ w.index \in DOMAIN RowsAfter(m, jobs)}
      base == RowsAfter(m, jobs) IN
  /\ linked /\ down # <<>> /\ down' = Tail(down)
  /\ mirror' = jobs
  /\ rows' = [i \in DOMAIN base |->
                IF \E w \in runs : w.index = i THEN [base[i] EXCEPT !.stop = TRUE]
                ELSE IF \E w \in cbs : w.kind = "stopped" /\ w.index = i
                THEN [base[i] EXCEPT !.stop = FALSE] ELSE base[i]]
  /\ IF runs = {} THEN /\ waiting' = waiting \ cbs /\ UNCHANGED <<up, nextReq>>
     ELSE /\ up' = Append(up, Request("run_job", (CHOOSE w \in runs : TRUE).index, NoJob, nextReq))
          /\ waiting' = (waiting \ cbs) \cup
                        {[req |-> nextReq, kind |-> "label", index |-> (CHOOSE w \in runs : TRUE).index]}
          /\ nextReq' = nextReq + 1
  /\ IF m.kind \in {"job_completed", "job_stopped"} /\ m.index \in DOMAIN rows
     THEN ViewSaves(jobs, up # <<>> \/ Tail(down) # <<>>)
     ELSE UNCHANGED <<saved, staleSave>>
  /\ UNCHANGED <<daemonVars, linked, dialog, pageShown, gestures, autoRuns, staleMap, addCrossed>>

(***************************************************************************)
(* The daemon handles a request; a bad index, and a stop of a job that is  *)
(* not tracked, is not answered. A run that is skipped is answered like    *)
(* one that is started, whose own broadcast goes out just before.          *)
(***************************************************************************)
Run(id, i, slot) == [id |-> id, at |-> i, slot |-> slot]
Tracked(i) == \E x \in live : x.slot = i

SlipSaved == saved
DaemonSaves == list'

Told(m) == down' = Append(down, m)

Jobs(req) == [kind |-> "jobs_list", jobs |-> list, index |-> 0, job |-> NoJob, req |-> req]

HandleRequest(r) ==
  CASE r.kind = "get_jobs" ->
         /\ Told(Jobs(r.req))
         /\ UNCHANGED <<list, live, stops, saved>>
    [] r.kind = "add_job" ->
         /\ list' = Append(list, r.job) /\ saved' = DaemonSaves
         /\ Told(Note("job_added", Len(list) + 1, r.job, r.req))
         /\ UNCHANGED <<live, stops>>
    [] r.kind = "update_job" ->
         /\ list' = [list EXCEPT ![r.index] = r.job] /\ saved' = DaemonSaves
         /\ Told(Note("job_updated", r.index, r.job, r.req))
         /\ UNCHANGED <<live, stops>>
    [] r.kind = "delete_job" ->
         /\ list' = Without(list, r.index) /\ saved' = DaemonSaves
         /\ live' = {Run(x.id, x.at, IF x.slot > r.index THEN x.slot - 1 ELSE x.slot) :
                       x \in {y \in live : y.slot # r.index}}
         /\ Told(Note("job_deleted", r.index, NoJob, r.req))
         /\ UNCHANGED stops
    [] r.kind = "run_job" ->
         /\ IF Tracked(r.index)
            THEN UNCHANGED <<list, live, saved>>
            ELSE /\ list' = Marked(list, r.index, TRUE) /\ saved' = DaemonSaves
                 /\ live' = live \cup {Run(list[r.index].id, r.index, r.index)}
         /\ Told(Note("job_started", r.index, NoJob, r.req))
         /\ UNCHANGED stops
    [] r.kind = "stop_job" ->
         /\ stops' = stops \cup (IF Tracked(r.index)
                                 THEN {[id |-> list[r.index].id, at |-> r.index, req |-> r.req]}
                                 ELSE {})
         /\ UNCHANGED <<list, live, saved, down>>

Handle ==
  LET r == Head(up) IN
  /\ linked /\ up # <<>> /\ up' = Tail(up)
  /\ IF r.kind \in {"get_jobs", "add_job"} \/ r.index \in DOMAIN list
     THEN HandleRequest(r) ELSE UNCHANGED <<list, live, stops, saved, down>>
  /\ UNCHANGED <<announced, linked, viewVars, gestures, autoRuns, staleMap, staleSave, addCrossed>>

(***************************************************************************)
(* Once after its start, when rcd has listed the mounts, the daemon saves  *)
(* the jobs and broadcasts them to whoever is connected by then.           *)
(***************************************************************************)
MountsListed ==
  /\ linked /\ ~announced /\ announced' = TRUE
  /\ list' = list /\ saved' = DaemonSaves /\ Told(Jobs(NoReq))
  /\ addCrossed' = (addCrossed \/ AddComing)
  /\ UNCHANGED <<live, stops, up, linked, viewVars, gestures, autoRuns, staleMap, staleSave>>

(***************************************************************************)
(* What the daemon does by itself: a schedule starts a run; a run ends; a  *)
(* stop is answered. The callbacks are void when their index, which does   *)
(* not move, holds another job.                                            *)
(***************************************************************************)
AutoRun(i) ==
  /\ linked /\ autoRuns < MaxAutoRuns /\ autoRuns' = autoRuns + 1
  /\ i \in DOMAIN list /\ ~Tracked(i)
  /\ list' = Marked(list, i, TRUE) /\ saved' = DaemonSaves
  /\ live' = live \cup {Run(list[i].id, i, i)}
  /\ Told(Note("job_started", i, NoJob, NoReq))
  /\ UNCHANGED <<stops, announced, up, linked, viewVars, gestures, staleMap, staleSave, addCrossed>>

TrackedRunEnds(i) ==
  /\ linked /\ i \in DOMAIN list /\ Run(list[i].id, i, i) \in live
  /\ list' = Marked(list, i, FALSE) /\ saved' = DaemonSaves
  /\ live' = live \ {Run(list[i].id, i, i)}
  /\ Told(Note("job_completed", i, NoJob, NoReq))
  /\ UNCHANGED <<stops, announced, up, linked, viewVars, gestures, autoRuns, staleMap, staleSave,
                 addCrossed>>

StopCallAnswered(s) ==
  /\ linked /\ s \in stops /\ stops' = stops \ {s}
  /\ IF s.at \in DOMAIN list /\ list[s.at].id = s.id /\ Tracked(s.at)
     THEN /\ list' = Marked(list, s.at, FALSE) /\ saved' = DaemonSaves
          /\ live' = {x \in live : x.slot # s.at}
          /\ Told(Note("job_stopped", s.at, NoJob, s.req))
     ELSE UNCHANGED <<list, live, saved, down>>
  /\ UNCHANGED <<announced, up, linked, viewVars, gestures, autoRuns, staleMap, staleSave, addCrossed>>

(***************************************************************************)
(* The daemon ends: the client disconnects on the hang-up, unread messages *)
(* and all; the proxy keeps its callbacks, and nothing connects again.     *)
(***************************************************************************)
DaemonEnds ==
  /\ linked /\ linked' = FALSE /\ up' = <<>> /\ down' = <<>>
  /\ live' = {} /\ stops' = {}
  /\ UNCHANGED <<list, saved, announced, viewVars, gestures, autoRuns, staleMap, staleSave, addCrossed>>

LinkNext ==
  \/ ShowJobsPage \/ Receive \/ Handle \/ MountsListed \/ DaemonEnds
  \/ \E i \in DOMAIN rows : ClickRun(i) \/ ClickStop(i) \/ ClickDelete(i) \/ OpenEdit(i)
  \/ \E id \in JobIds, run \in BOOLEAN : AddNew(id, run)
  \/ \E run \in BOOLEAN : SaveEdit(run)
  \/ \E i \in DOMAIN list : AutoRun(i) \/ TrackedRunEnds(i)
  \/ \E s \in stops : StopCallAnswered(s)

LinkSpec == LinkInit /\ [][LinkNext]_linkVars

(***************************************************************************)
(* Properties.                                                             *)
(***************************************************************************)
LinkTypeOK ==
  /\ linked \in BOOLEAN /\ pageShown \in BOOLEAN /\ gestures \in 0 .. MaxGestures
  /\ \A jobs \in {list, saved, mirror} : \A i \in DOMAIN jobs :
       jobs[i].id \in JobIds /\ jobs[i].running \in BOOLEAN
  /\ \A w \in waiting : w.req \in 1 .. nextReq - 1
  /\ \A x \in live : x.id \in JobIds

Settled == linked /\ ~InFlight

RowIds(rs) == [i \in DOMAIN rs |-> rs[i].id]

\* When every request is answered and every broadcast read, the view lists the
\* daemon's jobs in the daemon's order, although it adds a job before the
\* daemon does, both number the jobs by index, and the daemon's start-up list
\* may replace the view's at any time, unless the view has read the file while
\* something was on its way, or saved an edit at an index that another job had
\* taken meanwhile.
MirrorAgrees == (Settled /\ ~staleMap) => Ids(mirror) = Ids(list)

\* Every row of the view belongs to the job with its index, since its buttons
\* send that index; a list of jobs that crosses an addition may part them.
RowsMatch == (~staleMap /\ ~addCrossed) => RowIds(rows) = Ids(mirror)

\* With nothing on its way, jobs.json holds the daemon's jobs, although the
\* view writes it too, unless the view wrote it while something was under way,
\* or wrote a list that had gone astray.
FileAgrees == (Settled /\ ~staleSave /\ ~staleMap) => Ids(saved) = Ids(list)
=============================================================================
