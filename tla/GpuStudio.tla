----------------------------- MODULE GpuStudio -----------------------------
(***************************************************************************)
(* Video jobs on a rented GPU box (services/watchdog.py,                   *)
(* api/routes/generate.py and gpu.py, infra/gpu-box.sh, ltx_worker.py).    *)
(*                                                                         *)
(* The studio launches a box and sends jobs to the worker on it.  A job    *)
(* has a metadata file that says how it stands and a background task that  *)
(* submits it, polls the worker, and fetches the video; the tasks of one   *)
(* request run one after the other.  The worker renders one job at a time. *)
(* The watchdog reads the metadata files, and terminates the box when the  *)
(* studio has been idle for longer than Limit.                             *)
(*                                                                         *)
(* Any answer may be lost, studio and worker may be restarted, and AWS     *)
(* may reclaim a box, between any two of these steps.  Time is a clock     *)
(* that ticks at will: a step takes as long as it takes.                   *)
(***************************************************************************)
EXTENDS Naturals, FiniteSets

CONSTANTS
    N,          \* bound: jobs
    Boxes,      \* bound: boxes ever launched
    Launches,   \* bound: launches requested
    Limit,      \* idle_shutdown_minutes, in ticks
    MaxFaults,  \* bound: lost answers, failed AWS calls, reclaimed boxes
    MaxRestarts \* bound: restarts of the studio or a worker

ASSUME GpuStudioAssumption ==
    /\ {N, MaxFaults, MaxRestarts} \subseteq Nat
    /\ Limit \in Nat \ {0}
    /\ 0 \notin Boxes

VARIABLES
    box,      \* per box: the state AWS reports
    launch,   \* per launch: the next step of gpu-box.sh
    worker,   \* per box: the worker process and its disk
    meta,     \* per job: the status in its metadata file
    video,    \* per job: the studio's copy of the video
    task,     \* per job: the background task's next step, box, predecessor
    wd,       \* the watchdog: its next step, and whether it saw active jobs
    idle,     \* ticks since update_activity, counted to Limit + 1
    since,    \* jobs queued since the watchdog last read the files
    torn,     \* jobs of which a restarted worker kept an unfinished file
    faults,   \* faults left
    restarts  \* restarts left

awsVars == <<box, launch>>
jobVars == <<meta, video, task>>
wdVars == <<wd, idle, since>>
vars == <<awsVars, worker, jobVars, wdVars, torn, faults, restarts>>

Jobs == 1 .. N
None == 0

JobStatus == {"none", "queued", "running", "completed", "failed"}
File == {"none", "partial", "whole"}

Blank(value) == [j \in Jobs |-> value]

\* A worker process: thread is the rendering thread's next step per job,
\* jobs the status it reports, disk its output directory.
Worker(state, disk) ==
    [state |-> state, active |-> 0, jobs |-> Blank("none"),
     thread |-> Blank("none"), disk |-> disk]

Init ==
    /\ box = [b \in Boxes |-> "unborn"]
    /\ launch = [l \in Launches |-> "none"]
    /\ worker = [b \in Boxes |-> Worker("down", Blank("none"))]
    /\ meta = Blank("none") /\ video = Blank("none")
    /\ task = Blank([pc |-> "none", box |-> None, after |-> None])
    /\ wd = [pc |-> "sleep", busy |-> FALSE]
    /\ idle = 0 /\ since = {} /\ torn = {}
    /\ faults = MaxFaults /\ restarts = MaxRestarts

(***************************************************************************)
(* What the parts see of each other                                        *)
(***************************************************************************)
Alive == {b \in Boxes : box[b] \in {"pending", "running"}}
Queued == {j \in Jobs : meta[j] \in {"queued", "running"}}
Live(j) == task[j].pc \in {"submit", "poll", "fetch", "finish"}
Reachable(b) == b \in Boxes /\ box[b] = "running" /\ worker[b].state # "down"

Fault == faults > 0 /\ faults' = faults - 1

\* The first box AWS lists.  A timeout reads as no box, and so does an error
\* in every caller that goes on after one.
Lookup(b) ==
    \/ b \in Alive /\ UNCHANGED faults
    \/ b = None /\ Alive = {} /\ UNCHANGED faults
    \/ b = None /\ Alive # {} /\ Fault

(***************************************************************************)
(* The box                                                                 *)
(***************************************************************************)
\* POST /api/gpu/launch looks for a box and leaves the rest to the script.
LaunchRequested(l) ==
    /\ launch[l] = "none"
    /\ Lookup(None)
    /\ launch' = [launch EXCEPT ![l] = "check"]
    /\ UNCHANGED <<box, worker, jobVars, wdVars, torn, restarts>>

\* The script refuses when a box exists.  Several calls to AWS separate this
\* from the launch itself.
LaunchCheck(l) ==
    /\ launch[l] = "check"
    /\ launch' = [launch EXCEPT ![l] = IF Alive = {} THEN "run" ELSE "done"]
    /\ UNCHANGED <<box, worker, jobVars, wdVars, torn, faults, restarts>>

LaunchRun(l) ==
    /\ launch[l] = "run"
    /\ launch' = [launch EXCEPT ![l] = "done"]
    /\ \E b \in Boxes :
        /\ box[b] = "unborn"
        /\ box' = [box EXCEPT ![b] = "pending"]
    /\ UNCHANGED <<worker, jobVars, wdVars, torn, faults, restarts>>

LaunchFails(l) ==
    /\ launch[l] \in {"check", "run"} /\ Fault
    /\ launch' = [launch EXCEPT ![l] = "done"]
    /\ UNCHANGED <<box, worker, jobVars, wdVars, torn, restarts>>

BoxRuns(b) ==
    /\ box[b] = "pending"
    /\ box' = [box EXCEPT ![b] = "running"]
    /\ UNCHANGED <<launch, worker, jobVars, wdVars, torn, faults, restarts>>

\* A terminated box takes its worker and its disk with it.
Gone(boxes) ==
    /\ box' = [b \in Boxes |-> IF b \in boxes THEN "gone" ELSE box[b]]
    /\ worker' = [b \in Boxes |-> IF b \in boxes
                    THEN Worker("down", Blank("none")) ELSE worker[b]]

Reclaimed(b) ==
    /\ b \in Alive /\ Fault /\ Gone({b})
    /\ UNCHANGED <<launch, jobVars, wdVars, torn, restarts>>

\* gpu-box.sh terminate, for the route and for the command line.
Terminate ==
    /\ Alive # {} /\ Gone(Alive)
    /\ UNCHANGED <<launch, jobVars, wdVars, torn, faults, restarts>>

(***************************************************************************)
(* The worker                                                              *)
(***************************************************************************)
WorkerStep(b, w) ==
    /\ worker' = [worker EXCEPT ![b] = w]
    /\ UNCHANGED <<awsVars, jobVars, wdVars, faults>>

WorkerUp(b) ==
    /\ box[b] = "running" /\ worker[b].state = "down"
    /\ WorkerStep(b, [worker[b] EXCEPT !.state = "warming"])
    /\ UNCHANGED <<torn, restarts>>

LoadModel(b) ==
    /\ worker[b].state = "warming"
    /\ WorkerStep(b, [worker[b] EXCEPT !.state = "ready"])
    /\ UNCHANGED <<torn, restarts>>

\* POST /api/gpu/inspect/action: the process is gone, its disk stays.
RestartWorker(b) ==
    /\ Reachable(b) /\ restarts > 0
    /\ restarts' = restarts - 1
    /\ WorkerStep(b, Worker("warming", worker[b].disk))
    /\ torn' = torn \cup {j \in Jobs : worker[b].disk[j] = "partial"}

\* The thread of job j, from one point others can observe to the next.
Thread(b, j, from, to, status, file) ==
    /\ worker[b].thread[j] \in from
    /\ WorkerStep(b, [worker[b] EXCEPT !.thread[j] = to, !.jobs[j] = status,
                                       !.disk[j] = file])
    /\ UNCHANGED <<torn, restarts>>

Render(b, j) ==
    Thread(b, j, {"queued"}, "rendering", "running", worker[b].disk[j])
Encode(b, j) ==
    Thread(b, j, {"rendering"}, "encoding", "running", "partial")
Complete(b, j) ==
    Thread(b, j, {"encoding"}, "ending", "completed", "whole")
RenderFails(b, j) ==
    Thread(b, j, {"queued", "rendering", "encoding"}, "ending", "failed",
           worker[b].disk[j])

\* The slot is freed last, after the status has been shown.
FreeSlot(b, j) ==
    /\ worker[b].thread[j] = "ending"
    /\ WorkerStep(b, [worker[b] EXCEPT !.thread[j] = "none", !.active = @ - 1])
    /\ UNCHANGED <<torn, restarts>>

\* Both ends of the thread empty CUDA's cache outside the try block: when that
\* raises, the thread is gone with its slot, and its job says what it said.
ThreadDies(b, j) ==
    /\ worker[b].thread[j] \in {"queued", "ending"} /\ Fault
    /\ worker' = [worker EXCEPT ![b].thread[j] = "dead"]
    /\ UNCHANGED <<awsVars, jobVars, wdVars, torn, restarts>>

\* POST /generate on the worker.
Free(b) == worker[b].state = "ready" /\ worker[b].active = 0
Accepted(b, j) ==
    worker' = [worker EXCEPT ![b].active = @ + 1, ![b].jobs[j] = "queued",
                             ![b].thread[j] = "queued"]

\* GET /status: a job this process does not know is looked up on the disk.
StatusOf(b, j) ==
    IF worker[b].jobs[j] # "none" THEN worker[b].jobs[j]
    ELSE IF worker[b].disk[j] # "none" THEN "completed" ELSE "not_found"

(***************************************************************************)
(* Requests and their background tasks                                     *)
(***************************************************************************)
\* An extension is a generation that looks for the one job in its answer: with
\* several takes it raises, and the tasks are dropped with the response.
FirstStep(takes, extend) == IF extend /\ takes > 1 THEN "dropped" ELSE "submit"

\* POST /api/generate with some takes: one metadata file and one task for
\* each, or a failure when no box runs.
Generate(takes, extend) ==
    LET used == Cardinality({j \in Jobs : meta[j] # "none"})
        new == {j \in Jobs : j > used /\ j <= used + takes}
    IN  /\ used + takes <= N
        /\ \E b \in Boxes \cup {None} :
            LET online == b # None /\ box[b] = "running" IN
            /\ Lookup(b)
            /\ meta' = [j \in Jobs |->
                 IF j \notin new THEN meta[j]
                 ELSE IF online THEN "queued" ELSE "failed"]
            /\ task' = [j \in Jobs |->
                 IF j \in new /\ online
                 THEN [pc |-> FirstStep(takes, extend), box |-> b,
                       after |-> IF j - 1 \in new THEN j - 1 ELSE None]
                 ELSE task[j]]
        /\ idle' = 0
        /\ since' = since \cup new
        /\ UNCHANGED <<awsVars, worker, video, wd, torn, restarts>>

TaskStep(j, pc, status) ==
    /\ task' = [task EXCEPT ![j].pc = pc]
    /\ meta' = [meta EXCEPT ![j] = status]
    /\ UNCHANGED <<awsVars, wdVars, torn, restarts>>

\* Every exception of a task ends here.
TaskFails(j) == TaskStep(j, "done", "failed")

Turn(j) == task[j].after # None => task[task[j].after].pc = "done"

Submit(j) ==
    LET b == task[j].box
        willAccept == Reachable(b) /\ Free(b)
    IN  /\ task[j].pc = "submit" /\ Turn(j)
        /\ \/ /\ willAccept /\ Accepted(b, j)
              /\ TaskStep(j, "poll", meta[j])
              /\ UNCHANGED <<video, faults>>
           \/ /\ ~willAccept /\ TaskFails(j)
              /\ UNCHANGED <<worker, video, faults>>
           \/ /\ willAccept /\ Fault /\ TaskFails(j)
              /\ Accepted(b, j) \/ UNCHANGED worker
              /\ UNCHANGED video

\* (mutant) a failed poll is tried again for ever
PollForever(j) ==
    LET b == task[j].box
    IN  /\ task[j].pc = "poll"
        /\ Reachable(b)
        /\ \/ /\ StatusOf(b, j) = "completed" /\ TaskStep(j, "fetch", meta[j])
           \/ StatusOf(b, j) = "failed" /\ TaskFails(j)
        /\ UNCHANGED <<worker, video, faults>>

Poll(j) ==
    LET b == task[j].box
    IN  /\ task[j].pc = "poll"
        /\ \/ /\ Reachable(b) /\ StatusOf(b, j) = "completed"
              /\ TaskStep(j, "fetch", meta[j]) /\ UNCHANGED faults
           \/ /\ Reachable(b) => StatusOf(b, j) \in {"failed", "not_found"}
              /\ TaskFails(j) /\ UNCHANGED faults
           \/ Fault /\ TaskFails(j)
        /\ UNCHANGED <<worker, video>>

\* (mutant) a broken download counts as one
FetchUnchecked(j) ==
    LET b == task[j].box
    IN  /\ task[j].pc = "fetch"
        /\ TaskStep(j, "finish", meta[j])
        /\ \/ /\ Reachable(b) /\ UNCHANGED faults
              /\ video' = [video EXCEPT ![j] = worker[b].disk[j]]
           \/ Fault /\ video' = [video EXCEPT ![j] = "partial"]
        /\ UNCHANGED worker

\* The video is written as it arrives.
Fetch(j) ==
    LET b == task[j].box
    IN  /\ task[j].pc = "fetch"
        /\ \/ /\ Reachable(b)
              /\ video' = [video EXCEPT ![j] = worker[b].disk[j]]
              /\ TaskStep(j, "finish", meta[j]) /\ UNCHANGED faults
           \/ /\ ~Reachable(b) /\ TaskFails(j) /\ UNCHANGED <<video, faults>>
           \/ /\ Fault /\ TaskFails(j)
              /\ video' \in {video, [video EXCEPT ![j] = "partial"]}
        /\ UNCHANGED worker

Finish(j) ==
    /\ task[j].pc = "finish"
    /\ TaskStep(j, "done", "completed")
    /\ UNCHANGED <<worker, video, faults>>

(***************************************************************************)
(* The watchdog                                                            *)
(***************************************************************************)
WatchdogStep(pc, busy) ==
    /\ wd' = [pc |-> pc, busy |-> busy]
    /\ UNCHANGED <<jobVars, torn, restarts>>

Scan ==
    /\ wd.pc = "sleep"
    /\ WatchdogStep("decide", Queued # {})
    /\ since' = {}
    /\ UNCHANGED <<awsVars, worker, idle, faults>>

\* (mutant) active jobs do not count as activity
DecideOnOldClock ==
    /\ wd.pc = "decide"
    /\ WatchdogStep(IF idle > Limit THEN "look" ELSE "sleep", FALSE)
    /\ UNCHANGED <<awsVars, worker, idle, since, faults>>

\* (mutant) every pass counts as activity
DecideActive ==
    /\ wd.pc = "decide"
    /\ idle' = 0
    /\ WatchdogStep("sleep", FALSE)
    /\ UNCHANGED <<awsVars, worker, since, faults>>

Decide ==
    LET elapsed == IF wd.busy THEN 0 ELSE idle
    IN  /\ wd.pc = "decide"
        /\ idle' = elapsed
        /\ WatchdogStep(IF elapsed > Limit THEN "look" ELSE "sleep", FALSE)
        /\ UNCHANGED <<awsVars, worker, since, faults>>

Look ==
    /\ wd.pc = "look"
    /\ \E b \in Boxes \cup {None} :
        /\ Lookup(b)
        /\ WatchdogStep(IF b # None /\ box[b] = "running" THEN "kill" ELSE "sleep",
                        FALSE)
    /\ UNCHANGED <<awsVars, worker, idle, since>>

\* The script ends, well or not, before the clock is reset.
Kill ==
    /\ wd.pc = "kill"
    /\ WatchdogStep("reset", FALSE)
    /\ \/ Gone(Alive) /\ UNCHANGED faults
       \/ Fault /\ UNCHANGED <<box, worker>>
    /\ UNCHANGED <<launch, idle, since>>

Reset ==
    /\ wd.pc = "reset"
    /\ idle' = 0
    /\ WatchdogStep("sleep", FALSE)
    /\ UNCHANGED <<awsVars, worker, since, faults>>

Tick ==
    /\ idle <= Limit
    /\ idle' = idle + 1
    /\ UNCHANGED <<awsVars, worker, jobVars, wd, since, torn, faults, restarts>>

\* The studio stops and starts again: tasks and launches are lost, and the
\* metadata files stay as they are.
RestartStudio ==
    /\ restarts > 0 /\ restarts' = restarts - 1
    /\ task' = [j \in Jobs |-> IF Live(j) THEN [task[j] EXCEPT !.pc = "killed"]
                               ELSE task[j]]
    /\ launch' = [l \in Launches |-> IF launch[l] = "none" THEN "none" ELSE "done"]
    /\ wd' = [pc |-> "sleep", busy |-> FALSE] /\ idle' = 0 /\ since' = {}
    /\ UNCHANGED <<box, worker, meta, video, torn, faults>>

(***************************************************************************)
(* The specification                                                       *)
(***************************************************************************)
TaskNext(j) == Submit(j) \/ Poll(j) \/ Fetch(j) \/ Finish(j)
ThreadNext(b, j) ==
    \/ Render(b, j) \/ Encode(b, j) \/ Complete(b, j) \/ RenderFails(b, j)
    \/ FreeSlot(b, j)
Watchdog == Scan \/ Decide \/ Look \/ Kill \/ Reset
LaunchNext(l) == LaunchCheck(l) \/ LaunchRun(l) \/ LaunchFails(l)

Next ==
    \/ \E l \in Launches : LaunchRequested(l) \/ LaunchNext(l)
    \/ \E b \in Boxes : \/ BoxRuns(b) \/ Reclaimed(b)
                        \/ WorkerUp(b) \/ LoadModel(b) \/ RestartWorker(b)
    \/ \E b \in Boxes, j \in Jobs : ThreadNext(b, j) \/ ThreadDies(b, j)
    \/ \E takes \in 1 .. 2, extend \in BOOLEAN : Generate(takes, extend)
    \/ \E j \in Jobs : TaskNext(j)
    \/ Terminate \/ Watchdog \/ Tick \/ RestartStudio

Spec == Init /\ [][Next]_vars

\* Threads, tasks, scripts and the watchdog's loop run, time passes, and a box
\* that AWS has accepted comes up.  Users, restarts and faults are not fair.
FairSpec ==
    /\ Spec
    /\ WF_vars(Watchdog) /\ WF_vars(Tick)
    /\ \A j \in Jobs : WF_vars(TaskNext(j))
    /\ \A b \in Boxes : WF_vars(BoxRuns(b))
    /\ \A b \in Boxes, j \in Jobs : WF_vars(ThreadNext(b, j))
    /\ \A l \in Launches : WF_vars(LaunchNext(l))

(***************************************************************************)
(* Properties                                                              *)
(***************************************************************************)
\* Type invariant; the worker has one slot, and its count of used slots never
\* goes below zero or past one, through lost answers, deaths and restarts.
TypeOK ==
    /\ box \in [Boxes -> {"unborn", "pending", "running", "gone"}]
    /\ launch \in [Launches -> {"none", "check", "run", "done"}]
    /\ worker \in [Boxes ->
         [state : {"down", "warming", "ready"}, active : 0 .. 1,
          jobs : [Jobs -> JobStatus],
          thread : [Jobs -> {"none", "queued", "rendering", "encoding", "ending",
                             "dead"}],
          disk : [Jobs -> File]]]
    /\ meta \in [Jobs -> JobStatus \ {"running"}]
    /\ video \in [Jobs -> File]
    /\ task \in [Jobs ->
         [pc : {"none", "submit", "poll", "fetch", "finish", "done", "dropped",
                "killed"},
          box : Boxes \cup {None}, after : Jobs \cup {None}]]
    /\ wd \in [pc : {"sleep", "decide", "look", "kill", "reset"}, busy : BOOLEAN]
    /\ idle \in 0 .. Limit + 1
    /\ since \subseteq Jobs /\ torn \subseteq Jobs
    /\ faults \in 0 .. MaxFaults /\ restarts \in 0 .. MaxRestarts

\* Once the watchdog has decided that the studio is idle, the only jobs it
\* can take the box away from are those that were queued while it decided.
SparesQueued == wd.pc \in {"look", "kill"} => Queued \subseteq since

\* A job that is marked completed has a whole video, unless the worker was
\* restarted over an unfinished file of that job.
CompletedIsWhole ==
    \A j \in Jobs : meta[j] = "completed" => video[j] = "whole" \/ j \in torn

\* The thread of the job, or of the one its task waits for, died before its
\* first word: the worker says "queued" until it is restarted.
Stranded(j) ==
    \E b \in Boxes, i \in {j, task[j].after} \ {None} :
        worker[b].thread[i] = "dead" /\ worker[b].jobs[i] = "queued"

\* A job that has a background task is completed or failed in the end, unless
\* the studio is restarted under it, or a thread dies before it starts the job
\* or the one before it in the same request.
JobsSettle ==
    \A j \in Jobs : Live(j) ~> \/ meta[j] \in {"completed", "failed"}
                               \/ task[j].pc = "killed" \/ Stranded(j)

\* Once no metadata file says that a job is queued, no box is left to bill.
UnmarkedBoxGoes == <>[](Queued = {}) => <>[](Alive = {})

\* Once no job is worked on, no box is left to bill.  (It fails.)
IdleBoxGoes == <>[](\A j \in Jobs : ~Live(j)) => <>[](Alive = {})
=============================================================================
