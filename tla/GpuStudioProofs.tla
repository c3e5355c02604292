-------------------------- MODULE GpuStudioProofs --------------------------
(***************************************************************************)
(* What the watchdog spares, the worker's one slot, and what a completed   *)
(* job has on the studio's disk: for every number of jobs and boxes, every *)
(* idle limit and every number of faults and restarts.                     *)
(***************************************************************************)
EXTENDS GpuStudio, TLAPS

\* SparesQueued is not inductive: a look follows a decision, and the decision
\* a scan that saw no queued job.
Spared ==
    /\ meta \in [Jobs -> JobStatus]
    /\ wd.pc = "decide" /\ ~wd.busy => Queued \subseteq since
    /\ SparesQueued

\* A step that settles jobs, and leaves the watchdog alone, queues none.
LEMMA NothingQueued ==
    ASSUME NEW j \in Jobs, NEW pc,
           NEW status \in JobStatus, status \in {meta[j], "completed", "failed"},
           Spared, TaskStep(j, pc, status)
    PROVE  Spared'
<1>1. meta' \in [Jobs -> JobStatus]
  BY DEF Spared, TaskStep
<1>2. Queued' \subseteq Queued
  BY DEF Spared, TaskStep, Queued
<1> QED
  BY <1>1, <1>2 DEF Spared, SparesQueued, TaskStep, wdVars

\* A new request enters its jobs as queued while the watchdog decides.
LEMMA RequestIsSeen ==
    ASSUME NEW takes \in 1 .. 2, NEW extend \in BOOLEAN,
           Spared, Generate(takes, extend)
    PROVE  Spared'
<1> DEFINE used == Cardinality({j \in Jobs : meta[j] # "none"})
           new == {j \in Jobs : j > used /\ j <= used + takes}
<1>1. PICK b \in Boxes \cup {None} :
         meta' = [j \in Jobs |-> IF j \notin new THEN meta[j]
                    ELSE IF b # None /\ box[b] = "running" THEN "queued" ELSE "failed"]
  BY DEF Generate
<1>2. since' = since \cup new /\ wd' = wd
  BY DEF Generate
<1> HIDE DEF new
<1>3. meta' \in [Jobs -> JobStatus]
  BY <1>1 DEF Spared, JobStatus
<1>4. Queued' \subseteq Queued \cup new
  BY <1>1 DEF Queued
<1> QED
  BY <1>2, <1>3, <1>4 DEF Spared, SparesQueued

\* Steps of the box, of the worker and of the clock leave the files and the
\* watchdog alone.
LEMMA Unconcerned ==
    Spared /\ UNCHANGED <<meta, wd, since>> => Spared'
  BY DEF Spared, SparesQueued, Queued

\* Only a scan that saw no queued job is followed by a look.
LEMMA WatchdogDecides == Spared /\ Watchdog => Spared'
<1> SUFFICES ASSUME Spared, Watchdog PROVE Spared'
  OBVIOUS
<1>1. meta' = meta /\ Queued' = Queued
  BY DEF Watchdog, Scan, Decide, Look, Kill, Reset, WatchdogStep, jobVars, Queued
<1>2. CASE Scan
  BY <1>1, <1>2 DEF Scan, WatchdogStep, Spared, SparesQueued
<1>3. CASE Decide
  <2>1. since' = since /\ ~wd'.busy /\ wd'.pc \in {"look", "sleep"}
    BY <1>3 DEF Decide, WatchdogStep
  <2>2. wd.busy => wd'.pc = "sleep"
    BY <1>3, GpuStudioAssumption DEF Decide, WatchdogStep
  <2> QED
    BY <1>1, <1>3, <2>1, <2>2 DEF Spared, SparesQueued, Decide
<1>4. CASE Look
  BY <1>1, <1>4 DEF Look, WatchdogStep, Spared, SparesQueued
<1>5. CASE Kill
  BY <1>1, <1>5 DEF Kill, WatchdogStep, Spared, SparesQueued
<1>6. CASE Reset
  BY <1>1, <1>6 DEF Reset, WatchdogStep, Spared, SparesQueued
<1> QED
  BY <1>2, <1>3, <1>4, <1>5, <1>6 DEF Watchdog

LEMMA TaskSettles ==
    ASSUME NEW j \in Jobs, Spared, TaskNext(j)
    PROVE  Spared'
<1>0. meta[j] \in JobStatus /\ "failed" \in JobStatus /\ "completed" \in JobStatus
  BY DEF Spared, JobStatus
<1>1. CASE Submit(j)
  BY <1>0, <1>1, NothingQueued DEF Submit, TaskFails
<1>2. CASE Poll(j)
  BY <1>0, <1>2, NothingQueued DEF Poll, TaskFails
<1>3. CASE Fetch(j)
  BY <1>0, <1>3, NothingQueued DEF Fetch, TaskFails
<1>4. CASE Finish(j)
  BY <1>0, <1>4, NothingQueued DEF Finish
<1> QED
  BY <1>1, <1>2, <1>3, <1>4 DEF TaskNext

\* The watchdog takes the box from no job that was queued before it read the
\* files: what is queued when it looks for the box came in while it decided.
THEOREM SparesQueuedJobs == Spec => []SparesQueued
<1>1. Init => Spared
  BY DEF Init, Spared, SparesQueued, Blank, JobStatus
<1>2. Spared /\ [Next]_vars => Spared'
  <2> SUFFICES ASSUME Spared, [Next]_vars PROVE Spared'
    OBVIOUS
  <2>1. CASE UNCHANGED vars
    BY <2>1, Unconcerned DEF vars, jobVars, wdVars
  <2>2. ASSUME NEW l \in Launches, LaunchRequested(l) \/ LaunchNext(l)
        PROVE  Spared'
    BY <2>2, Unconcerned
    DEF LaunchRequested, LaunchNext, LaunchCheck, LaunchRun, LaunchFails, jobVars, wdVars
  <2>3. ASSUME NEW b \in Boxes,
               \/ BoxRuns(b) \/ Reclaimed(b)
               \/ WorkerUp(b) \/ LoadModel(b) \/ RestartWorker(b)
        PROVE  Spared'
    BY <2>3, Unconcerned
    DEF BoxRuns, Reclaimed, WorkerUp, LoadModel, RestartWorker, WorkerStep, jobVars, wdVars
  <2>4. ASSUME NEW b \in Boxes, NEW j \in Jobs, ThreadNext(b, j) \/ ThreadDies(b, j)
        PROVE  Spared'
    BY <2>4, Unconcerned
    DEF ThreadNext, Render, Encode, Complete, RenderFails, FreeSlot, ThreadDies, Thread,
        WorkerStep, jobVars, wdVars
  <2>5. CASE Terminate \/ Tick
    BY <2>5, Unconcerned DEF Terminate, Tick, jobVars, wdVars
  <2>6. CASE RestartStudio
    BY <2>6 DEF RestartStudio, Spared, SparesQueued
  <2> QED
    BY <2>1, <2>2, <2>3, <2>4, <2>5, <2>6, RequestIsSeen, TaskSettles, WatchdogDecides DEF Next
<1>3. Spared => SparesQueued
  BY DEF Spared
<1> QED
  BY <1>1, <1>2, <1>3, PTL DEF Spec

-----------------------------------------------------------------------------
(* The worker's one slot *)

WorkerType ==
    [state : {"down", "warming", "ready"}, active : 0 .. 1,
     jobs : [Jobs -> JobStatus],
     thread : [Jobs -> {"none", "queued", "rendering", "encoding", "ending", "dead"}],
     disk : [Jobs -> File]]

TaskType ==
    [pc : {"none", "submit", "poll", "fetch", "finish", "done", "dropped", "killed"},
     box : Boxes \cup {None}, after : Jobs \cup {None}]

\* The count of used slots is the number of threads.
Slots(w) ==
    \/ w.active = 0 /\ \A j \in Jobs : w.thread[j] = "none"
    \/ /\ w.active = 1
       /\ \E j \in Jobs : w.thread[j] # "none" /\ \A i \in Jobs : w.thread[i] # "none" => i = j

TypeInv == TypeOK /\ \A b \in Boxes : Slots(worker[b])

\* A new worker process has no thread.
LEMMA NewWorker ==
    ASSUME NEW state \in {"down", "warming", "ready"}, NEW disk \in [Jobs -> File]
    PROVE  Worker(state, disk) \in WorkerType /\ Slots(Worker(state, disk))
BY DEF Worker, WorkerType, Slots, Blank, JobStatus

LEMMA NothingOnDisk == Blank("none") \in [Jobs -> File]
BY DEF Blank, File

\* A step of one worker.
LEMMA WorkerMoves ==
    ASSUME TypeInv, NEW b \in Boxes, NEW w \in WorkerType, Slots(w),
           worker' = [worker EXCEPT ![b] = w], UNCHANGED <<awsVars, jobVars, wdVars>>,
           torn' \subseteq Jobs, faults' \in 0 .. MaxFaults, restarts' \in 0 .. MaxRestarts
    PROVE  TypeInv'
<1>1. worker' \in [Boxes -> WorkerType]
    BY DEF TypeInv, TypeOK, WorkerType
<1>2. \A c \in Boxes : Slots(worker'[c])
    BY DEF TypeInv, TypeOK, WorkerType
<1>3. \A c \in Boxes : Slots(worker[c])'
    BY <1>2 DEF Slots
<1> QED
    BY <1>1, <1>3 DEF TypeInv, TypeOK, WorkerType, awsVars, jobVars, wdVars

\* Boxes go, and their workers with them.
LEMMA BoxesGo ==
    ASSUME TypeInv, NEW boxes, Gone(boxes), UNCHANGED <<launch, jobVars, torn, restarts>>,
           wd' \in [pc : {"sleep", "decide", "look", "kill", "reset"}, busy : BOOLEAN],
           UNCHANGED <<idle, since>>, faults' \in 0 .. MaxFaults
    PROVE  TypeInv'
<1>0. Worker("down", Blank("none")) \in WorkerType /\ Slots(Worker("down", Blank("none")))
    BY NewWorker, NothingOnDisk
<1>1. worker' \in [Boxes -> WorkerType] /\ \A c \in Boxes : Slots(worker'[c])
    BY <1>0 DEF Gone, TypeInv, TypeOK, WorkerType
<1>2. box' \in [Boxes -> {"unborn", "pending", "running", "gone"}]
    BY DEF Gone, TypeInv, TypeOK
<1>3. \A c \in Boxes : Slots(worker[c])'
    BY <1>1 DEF Slots
<1> QED
    BY <1>1, <1>2, <1>3 DEF TypeInv, TypeOK, WorkerType, jobVars

\* The worker takes a job into its free slot.
LEMMA SlotTaken ==
    ASSUME TypeInv, NEW b \in Boxes, NEW j \in Jobs, Free(b), Accepted(b, j)
    PROVE  worker' \in [Boxes -> WorkerType] /\ \A c \in Boxes : Slots(worker[c])'
<1> DEFINE w == [worker[b] EXCEPT !.active = @ + 1, !.jobs[j] = "queued", !.thread[j] = "queued"]
<1>1. worker[b] \in WorkerType /\ worker[b].active = 0 /\ Slots(worker[b])
    BY DEF TypeInv, TypeOK, WorkerType, Free
<1>2. \A i \in Jobs : worker[b].thread[i] = "none"
    BY <1>1 DEF Slots
<1>3. worker' = [worker EXCEPT ![b] = w]
    BY <1>1 DEF Accepted, TypeInv, TypeOK, WorkerType
<1>4. /\ w.active = 1 /\ w.jobs = [worker[b].jobs EXCEPT ![j] = "queued"] /\ w.disk = worker[b].disk
      /\ w.thread = [worker[b].thread EXCEPT ![j] = "queued"] /\ w.state = worker[b].state
    BY <1>1 DEF WorkerType
<1>8. DOMAIN w = {"state", "active", "jobs", "thread", "disk"}
    BY <1>1 DEF WorkerType
<1>9. w = [f \in {"state", "active", "jobs", "thread", "disk"} |-> w[f]]
    BY <1>8
<1> HIDE DEF w
<1>7. w.jobs \in [Jobs -> JobStatus]
    BY <1>1, <1>4 DEF WorkerType, JobStatus
<1>5. w \in WorkerType /\ Slots(w)
    BY <1>1, <1>2, <1>4, <1>7, <1>8, <1>9 DEF WorkerType, Slots
<1>6. worker' \in [Boxes -> WorkerType] /\ \A c \in Boxes : Slots(worker'[c])
    BY <1>3, <1>5 DEF TypeInv, TypeOK, WorkerType
<1> QED
    BY <1>6 DEF Slots

\* A background task goes on.
LEMMA TaskGoesOn ==
    ASSUME TypeInv, NEW j \in Jobs,
           NEW pc \in {"none", "submit", "poll", "fetch", "finish", "done", "dropped", "killed"},
           NEW status \in JobStatus \ {"running"}, TaskStep(j, pc, status),
           video' \in [Jobs -> File], faults' \in 0 .. MaxFaults,
           worker' \in [Boxes -> WorkerType], \A b \in Boxes : Slots(worker[b])'
    PROVE  TypeInv'
<1>1. meta' \in [Jobs -> JobStatus \ {"running"}]
    BY DEF TypeInv, TypeOK, TaskStep
<1>2. task' \in [Jobs -> TaskType]
    <2>1. \A t \in TaskType : [t EXCEPT !.pc = pc] \in TaskType
        BY DEF TaskType
    <2>2. task \in [Jobs -> TaskType] /\ task' = [task EXCEPT ![j] = [task[j] EXCEPT !.pc = pc]]
        BY DEF TypeInv, TypeOK, TaskStep, TaskType
    <2> QED
        BY <2>1, <2>2
<1> QED
    BY <1>1, <1>2 DEF TaskType, TypeInv, TypeOK, WorkerType, TaskStep, awsVars, wdVars

\* A thread takes its next step.
LEMMA ThreadMoves ==
    ASSUME TypeInv, NEW b \in Boxes, NEW j \in Jobs, NEW from, "none" \notin from,
           NEW to \in {"rendering", "encoding", "ending"},
           NEW status \in JobStatus, NEW file \in File, Thread(b, j, from, to, status, file)
    PROVE  TypeInv'
<1> DEFINE w == [worker[b] EXCEPT !.thread[j] = to, !.jobs[j] = status, !.disk[j] = file]
<1>1. worker[b] \in WorkerType /\ Slots(worker[b]) /\ worker[b].thread[j] \in from
    BY DEF TypeInv, TypeOK, WorkerType, Thread
<1>2. worker' = [worker EXCEPT ![b] = w] /\ UNCHANGED <<awsVars, jobVars, wdVars, faults, torn, restarts>>
    BY DEF Thread, WorkerStep
<1>3. /\ w.active = worker[b].active /\ w.jobs = [worker[b].jobs EXCEPT ![j] = status]
      /\ w.disk = [worker[b].disk EXCEPT ![j] = file] /\ w.state = worker[b].state
      /\ w.thread = [worker[b].thread EXCEPT ![j] = to]
    BY <1>1 DEF WorkerType
<1>4. DOMAIN w = {"state", "active", "jobs", "thread", "disk"}
    BY <1>1 DEF WorkerType
<1>5. w = [f \in {"state", "active", "jobs", "thread", "disk"} |-> w[f]]
    BY <1>4
<1> HIDE DEF w
<1>6. w \in WorkerType
    BY <1>1, <1>3, <1>4, <1>5 DEF WorkerType
<1>7. Slots(w)
    BY <1>1, <1>3 DEF WorkerType, Slots
<1> QED
    BY <1>2, <1>6, <1>7, WorkerMoves DEF TypeInv, TypeOK

LEMMA TypeInvariant == Spec => []TypeInv
<1>0. /\ None \notin Boxes /\ Limit \in Nat /\ MaxFaults \in Nat /\ MaxRestarts \in Nat
      /\ File = {"none", "partial", "whole"}
      /\ JobStatus = {"none", "queued", "running", "completed", "failed"}
    BY GpuStudioAssumption DEF None, File, JobStatus
<1>1. Init => TypeInv
    <2> SUFFICES ASSUME Init PROVE TypeInv
        OBVIOUS
    <2>1. Worker("down", Blank("none")) \in WorkerType /\ Slots(Worker("down", Blank("none")))
        BY NewWorker, NothingOnDisk
    <2>2. worker \in [Boxes -> WorkerType] /\ \A b \in Boxes : Slots(worker[b])
        BY <2>1 DEF Init
    <2> QED
        BY <1>0, <2>2 DEF Init, TypeInv, TypeOK, WorkerType, Blank
<1>2. TypeInv /\ [Next]_vars => TypeInv'
    <2> SUFFICES ASSUME TypeInv, [Next]_vars PROVE TypeInv'
        OBVIOUS
    <2>0. worker \in [Boxes -> WorkerType] /\ \A b \in Boxes : worker[b] \in WorkerType /\ Slots(worker[b])
        BY DEF TypeInv, TypeOK, WorkerType
    <2>1. CASE UNCHANGED vars
        BY <2>1 DEF vars, awsVars, jobVars, wdVars, TypeInv, TypeOK, Slots
    <2>2. ASSUME NEW l \in Launches, LaunchRequested(l) \/ LaunchNext(l) PROVE TypeInv'
        <3>1. faults' \in 0 .. MaxFaults
            BY <1>0, <2>2
            DEF LaunchRequested, LaunchNext, LaunchCheck, LaunchRun, LaunchFails, Lookup, Fault,
                TypeInv, TypeOK
        <3>2. UNCHANGED <<worker, jobVars, wdVars, torn, restarts>>
            BY <2>2 DEF LaunchRequested, LaunchNext, LaunchCheck, LaunchRun, LaunchFails
        <3>3. launch' \in [Launches -> {"none", "check", "run", "done"}]
            <4>1. \E step \in {"check", "run", "done"} : launch' = [launch EXCEPT ![l] = step]
                BY <2>2 DEF LaunchRequested, LaunchNext, LaunchCheck, LaunchRun, LaunchFails
            <4>2. launch \in [Launches -> {"none", "check", "run", "done"}]
                BY DEF TypeInv, TypeOK
            <4> QED
                BY <4>1, <4>2
        <3>4. box' \in [Boxes -> {"unborn", "pending", "running", "gone"}]
            BY <2>2
            DEF LaunchRequested, LaunchNext, LaunchCheck, LaunchRun, LaunchFails, TypeInv, TypeOK
        <3> QED
            BY <3>1, <3>2, <3>3, <3>4 DEF jobVars, wdVars, TypeInv, TypeOK, Slots
    <2>3. ASSUME NEW b \in Boxes, BoxRuns(b) PROVE TypeInv'
        BY <2>3 DEF BoxRuns, jobVars, wdVars, TypeInv, TypeOK, Slots
    <2>4. ASSUME NEW b \in Boxes, Reclaimed(b) PROVE TypeInv'
        BY <1>0, <2>4, BoxesGo DEF Reclaimed, Fault, wdVars, TypeInv, TypeOK
    <2>5. ASSUME NEW b \in Boxes, WorkerUp(b) \/ LoadModel(b) PROVE TypeInv'
        <3>1. PICK state \in {"warming", "ready"} : WorkerStep(b, [worker[b] EXCEPT !.state = state])
            BY <2>5 DEF WorkerUp, LoadModel
        <3>2. [worker[b] EXCEPT !.state = state] \in WorkerType /\ Slots([worker[b] EXCEPT !.state = state])
            BY <2>0 DEF WorkerType, Slots
        <3> QED
            BY <2>5, <3>1, <3>2, WorkerMoves DEF WorkerUp, LoadModel, WorkerStep, TypeInv, TypeOK
    <2>6. ASSUME NEW b \in Boxes, RestartWorker(b) PROVE TypeInv'
        <3>1. Worker("warming", worker[b].disk) \in WorkerType /\ Slots(Worker("warming", worker[b].disk))
            BY <2>0, NewWorker DEF WorkerType
        <3>2. torn' \subseteq Jobs /\ restarts' \in 0 .. MaxRestarts
            BY <1>0, <2>6 DEF RestartWorker, TypeInv, TypeOK
        <3> QED
            BY <2>6, <3>1, <3>2, WorkerMoves DEF RestartWorker, WorkerStep, TypeInv, TypeOK
    <2>7. ASSUME NEW b \in Boxes, NEW j \in Jobs, ThreadNext(b, j) PROVE TypeInv'
        <3>1. worker[b].disk[j] \in File /\ worker[b].jobs[j] \in JobStatus
            BY <2>0 DEF WorkerType
        <3>2. CASE Render(b, j)
            BY <1>0, <3>1, <3>2, ThreadMoves DEF Render
        <3>3. CASE Encode(b, j)
            BY <1>0, <3>3, ThreadMoves DEF Encode
        <3>4. CASE Complete(b, j)
            BY <1>0, <3>4, ThreadMoves DEF Complete
        <3>5. CASE RenderFails(b, j)
            BY <1>0, <3>1, <3>5, ThreadMoves DEF RenderFails
        <3>6. CASE FreeSlot(b, j)
            <4> DEFINE w == [worker[b] EXCEPT !.thread[j] = "none", !.active = @ - 1]
            <4>1. worker[b].thread[j] = "ending" /\ WorkerStep(b, w) /\ UNCHANGED <<torn, restarts>>
                BY <3>6 DEF FreeSlot
            <4>2. worker[b].active = 1 /\ \A i \in Jobs : i # j => worker[b].thread[i] = "none"
                BY <2>0, <4>1 DEF Slots
            <4>3. /\ w.active = 0 /\ w.jobs = worker[b].jobs /\ w.disk = worker[b].disk
                  /\ w.state = worker[b].state /\ w.thread = [worker[b].thread EXCEPT ![j] = "none"]
                BY <2>0, <4>2 DEF WorkerType
            <4>4. DOMAIN w = {"state", "active", "jobs", "thread", "disk"}
                BY <2>0 DEF WorkerType
            <4>5. w = [f \in {"state", "active", "jobs", "thread", "disk"} |-> w[f]]
                BY <4>4
            <4> HIDE DEF w
            <4>6. w \in WorkerType
                BY <2>0, <4>3, <4>4, <4>5 DEF WorkerType
            <4>7. Slots(w)
                BY <2>0, <4>2, <4>3 DEF WorkerType, Slots
            <4> QED
                BY <4>1, <4>6, <4>7, WorkerMoves DEF WorkerStep, TypeInv, TypeOK
        <3> QED
            BY <2>7, <3>2, <3>3, <3>4, <3>5, <3>6 DEF ThreadNext
    <2>d. ASSUME NEW b \in Boxes, NEW j \in Jobs, ThreadDies(b, j) PROVE TypeInv'
        <3> DEFINE w == [worker[b] EXCEPT !.thread[j] = "dead"]
        <3>1. worker[b].thread[j] \in {"queued", "ending"} /\ worker' = [worker EXCEPT ![b] = w]
            BY <2>0, <2>d DEF ThreadDies
        <3>2. /\ w.active = worker[b].active /\ w.jobs = worker[b].jobs
              /\ w.disk = worker[b].disk /\ w.state = worker[b].state
              /\ w.thread = [worker[b].thread EXCEPT ![j] = "dead"]
            BY <2>0 DEF WorkerType
        <3>3. DOMAIN w = {"state", "active", "jobs", "thread", "disk"}
            BY <2>0 DEF WorkerType
        <3>4. w = [f \in {"state", "active", "jobs", "thread", "disk"} |-> w[f]]
            BY <3>3
        <3> HIDE DEF w
        <3>5. w \in WorkerType
            BY <2>0, <3>2, <3>3, <3>4 DEF WorkerType
        <3>6. Slots(w)
            BY <2>0, <3>1, <3>2 DEF WorkerType, Slots
        <3>7. faults' \in 0 .. MaxFaults
            BY <1>0, <2>d DEF ThreadDies, Fault, TypeInv, TypeOK
        <3> QED
            BY <2>d, <3>1, <3>5, <3>6, <3>7, WorkerMoves DEF ThreadDies, TypeInv, TypeOK
    <2>8. ASSUME NEW takes \in 1 .. 2, NEW extend \in BOOLEAN, Generate(takes, extend) PROVE TypeInv'
        <3> DEFINE used == Cardinality({j \in Jobs : meta[j] # "none"})
                   new == {j \in Jobs : j > used /\ j <= used + takes}
        <3>1. PICK b \in Boxes \cup {None} :
                /\ Lookup(b)
                /\ meta' = [j \in Jobs |->
                     IF j \notin new THEN meta[j]
                     ELSE IF b # None /\ box[b] = "running" THEN "queued" ELSE "failed"]
                /\ task' = [j \in Jobs |->
                     IF j \in new /\ b # None /\ box[b] = "running"
                     THEN [pc |-> FirstStep(takes, extend), box |-> b,
                           after |-> IF j - 1 \in new THEN j - 1 ELSE None]
                     ELSE task[j]]
            BY <2>8 DEF Generate
        <3>2. /\ UNCHANGED <<awsVars, worker, video, wd, torn, restarts>>
              /\ idle' = 0 /\ since' = since \cup new /\ new \subseteq Jobs
            BY <2>8 DEF Generate
        <3> HIDE DEF new
        <3>3. faults' \in 0 .. MaxFaults
            BY <1>0, <3>1 DEF Lookup, Fault, TypeInv, TypeOK
        <3>4. meta' \in [Jobs -> JobStatus \ {"running"}]
            BY <1>0, <3>1 DEF TypeInv, TypeOK
        <3>5. task' \in [Jobs ->
                [pc : {"none", "submit", "poll", "fetch", "finish", "done", "dropped", "killed"},
                 box : Boxes \cup {None}, after : Jobs \cup {None}]]
            BY <3>1, <3>2 DEF FirstStep, TypeInv, TypeOK
        <3> QED
            BY <1>0, <3>2, <3>3, <3>4, <3>5 DEF awsVars, TypeInv, TypeOK, Slots
    <2>9. ASSUME NEW j \in Jobs, TaskNext(j) PROVE TypeInv'
        <3>1. PICK pc \in {"poll", "fetch", "finish", "done"},
                   status \in JobStatus \ {"running"} : TaskStep(j, pc, status)
            BY <1>0, <2>9
            DEF TaskNext, Submit, Poll, Fetch, Finish, TaskFails, TypeInv, TypeOK
        <3>2. faults' \in 0 .. MaxFaults
            BY <1>0, <2>9 DEF TaskNext, Submit, Poll, Fetch, Finish, Fault, TypeInv, TypeOK
        <3>3. video' \in [Jobs -> File]
            <4>1. CASE Fetch(j)
                <5>1. PICK file \in File : video' \in {video, [video EXCEPT ![j] = file]}
                    BY <1>0, <2>0, <4>1 DEF Fetch, Reachable, WorkerType
                <5> QED
                    BY <5>1 DEF TypeInv, TypeOK
            <4> QED
                BY <2>9, <4>1 DEF TaskNext, Submit, Poll, Finish, TypeInv, TypeOK
        <3>4. worker' \in [Boxes -> WorkerType] /\ \A b \in Boxes : Slots(worker[b])'
            <4>1. CASE worker' = worker
                BY <2>0, <4>1 DEF Slots
            <4>2. CASE Reachable(task[j].box) /\ Free(task[j].box) /\ Accepted(task[j].box, j)
                BY <4>2, SlotTaken DEF Reachable
            <4> QED
                BY <2>9, <4>1, <4>2 DEF TaskNext, Submit, Poll, Fetch, Finish
        <3> QED
            BY <3>1, <3>2, <3>3, <3>4, TaskGoesOn
    <2>10. CASE Terminate
        BY <2>10, BoxesGo DEF Terminate, wdVars, TypeInv, TypeOK
    <2>11. CASE Watchdog
        <3>0. PICK pc \in {"sleep", "decide", "look", "kill", "reset"}, busy \in {Queued # {}, FALSE} :
                WatchdogStep(pc, busy)
            BY <2>11 DEF Watchdog, Scan, Decide, Look, Kill, Reset
        <3>b. busy \in BOOLEAN
            BY Zenon
        <3>1. wd' \in [pc : {"sleep", "decide", "look", "kill", "reset"}, busy : BOOLEAN]
            BY <3>0, <3>b DEF WatchdogStep
        <3>2. UNCHANGED <<launch, jobVars, torn, restarts>>
            BY <2>11 DEF Watchdog, Scan, Decide, Look, Kill, Reset, WatchdogStep, awsVars
        <3>3. faults' \in 0 .. MaxFaults
            <4>1. faults' = faults \/ Fault
                BY <2>11 DEF Watchdog, Scan, Decide, Look, Kill, Reset, Lookup
            <4> QED
                BY <1>0, <4>1 DEF Fault, TypeInv, TypeOK
        <3>4. CASE Gone(Alive) /\ UNCHANGED <<idle, since>>
            BY <3>1, <3>2, <3>3, <3>4, BoxesGo
        <3>5. CASE UNCHANGED <<box, worker>> /\ idle' \in {idle, 0} /\ since' \in {since, {}}
            BY <1>0, <3>1, <3>2, <3>3, <3>5 DEF jobVars, TypeInv, TypeOK, Slots
        <3> QED
            BY <2>11, <3>4, <3>5 DEF Watchdog, Scan, Decide, Look, Kill, Reset, awsVars
    <2>12. CASE Tick
        BY <1>0, <2>12 DEF Tick, awsVars, jobVars, TypeInv, TypeOK, Slots
    <2>13. CASE RestartStudio
        <3>1. task' \in [Jobs ->
                [pc : {"none", "submit", "poll", "fetch", "finish", "done", "dropped", "killed"},
                 box : Boxes \cup {None}, after : Jobs \cup {None}]]
            <4>1. \A t \in TaskType : [t EXCEPT !.pc = "killed"] \in TaskType
                BY DEF TaskType
            <4>2. task \in [Jobs -> TaskType]
                BY DEF TypeInv, TypeOK, TaskType
            <4>3. task' = [j \in Jobs |-> IF Live(j) THEN [task[j] EXCEPT !.pc = "killed"] ELSE task[j]]
                BY <2>13 DEF RestartStudio
            <4>4. task' \in [Jobs -> TaskType]
                BY <4>1, <4>2, <4>3
            <4> QED
                BY <4>4 DEF TaskType
        <3> QED
            BY <1>0, <2>13, <3>1 DEF RestartStudio, TypeInv, TypeOK, Slots
    <2> QED
        BY <2>1, <2>2, <2>3, <2>4, <2>5, <2>6, <2>7, <2>d, <2>8, <2>9, <2>10, <2>11, <2>12, <2>13
        DEF Next
<1>3. TypeInv => TypeOK
    BY DEF TypeInv
<1> QED
    BY <1>1, <1>2, PTL DEF Spec

\* The worker's one slot is never given twice, and its count never drops below zero, through
\* lost answers, failed renders, dying threads and restarts.
THEOREM TypeCorrect == Spec => []TypeOK
<1>1. TypeInv => TypeOK
    BY DEF TypeInv
<1> QED
    BY <1>1, TypeInvariant, PTL

-----------------------------------------------------------------------------
(* What is marked completed is whole *)

AtRest == {"none", "ending", "dead"}

\* What a worker reports as completed is whole on its disk, and it does not write it any
\* more.  It takes a file of a job that it does not know for a completed one.
WorkerWhole(w, kept) == \A j \in Jobs :
    /\ w.jobs[j] \in {"none", "completed"} =>
         w.thread[j] \in AtRest /\ (w.disk[j] # "partial" \/ j \in kept)
    /\ w.jobs[j] = "completed" => w.disk[j] = "whole" \/ j \in kept

\* A task fetches a file that is whole, if its box is still there.
TaskWhole(j) ==
    /\ task[j].pc = "fetch" =>
         LET b == task[j].box IN
         /\ b \in Boxes
         /\ \/ box[b] = "gone"
            \/ /\ worker[b].thread[j] \in AtRest
               /\ worker[b].disk[j] = "whole" \/ j \in torn
    /\ task[j].pc = "finish" => video[j] = "whole" \/ j \in torn
    /\ meta[j] = "completed" => ~Live(j) /\ (video[j] = "whole" \/ j \in torn)

WholeInv ==
    /\ \A b \in Boxes : WorkerWhole(worker[b], torn)
    /\ \A j \in Jobs : TaskWhole(j)

\* From worker v to worker w the files of the threads at rest are not touched.
FilesKept(v, w) == \A j \in Jobs :
    v.thread[j] \in AtRest => w.thread[j] \in AtRest /\ w.disk[j] = v.disk[j]

LEMMA FilesAreKept ==
    ASSUME TypeInv, WholeInv, NEW b \in Boxes, NEW w, worker' = [worker EXCEPT ![b] = w],
           torn \subseteq torn', WorkerWhole(w, torn'), UNCHANGED <<box, jobVars>>,
           FilesKept(worker[b], w)
    PROVE  WholeInv'
<1>0. worker'[b] = w /\ \A c \in Boxes : c # b => worker'[c] = worker[c]
    BY DEF TypeInv, TypeOK
<1>1. \A c \in Boxes : WorkerWhole(worker[c], torn)'
    BY <1>0 DEF WholeInv, WorkerWhole
<1>2. ASSUME NEW j \in Jobs PROVE TaskWhole(j)'
    <2>1. TaskWhole(j)
        BY DEF WholeInv
    <2> QED
        BY <1>0, <2>1 DEF TaskWhole, Live, jobVars, FilesKept
<1> QED
    BY <1>1, <1>2 DEF WholeInv

LEMMA BoxesTakeTheirFiles ==
    ASSUME TypeInv, WholeInv, NEW boxes, Gone(boxes), UNCHANGED <<torn, jobVars>>
    PROVE  WholeInv'
<1>1. WorkerWhole(Worker("down", Blank("none")), torn)
    BY DEF WorkerWhole, Worker, Blank, AtRest
<1>2. \A c \in Boxes : WorkerWhole(worker[c], torn)'
    <2>1. \A c \in Boxes : WorkerWhole(worker'[c], torn')
        BY <1>1 DEF Gone, WholeInv
    <2> QED
        BY <2>1 DEF WorkerWhole
<1>3. ASSUME NEW j \in Jobs PROVE TaskWhole(j)'
    <2>1. TaskWhole(j)
        BY DEF WholeInv
    <2> QED
        BY <2>1 DEF TaskWhole, Live, jobVars, Gone
<1> QED
    BY <1>2, <1>3 DEF WholeInv

LEMMA WholeInvariant == Spec => []WholeInv
<1>1. Init => WholeInv
    BY DEF Init, WholeInv, WorkerWhole, TaskWhole, Worker, Blank, AtRest, Live, None
<1>2. TypeInv /\ WholeInv /\ [Next]_vars => WholeInv'
    <2> SUFFICES ASSUME TypeInv, WholeInv, [Next]_vars PROVE WholeInv'
        OBVIOUS
    <2>0. worker \in [Boxes -> WorkerType] /\ \A b \in Boxes : worker[b] \in WorkerType
        BY DEF TypeInv, TypeOK, WorkerType
    \* Steps that leave the workers, the jobs and the boxes that are gone alone.
    <2>1. CASE /\ UNCHANGED <<worker, jobVars, torn>>
               /\ \A b \in Boxes : box[b] = "gone" => box'[b] = "gone"
        <3>1. \A b \in Boxes : WorkerWhole(worker[b], torn)'
            BY <2>1 DEF WholeInv, WorkerWhole
        <3>2. ASSUME NEW j \in Jobs PROVE TaskWhole(j)'
            <4>1. TaskWhole(j)
                BY DEF WholeInv
            <4> QED
                BY <2>1, <4>1 DEF TaskWhole, Live, jobVars
        <3> QED
            BY <3>1, <3>2 DEF WholeInv
    <2>2. ASSUME NEW l \in Launches, LaunchRequested(l) \/ LaunchNext(l) PROVE WholeInv'
        <3>1. UNCHANGED <<worker, jobVars, torn>>
            BY <2>2 DEF LaunchRequested, LaunchNext, LaunchCheck, LaunchRun, LaunchFails
        <3>2. \A b \in Boxes : box[b] = "gone" => box'[b] = "gone"
            BY <2>2
            DEF LaunchRequested, LaunchNext, LaunchCheck, LaunchRun, LaunchFails, TypeInv, TypeOK
        <3> QED
            BY <2>1, <3>1, <3>2
    <2>3. ASSUME NEW b \in Boxes, BoxRuns(b) PROVE WholeInv'
        BY <2>1, <2>3 DEF BoxRuns, TypeInv, TypeOK
    <2>4. ASSUME NEW b \in Boxes, Reclaimed(b) PROVE WholeInv'
        BY <2>4, BoxesTakeTheirFiles DEF Reclaimed
    <2>5. ASSUME NEW b \in Boxes, WorkerUp(b) \/ LoadModel(b) PROVE WholeInv'
        <3>1. PICK state \in {"warming", "ready"} : WorkerStep(b, [worker[b] EXCEPT !.state = state])
            BY <2>5 DEF WorkerUp, LoadModel
        <3> DEFINE w == [worker[b] EXCEPT !.state = state]
        <3>2. w.jobs = worker[b].jobs /\ w.disk = worker[b].disk /\ w.thread = worker[b].thread
            BY <2>0 DEF WorkerType
        <3>3. torn' = torn /\ worker' = [worker EXCEPT ![b] = w] /\ UNCHANGED <<box, jobVars>>
            BY <2>5, <3>1 DEF WorkerUp, LoadModel, WorkerStep, awsVars
        <3> HIDE DEF w
        <3>4. WorkerWhole(w, torn')
            BY <3>2, <3>3 DEF WholeInv, WorkerWhole
        <3>5. FilesKept(worker[b], w)
            BY <3>2 DEF FilesKept
        <3> QED
            BY <3>3, <3>4, <3>5, FilesAreKept
    <2>6. ASSUME NEW b \in Boxes, RestartWorker(b) PROVE WholeInv'
        <3> DEFINE w == Worker("warming", worker[b].disk)
        <3>1. w.jobs = Blank("none") /\ w.disk = worker[b].disk /\ w.thread = Blank("none")
            BY DEF Worker
        <3>2. /\ torn' = torn \cup {j \in Jobs : worker[b].disk[j] = "partial"}
              /\ worker' = [worker EXCEPT ![b] = w] /\ UNCHANGED <<box, jobVars>>
            BY <2>6 DEF RestartWorker, WorkerStep, awsVars
        <3> HIDE DEF w
        <3>3. WorkerWhole(w, torn')
            BY <3>1, <3>2 DEF WorkerWhole, Blank, AtRest
        <3>4. \A j \in Jobs : w.thread[j] \in AtRest
            BY <3>1 DEF Blank, AtRest
        <3>5. FilesKept(worker[b], w)
            BY <3>1, <3>4 DEF FilesKept
        <3> QED
            BY <3>2, <3>3, <3>5, FilesAreKept
    <2>7. ASSUME NEW b \in Boxes, NEW i \in Jobs, ThreadNext(b, i) PROVE WholeInv'
        <3>0. worker[b] \in WorkerType /\ WorkerWhole(worker[b], torn)
            BY <2>0 DEF WholeInv
        <3>1. CASE FreeSlot(b, i)
            <4> DEFINE w == [worker[b] EXCEPT !.thread[i] = "none", !.active = @ - 1]
            <4>1. /\ w.jobs = worker[b].jobs /\ w.disk = worker[b].disk
                  /\ w.thread = [worker[b].thread EXCEPT ![i] = "none"]
                BY <3>0 DEF WorkerType
            <4>2. torn' = torn /\ worker' = [worker EXCEPT ![b] = w] /\ UNCHANGED <<box, jobVars>>
                BY <3>1 DEF FreeSlot, WorkerStep, awsVars
            <4> HIDE DEF w
            <4>3. \A j \in Jobs : worker[b].thread[j] \in AtRest => w.thread[j] \in AtRest
                BY <3>0, <4>1 DEF WorkerType, AtRest
            <4>4. WorkerWhole(w, torn')
                BY <3>0, <4>1, <4>2, <4>3 DEF WorkerWhole
            <4>5. FilesKept(worker[b], w)
                BY <4>1, <4>3 DEF FilesKept
            <4> QED
                BY <4>2, <4>4, <4>5, FilesAreKept
        <3>2. ASSUME NEW from, NEW to, NEW status \in JobStatus, NEW file,
                     Thread(b, i, from, to, status, file), from \cap AtRest = {},
                     status # "none",
                     status = "completed" => to = "ending" /\ file = "whole"
              PROVE  WholeInv'
            <4>0. PICK w : w = [worker[b] EXCEPT !.thread[i] = to, !.jobs[i] = status, !.disk[i] = file]
                OBVIOUS
            <4>1. /\ w.jobs = [worker[b].jobs EXCEPT ![i] = status]
                  /\ w.disk = [worker[b].disk EXCEPT ![i] = file]
                  /\ w.thread = [worker[b].thread EXCEPT ![i] = to]
                BY <3>0, <4>0 DEF WorkerType
            <4>2. torn' = torn /\ worker' = [worker EXCEPT ![b] = w] /\ UNCHANGED <<box, jobVars>>
                BY <3>2, <4>0 DEF Thread, WorkerStep, awsVars
            <4>3. worker[b].thread[i] \notin AtRest
                BY <3>2 DEF Thread
            <4>4. ASSUME NEW j \in Jobs, j # i
                  PROVE  w.jobs[j] = worker[b].jobs[j] /\ w.disk[j] = worker[b].disk[j]
                         /\ w.thread[j] = worker[b].thread[j]
                BY <3>0, <4>1, <4>4 DEF WorkerType
            <4>5. w.jobs[i] = status /\ w.disk[i] = file /\ w.thread[i] = to
                BY <3>0, <4>1 DEF WorkerType
            <4>6. WorkerWhole(w, torn')
                BY <3>0, <3>2, <4>2, <4>4, <4>5 DEF WorkerWhole, AtRest
            <4>7. FilesKept(worker[b], w)
                BY <4>3, <4>4 DEF FilesKept
            <4> QED
                BY <4>2, <4>6, <4>7, FilesAreKept
        <3>3. CASE Render(b, i)
            BY <3>2, <3>3 DEF Render, AtRest, JobStatus
        <3>4. CASE Encode(b, i)
            BY <3>2, <3>4 DEF Encode, AtRest, JobStatus
        <3>5. CASE Complete(b, i)
            BY <3>2, <3>5 DEF Complete, AtRest, JobStatus
        <3>6. CASE RenderFails(b, i)
            BY <3>2, <3>6 DEF RenderFails, AtRest, JobStatus
        <3> QED
            BY <2>7, <3>1, <3>3, <3>4, <3>5, <3>6 DEF ThreadNext
    <2>d. ASSUME NEW b \in Boxes, NEW i \in Jobs, ThreadDies(b, i) PROVE WholeInv'
        <3> DEFINE w == [worker[b] EXCEPT !.thread[i] = "dead"]
        <3>1. /\ w.jobs = worker[b].jobs /\ w.disk = worker[b].disk
              /\ w.thread = [worker[b].thread EXCEPT ![i] = "dead"]
            BY <2>0 DEF WorkerType
        <3>2. torn' = torn /\ worker' = [worker EXCEPT ![b] = w] /\ UNCHANGED <<box, jobVars>>
            BY <2>0, <2>d DEF ThreadDies, awsVars
        <3> HIDE DEF w
        <3>3. \A j \in Jobs : worker[b].thread[j] \in AtRest => w.thread[j] \in AtRest
            BY <2>0, <3>1 DEF WorkerType, AtRest
        <3>4. WorkerWhole(w, torn')
            BY <3>1, <3>2, <3>3 DEF WholeInv, WorkerWhole
        <3>5. FilesKept(worker[b], w)
            BY <3>1, <3>3 DEF FilesKept
        <3> QED
            BY <3>2, <3>4, <3>5, FilesAreKept
    <2>8. ASSUME NEW takes \in 1 .. 2, NEW extend \in BOOLEAN, Generate(takes, extend) PROVE WholeInv'
        <3> DEFINE used == Cardinality({j \in Jobs : meta[j] # "none"})
                   new == {j \in Jobs : j > used /\ j <= used + takes}
        <3>1. PICK b \in Boxes \cup {None} :
                /\ meta' = [j \in Jobs |->
                     IF j \notin new THEN meta[j]
                     ELSE IF b # None /\ box[b] = "running" THEN "queued" ELSE "failed"]
                /\ task' = [j \in Jobs |->
                     IF j \in new /\ b # None /\ box[b] = "running"
                     THEN [pc |-> FirstStep(takes, extend), box |-> b,
                           after |-> IF j - 1 \in new THEN j - 1 ELSE None]
                     ELSE task[j]]
            BY <2>8 DEF Generate
        <3>2. UNCHANGED <<box, worker, video, torn>>
            BY <2>8 DEF Generate, awsVars
        <3> HIDE DEF new
        <3>3. ASSUME NEW j \in Jobs PROVE TaskWhole(j)'
            <4>0. TaskWhole(j)
                BY DEF WholeInv
            <4>1. CASE task'[j] = task[j]
                <5>1. meta'[j] \in {meta[j], "queued", "failed"}
                    BY <3>1
                <5> QED
                    BY <3>2, <4>0, <4>1, <5>1 DEF TaskWhole, Live
            <4>2. CASE task'[j].pc \in {"submit", "dropped"} /\ meta'[j] = "queued"
                BY <4>2 DEF TaskWhole
            <4> QED
                BY <3>1, <4>1, <4>2 DEF FirstStep
        <3>4. \A c \in Boxes : WorkerWhole(worker[c], torn)'
            BY <3>2 DEF WholeInv, WorkerWhole
        <3> QED
            BY <3>3, <3>4 DEF WholeInv
    <2>9. ASSUME NEW i \in Jobs, TaskNext(i) PROVE WholeInv'
        <3>0. TaskWhole(i) /\ task \in [Jobs -> [pc : {"none", "submit", "poll", "fetch", "finish",
                 "done", "dropped", "killed"}, box : Boxes \cup {None}, after : Jobs \cup {None}]]
              /\ meta \in [Jobs -> JobStatus] /\ video \in [Jobs -> File]
            BY DEF WholeInv, TypeInv, TypeOK
        <3>1. PICK pc, status : TaskStep(i, pc, status)
            BY <2>9 DEF TaskNext, Submit, Poll, Fetch, Finish, TaskFails
        <3>2. /\ task'[i].pc = pc /\ task'[i].box = task[i].box /\ meta'[i] = status
              /\ \A j \in Jobs : j # i => task'[j] = task[j] /\ meta'[j] = meta[j]
              /\ box' = box /\ torn' = torn
            BY <3>0, <3>1 DEF TaskStep, awsVars
        <3>3. ASSUME NEW j \in Jobs, j # i PROVE video'[j] = video[j]
            BY <2>9, <3>0, <3>3 DEF TaskNext, Submit, Poll, Fetch, Finish
        \* The worker may have taken job i.
        <3>4. /\ \A c \in Boxes : WorkerWhole(worker[c], torn)'
              /\ \A c \in Boxes, j \in Jobs : j # i =>
                   worker'[c].thread[j] = worker[c].thread[j] /\ worker'[c].disk[j] = worker[c].disk[j]
            <4>1. CASE worker' = worker
                BY <3>2, <4>1 DEF WholeInv, WorkerWhole
            <4>2. CASE task[i].box \in Boxes /\ Accepted(task[i].box, i)
                <5> DEFINE b == task[i].box
                           w == [worker[b] EXCEPT !.active = @ + 1, !.jobs[i] = "queued",
                                                  !.thread[i] = "queued"]
                <5>1. worker' = [worker EXCEPT ![b] = w]
                    BY <2>0, <4>2 DEF Accepted
                <5>2. /\ w.jobs = [worker[b].jobs EXCEPT ![i] = "queued"] /\ w.disk = worker[b].disk
                      /\ w.thread = [worker[b].thread EXCEPT ![i] = "queued"]
                    BY <2>0, <4>2 DEF WorkerType
                <5>3. WorkerWhole(worker[b], torn) /\ worker[b] \in WorkerType /\ b \in Boxes
                    BY <2>0, <4>2 DEF WholeInv
                <5> HIDE DEF w, b
                <5>4. WorkerWhole(w, torn)
                    BY <5>2, <5>3 DEF WorkerWhole, WorkerType
                <5>5. worker'[b] = w /\ \A c \in Boxes : c # b => worker'[c] = worker[c]
                    BY <2>0, <5>1, <5>3
                <5>6. \A c \in Boxes : WorkerWhole(worker'[c], torn')
                    BY <3>2, <5>4, <5>5 DEF WholeInv
                <5>7. \A j \in Jobs : j # i =>
                        w.thread[j] = worker[b].thread[j] /\ w.disk[j] = worker[b].disk[j]
                    BY <5>2, <5>3 DEF WorkerType
                <5>8. \A c \in Boxes : WorkerWhole(worker[c], torn)'
                    BY <5>6 DEF WorkerWhole
                <5> QED
                    BY <5>5, <5>7, <5>8
            <4> QED
                BY <2>9, <4>1, <4>2 DEF TaskNext, Submit, Poll, Fetch, Finish, Reachable
        <3>5. ASSUME NEW j \in Jobs, j # i PROVE TaskWhole(j)'
            <4>1. TaskWhole(j)
                BY DEF WholeInv
            <4> QED
                BY <3>2, <3>3, <3>4, <3>5, <4>1 DEF TaskWhole, Live
        <3>6. TaskWhole(i)'
            <4>1. CASE TaskFails(i)
                BY <3>0, <4>1 DEF TaskFails, TaskStep, TaskWhole
            <4>2. CASE task[i].pc = "submit" /\ TaskStep(i, "poll", meta[i])
                BY <3>0, <4>2 DEF TaskStep, TaskWhole, Live
            <4>3. CASE Poll(i) /\ ~TaskFails(i)
                <5> DEFINE b == task[i].box
                <5>1. /\ task[i].pc = "poll" /\ Reachable(b) /\ StatusOf(b, i) = "completed"
                      /\ TaskStep(i, "fetch", meta[i]) /\ worker' = worker
                    BY <4>3 DEF Poll
                <5>2. b \in Boxes /\ WorkerWhole(worker[b], torn) /\ worker[b] \in WorkerType
                    BY <2>0, <5>1 DEF Reachable, WholeInv
                <5>3. worker[b].thread[i] \in AtRest /\ (worker[b].disk[i] = "whole" \/ i \in torn)
                    BY <5>1, <5>2 DEF StatusOf, WorkerWhole, WorkerType, File
                <5>4. /\ task'[i].pc = "fetch" /\ task'[i].box = b /\ meta'[i] = meta[i]
                      /\ torn' = torn
                    BY <3>0, <5>1 DEF TaskStep
                <5>5. meta[i] # "completed"
                    BY <3>0, <5>1 DEF TaskWhole, Live
                <5> QED
                    BY <5>1, <5>2, <5>3, <5>4, <5>5 DEF TaskWhole
            <4>4. CASE Fetch(i) /\ ~TaskFails(i)
                <5> DEFINE b == task[i].box
                <5>1. /\ task[i].pc = "fetch" /\ Reachable(b)
                      /\ video' = [video EXCEPT ![i] = worker[b].disk[i]]
                      /\ TaskStep(i, "finish", meta[i])
                    BY <4>4 DEF Fetch
                <5>2. worker[b].disk[i] = "whole" \/ i \in torn
                    BY <3>0, <5>1 DEF TaskWhole, Reachable
                <5>3. /\ task'[i].pc = "finish" /\ meta'[i] = meta[i] /\ torn' = torn
                      /\ video'[i] = worker[b].disk[i]
                    BY <3>0, <5>1 DEF TaskStep
                <5>4. meta[i] # "completed"
                    BY <3>0, <5>1 DEF TaskWhole, Live
                <5> QED
                    BY <5>2, <5>3, <5>4 DEF TaskWhole
            <4>5. CASE Finish(i)
                <5>1. task'[i].pc = "done" /\ video'[i] = video[i] /\ torn' = torn
                    BY <3>0, <4>5 DEF Finish, TaskStep
                <5>2. video[i] = "whole" \/ i \in torn
                    BY <3>0, <4>5 DEF Finish, TaskWhole
                <5> QED
                    BY <5>1, <5>2 DEF TaskWhole, Live
            <4> QED
                BY <2>9, <4>1, <4>2, <4>3, <4>4, <4>5 DEF TaskNext, Submit
        <3> QED
            BY <3>4, <3>5, <3>6 DEF WholeInv
    <2>10. CASE Terminate
        BY <2>10, BoxesTakeTheirFiles DEF Terminate
    <2>11. CASE Watchdog
        <3>1. UNCHANGED <<jobVars, torn>>
            BY <2>11 DEF Watchdog, Scan, Decide, Look, Kill, Reset, WatchdogStep
        <3>2. CASE Gone(Alive)
            BY <3>1, <3>2, BoxesTakeTheirFiles
        <3>3. CASE UNCHANGED <<box, worker>>
            BY <2>1, <3>1, <3>3
        <3> QED
            BY <2>11, <3>2, <3>3 DEF Watchdog, Scan, Decide, Look, Kill, Reset, awsVars
    <2>12. CASE Tick \/ UNCHANGED vars
        BY <2>1, <2>12 DEF Tick, vars, awsVars, jobVars
    <2>13. CASE RestartStudio
        <3>1. UNCHANGED <<box, worker, meta, video, torn>>
            BY <2>13 DEF RestartStudio
        <3>2. ASSUME NEW j \in Jobs PROVE TaskWhole(j)'
            <4>1. TaskWhole(j) /\ (task'[j] = task[j] \/ task'[j].pc = "killed")
                BY <2>13 DEF RestartStudio, WholeInv, TypeInv, TypeOK
            <4> QED
                BY <3>1, <4>1 DEF TaskWhole, Live
        <3>3. \A c \in Boxes : WorkerWhole(worker[c], torn)'
            BY <3>1 DEF WholeInv, WorkerWhole
        <3> QED
            BY <3>2, <3>3 DEF WholeInv
    <2> QED
        BY <2>2, <2>3, <2>4, <2>5, <2>6, <2>7, <2>d, <2>8, <2>9, <2>10, <2>11, <2>12, <2>13 DEF Next
<1> QED
    BY <1>1, <1>2, TypeInvariant, PTL DEF Spec

\* A job that is marked completed has a whole video, unless the worker was restarted over an
\* unfinished file of that job: whatever boxes, lost answers and restarts of the studio come
\* between the render and the copy.
THEOREM CompletedVideosAreWhole == Spec => []CompletedIsWhole
<1>1. WholeInv => CompletedIsWhole
    BY DEF WholeInv, TaskWhole, CompletedIsWhole
<1> QED
    BY <1>1, WholeInvariant, PTL
=============================================================================
