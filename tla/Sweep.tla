-------------------------------- MODULE Sweep --------------------------------
(***************************************************************************)
(* The overnight sweep (spacepilot/sweep.py): a grid of cells walked job   *)
(* by job, each generation recorded in the measurement corpus, started     *)
(* again night after night.  It may be killed at any step, also while a    *)
(* record is written; the machine may be busy and the disk full at any     *)
(* sample.                                                                 *)
(***************************************************************************)
EXTENDS Corpus, Sequences

CONSTANTS
    Quantisations, Steps, \* the axes of the grid, in the order of the spec
    Subjects,             \* what the spec may name as its model_id
    MaxJobs,              \* runner.max_jobs
    MaxNights             \* bound: sweeps started

ASSUME SweepAssumption ==
    /\ {Len(Quantisations), Len(Steps)} \subseteq Nat \ {0}
    /\ {MaxJobs, MaxNights} \subseteq Nat

VARIABLES
    subject,  \* the spec's model_id
    corpus,   \* the measurement files
    sweep,    \* the process: step, positions of the jobs still to do, jobs run, why it stopped
    made      \* per generation that ended well: its night and its cell; deaths so far

sweepVars == <<subject, corpus, sweep, made>>

\* load_spec reads an absent quantisation and the word none as the same cell.
Quantisation(q) == IF q = "absent" THEN "none" ELSE q

\* Every cell of the product, in the order of the axes.
ExpandJobs ==
    [i \in 1..(Len(Quantisations) * Len(Steps)) |->
        <<Quantisation(Quantisations[((i - 1) \div Len(Steps)) + 1]),
          Steps[((i - 1) % Len(Steps)) + 1]>>]

\* Any record of the cell counts, of either metric, also a failure.
AlreadyRecorded(job) ==
    \E r \in corpus \ {Torn} :
        r.subject = subject /\ r.metric \in {"speed", "load"} /\ r.knobs = job

\* A torn file is none of the records a sweep may write.
ASSUME SweepFilesAssumption ==
    Torn \notin [subject : Subjects, metric : {"speed", "load"}, status : {"ok", "failed"},
                 contention : {"solo"}, revision : {Pin[v] : v \in Variants} \cup {NoRevision},
                 knobs : {ExpandJobs[i] : i \in DOMAIN ExpandJobs}, at : Nat \X Nat]

Asleep == [at |-> "off", night |-> 0, todo |-> {}, run |-> 0, reason |-> "not_started"]

SweepInit ==
    /\ subject \in Subjects
    /\ corpus = {}
    /\ sweep = Asleep
    /\ made = [cells |-> {}, deaths |-> 0]

Keep == UNCHANGED <<subject, corpus, made>>
Go(step) == sweep' = [sweep EXCEPT !.at = step]
StopFor(why) == sweep' = [sweep EXCEPT !.at = "off", !.reason = why]

\* run_sweep: without --outputs-dir it reads a name that the module does not define and
\* raises; then the disk is looked at before anything else.
StartSweep ==
    /\ sweep.at = "off" /\ sweep.night < MaxNights
    /\ \E named, roomy \in BOOLEAN :
          sweep' = [Asleep EXCEPT
              !.at = IF named /\ roomy THEN "wait" ELSE "off",
              !.night = sweep.night + 1,
              !.reason = IF ~named THEN "raised"
                         ELSE IF roomy THEN "not_started" ELSE "disk_floor_before_start"]
    /\ Keep

\* wait_for_idle: one solo sample is enough, anything else is polled until the deadline.
WaitForIdle ==
    /\ sweep.at = "wait"
    /\ \E readable \in BOOLEAN, busy \in {{"self"}, {"self", "other"}} :
          IF SampleContention(readable, busy) = "solo" THEN Go("load")
          ELSE StopFor("never_idle")
    /\ Keep

\* The corpus is read once.  A file that does not parse ends the process.
ReadCorpus ==
    /\ sweep.at = "load" /\ Loads(corpus)
    /\ sweep' = [sweep EXCEPT !.at = "next",
                              !.todo = {i \in DOMAIN ExpandJobs : ~AlreadyRecorded(ExpandJobs[i])}]
    /\ Keep
Unreadable ==
    /\ sweep.at = "load" /\ ~Loads(corpus)
    /\ StopFor("raised")
    /\ Keep

\* What stops the sweep between two jobs, looked at in this order.
Stops(late, roomy, state) ==
    IF sweep.run >= MaxJobs THEN "max_jobs"
    ELSE IF late THEN "max_wall_seconds"
    ELSE IF ~roomy THEN "disk_floor_mid_sweep"
    ELSE IF state # "solo" THEN "human_returned" ELSE "no"

NextJob ==
    /\ sweep.at = "next" /\ sweep.todo # {}
    /\ \E late, roomy, readable \in BOOLEAN, busy \in {{"self"}, {"self", "other"}} :
          LET why == Stops(late, roomy, SampleContention(readable, busy))
          IN  IF why = "no" THEN Go("infer") ELSE StopFor(why)
    /\ Keep

Exhausted ==
    /\ sweep.at = "next" /\ sweep.todo = {}
    /\ StopFor("completed")
    /\ Keep

\* The job in hand, and the name of its generation.
Position == Min(sweep.todo)
Generation == <<sweep.night, Position>>

\* The driver raises, or answers with or without the seconds the model took to load.
Infer ==
    /\ sweep.at = "infer"
    /\ \E result \in {"failed", "ok", "loaded"} :
          /\ Go(result)
          /\ made' = IF result = "failed" THEN made
                     ELSE [made EXCEPT !.cells = @ \cup {Generation}]
    /\ UNCHANGED <<subject, corpus>>

\* The contention sampled before the job stands for the whole of it.
File(metric, status) ==
    Body(subject, metric, status, "solo", "unset", ExpandJobs[Position], Generation)
JobDone ==
    sweep' = [sweep EXCEPT !.at = "next", !.todo = @ \ {Position}, !.run = @ + 1]

\* (mutant) a name of the second alone: what the night wrote before is overwritten
WriteOver(file) == corpus' = {r \in corpus : r = Torn \/ r.at[1] # file.at[1]} \cup {file}
Write(file) == corpus' = corpus \cup {file}

\* (mutant) the load time is recorded before the generation
LoadFirst == <<"load", "speed">>
Metrics == <<"speed", "load">>

RecordFailure ==
    /\ sweep.at = "failed" /\ ~Refused(subject)
    /\ Write(File("speed", "failed"))
    /\ JobDone
    /\ UNCHANGED <<subject, made>>

RecordResult ==
    /\ sweep.at \in {"ok", "loaded"} /\ ~Refused(subject)
    /\ Write(File(IF sweep.at = "loaded" THEN Metrics[1] ELSE "speed", "ok"))
    /\ IF sweep.at = "loaded" THEN Go("load_record") ELSE JobDone
    /\ UNCHANGED <<subject, made>>

RecordLoad ==
    /\ sweep.at = "load_record"
    /\ Write(File(Metrics[2], "ok"))
    /\ JobDone
    /\ UNCHANGED <<subject, made>>

\* record raises for a subject it refuses, after the generation, and nothing catches it.
RecordRefuses ==
    /\ sweep.at \in {"failed", "ok", "loaded"} /\ Refused(subject)
    /\ StopFor("raised")
    /\ made' = [made EXCEPT !.deaths = @ + 1]
    /\ UNCHANGED <<subject, corpus>>

\* The process is killed; in the middle of a write it leaves a torn file.
Killed ==
    /\ sweep.at # "off"
    /\ StopFor("killed")
    /\ made' = [made EXCEPT !.deaths = @ + 1]
    /\ \/ corpus' = corpus
       \/ /\ sweep.at \in {"failed", "ok", "loaded", "load_record"} /\ ~Refused(subject)
          /\ corpus' = corpus \cup {Torn}
    /\ UNCHANGED subject

SweepNext ==
    \/ StartSweep \/ WaitForIdle \/ ReadCorpus \/ Unreadable \/ NextJob \/ Exhausted
    \/ Infer \/ RecordFailure \/ RecordResult \/ RecordLoad \/ RecordRefuses \/ Killed

(***************************************************************************)
(* Properties                                                              *)
(***************************************************************************)

Speeds == {r \in corpus \ {Torn} : r.metric = "speed"}

\* A sweep that says completed leaves no hole: every cell of its grid has a
\* speed record, or the recorded failure, whatever nights were cut short
\* before, although a record of the load time alone counts a cell as done.
CompletedIsWhole ==
    sweep.reason = "completed" =>
        \A i \in DOMAIN ExpandJobs : \E r \in Speeds : r.knobs = ExpandJobs[i]

\* An interruption loses the job in flight and nothing more: of the
\* generations that ended well, at most one per death of the process, and the
\* one whose record is being written, has no speed record.
LosesOnlyInFlight ==
    Cardinality({g \in made.cells : ~\E r \in Speeds : r.at = g})
        <= made.deaths + (IF sweep.at \in {"ok", "loaded"} THEN 1 ELSE 0)
=============================================================================
