------------------------------- MODULE OneShot -------------------------------
(***************************************************************************)
(* One bounded run of a local model, through each of its doors: the        *)
(* command line's `run`, the daemon's /v1/run and the studio's /v1 routes  *)
(* (spacepilot/services/*_execution.py, the subprocess drivers and         *)
(* spacepilot/api/routes/inference.py), with the remote provider and the   *)
(* dry run beside them.  A run plans, may wait for a confirmation, spawns  *)
(* a runner that writes one file, verifies the file and records the speed. *)
(* Runs of one process die together; weights come and go under a plan.     *)
(***************************************************************************)
EXTENDS Corpus, Probe, Changes

CONSTANTS
    Requests,   \* bound: runs
    Doors,      \* the doors they may come through
    Workload,   \* variants, each with what it makes
    Served,     \* variants whose model a wired runtime lists
    Need,       \* per variant: its working set, or Unmeasured
    Profiles,   \* what the machine may be probed as, anew at every look
    Revisions,  \* revisions a snapshot may have
    Remote,     \* the provider's model
    NoWeights, ByPath, Nobody,
    MaxMoves    \* bound: changes of the weights on disk

KindOf == [image |-> "image", speech |-> "speech", transcribe |-> "transcribe", text |-> "text",
           daemon |-> "image", chat |-> "text", stream |-> "text", dry_run |-> "text",
           embeddings |-> "embedding", claude |-> "remote", claude_stream |-> "remote"]
CommandLine == {"image", "speech", "transcribe", "text"}
Studio == {"chat", "stream", "dry_run", "embeddings", "claude", "claude_stream"}

ASSUME OneShotAssumption ==
    /\ DOMAIN Workload = DOMAIN Need /\ DOMAIN Workload \subseteq Variants
    /\ Served \subseteq DOMAIN Workload /\ Remote \notin Variants
    /\ Doors \subseteq DOMAIN KindOf /\ MaxMoves \in Nat
    /\ \A v \in DOMAIN Need : Need[v] \in Nat \cup {Unmeasured}
    /\ Nobody \notin Requests \cup Variants /\ "unset" \notin Revisions \cup {NoRevision}

\* What a run may put on record is none of the torn files.
ASSUME RunRecordsAssumption ==
    Torn \notin [subject : Variants \cup {Remote}, metric : {"speed", "prompt speed"},
                 status : {"ok", "failed"}, contention : {"solo", "loaded", "unknown"},
                 revision : Revisions \cup {NoRevision}, knobs : Doors, at : Requests]

VARIABLES
    rows,  \* the measurement files
    cache, \* per variant: the revision of its snapshot, ByPath or NoWeights; changes so far
    runs   \* per request: its door and step, the variant, what was sampled, what its
           \* runner opened and made, and what the caller was told

oneShotVars == <<rows, cache, runs>>

Candidates(kind) == {v \in DOMAIN Workload : Workload[v] = kind}

\* assess: the backend, then the whole card, then what the reserve leaves; a number nobody
\* read promises nothing.  Past four fifths of the usable memory a model is tight.
Assess(p, v) ==
    IF p.backend # "metal" THEN "blocked"
    ELSE IF AcceleratorMemory(p) = Unmeasured \/ Need[v] = Unmeasured THEN "unknown"
    ELSE IF Need[v] > AcceleratorMemory(p) THEN "wont_fit"
    ELSE IF Usable(p) = 0 THEN "unknown"
    ELSE IF Need[v] > Usable(p) THEN "wont_fit"
    ELSE IF 5 * Need[v] > 4 * Usable(p) THEN "tight" ELSE "fits"
FitVerdict(p, v) == IF Assess(p, v) \in {"wont_fit", "blocked"} THEN "wont_fit" ELSE "may"

\* local_speeds: the solo stream when it has a row, else everything that ended well.
Evidence(v) ==
    LET flown == Summarise(rows, v, "speed")
    IN  IF flown.solo # {} THEN 0 ELSE IF flown.observed # {} THEN 1 ELSE 2

\* can_run asks for the route and the capacity, never for the free memory.
CanRun(p, v, ready) == v \in ready /\ Assess(p, v) \in {"fits", "tight"}

\* _candidate_rank: flown solo, flown, unflown; then fits before tight; then the smaller.
\* The rank of a speech or transcription candidate has no size.
Footprint(v) == IF Workload[v] \in {"speech", "transcribe"} THEN 0 ELSE Need[v]
Precedes(p, v, w) ==
    LET fit(x) == IF Assess(p, x) = "fits" THEN 0 ELSE 1
    IN  \/ Evidence(v) < Evidence(w)
        \/ Evidence(v) = Evidence(w) /\ fit(v) < fit(w)
        \/ Evidence(v) = Evidence(w) /\ fit(v) = fit(w) /\ Footprint(v) < Footprint(w)
Selected(p, among, ready) ==
    LET able == {v \in among : CanRun(p, v, ready)}
    IN  IF able = {} THEN Nobody
        ELSE CHOOSE v \in able : \A w \in able \ {v} : ~Precedes(p, w, v)

Asked(door, made) ==
    [door |-> door, at |-> "asked", chosen |-> Nobody, sampled |-> "unknown",
     opened |-> NoRevision, made |-> made, runner |-> "none", told |-> "nothing"]

\* Only the command line names an output that may be there already.
OneShotInit ==
    /\ rows \in {{}} \cup
           {{Body(v, "speed", "ok", c, "unset", "before", Nobody)} :
                v \in Candidates("image"), c \in {"solo", "loaded"}}
    /\ cache \in [at : [DOMAIN Workload -> {NoWeights, CHOOSE x \in Revisions : TRUE}], moves : {0}]
    /\ runs \in [Requests ->
           {Asked(d, "none") : d \in Doors} \cup {Asked(d, "stale") : d \in Doors \cap CommandLine}]

Set(r, change) == runs' = [runs EXCEPT ![r] = Changed(@, change)]
EndRun(r, told) == Set(r, [at |-> "over", told |-> told, sampled |-> "unknown"])
Kind(r) == KindOf[runs[r].door]
Still == UNCHANGED <<rows, cache>>

Leaves(r, told) ==
    /\ runs[r].at \in {"running", "ended", "record"} /\ runs[r].told = "nothing"
    /\ Set(r, [told |-> told])
    /\ Still

\* The daemon's client waits thirty seconds, then reports a failure and never asks again.
ClientTimesOut(r) ==
    /\ runs[r].door = "daemon" /\ Leaves(r, "timeout")

\* The caller of a stream goes away: the request is cancelled, but not the step of the
\* generator that a thread is in.
CallerGoes(r) ==
    /\ runs[r].door \in {"stream", "claude_stream"} /\ Leaves(r, "cut")

\* Who has left hears nothing more.
Heard(r, told) == IF runs[r].told = "nothing" THEN told ELSE runs[r].told
Tell(r, told) == EndRun(r, Heard(r, told))

\* Weights and runtime are there: asked of a fresh interpreter at every plan.  The image
\* route asks for its executable alone, its weights are mflux's own.
Ready(kind, importable) ==
    IF ~importable THEN {}
    ELSE {v \in Candidates(kind) : kind = "image" \/ cache.at[v] # NoWeights}

\* /v1 knows the model asked for, or 404; then capacity and route, each a 409.
Resolves(p, v) == v # Nobody /\ FitVerdict(p, v) # "wont_fit" /\ v \in Served

Planned(r, v) ==
    IF v = Nobody THEN EndRun(r, "refused") ELSE Set(r, [at |-> "planned", chosen |-> v])

\* plan reads the whole corpus and ranks every variant that has a route.
PlanBest(r) ==
    /\ runs[r].at = "asked"
    /\ \E importable \in BOOLEAN, p \in Profiles :
          Planned(r, IF Loads(rows) THEN Selected(p, Candidates(Kind(r)), Ready(Kind(r), importable))
                     ELSE Nobody)
    /\ Still
PlanCommand(r) == runs[r].door \in {"image", "speech", "transcribe"} /\ PlanBest(r)
\* The daemon plans within the request and asks nobody.
PlanDaemon(r) == runs[r].door = "daemon" /\ PlanBest(r)

\* The variant the caller names, or the default one.  /v1 has probed the machine once before.
PlanText(r) ==
    /\ runs[r].at = "asked" /\ runs[r].door \in {"text", "chat", "stream"}
    /\ \E importable \in BOOLEAN, p, q \in Profiles, asked \in Candidates("text") \cup {Nobody} :
          Planned(r, IF Loads(rows) /\ (runs[r].door = "text" \/ Resolves(q, asked))
                     THEN Selected(p, {asked} \ {Nobody}, Ready("text", importable))
                     ELSE Nobody)
    /\ Still

\* The same without a look at the corpus.
PlannedVectors(p, v, importable) == Selected(p, {v}, Ready("embedding", importable))
PlanEmbedding(r) ==
    /\ runs[r].at = "asked" /\ runs[r].door = "embeddings"
    /\ \E importable \in BOOLEAN, p, q \in Profiles, asked \in Candidates("embedding") \cup {Nobody} :
          Planned(r, IF Resolves(q, asked) THEN PlannedVectors(p, asked, importable) ELSE Nobody)
    /\ Still

Decline(r) ==
    /\ runs[r].at = "planned" /\ runs[r].door \in CommandLine
    /\ EndRun(r, "refused")
    /\ Still

Samples == {SampleContention(k, b) : k \in BOOLEAN, b \in {OwnTree, OwnTree \cup {"other"}}}

\* The driver resolves the weights again and loads what it finds now: mflux and a
\* configured path do not say which revision that is.
Opened(v) ==
    IF Workload[v] = "image" \/ cache.at[v] \notin Revisions THEN NoRevision ELSE cache.at[v]

Start(r) ==
    /\ runs[r].at = "planned"
    /\ \E valid, spawns \in BOOLEAN, sample \in Samples :
          IF valid /\ spawns /\ runs[r].chosen \in Ready(Kind(r), TRUE)
          THEN Set(r, [at |-> "running", runner |-> "alive", sampled |-> sample,
                       opened |-> Opened(runs[r].chosen)])
          ELSE EndRun(r, "failed")
    /\ Still

\* The provider: no such model or no key, a dry run without a price, or the call is on its way.
AskRemote(r) ==
    /\ runs[r].at = "asked" /\ Kind(r) = "remote"
    /\ \/ \E told \in {"refused", "unmeasured"} : EndRun(r, told)
       \/ Set(r, [at |-> "running", chosen |-> Remote])
    /\ Still

\* What a runner leaves behind.  mflux and whisper-cli may do as they please; SpacePilot's own
\* runners write one file before they say completed, and no empty one.
ImageMakes == {"kept", "empty", "whole"}
TranscriptMakes == {"kept", "empty", "whole"}
SpeechMakes(ending) == IF ending = "failed" THEN {"kept", "whole"} ELSE {"whole"}
TextMakes(ending) == IF ending = "failed" THEN {"kept", "whole"} ELSE {"whole", "unfinished"}
VectorsMake(ending) == IF ending = "failed" THEN {"kept", "whole"} ELSE {"whole"}
RemoteMakes(ending) == IF ending = "failed" THEN {"kept"} ELSE {"whole", "refusal"}
Makes(kind, ending) ==
    CASE kind = "image"      -> ImageMakes
      [] kind = "transcribe" -> TranscriptMakes
      [] kind = "speech"     -> SpeechMakes(ending)
      [] kind = "text"       -> TextMakes(ending)
      [] kind = "embedding"  -> VectorsMake(ending)
      [] OTHER               -> RemoteMakes(ending)

\* infer: an exit code, a missing or malformed result line, an error of the provider.
Returns(r, endings) ==
    /\ runs[r].at = "running"
    /\ \E ending \in endings :
       \E made \in Makes(Kind(r), ending) :
          LET after == [runner |-> IF runs[r].runner = "alive" THEN "gone" ELSE "none",
                        made |-> IF made = "kept" THEN runs[r].made ELSE made]
          IN  CASE ending = "failed" ->
                     Set(r, Changed(after, [at |-> "over", told |-> Heard(r, "failed")]))
                [] ending = "bare"   -> Set(r, Changed(after, [at |-> "bare"]))
                [] OTHER             -> Set(r, Changed(after, [at |-> "ended"]))
    /\ Still
RunnerEndings == {"completed", "failed", "bare"}
DriverReturns(r) ==
    runs[r].door # "stream" /\ Kind(r) \notin {"embedding", "remote"} /\ Returns(r, RunnerEndings)
StreamReturns(r) == runs[r].door = "stream" /\ Returns(r, RunnerEndings)
VectorsReturn(r) == Kind(r) = "embedding" /\ Returns(r, RunnerEndings)
RemoteReturns(r) == Kind(r) = "remote" /\ Returns(r, RunnerEndings \ {"bare"})

\* When the runner's next line ends the step, the generator of a caller who has gone is
\* dropped, and its finally kills the runner; after the last line the step goes on to the
\* record.  The provider's stream has no runner.
\* (mutant) a generator that closes without its finally
CutLeaves(runner) == runner
Cut(runner) == IF runner = "alive" THEN "gone" ELSE runner
CutStream(r) ==
    /\ runs[r].door = "stream" /\ runs[r].at = "running" /\ runs[r].told = "cut"
    /\ Set(r, [at |-> "over", told |-> "cut", runner |-> Cut(runs[r].runner)])
    /\ Still
CutRemote(r) ==
    /\ runs[r].door = "claude_stream" /\ runs[r].at = "running" /\ runs[r].told = "cut"
    /\ Set(r, [at |-> "over", told |-> "cut"])
    /\ Still

\* (mutant) an old file passes
NewOrOld(x) == x.made \notin {"none", "empty"}
NewArtifact(x) == x.made \notin {"none", "stale", "empty"}

Combined(before, after) ==
    IF before = "solo" /\ after = "solo" THEN "solo"
    ELSE IF "unknown" \in {before, after} THEN "unknown" ELSE "loaded"

\* What the driver said is checked against the file.
Verify(r) ==
    /\ runs[r].at = "ended" /\ Kind(r) # "embedding"
    /\ \E after \in Samples :
          IF NewArtifact(runs[r])
          THEN Set(r, [at |-> "record", sampled |-> IF Kind(r) = "remote" THEN after
                                                    ELSE Combined(runs[r].sampled, after)])
          ELSE Tell(r, "failed")
    /\ Still

\* Vectors go to a new name, and nobody looks whether the file is new.
VerifyVectors(r) ==
    /\ runs[r].at = "ended" /\ Kind(r) = "embedding"
    /\ \E after \in Samples :
          IF runs[r].made \in {"none", "empty"} THEN Tell(r, "failed")
          ELSE Set(r, [at |-> "record", sampled |-> Combined(runs[r].sampled, after)])
    /\ Still

\* Without a time of its own an image or a transcript is an answer without a record; any
\* other answer fails without its numbers.
VerifyBare(r) ==
    /\ runs[r].at = "bare"
    /\ Tell(r, IF NewArtifact(runs[r]) /\ Kind(r) \in {"image", "transcribe"} THEN "answer"
               ELSE "failed")
    /\ Still

RowOf(r, metric, status) ==
    Body(runs[r].chosen, metric, status, runs[r].sampled, runs[r].opened, runs[r].door, r)
RecordRun(r, metric, status) ==
    /\ runs[r].at = "record"
    /\ rows' = rows \cup {RowOf(r, metric, status)}
    /\ UNCHANGED cache

RecordAnswer(r) == RecordRun(r, "speed", "ok") /\ Tell(r, "answer")
RecordImage(r) == Kind(r) = "image" /\ RecordAnswer(r)
RecordSpeech(r) == Kind(r) = "speech" /\ RecordAnswer(r)
RecordTranscript(r) == Kind(r) = "transcribe" /\ RecordAnswer(r)
RecordVectors(r) == Kind(r) = "embedding" /\ RecordAnswer(r)

\* The provider's refusal is timed like an answer.
RecordRemote(r) ==
    /\ Kind(r) = "remote"
    /\ RecordRun(r, "speed", "ok")
    /\ Tell(r, IF runs[r].made = "refusal" THEN "refused" ELSE "answer")

\* An answer that stopped inside its think block is on record as a failure.
RecordUnfinished(r) ==
    /\ Kind(r) = "text" /\ runs[r].made = "unfinished"
    /\ RecordRun(r, "speed", "failed")
    /\ Tell(r, "failed")

\* (mutant) the answer goes out between the two records of a text run
TextMetricsFirst == <<"speed">>
TextMetrics == <<"speed", "prompt speed">>
RecordText(r) ==
    LET written == Cardinality({x \in rows \ {Torn} : x.at = r})
    IN  /\ Kind(r) = "text" /\ runs[r].made # "unfinished"
        /\ RecordRun(r, TextMetrics[written + 1], "ok")
        /\ IF written + 1 < Cardinality(DOMAIN TextMetrics) THEN UNCHANGED runs ELSE Tell(r, "answer")

\* The disk is full: record truncates its file before it fails.
RecordFails(r) ==
    /\ runs[r].at = "record"
    /\ Tell(r, "failed")
    /\ \/ rows' = rows
       \/ rows' = rows \cup {Torn}
    /\ UNCHANGED cache

\* A dry run counts the prompt with the cached tokenizer and needs both medians.
DryRun(r) ==
    /\ runs[r].at = "asked" /\ runs[r].door = "dry_run"
    /\ \E asked \in Candidates("text") \cup {Nobody}, counted \in BOOLEAN, p \in Profiles :
          IF ~Resolves(p, asked) \/ (counted /\ cache.at[asked] # NoWeights /\ ~Loads(rows))
          THEN EndRun(r, "refused")
          ELSE Set(r, [at |-> "over", chosen |-> asked,
                       told |-> IF /\ counted /\ cache.at[asked] # NoWeights
                                   /\ \A metric \in {"speed", "prompt speed"} :
                                         Summarise(rows, asked, metric).observed # {}
                                THEN "measured" ELSE "unmeasured"])
    /\ Still

\* A process dies, at worst inside a write; what it had spawned is on its own.
Process(r) ==
    IF runs[r].door \in CommandLine THEN r
    ELSE IF runs[r].door = "daemon" THEN "daemon" ELSE "studio"
Dies ==
    \E r \in Requests :
        LET with == {q \in Requests : Process(q) = Process(r) /\ runs[q].at # "over"}
        IN  /\ runs[r].at \notin {"asked", "over"}
            /\ runs' = [q \in Requests |->
                   IF q \in with THEN Changed(runs[q], [at |-> "over", told |-> "lost"]) ELSE runs[q]]
            /\ \/ rows' = rows
               \/ (\E q \in with : runs[q].at = "record") /\ rows' = rows \cup {Torn}
            /\ UNCHANGED cache

\* Weights are downloaded, removed, moved by an unpinned download, or named by a path.
WeightsMove ==
    /\ cache.moves < MaxMoves
    /\ \E v \in DOMAIN Workload, to \in Revisions \cup {NoWeights, ByPath} :
          /\ to # cache.at[v]
          /\ to = ByPath => Workload[v] \in {"speech", "transcribe"}
          /\ cache' = [at |-> [cache.at EXCEPT ![v] = to], moves |-> cache.moves + 1]
    /\ UNCHANGED <<rows, runs>>

OneShotNext ==
    \/ \E r \in Requests :
          \/ PlanCommand(r) \/ PlanDaemon(r) \/ PlanText(r) \/ PlanEmbedding(r) \/ Decline(r) \/ Start(r)
          \/ AskRemote(r) \/ ClientTimesOut(r) \/ CallerGoes(r)
          \/ DriverReturns(r) \/ StreamReturns(r) \/ VectorsReturn(r) \/ RemoteReturns(r)
          \/ CutStream(r) \/ CutRemote(r) \/ Verify(r) \/ VerifyVectors(r) \/ VerifyBare(r)
          \/ RecordImage(r) \/ RecordSpeech(r) \/ RecordTranscript(r) \/ RecordVectors(r) \/ RecordRemote(r)
          \/ RecordUnfinished(r) \/ RecordText(r) \/ RecordFails(r) \/ DryRun(r)
    \/ Dies
    \/ WeightsMove

(***************************************************************************)
(* Properties                                                              *)
(***************************************************************************)

\* A speed on record was earned: by a run that made its own whole file, of the variant
\* chosen and with the revision its runner opened, whatever moved since the plan.
SpeedIsEarned ==
    \A x \in rows \ {Torn} : x.at \in Requests =>
        /\ x.subject = runs[x.at].chosen /\ x.revision = runs[x.at].opened
        /\ x.status = "ok" => runs[x.at].made \in {"whole", "refusal"}

\* "The run id that joins this response to the measurement it wrote": an answer of /v1
\* finds every row of its run, also one that a stream has sent already.
AnswerIsOnRecord ==
    \A r \in Requests :
        runs[r].door \in Studio /\ runs[r].told = "answer" =>
            \A metric \in {"speed"} \cup (IF Kind(r) = "text" THEN {"prompt speed"} ELSE {}) :
                \E x \in rows \ {Torn} : x.at = r /\ x.metric = metric /\ x.status = "ok"

\* A runner holds gigabytes: it is gone when its request is over, unless the process that
\* waited for it died.
RunnerGoesWithRequest ==
    \A r \in Requests :
        runs[r].at = "over" /\ runs[r].told # "lost" => runs[r].runner # "alive"
=============================================================================
