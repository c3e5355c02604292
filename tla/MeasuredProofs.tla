---------------------------- MODULE MeasuredProofs ----------------------------
(***************************************************************************)
(* What measured numbers and calls rest on, for any grid, flight plan,     *)
(* machines, runs and claims: one section per part, each with the          *)
(* invariant that its steps preserve.                                      *)
(***************************************************************************)
EXTENDS Sweep, Flights, OneShot, Claims, Integers, FiniteSetTheorems, WellFoundedInduction, TLAPS

\* The least of a set of numbers is one of them.
LEMMA LeastIsThere ==
    ASSUME NEW S \in SUBSET Nat, S # {}
    PROVE  Min(S) \in S /\ \A j \in S : Min(S) <= j
<1>1. \A i, j \in Nat : j < i => <<j, i>> \in OpToRel(<, Nat)
    BY DEF OpToRel
<1>2. PICK R : IsWellFoundedOn(R, Nat) /\ \A i, j \in Nat : j < i => <<j, i>> \in R
    BY <1>1, NatLessThanWellFounded, Zenon
<1>3. \E i \in S : \A j \in S : <<j, i>> \notin R
    BY <1>2, WFMin
<1>4. PICK i \in S : \A j \in S : <<j, i>> \notin R
    BY <1>3
<1>5. ASSUME NEW j \in S PROVE i <= j
    <2>1. i \in Nat /\ j \in Nat /\ <<j, i>> \notin R
        BY <1>4
    <2>2. ~(j < i)
        BY <1>2, <2>1
    <2> QED
        BY <2>1, <2>2
<1> QED
    BY <1>5 DEF Min

-----------------------------------------------------------------------------
(* The sweep *)

SweepSpec == SweepInit /\ [][SweepNext]_sweepVars

Working == {"infer", "failed", "ok", "loaded", "load_record"}

SweepType ==
    /\ subject \in Subjects
    /\ sweep \in [at : Working \cup {"off", "wait", "load", "next"}, night : Nat,
                  todo : SUBSET DOMAIN ExpandJobs, run : Nat,
                  reason : {"not_started", "raised", "disk_floor_before_start", "never_idle",
                            "max_jobs", "max_wall_seconds", "disk_floor_mid_sweep",
                            "human_returned", "completed", "killed"}]
    /\ made \in [cells : SUBSET (Nat \X Nat), deaths : Nat]
    /\ IsFiniteSet(made.cells)
    /\ sweep.at \in Working => sweep.todo # {}

Cells == DOMAIN ExpandJobs
Covered(files, i) == \E r \in files \ {Torn} : r.metric = "speed" /\ r.knobs = ExpandJobs[i]

\* A record of the load time comes after one of the speed, so that what counts as done is.
SweepWhole ==
    /\ \A r \in corpus \ {Torn} : r.metric = "load" =>
         \E s \in corpus \ {Torn} : s.metric = "speed" /\ s.knobs = r.knobs
    /\ sweep.at \in Working \cup {"next"} => \A i \in Cells \ sweep.todo : Covered(corpus, i)
    /\ sweep.at = "load_record" => Covered(corpus, Position)
    /\ sweep.reason = "completed" => \A i \in Cells : Covered(corpus, i)

\* The generation whose record is still to be written, and the others without a record.
InFlight == IF sweep.at \in {"ok", "loaded"} THEN {Generation} ELSE {}
Lost(files, cells) == {g \in cells : ~\E r \in files \ {Torn} : r.metric = "speed" /\ r.at = g}
SweepLoses == Cardinality(Lost(corpus, made.cells) \ InFlight) <= made.deaths

LEMMA CellsAreNumbers == Cells \subseteq Nat
BY SweepAssumption DEF Cells, ExpandJobs

\* A job in hand is a cell of the grid.
LEMMA JobInHand ==
    ASSUME SweepType, sweep.at \in Working
    PROVE  Position \in sweep.todo /\ Position \in Cells /\ Position \in Nat
BY CellsAreNumbers, LeastIsThere DEF SweepType, Position, Cells

\* What the sweep writes is a record.
LEMMA WrittenIsWhole ==
    ASSUME SweepType, sweep.at \in Working, NEW metric \in {"speed", "load"},
           NEW status \in {"ok", "failed"}
    PROVE  /\ File(metric, status) # Torn
           /\ File(metric, status).metric = metric
           /\ File(metric, status).knobs = ExpandJobs[Position]
           /\ File(metric, status).at = Generation
<1>1. ExpandJobs[Position] \in {ExpandJobs[i] : i \in DOMAIN ExpandJobs}
    BY JobInHand DEF Cells
<1>2. Generation \in Nat \X Nat
    BY JobInHand DEF Generation, SweepType
<1>3. RevisionFor(subject, "unset") \in {Pin[v] : v \in Variants} \cup {NoRevision}
    BY DEF RevisionFor
<1> QED
    BY <1>1, <1>2, <1>3, SweepFilesAssumption DEF File, Body, SweepType

LEMMA SweepTyped == SweepSpec => []SweepType
<1>1. SweepInit => SweepType
    BY FS_EmptySet DEF SweepInit, SweepType, Asleep, Working
<1>2. SweepType /\ [SweepNext]_sweepVars => SweepType'
    <2> SUFFICES ASSUME SweepType, [SweepNext]_sweepVars PROVE SweepType'
        OBVIOUS
    <2>1. CASE UNCHANGED sweepVars
        BY <2>1 DEF sweepVars, SweepType
    <2>2. CASE StartSweep
        <3>1. PICK named, roomy \in BOOLEAN :
                sweep' = [Asleep EXCEPT
                    !.at = IF named /\ roomy THEN "wait" ELSE "off",
                    !.night = sweep.night + 1,
                    !.reason = IF ~named THEN "raised"
                               ELSE IF roomy THEN "not_started" ELSE "disk_floor_before_start"]
            BY <2>2 DEF StartSweep
        <3>2. PICK at \in {"wait", "off"}, reason \in {"raised", "not_started", "disk_floor_before_start"} :
                sweep' = [at |-> at, night |-> sweep.night + 1, todo |-> {}, run |-> 0, reason |-> reason]
            BY <3>1 DEF Asleep
        <3> QED
            BY <2>2, <3>2 DEF StartSweep, Keep, SweepType, Working
    <2>3. CASE WaitForIdle
        BY <2>3 DEF WaitForIdle, Go, StopFor, Keep, SweepType, Working
    <2>4. CASE ReadCorpus
        BY <2>4 DEF ReadCorpus, Keep, SweepType, Working
    <2>5. CASE Unreadable \/ Exhausted
        BY <2>5 DEF Unreadable, Exhausted, StopFor, Keep, SweepType, Working
    <2>6. CASE NextJob
        <3>1. \/ Go("infer") /\ sweep.todo # {}
              \/ \E why \in {"max_jobs", "max_wall_seconds", "disk_floor_mid_sweep",
                             "human_returned"} : StopFor(why)
            BY <2>6 DEF NextJob, Stops
        <3> QED
            BY <2>6, <3>1 DEF NextJob, Go, StopFor, Keep, SweepType, Working
    <2>7. CASE Infer
        <3>1. PICK result \in {"failed", "ok", "loaded"} :
                /\ Go(result)
                /\ made' = IF result = "failed" THEN made
                           ELSE [made EXCEPT !.cells = @ \cup {Generation}]
            BY <2>7 DEF Infer
        <3>2. Generation \in Nat \X Nat
            BY <2>7, JobInHand DEF Infer, Generation, SweepType, Working
        <3>3. IsFiniteSet(made.cells \cup {Generation})
            BY FS_AddElement DEF SweepType
        <3>4. made' \in [cells : SUBSET (Nat \X Nat), deaths : Nat] /\ IsFiniteSet(made'.cells)
            BY <3>1, <3>2, <3>3 DEF SweepType
        <3> QED
            BY <2>7, <3>1, <3>4 DEF Infer, Go, SweepType, Working
    <2>8. CASE RecordFailure \/ RecordResult \/ RecordLoad
        <3>1. UNCHANGED <<subject, made>> /\ (Go("load_record") \/ JobDone) /\ sweep.at \in Working
            BY <2>8 DEF RecordFailure, RecordResult, RecordLoad, Working
        <3>2. CASE Go("load_record")
            BY <3>1, <3>2 DEF Go, SweepType, Working
        <3>3. CASE JobDone
            <4>1. sweep' = [at |-> "next", night |-> sweep.night, todo |-> sweep.todo \ {Position},
                            run |-> sweep.run + 1, reason |-> sweep.reason]
                BY <3>3 DEF JobDone, SweepType
            <4> QED
                BY <3>1, <4>1 DEF SweepType, Working
        <3> QED
            BY <3>1, <3>2, <3>3
    <2>9. CASE RecordRefuses \/ Killed
        <3>1. /\ subject' = subject /\ made' = [made EXCEPT !.deaths = @ + 1]
              /\ StopFor("raised") \/ StopFor("killed")
            BY <2>9 DEF RecordRefuses, Killed
        <3>2. made' \in [cells : SUBSET (Nat \X Nat), deaths : Nat] /\ made'.cells = made.cells
            BY <3>1 DEF SweepType
        <3>3. PICK reason \in {"raised", "killed"} :
                sweep' = [at |-> "off", night |-> sweep.night, todo |-> sweep.todo, run |-> sweep.run,
                          reason |-> reason]
            BY <3>1 DEF StopFor, SweepType
        <3> QED
            BY <3>1, <3>2, <3>3 DEF SweepType, Working
    <2> QED
        BY <2>1, <2>2, <2>3, <2>4, <2>5, <2>6, <2>7, <2>8, <2>9 DEF SweepNext
<1> QED
    BY <1>1, <1>2, PTL DEF SweepSpec

\* A sweep that says completed leaves no hole in its grid: every cell has the record of a
\* speed, whatever nights were cut short before.
THEOREM CompletedSweepsAreWhole == SweepSpec => []CompletedIsWhole
<1>0. SweepType /\ SweepWhole => CompletedIsWhole
    BY DEF SweepWhole, CompletedIsWhole, Covered, Speeds, Cells
<1>1. SweepInit => SweepWhole
    BY DEF SweepInit, SweepWhole, Asleep, Working
<1>2. SweepType /\ SweepWhole /\ [SweepNext]_sweepVars => SweepWhole'
    <2> SUFFICES ASSUME SweepType, SweepWhole, [SweepNext]_sweepVars PROVE SweepWhole'
        OBVIOUS
    <2>0. sweep.at \in Working => Position \in sweep.todo
        BY JobInHand
    <2>1. CASE UNCHANGED sweepVars
        BY <2>1 DEF sweepVars, SweepWhole, Covered, Position
    <2>2. CASE StartSweep
        <3>1. sweep'.at \in {"wait", "off"} /\ sweep'.reason # "completed" /\ corpus' = corpus
            BY <2>2 DEF StartSweep, Asleep, Keep
        <3> QED
            BY <3>1 DEF SweepWhole, Working
    <2>3. CASE WaitForIdle \/ Unreadable
        <3>1. /\ sweep'.at \in {"load", "off"} /\ sweep'.reason \in {sweep.reason, "never_idle", "raised"}
              /\ corpus' = corpus
            BY <2>3 DEF WaitForIdle, Unreadable, Go, StopFor, Keep, SweepType
        <3> QED
            BY <3>1 DEF SweepWhole, Working, Covered
    <2>4. CASE ReadCorpus
        <3>1. /\ sweep'.at = "next" /\ sweep'.reason = sweep.reason /\ corpus' = corpus
              /\ sweep'.todo = {i \in DOMAIN ExpandJobs : ~AlreadyRecorded(ExpandJobs[i])}
            BY <2>4 DEF ReadCorpus, Keep, SweepType
        <3>2. \A i \in Cells \ sweep'.todo : Covered(corpus, i)
            BY <3>1 DEF Cells, AlreadyRecorded, Covered, SweepWhole
        <3> QED
            BY <3>1, <3>2 DEF SweepWhole, Covered
    <2>5. CASE NextJob \/ Infer
        <3>1. /\ sweep'.at \in {"infer", "off", "failed", "ok", "loaded"} /\ corpus' = corpus
              /\ sweep'.todo = sweep.todo
              /\ sweep'.reason \in {sweep.reason, "max_jobs", "max_wall_seconds",
                                    "disk_floor_mid_sweep", "human_returned"}
            BY <2>5 DEF NextJob, Infer, Stops, Go, StopFor, Keep, SweepType
        <3>2. sweep.at \in Working \cup {"next"}
            BY <2>5 DEF NextJob, Infer, Working
        <3> QED
            BY <3>1, <3>2 DEF SweepWhole, Covered, Working
    <2>6. CASE Exhausted
        BY <2>6 DEF Exhausted, StopFor, Keep, SweepWhole, SweepType, Covered, Working, Cells
    <2>7. ASSUME NEW status \in {"ok", "failed"}, NEW metric \in {"speed", "load"}, sweep.at \in Working,
                 corpus' = corpus \cup {File(metric, status)}, Go("load_record") \/ JobDone,
                 metric = "load" => Covered(corpus, Position) /\ JobDone
          PROVE  SweepWhole'
        <3>1. /\ File(metric, status) # Torn /\ File(metric, status).metric = metric
              /\ File(metric, status).knobs = ExpandJobs[Position]
            BY <2>7, WrittenIsWhole
        <3>2. \A i \in Cells : Covered(corpus, i) => Covered(corpus', i)
            BY <2>7 DEF Covered
        <3>3. Covered(corpus', Position)
            BY <2>7, <3>1, <3>2, <2>0 DEF Covered, SweepType, Cells
        <3>4. \A r \in corpus' \ {Torn} : r.metric = "load" =>
                \E s \in corpus' \ {Torn} : s.metric = "speed" /\ s.knobs = r.knobs
            BY <2>7, <3>1 DEF SweepWhole, Covered
        <3>5. /\ sweep'.reason = sweep.reason
              /\ \/ sweep'.at = "load_record" /\ sweep'.todo = sweep.todo
                 \/ sweep'.at = "next" /\ sweep'.todo = sweep.todo \ {Position}
            BY <2>7 DEF Go, JobDone, SweepType
        <3>6. \A i \in Cells \ sweep'.todo : Covered(corpus', i)
            BY <2>7, <3>2, <3>3, <3>5 DEF SweepWhole
        <3>7. sweep'.at = "load_record" => Covered(corpus', Position')
            BY <3>3, <3>5 DEF Position
        <3> QED
            BY <3>2, <3>4, <3>5, <3>6, <3>7 DEF SweepWhole, Covered
    <2>8. CASE RecordFailure \/ RecordResult \/ RecordLoad
        BY <2>7, <2>8
        DEF RecordFailure, RecordResult, RecordLoad, Write, Metrics, Working, SweepWhole
    <2>9. CASE RecordRefuses \/ Killed
        <3>1. /\ sweep'.at = "off" /\ sweep'.reason # "completed" /\ corpus' \in {corpus, corpus \cup {Torn}}
            BY <2>9 DEF RecordRefuses, Killed, StopFor, SweepType
        <3> QED
            BY <3>1 DEF SweepWhole, Working
    <2> QED
        BY <2>1, <2>2, <2>3, <2>4, <2>5, <2>6, <2>8, <2>9 DEF SweepNext
<1> QED
    BY <1>0, <1>1, <1>2, SweepTyped, PTL DEF SweepSpec

LEMMA InFlightIsOne == SweepType => IsFiniteSet(InFlight) /\ Cardinality(InFlight) \in {0, 1}
BY FS_EmptySet, FS_Singleton DEF InFlight

LEMMA LostAreFinite ==
    ASSUME SweepType, NEW files
    PROVE  IsFiniteSet(Lost(files, made.cells))
BY FS_Subset DEF SweepType, Lost

\* An interruption loses the generation in flight and no other: at most one per death.
THEOREM SweepsLoseOnlyInFlight == SweepSpec => []LosesOnlyInFlight
<1>0. SweepType /\ SweepLoses => LosesOnlyInFlight
    <2> SUFFICES ASSUME SweepType, SweepLoses PROVE LosesOnlyInFlight
        OBVIOUS
    <2> DEFINE lost == Lost(corpus, made.cells)
    <2>1. lost = {g \in made.cells : ~\E r \in Speeds : r.at = g}
        BY DEF Lost, Speeds
    <2>2. IsFiniteSet(lost) /\ IsFiniteSet(lost \ InFlight) /\ IsFiniteSet(InFlight)
        BY LostAreFinite, InFlightIsOne, FS_Difference
    <2>3. lost \subseteq (lost \ InFlight) \cup InFlight
        OBVIOUS
    <2>4. /\ IsFiniteSet((lost \ InFlight) \cup InFlight)
          /\ Cardinality((lost \ InFlight) \cup InFlight)
               = Cardinality(lost \ InFlight) + Cardinality(InFlight)
                 - Cardinality((lost \ InFlight) \cap InFlight)
        BY <2>2, FS_Union
    <2>5. Cardinality((lost \ InFlight) \cap InFlight) = 0
        <3>1. (lost \ InFlight) \cap InFlight = {}
            OBVIOUS
        <3> QED
            BY <3>1, FS_EmptySet
    <2>6. Cardinality(lost) <= Cardinality((lost \ InFlight) \cup InFlight)
        BY <2>3, <2>4, FS_Subset
    <2>7. Cardinality(InFlight) = IF sweep.at \in {"ok", "loaded"} THEN 1 ELSE 0
        BY FS_EmptySet, FS_Singleton DEF InFlight
    <2>8. Cardinality(lost) \in Nat /\ Cardinality(lost \ InFlight) \in Nat /\ made.deaths \in Nat
        BY <2>2, FS_CardinalityType DEF SweepType
    <2>9. Cardinality(lost \ InFlight) <= made.deaths
        BY DEF SweepLoses
    <2>10. Cardinality(InFlight) \in Nat
        BY <2>7
    <2> HIDE DEF lost, InFlight
    <2>11. Cardinality((lost \ InFlight) \cup InFlight) = Cardinality(lost \ InFlight) + Cardinality(InFlight)
        BY <2>4, <2>5, <2>8, <2>10
    <2>12. Cardinality(lost) <= Cardinality(lost \ InFlight) + Cardinality(InFlight)
        BY <2>6, <2>11
    <2>13. Cardinality(lost) <= made.deaths + Cardinality(InFlight)
        BY <2>8, <2>9, <2>10, <2>12
    <2> QED
        BY <2>1, <2>7, <2>13 DEF LosesOnlyInFlight, lost
<1>1. SweepInit => SweepLoses
    BY FS_EmptySet DEF SweepInit, SweepLoses, Lost
<1>2. SweepType /\ SweepType' /\ SweepLoses /\ [SweepNext]_sweepVars => SweepLoses'
    <2> SUFFICES ASSUME SweepType, SweepType', SweepLoses, [SweepNext]_sweepVars PROVE SweepLoses'
        OBVIOUS
    <2> DEFINE still == Lost(corpus, made.cells) \ InFlight
    <2>0. /\ IsFiniteSet(still) /\ Cardinality(still) \in Nat /\ Cardinality(still) <= made.deaths
          /\ made.deaths \in Nat
        BY LostAreFinite, FS_Difference, FS_CardinalityType DEF SweepLoses, SweepType
    \* A step that loses no more, or dies.
    <2>1. ASSUME still' \subseteq still, made'.deaths = made.deaths PROVE SweepLoses'
        BY <2>0, <2>1, FS_Subset, FS_CardinalityType DEF SweepLoses, SweepType
    <2>2. ASSUME NEW g, still' \subseteq still \cup {g}, made'.deaths = made.deaths + 1
          PROVE  SweepLoses'
        <3>1. /\ IsFiniteSet(still \cup {g})
              /\ Cardinality(still \cup {g}) \in {Cardinality(still), Cardinality(still) + 1}
            BY <2>0, FS_AddElement
        <3>2. Cardinality(still') <= Cardinality(still \cup {g})
            BY <2>2, <3>1, FS_Subset
        <3>3. Cardinality(still') \in Nat
            BY <2>2, <3>1, FS_Subset, FS_CardinalityType
        <3> HIDE DEF still
        <3>4. Cardinality(still') <= made'.deaths
            BY <2>0, <2>2, <3>1, <3>2, <3>3
        <3> QED
            BY <3>4 DEF SweepLoses, still
    <2>3. ASSUME UNCHANGED <<corpus, made>>, sweep.at \notin {"ok", "loaded"}
          PROVE  SweepLoses'
        BY <2>1, <2>3 DEF InFlight
    <2>4. CASE UNCHANGED sweepVars
        BY <2>4 DEF sweepVars, SweepLoses, InFlight, Generation, Position
    <2>5. CASE StartSweep \/ WaitForIdle \/ ReadCorpus \/ Unreadable \/ NextJob \/ Exhausted
        BY <2>3, <2>5 DEF StartSweep, WaitForIdle, ReadCorpus, Unreadable, NextJob, Exhausted, Keep
    <2>6. CASE Infer
        <3>1. PICK result \in {"failed", "ok", "loaded"} :
                /\ Go(result)
                /\ made' = IF result = "failed" THEN made
                           ELSE [made EXCEPT !.cells = @ \cup {Generation}]
            BY <2>6 DEF Infer
        <3>2. Generation' = Generation /\ sweep'.at = result /\ corpus' = corpus /\ InFlight = {}
            BY <2>6, <3>1 DEF Infer, Go, Generation, Position, SweepType, InFlight
        <3>3. CASE result = "failed"
            BY <2>3, <2>6, <3>1, <3>3 DEF Infer
        <3>4. CASE result # "failed"
            <4>1. made'.cells = made.cells \cup {Generation} /\ made'.deaths = made.deaths
                BY <3>1, <3>4 DEF SweepType
            <4>2. InFlight' = {Generation}
                BY <3>2, <3>4 DEF InFlight
            <4> QED
                BY <2>1, <3>2, <4>1, <4>2 DEF Lost
        <3> QED
            BY <3>3, <3>4
    <2>7. CASE RecordFailure \/ RecordLoad
        <3>1. made' = made /\ corpus \subseteq corpus' /\ InFlight = {}
            BY <2>7 DEF RecordFailure, RecordLoad, Write, InFlight
        <3> QED
            BY <2>1, <3>1 DEF Lost
    <2>8. CASE RecordResult
        <3>1. PICK f : /\ f = File("speed", "ok") /\ corpus' = corpus \cup {f} /\ made' = made
            BY <2>8 DEF RecordResult, Write, Metrics
        <3>2. f # Torn /\ f.metric = "speed" /\ f.at = Generation /\ InFlight = {Generation}
            BY <2>8, <3>1, WrittenIsWhole DEF RecordResult, Working, InFlight
        <3>3. Lost(corpus', made'.cells) \subseteq Lost(corpus, made.cells) \ {Generation}
            BY <3>1, <3>2 DEF Lost
        <3> QED
            BY <2>1, <3>1, <3>2, <3>3
    <2>9. CASE RecordRefuses \/ Killed
        <3>1. /\ corpus \subseteq corpus' /\ made'.cells = made.cells
              /\ made'.deaths = made.deaths + 1
            BY <2>9 DEF RecordRefuses, Killed, SweepType
        <3>2. PICK g : InFlight \subseteq {g}
            BY DEF InFlight
        <3>3. Lost(corpus', made'.cells) \subseteq Lost(corpus, made.cells)
            BY <3>1 DEF Lost
        <3> QED
            BY <2>2, <3>1, <3>2, <3>3
    <2> QED
        BY <2>4, <2>5, <2>6, <2>7, <2>8, <2>9 DEF SweepNext
<1> QED
    BY <1>0, <1>1, <1>2, SweepTyped, PTL DEF SweepSpec

-----------------------------------------------------------------------------
(* The flight nights *)

FlightSpec == FlightInit /\ [][FlightNext]_flightVars

Boarded == {"guard", "fetch", "ground", "gate3", "run", "write", "energy", "branch",
            "commit"}
Flying == Boarded \cup {"flights", "key", "done"}
Outcomes == {"none", "skipped", "refused", "dry-run", "failed", "ok"}
Night == [at : Flying \cup {"off", "preflight", "install"}, count : Nat, date : Nat,
          rows : SUBSET DOMAIN Plan, left : SUBSET DOMAIN Plan, missing : SUBSET Fleet,
          watched : BOOLEAN]

FlightType ==
    /\ entries \in [Fleet -> Nat]
    /\ night \in Night
    /\ attempted \in [Runtimes -> {"no", "dry", "ok", "old", "failed"}]
    /\ skip \subseteq Fleet
    /\ log \in [Fleet -> Outcomes]
    /\ night.at \in Boarded \cup {"install"} => night.left # {}

LEMMA PlanIsNumbered == DOMAIN Plan \subseteq Nat /\ \A i \in DOMAIN Plan : Plan[i] \in Fleet
BY FlightsAssumption DEF Fleet

\* The row in hand is one of the plan.
LEMMA RowInHand ==
    ASSUME FlightType, night.left # {}
    PROVE  Min(night.left) \in night.left /\ Row \in Fleet
BY PlanIsNumbered, LeastIsThere DEF FlightType, Night, Row

LEMMA RuntimesAreKnown == \A v \in Fleet : RuntimeOf[v] = NoRuntime \/ RuntimeOf[v] \in Runtimes
BY DEF Runtimes

NightSteps == Flying \cup {"off", "preflight", "install"}
NightFrom(at, left) ==
    [at |-> at, count |-> night.count, date |-> night.date, rows |-> night.rows, left |-> left,
     missing |-> night.missing, watched |-> night.watched]

\* The steps of a night's cursor change nothing else of it.
LEMMA CursorMoves ==
    ASSUME FlightType
    PROVE  /\ \A at : NextRow(at) => night' = NightFrom(at, night.left \ {Min(night.left)})
           /\ \A at : GoTo(at) => night' = NightFrom(at, night.left)
           /\ Over => night' = NightFrom("off", {})
BY DEF FlightType, Night, NextRow, GoTo, Over, NightFrom

\* What a step does to the cursor and to the log.
Moves ==
    \/ /\ log' = log
       /\ \/ Over
          \/ \E at \in NightSteps \ (Boarded \cup {"install"}) : NextRow(at)
          \/ \E at \in NightSteps : GoTo(at) /\ (at \in Boarded \cup {"install"} => night.left # {})
    \/ /\ NextRow("flights") \/ NextRow("key")
       /\ night.left # {} /\ \E outcome \in Outcomes : Note(outcome)

LEMMA MovesAreTyped ==
    ASSUME FlightType, Moves
    PROVE  /\ night' \in Night /\ (night'.at \in Boarded \cup {"install"} => night'.left # {})
           /\ log' \in [Fleet -> Outcomes]
<1>1. PICK at \in NightSteps, left \in SUBSET DOMAIN Plan :
        night' = NightFrom(at, left) /\ (at \in Boarded \cup {"install"} => left # {})
    <2>1. CASE Over
        <3>1. "off" \in NightSteps /\ "off" \notin Boarded \cup {"install"}
            BY DEF NightSteps, Boarded
        <3> QED
            BY <2>1, <3>1, CursorMoves
    <2>2. ASSUME NEW at \in NightSteps \ (Boarded \cup {"install"}), NextRow(at)
          PROVE  \E a \in NightSteps, left \in SUBSET DOMAIN Plan :
                   night' = NightFrom(a, left) /\ (a \in Boarded \cup {"install"} => left # {})
        BY <2>2, CursorMoves DEF FlightType, Night
    <2>3. ASSUME NEW at \in NightSteps, GoTo(at), at \in Boarded \cup {"install"} => night.left # {}
          PROVE  \E a \in NightSteps, left \in SUBSET DOMAIN Plan :
                   night' = NightFrom(a, left) /\ (a \in Boarded \cup {"install"} => left # {})
        BY <2>3, CursorMoves DEF FlightType, Night
    <2>4. {"flights", "key"} \subseteq NightSteps \ (Boarded \cup {"install"})
        BY DEF NightSteps, Flying, Boarded
    <2> QED
        BY <2>1, <2>2, <2>3, <2>4 DEF Moves
<1>2. night' \in Night /\ night'.at = at /\ night'.left = left
    BY <1>1 DEF NightFrom, FlightType, Night, NightSteps
<1>3. log' \in [Fleet -> Outcomes]
    BY RowInHand DEF Moves, Note, FlightType
<1> QED
    BY <1>1, <1>2, <1>3

LEMMA EveryStepMoves ==
    ASSUME FlightType, FlightNext
    PROVE  StartNight \/ PreflightDone \/ WriteSpeed \/ Moves
<1>0. /\ Boarded \cup {"flights", "preflight", "install", "done", "key"} \subseteq NightSteps
      /\ {"preflight", "flights", "key", "done"} \cap (Boarded \cup {"install"}) = {}
      /\ night.at \in Boarded \cup {"install"} => night.left # {}
      /\ {"skipped", "refused", "dry-run", "failed", "ok"} \subseteq Outcomes
    BY DEF NightSteps, Flying, Boarded, Outcomes, FlightType
<1>1. CASE GuardFails \/ DiesAtNight \/ Morning
    BY <1>1 DEF GuardFails, DiesAtNight, Morning, Moves
<1>2. CASE PreflightRow
    BY <1>0, <1>2 DEF PreflightRow, Moves
<1>3. CASE Preinstall
    BY <1>0, <1>3 DEF Preinstall, Moves
<1>5. CASE FlightRow
    BY <1>0, <1>5 DEF FlightRow, Moves, Boarded
<1>6. CASE QueueDone \/ AfterJob
    BY <1>0, <1>6 DEF QueueDone, AfterJob, Moves
<1>7. CASE Boards \/ Fetch \/ LateInstall
    BY <1>0, <1>7 DEF Boards, Fetch, LateInstall, Moves, At, Boarded
<1>8. CASE Gate3 \/ RunCommand \/ WriteEnergy \/ Branch \/ Commit
    BY <1>0, <1>8 DEF Gate3, RunCommand, WriteEnergy, Branch, Commit, Moves, At, Boarded
<1> QED
    BY <1>1, <1>2, <1>3, <1>5, <1>6, <1>7, <1>8 DEF FlightNext

LEMMA FlightTyped == FlightSpec => []FlightType
<1>1. FlightInit => FlightType
    BY DEF FlightInit, FlightType, Landed, Night, Flying, Boarded, Outcomes
<1>2. FlightType /\ [FlightNext]_flightVars => FlightType'
    <2> SUFFICES ASSUME FlightType, [FlightNext]_flightVars PROVE FlightType'
        OBVIOUS
    <2>1. CASE UNCHANGED flightVars
        BY <2>1 DEF flightVars, FlightType
    <2>2. CASE StartNight
        <3>1. PICK today \in Today, watched \in Watching :
                night' = [at |-> "preflight", count |-> night.count + 1, date |-> today,
                          rows |-> PlanRows, left |-> PlanRows, watched |-> watched,
                          missing |-> {v \in Fleet : ~RuntimeInstalled(v)}]
            BY <2>2 DEF StartNight
        <3>2. night' \in Night /\ night'.at = "preflight"
            BY <3>1, FlightsAssumption DEF Today, PlanRows, FlightType, Night, Flying, Boarded
        <3> QED
            BY <2>2, <3>2 DEF StartNight, FlightType, Outcomes, Boarded
    <2>3. CASE PreflightDone
        BY <2>3 DEF PreflightDone, FlightType, Night, Flying, Boarded
    <2>5. CASE WriteSpeed
        <3>1. PICK today \in Today :
                night' = [night EXCEPT !.at = "energy", !.date = today]
            BY <2>5 DEF WriteSpeed
        <3>2. night' \in Night /\ night'.left # {}
            <4>1. night \in Night /\ night.left # {} /\ today \in Nat
                BY <2>5, <3>1 DEF WriteSpeed, Today, At, FlightType, Night, Boarded
            <4>2. "energy" \in Flying
                BY DEF Flying, Boarded
            <4> QED
                BY <3>1, <4>1, <4>2 DEF Night
        <3>3. Row \in Fleet /\ entries' = [entries EXCEPT ![Row] = @ + 1]
            BY <2>5, RowInHand DEF WriteSpeed, At, FlightType, Boarded
        <3>4. entries' \in [Fleet -> Nat]
            BY <3>3 DEF FlightType
        <3> QED
            BY <2>5, <3>2, <3>4 DEF WriteSpeed, FlightType
    <2>4. CASE FlightNext /\ Moves /\ ~WriteSpeed
        <3>1. /\ night' \in Night /\ (night'.at \in Boarded \cup {"install"} => night'.left # {})
              /\ log' \in [Fleet -> Outcomes]
            BY <2>4, MovesAreTyped
        <3>2. entries' \in [Fleet -> Nat]
            <4>1. CASE WriteEnergy
                <5>1. entries' \in {entries, [entries EXCEPT ![Row] = @ + 1]}
                    BY <4>1 DEF WriteEnergy
                <5>2. Row \in Fleet /\ entries[Row] + 1 \in Nat
                    BY <4>1, RowInHand DEF WriteEnergy, At, FlightType, Boarded
                <5> QED
                    BY <5>1, <5>2 DEF FlightType
            <4>2. CASE Morning
                BY <4>2 DEF Morning, FlightType
            <4>3. CASE entries' = entries
                BY <4>3 DEF FlightType
            <4>4. FlightNext => WriteSpeed \/ WriteEnergy \/ Morning \/ entries' = entries
                BY DEF FlightNext, StartNight, GuardFails, PreflightRow, Preinstall, PreflightDone,
                       FlightRow, QueueDone, Boards, Fetch, LateInstall, Gate3, RunCommand, Branch,
                       Commit, AfterJob, DiesAtNight
            <4> QED
                BY <2>4, <4>1, <4>2, <4>3, <4>4
        <3>3. /\ attempted' \in [Runtimes -> {"no", "dry", "ok", "old", "failed"}]
              /\ skip' \subseteq Fleet
            <4>1. CASE Preinstall
                BY <4>1, RowInHand DEF Preinstall, Installs, FlightType, At
            <4>2. CASE PreflightRow
                BY <4>2, RowInHand DEF PreflightRow, MarkAgain, FlightType
            <4>3. CASE StartNight
                BY <4>3 DEF StartNight, FlightType
            <4>4. CASE UNCHANGED <<attempted, skip>>
                BY <4>4 DEF FlightType
            <4> QED
                BY <2>4, <4>1, <4>2, <4>3, <4>4
                DEF FlightNext, GuardFails, PreflightDone, FlightRow, QueueDone, Boards, Fetch,
                    LateInstall, Gate3, RunCommand, WriteEnergy, Branch, Commit, AfterJob,
                    DiesAtNight, Morning
        <3> QED
            BY <3>1, <3>2, <3>3 DEF FlightType
    <2> QED
        BY <2>1, <2>2, <2>3, <2>4, <2>5, EveryStepMoves
<1> QED
    BY <1>1, <1>2, PTL DEF FlightSpec

\* What a night takes for blocked: a runtime it found missing and could not install.
Wanting(v) == RuntimeOf[v] # NoRuntime /\ v \in night.missing
Blocked(v) == Wanting(v) /\ attempted[RuntimeOf[v]] = "failed"

\* While the pre-flight phase walks the plan, what it has passed is marked as it must be,
\* and every runtime missed was tried; then marks stay, and the log follows them.
Skips ==
    /\ night.at \in {"preflight", "install"} =>
         /\ \A v \in skip : Blocked(v)
         /\ \A i \in night.rows \ night.left : Wanting(Plan[i]) =>
              /\ attempted[RuntimeOf[Plan[i]]] # "no"
              /\ Blocked(Plan[i]) => Plan[i] \in skip
         /\ night.at = "install" =>
              RuntimeOf[Row] # NoRuntime /\ Row \in night.missing /\ attempted[RuntimeOf[Row]] = "no"
    /\ night.at \in Flying =>
         /\ \A i \in night.rows : Plan[i] \in skip <=> Blocked(Plan[i])
         /\ \A i \in night.rows \ night.left :
              log[Plan[i]] # "none" /\ (log[Plan[i]] = "skipped" <=> Plan[i] \in skip)
    /\ night.at \in Boarded => Row \notin skip
    /\ night.at = "done" => night.left = {}

\* A failed install costs exactly the models that need the runtime: the variants a whole
\* night skips are those whose runtime it could not install, and all others were tried.
THEOREM NightsSkipExactlyBlocked == FlightSpec => []SkipsExactlyBlocked
<1>0. FlightType /\ Skips => SkipsExactlyBlocked
    BY DEF Skips, SkipsExactlyBlocked, Blocked, Wanting, At, Flying
<1>1. FlightInit => Skips
    BY DEF FlightInit, Skips, Landed, Flying, Boarded
<1>2. FlightType /\ Skips /\ [FlightNext]_flightVars => Skips'
    <2> SUFFICES ASSUME FlightType, Skips, [FlightNext]_flightVars PROVE Skips'
        OBVIOUS
    <2>1. CASE UNCHANGED flightVars
        BY <2>1 DEF flightVars, Skips, Blocked, Wanting, Row
    <2>2. CASE StartNight
        <3>1. /\ night'.at = "preflight" /\ night'.rows = night'.left /\ skip' = {}
            BY <2>2 DEF StartNight
        <3> QED
            BY <3>1 DEF Skips, Flying, Boarded
    <2>3. ASSUME Over, UNCHANGED <<attempted, skip, log>> PROVE Skips'
        <3>1. night' = NightFrom("off", {})
            BY <2>3, CursorMoves
        <3> QED
            BY <3>1 DEF NightFrom, Skips, Flying, Boarded
    <2>4. CASE PreflightRow
        <3>0. night.at = "preflight" /\ night.left # {} /\ UNCHANGED <<attempted, log>>
            BY <2>4 DEF PreflightRow, At
        <3>1. CASE GoTo("install")
            <4>1. RuntimeOf[Row] # NoRuntime /\ Row \in night.missing /\ attempted[RuntimeOf[Row]] = "no"
                  /\ skip' = skip
                <5>1. ~NextRow("preflight")
                    BY <3>1, CursorMoves DEF NightFrom
                <5> QED
                    BY <2>4, <5>1 DEF PreflightRow
            <4>2. night' = NightFrom("install", night.left)
                BY <3>1, CursorMoves
            <4> QED
                BY <3>0, <4>1, <4>2 DEF Skips, NightFrom, Row, Blocked, Wanting, Flying, Boarded
        <3>2. CASE NextRow("preflight")
            <4>1. night' = NightFrom("preflight", night.left \ {Min(night.left)})
                BY <3>2, CursorMoves
            <4>2. /\ Wanting(Row) => attempted[RuntimeOf[Row]] # "no" /\ (Blocked(Row) => Row \in skip')
                  /\ skip \subseteq skip' /\ skip' \subseteq skip \cup {Row}
                  /\ Row \in skip' => Row \in skip \/ Blocked(Row)
                <5>1. ~GoTo("install")
                    BY <3>2, CursorMoves DEF NightFrom
                <5>2. \/ ~Wanting(Row) /\ skip' = skip
                      \/ Wanting(Row) /\ attempted[RuntimeOf[Row]] # "no" /\ MarkAgain(Row)
                    BY <2>4, <5>1 DEF PreflightRow, Wanting
                <5> QED
                    BY <5>2 DEF MarkAgain, Blocked
            <4> QED
                BY <3>0, <4>1, <4>2 DEF Skips, NightFrom, Row, Blocked, Wanting, Flying, Boarded
        <3> QED
            BY <2>4, <3>1, <3>2 DEF PreflightRow
    <2>5. CASE Preinstall
        <3>0. night.at = "install" /\ night.left # {} /\ log' = log /\ Row \in Fleet
            BY <2>5, RowInHand DEF Preinstall, At, FlightType
        <3>1. PICK result \in {"dry", "failed", "ok", "old"} :
                /\ attempted' = [attempted EXCEPT ![RuntimeOf[Row]] = result]
                /\ skip' = IF result = "failed" THEN skip \cup {Row} ELSE skip
            BY <2>5 DEF Preinstall, Installs
        <3>2. night' = NightFrom("preflight", night.left \ {Min(night.left)})
            BY <2>5, CursorMoves DEF Preinstall
        <3>3. /\ RuntimeOf[Row] # NoRuntime /\ Row \in night.missing /\ attempted[RuntimeOf[Row]] = "no"
              /\ RuntimeOf[Row] \in Runtimes
            BY <3>0, RuntimesAreKnown DEF Skips
        <3>4. /\ attempted'[RuntimeOf[Row]] = result
              /\ \A r : r # RuntimeOf[Row] => attempted'[r] = attempted[r]
            BY <3>1, <3>3 DEF FlightType
        <3>5. \A v \in skip' : Blocked(v)'
            BY <3>0, <3>1, <3>2, <3>3, <3>4 DEF Skips, NightFrom, Blocked, Wanting
        <3>6. ASSUME NEW i \in night'.rows \ night'.left, Wanting(Plan[i])'
              PROVE  attempted'[RuntimeOf[Plan[i]]] # "no" /\ (Blocked(Plan[i])' => Plan[i] \in skip')
            <4>1. CASE i = Min(night.left)
                BY <3>1, <3>4, <4>1 DEF Row, Blocked
            <4>2. CASE i \in night.rows \ night.left
                BY <3>0, <3>1, <3>2, <3>3, <3>4, <3>6, <4>2 DEF Skips, NightFrom, Blocked, Wanting
            <4> QED
                BY <3>2, <4>1, <4>2 DEF NightFrom
        <3> QED
            BY <3>2, <3>5, <3>6 DEF Skips, NightFrom, Flying, Boarded
    <2>6. CASE PreflightDone
        <3>1. /\ night.at = "preflight" /\ night.left = {} /\ UNCHANGED <<attempted, skip, log>>
              /\ night' = NightFrom("flights", night.rows)
            BY <2>6 DEF PreflightDone, At, NightFrom, FlightType, Night
        <3> QED
            BY <3>1 DEF Skips, NightFrom, Blocked, Wanting, Flying, Boarded
    \* A flight goes on with the row in hand.
    <2>7. ASSUME NEW at \in Flying, GoTo(at), UNCHANGED <<attempted, skip, log>>, night.at \in Flying,
                 at \in Boarded => Row \notin skip, at = "done" => night.left = {}
          PROVE  Skips'
        <3>1. night' = NightFrom(at, night.left)
            BY <2>7, CursorMoves
        <3> QED
            BY <2>7, <3>1 DEF Skips, NightFrom, Blocked, Wanting, Row, Flying, Boarded
    \* Or it is over for the row.
    <2>8. ASSUME NEW at \in {"flights", "key"}, NextRow(at), UNCHANGED <<attempted, skip>>,
                 night.at \in Flying, night.left # {}, NEW outcome \in Outcomes \ {"none"},
                 Note(outcome), outcome = "skipped" <=> Row \in skip
          PROVE  Skips'
        <3>1. night' = NightFrom(at, night.left \ {Min(night.left)})
            BY <2>8, CursorMoves
        <3>2. log'[Row] = outcome /\ \A v : v # Row => log'[v] = log[v]
            BY <2>8, RowInHand DEF Note, FlightType
        <3>3. ASSUME NEW i \in night'.rows \ night'.left
              PROVE  log'[Plan[i]] # "none" /\ (log'[Plan[i]] = "skipped" <=> Plan[i] \in skip')
            <4>1. CASE Plan[i] = Row
                BY <2>8, <3>2, <4>1
            <4>2. CASE Plan[i] # Row
                <5>1. i \in night.rows \ night.left
                    BY <3>1, <4>2 DEF NightFrom, Row
                <5> QED
                    BY <2>8, <3>2, <4>2, <5>1 DEF Skips
            <4> QED
                BY <4>1, <4>2
        <3> QED
            BY <2>8, <3>1, <3>3 DEF Skips, NightFrom, Blocked, Wanting, Flying, Boarded
    <2>9. /\ Boarded \cup {"flights", "key", "done"} = Flying
          /\ {"flights", "key"} \cap Boarded = {} /\ "done" \notin Boarded
          /\ night.at \in Boarded => night.left # {} /\ Row \notin skip
        BY DEF Flying, Boarded, Skips, FlightType
    <2>10. CASE GuardFails \/ DiesAtNight \/ Morning
        BY <2>3, <2>10 DEF GuardFails, DiesAtNight, Morning
    <2>11. CASE FlightRow
        BY <2>7, <2>8, <2>9, <2>11 DEF FlightRow, At, Outcomes, Boarded
    <2>12. CASE QueueDone \/ AfterJob
        BY <2>3, <2>7, <2>9, <2>12 DEF QueueDone, AfterJob, At
    <2>13. CASE Boards
        BY <2>7, <2>8, <2>9, <2>13 DEF Boards, At, Outcomes, Boarded
    <2>14. CASE Fetch
        BY <2>3, <2>7, <2>9, <2>14 DEF Fetch, At, Boarded
    <2>15. CASE LateInstall
        <3>1. PICK result : IF result = "failed" THEN NextRow("key") /\ Note("refused")
                            ELSE GoTo("gate3") /\ UNCHANGED log
            BY <2>15 DEF LateInstall
        <3>2. night.at = "ground" /\ UNCHANGED <<attempted, skip>>
            BY <2>15 DEF LateInstall, At
        <3> QED
            BY <2>7, <2>8, <2>9, <3>1, <3>2 DEF Outcomes, Boarded
    <2>16. CASE Gate3
        BY <2>3, <2>7, <2>8, <2>9, <2>16 DEF Gate3, At, Outcomes, Boarded
    <2>17. CASE RunCommand
        BY <2>7, <2>8, <2>9, <2>17 DEF RunCommand, At, Outcomes, Boarded
    <2>18. CASE WriteEnergy \/ Branch
        BY <2>7, <2>9, <2>18 DEF WriteEnergy, Branch, At, Boarded
    <2>20. CASE WriteSpeed
        <3>1. /\ night'.at = "energy" /\ UNCHANGED <<attempted, skip, log>> /\ night.at = "write"
              /\ UNCHANGED <<night.rows, night.left, night.missing>>
            BY <2>20 DEF WriteSpeed, At, FlightType, Night
        <3> QED
            BY <3>1 DEF Skips, Blocked, Wanting, Row, Flying, Boarded
    <2>19. CASE Commit
        BY <2>8, <2>9, <2>19 DEF Commit, At, Outcomes, Boarded
    <2> QED
        BY <2>1, <2>2, <2>4, <2>5, <2>6, <2>10, <2>11, <2>12, <2>13, <2>14, <2>15, <2>16, <2>17, <2>18,
           <2>19, <2>20 DEF FlightNext
<1> QED
    BY <1>0, <1>1, <1>2, FlightTyped, PTL DEF FlightSpec

\* A variant that was refused no more has no entry yet when it is written, and then one.
YetUnflown ==
    /\ night.at \in {"fetch", "ground", "gate3", "run", "write"} => Unflown(Row)
    /\ night.at = "energy" => entries[Row] = 1

\* A file that carries an entry gets no other but for the energy of the same flight,
\* whatever was killed or not committed in between.
THEOREM VariantsAreMeasuredOnce == FlightSpec => MeasuredOnce
<1>1. FlightInit => YetUnflown
    BY DEF FlightInit, YetUnflown, Landed
<1>2. FlightType /\ YetUnflown /\ [FlightNext]_flightVars => YetUnflown'
    <2> SUFFICES ASSUME FlightType, YetUnflown, [FlightNext]_flightVars PROVE YetUnflown'
        OBVIOUS
    <2>1. ASSUME night'.at \notin {"fetch", "ground", "gate3", "run", "write", "energy"}
          PROVE  YetUnflown'
        BY <2>1 DEF YetUnflown
    <2>2. ASSUME NEW at, at # "energy", GoTo(at), entries' = entries, Unflown(Row)
          PROVE  YetUnflown'
        BY <2>2, CursorMoves DEF YetUnflown, NightFrom, Row, Unflown
    <2>3. CASE UNCHANGED flightVars
        BY <2>3 DEF flightVars, YetUnflown, Unflown, Row
    <2>4. CASE Boards
        <3>1. CASE NextRow("key")
            BY <2>1, <3>1, CursorMoves DEF NightFrom
        <3>2. CASE GoTo("fetch") /\ ~NextRow("key")
            BY <2>2, <2>4, <3>2 DEF Boards, Refusals
        <3> QED
            BY <2>4, <3>1, <3>2 DEF Boards
    <2>5. CASE Fetch \/ LateInstall \/ Gate3 \/ RunCommand
        <3>1. /\ entries' = entries /\ Unflown(Row)
              /\ Over \/ NextRow("key") \/ \E at \in {"ground", "gate3", "run", "write"} : GoTo(at)
            BY <2>5 DEF Fetch, LateInstall, Gate3, RunCommand, At, YetUnflown
        <3> QED
            BY <2>1, <2>2, <3>1, CursorMoves DEF NightFrom
    <2>7. CASE WriteSpeed
        <3>1. /\ night'.at = "energy" /\ Row' = Row /\ Row \in Fleet /\ entries[Row] = 0
              /\ entries' = [entries EXCEPT ![Row] = @ + 1]
            BY <2>7, RowInHand DEF WriteSpeed, At, YetUnflown, Unflown, Row, FlightType, Night, Boarded
        <3>2. entries'[Row] = 1
            BY <3>1 DEF FlightType
        <3> QED
            BY <3>1, <3>2 DEF YetUnflown
    <2>6. ASSUME FlightNext, ~(Boards \/ Fetch \/ LateInstall \/ Gate3 \/ RunCommand \/ WriteSpeed)
          PROVE  YetUnflown'
        <3>1. CASE StartNight
            BY <2>1, <3>1 DEF StartNight
        <3>2. CASE PreflightDone
            BY <2>1, <3>2 DEF PreflightDone, FlightType, Night
        <3>3. CASE \/ Over \/ NextRow("preflight") \/ NextRow("flights") \/ NextRow("key")
                   \/ \E at \in {"install", "guard", "done", "branch", "commit", "flights"} : GoTo(at)
            BY <2>1, <3>3, CursorMoves DEF NightFrom
        <3> QED
            BY <2>6, <3>1, <3>2, <3>3
            DEF FlightNext, GuardFails, PreflightRow, Preinstall, FlightRow, QueueDone, WriteEnergy,
                Branch, Commit, AfterJob, DiesAtNight, Morning
    <2> QED
        BY <2>3, <2>4, <2>5, <2>6, <2>7
<1>3. FlightType /\ YetUnflown /\ [FlightNext]_flightVars
        => [\A v \in Fleet : entries[v] > 0 =>
              \/ entries'[v] \in {0, entries[v]}
              \/ At("energy") /\ v = Row /\ entries[v] = 1 /\ entries'[v] = 2]_flightVars
    <2> SUFFICES ASSUME FlightType, YetUnflown, FlightNext, NEW v \in Fleet, entries[v] > 0
                 PROVE  \/ entries'[v] \in {0, entries[v]}
                        \/ At("energy") /\ v = Row /\ entries[v] = 1 /\ entries'[v] = 2
        BY DEF flightVars
    <2>1. CASE WriteSpeed
        <3>1. entries[Row] = 0
            BY <2>1 DEF WriteSpeed, At, YetUnflown, Unflown
        <3>2. \E n : entries' = [entries EXCEPT ![Row] = n]
            BY <2>1 DEF WriteSpeed
        <3> QED
            BY <3>1, <3>2 DEF FlightType
    <2>4. CASE WriteEnergy
        <3>1. entries[Row] = 1 /\ entries' \in {entries, [entries EXCEPT ![Row] = @ + 1]}
            BY <2>4 DEF WriteEnergy, At, YetUnflown
        <3> QED
            BY <2>4, <3>1 DEF WriteEnergy, FlightType
    <2>2. CASE Morning
        BY <2>2 DEF Morning
    <2>3. FlightNext => WriteSpeed \/ WriteEnergy \/ Morning \/ entries' = entries
        BY DEF FlightNext, StartNight, GuardFails, PreflightRow, Preinstall, PreflightDone,
               FlightRow, QueueDone, Boards, Fetch, LateInstall, Gate3, RunCommand, Branch,
               Commit, AfterJob, DiesAtNight
    <2> QED
        BY <2>1, <2>2, <2>3, <2>4
<1> QED
    BY <1>1, <1>2, <1>3, FlightTyped, PTL DEF FlightSpec, MeasuredOnce

-----------------------------------------------------------------------------
(* The probe *)

ProbeSpec == ProbeInit /\ [][ProbeAgain]_probeVars

Fields == {"backend", "gpu", "vram", "vramOf", "memory", "unified", "limit", "source", "runtime",
           "unknown"}
OneCard(p) == p.vramOf # <<>> => p.gpu \in {<<>>, p.vramOf}

\* What no tool has added a card to.
Bare(p) == DOMAIN p = Fields /\ p.vramOf = <<>>
Sound(p) == DOMAIN p = Fields /\ OneCard(p)

LEMMA LacksKeeps ==
    ASSUME NEW p, NEW fields, Fields \subseteq DOMAIN p
    PROVE  /\ DOMAIN Lacks(p, fields) = DOMAIN p
           /\ \A f \in DOMAIN p \ {"unknown"} : Lacks(p, fields)[f] = p[f]
BY DEF Lacks

\* Among the cards of a memory that is known one has the most, the first of these.
Best(s, i) ==
    \A j \in Sized(s) :
        \/ s.cards[i].vram > s.cards[j].vram
        \/ s.cards[i].vram = s.cards[j].vram /\ i <= j

LEMMA SizedAreSized ==
    ASSUME NEW s \in Sources, NEW i \in Sized(s)
    PROVE  /\ i \in 1 .. Len(s.cards) /\ Len(s.cards) \in Nat
           /\ s.cards[i].vram \in Nat
           /\ s.cards[i].vendor # "none"
<1> DEFINE Card == [vendor : STRING, listed : BOOLEAN, vram : Nat \cup {Unmeasured}]
<1>1. s.cards \in Seq(Card)
    BY SourcesAssumption
<1> HIDE DEF Card
<1>2. DOMAIN s.cards = 1 .. Len(s.cards) /\ Len(s.cards) \in Nat
    BY <1>1
<1>3. i \in DOMAIN s.cards /\ s.cards[i].vram # Unmeasured
    BY DEF Sized
<1>4. s.cards[i] \in Card
    BY <1>1, <1>2, <1>3
<1>5. s.cards[i].vram \in Nat \cup {Unmeasured}
    BY <1>4 DEF Card
<1> QED
    BY <1>2, <1>3, <1>5, SourcesAssumption

\* The least place up to which no card is best would follow one up to which a card is.
LEMMA BestIsThere ==
    ASSUME NEW s \in Sources, Sized(s) # {}
    PROVE  \E i \in Sized(s) : Best(s, i)
<1> DEFINE Upto(n) == {i \in Sized(s) : i <= n}
           BestOf(i, n) == \A j \in Upto(n) : \/ s.cards[i].vram > s.cards[j].vram
                                              \/ s.cards[i].vram = s.cards[j].vram /\ i <= j
           Bad == {n \in Nat : Upto(n) # {} /\ ~\E i \in Upto(n) : BestOf(i, n)}
<1>1. \A i \in Sized(s) : i \in Nat /\ i # 0 /\ i <= Len(s.cards) /\ s.cards[i].vram \in Nat /\ Len(s.cards) \in Nat
    BY SizedAreSized
<1>2. ASSUME Bad # {} PROVE FALSE
    <2>1. PICK n \in Bad : \A m \in Bad : n <= m
        <3>1. Bad \in SUBSET Nat
            OBVIOUS
        <3> HIDE DEF Bad
        <3> QED
            BY <1>2, <3>1, LeastIsThere
    <2>2. n \in Nat /\ Upto(n) # {} /\ ~\E i \in Upto(n) : BestOf(i, n)
        BY <2>1
    <2>3. n # 0
        BY <1>1, <2>2
    <2>4. n - 1 \in Nat /\ n - 1 \notin Bad
        BY <2>1, <2>2, <2>3
    <2>5. \A i \in Upto(n) : i \in Upto(n - 1) \/ i = n
        BY <1>1, <2>2
    <2>6. \A i \in Upto(n - 1) : i \in Upto(n) /\ i < n
        BY <1>1, <2>2
    <2>7. CASE Upto(n - 1) = {}
        <3>1. n \in Upto(n) /\ Upto(n) = {n}
            BY <2>2, <2>5, <2>7
        <3>2. BestOf(n, n)
            BY <3>1, <2>2
        <3> QED
            BY <3>1, <3>2, <2>2
    <2>8. CASE Upto(n - 1) # {}
        <3>1. PICK i \in Upto(n - 1) : BestOf(i, n - 1)
            BY <2>4, <2>8
        <3>2. i \in Sized(s) /\ i \in Upto(n) /\ s.cards[i].vram \in Nat /\ i < n
            BY <1>1, <2>6
        <3>3. CASE n \in Sized(s) /\ s.cards[n].vram > s.cards[i].vram
            <4>1. n \in Upto(n) /\ s.cards[n].vram \in Nat
                <5>1. n \in Sized(s) /\ n \in Nat /\ n <= n
                    BY <2>2, <3>3
                <5> QED
                    BY <1>1, <5>1
            <4>2. ASSUME NEW j \in Upto(n)
                  PROVE  \/ s.cards[n].vram > s.cards[j].vram
                         \/ s.cards[n].vram = s.cards[j].vram /\ n <= j
                <5>1. CASE j = n
                    BY <5>1, <4>1, <2>2
                <5>2. CASE j # n
                    <6>1. j \in Upto(n - 1)
                        BY <5>2, <2>5
                    <6>2. s.cards[j].vram \in Nat
                        BY <1>1
                    <6>3. s.cards[i].vram >= s.cards[j].vram
                        BY <3>1, <3>2, <6>1, <6>2
                    <6> QED
                        BY <3>2, <3>3, <4>1, <6>2, <6>3
                <5> QED
                    BY <5>1, <5>2
            <4> QED
                BY <4>1, <4>2, <2>2
        <3>4. CASE ~(n \in Sized(s) /\ s.cards[n].vram > s.cards[i].vram)
            <4>1. ASSUME NEW j \in Upto(n)
                  PROVE  \/ s.cards[i].vram > s.cards[j].vram
                         \/ s.cards[i].vram = s.cards[j].vram /\ i <= j
                <5>1. CASE j \in Upto(n - 1)
                    BY <5>1, <3>1
                <5>2. CASE j = n
                    <6>1. n \in Sized(s)
                        BY <5>2
                    <6>2. s.cards[n].vram \in Nat /\ n \in Nat
                        BY <1>1, <6>1
                    <6>3. ~(s.cards[n].vram > s.cards[i].vram) /\ i <= n /\ s.cards[i].vram \in Nat
                        BY <1>1, <6>1, <6>2, <3>2, <3>4
                    <6>4. \/ s.cards[i].vram > s.cards[n].vram
                          \/ s.cards[i].vram = s.cards[n].vram /\ i <= n
                        BY <6>2, <6>3
                    <6> QED
                        BY <6>4, <5>2
                <5> QED
                    BY <5>1, <5>2, <2>5
            <4> QED
                BY <4>1, <3>2, <2>2
        <3> QED
            BY <3>3, <3>4
    <2> QED
        BY <2>7, <2>8
<1>3. PICK k \in Sized(s) : TRUE
    OBVIOUS
<1>4. Len(s.cards) \in Nat /\ Upto(Len(s.cards)) = Sized(s)
    BY <1>1, <1>3
<1>5. PICK i \in Upto(Len(s.cards)) : BestOf(i, Len(s.cards))
    BY <1>2, <1>4
<1> QED
    BY <1>4, <1>5 DEF Best

LEMMA NvidiaIsSound ==
    ASSUME NEW p, NEW s, Bare(p), p.backend = "none"
    PROVE  /\ Sound(ProbeNvidia(p, s))
           /\ ProbeNvidia(p, s).backend # "cuda" => ProbeNvidia(p, s).vramOf = <<>>
BY LacksKeeps DEF ProbeNvidia, Sound, Bare, OneCard, Fields

LEMMA LacksIsSound ==
    ASSUME NEW p, NEW fields
    PROVE  /\ Sound(p) => Sound(Lacks(p, fields))
           /\ Bare(p) => Bare(Lacks(p, fields)) /\ Lacks(p, fields).backend = p.backend
BY LacksKeeps DEF Sound, OneCard, Bare, Fields

LEMMA DarwinIsSound ==
    ASSUME NEW p, NEW s, Bare(p)
    PROVE  Sound(ProbeDarwin(p, s))
<1> DEFINE named == s.displays \in {"named", "sized"}
           sized == s.displays \in {"sized", "nameless"} /\ ~s.arm
           limited == named /\ s.torch
           read == [p EXCEPT !.unified = s.arm,
                         !.memory = IF s.meminfo THEN s.memory ELSE Unmeasured,
                         !.gpu = IF named THEN <<"display">> ELSE <<>>,
                         !.vram = IF sized THEN s.displayVram ELSE Unmeasured,
                         !.vramOf = IF sized THEN <<"display">> ELSE <<>>,
                         !.backend = IF named THEN "metal" ELSE "cpu",
                         !.limit = IF limited THEN s.metalLimit ELSE 0,
                         !.source = IF limited THEN "metal" ELSE "none"]
       fields == (IF s.meminfo THEN {} ELSE {"memory_total_bytes"})
                 \cup (IF s.displays = "none" THEN {"gpu"} ELSE {})
                 \cup (IF s.arm \/ sized THEN {} ELSE {"vram_total_bytes"})
<1>1. /\ DOMAIN read = Fields
      /\ read.gpu = IF named THEN <<"display">> ELSE <<>>
      /\ read.vramOf = IF sized THEN <<"display">> ELSE <<>>
    BY DEF Bare, Fields
<1>2. ProbeDarwin(p, s) = Lacks(read, fields)
    BY Zenon DEF ProbeDarwin
<1> HIDE DEF read, fields
<1>3. Sound(read)
    BY <1>1 DEF Sound, OneCard
<1> QED
    BY <1>2, <1>3, LacksIsSound

LEMMA LargestIsSound ==
    ASSUME NEW p, NEW s \in Sources, Bare(p)
    PROVE  Sound(LargestCard(p, s))
<1>1. CASE Sized(s) # {}
    <2> DEFINE best == CHOOSE i \in Sized(s) : Best(s, i)
    <2>1. best \in Sized(s)
        BY <1>1, BestIsThere
    <2> HIDE DEF best
    <2>2. CardGpu(s, best) = <<"card", best>> /\ <<"card", best>> # <<>>
        BY <2>1, SizedAreSized DEF CardGpu
    <2>3. LargestCard(p, s) = [p EXCEPT !.vram = s.cards[best].vram, !.vramOf = <<"card", best>>,
                                        !.gpu = NameOr(CardGpu(s, best), @)]
        BY <1>1 DEF LargestCard, best, Best
    <2> QED
        BY <2>2, <2>3 DEF Sound, Bare, OneCard, Fields, NameOr
<1>2. CASE Sized(s) = {}
    BY <1>2, LacksKeeps DEF LargestCard, Sound, Bare, OneCard, Fields
<1> QED
    BY <1>1, <1>2

LEMMA RuntimeIsSound ==
    ASSUME NEW p, NEW s, Sound(p)
    PROVE  Sound(LinuxComputeRuntime(p, s))
<1>1. Sound(VulkanCompute(p, s))
    <2>1. Sound([p EXCEPT !.runtime = "vulkan"])
        BY DEF Sound, OneCard, Fields
    <2> QED
        BY <2>1, LacksIsSound DEF VulkanCompute
<1>2. Sound([p EXCEPT !.backend = "rocm", !.runtime = "rocm"])
    BY DEF Sound, OneCard, Fields
<1> QED
    BY <1>1, <1>2, LacksIsSound DEF LinuxComputeRuntime

LEMMA LinuxIsSound ==
    ASSUME NEW p, NEW s \in Sources, Bare(p), p.backend = "none"
    PROVE  Sound(ProbeLinux(p, s))
<1> DEFINE read == IF s.meminfo THEN [p EXCEPT !.memory = s.memory] ELSE Lacks(p, {"memory_total_bytes"})
           named == LinuxMachineName(LinuxCpuCores(read, s), s)
           nvidia == ProbeNvidia(named, s)
           listed == DetectLinuxGpus([nvidia EXCEPT !.backend = "cpu"], s)
           cards == LargestCard(listed, s)
           reached == LinuxComputeRuntime(cards, s)
<1>1. Bare(read) /\ read.backend = "none"
    BY LacksIsSound DEF Bare, Fields
<1>2. Bare(named) /\ named.backend = "none"
    <2> HIDE DEF read
    <2>1. Bare(LinuxCpuCores(read, s)) /\ LinuxCpuCores(read, s).backend = "none"
        BY <1>1, LacksIsSound DEF LinuxCpuCores
    <2> QED
        BY <2>1, LacksIsSound DEF LinuxMachineName
<1> HIDE DEF named
<1>3. Sound(nvidia) /\ (nvidia.backend # "cuda" => nvidia.vramOf = <<>>)
    BY <1>2, NvidiaIsSound
<1> HIDE DEF nvidia
<1>4. nvidia.backend # "cuda" => Bare([nvidia EXCEPT !.backend = "cpu"])
    BY <1>3 DEF Sound, Bare, Fields
<1>5. nvidia.backend # "cuda" => Bare(listed)
    BY <1>4, LacksIsSound DEF DetectLinuxGpus
<1> HIDE DEF listed
<1>6. nvidia.backend # "cuda" => Sound(cards)
    BY <1>5, LargestIsSound
<1> HIDE DEF cards
<1>7. nvidia.backend # "cuda" => Sound(reached)
    BY <1>6, RuntimeIsSound
<1> HIDE DEF reached
<1>8. ProbeLinux(p, s) = IF nvidia.backend = "cuda" THEN nvidia
                         ELSE IF reached.backend = "cpu" /\ s.cards # <<>>
                         THEN Lacks(reached, {"compute_runtime"}) ELSE reached
    BY DEF ProbeLinux, named, nvidia, listed, cards, reached
<1> QED
    BY <1>3, <1>7, <1>8, LacksIsSound

LEMMA OtherIsSound ==
    ASSUME NEW p, NEW s, Bare(p), p.backend = "none"
    PROVE  Sound(ProbeOther(p, s))
<1>1. Sound(ProbeNvidia(p, s))
    BY NvidiaIsSound
<1> DEFINE nvidia == ProbeNvidia(p, s)
           q == [nvidia EXCEPT !.backend = IF @ = "none" THEN "cpu" ELSE @]
<1>2. Sound(q)
    <2> HIDE DEF nvidia
    <2>1. Sound(nvidia)
        BY <1>1 DEF nvidia
    <2> QED
        BY <2>1 DEF Sound, OneCard, Fields
<1>3. ProbeOther(p, s) = Lacks(q, {"memory_total_bytes"})
    BY DEF ProbeOther
<1> QED
    BY <1>2, <1>3, LacksIsSound

LEMMA ProfileIsSound ==
    ASSUME NEW s \in Sources
    PROVE  Sound(ProbeLocalDevice(s))
<1> DEFINE os == CASE s.os = "darwin" -> ProbeDarwin(Blank, s)
                   [] s.os = "linux"  -> ProbeLinux(Blank, s)
                   [] OTHER           -> ProbeOther(Blank, s)
           p == ProbeDisk(os, s)
<1>1. Bare(Blank) /\ Blank.backend = "none"
    BY DEF Bare, Blank, Fields
<1>2. Sound(os)
    BY <1>1, DarwinIsSound, LinuxIsSound, OtherIsSound
<1> HIDE DEF os
<1>3. Sound(p)
    BY <1>2, LacksIsSound DEF ProbeDisk
<1> HIDE DEF p
<1>4. Sound([p EXCEPT !.limit = Usable(p), !.source = "heuristic"])
    BY <1>3 DEF Sound, OneCard, Fields
<1>5. ProbeLocalDevice(s) = IF p.limit # 0 \/ Usable(p) = Unmeasured THEN p
                            ELSE [p EXCEPT !.limit = Usable(p), !.source = "heuristic"]
    BY DEF ProbeLocalDevice, os, p
<1> QED
    BY <1>3, <1>4, <1>5

\* NameAndMemoryOfOneCard: whatever the tools answer, a card that a profile names is the one
\* whose memory it gives.
THEOREM ProfilesAreOfOneCard == ProbeSpec => []NameAndMemoryOfOneCard
<1>1. ProbeInit => NameAndMemoryOfOneCard
    BY DEF ProbeInit, Blank, NameAndMemoryOfOneCard
<1>2. NameAndMemoryOfOneCard /\ [ProbeAgain]_probeVars => NameAndMemoryOfOneCard'
    BY ProfileIsSound DEF ProbeAgain, probeVars, NameAndMemoryOfOneCard, Sound, OneCard
<1> QED
    BY <1>1, <1>2, PTL DEF ProbeSpec

-----------------------------------------------------------------------------
(* The one-shot run *)

OneShotSpec == OneShotInit /\ [][OneShotNext]_oneShotVars

\* Of what is ranked by a number something comes first.
LEMMA FirstIsThere ==
    ASSUME NEW S, S # {}, NEW rank \in [S -> Nat]
    PROVE  \E v \in S : \A w \in S : rank[v] <= rank[w]
<1>1. {rank[v] : v \in S} \in SUBSET Nat /\ {rank[v] : v \in S} # {}
    OBVIOUS
<1>2. PICK n \in {rank[v] : v \in S} : \A m \in {rank[v] : v \in S} : n <= m
    BY <1>1, LeastIsThere
<1> QED
    BY <1>2

\* plan selects one that can run, and no other that can precedes it.
LEMMA SelectedComesFirst ==
    ASSUME NEW p, NEW among \in SUBSET DOMAIN Need, NEW ready,
           Selected(p, among, ready) # Nobody
    PROVE  LET v == Selected(p, among, ready)
           IN  /\ v \in among /\ CanRun(p, v, ready)
               /\ \A w \in among \ {v} : CanRun(p, w, ready) => ~Precedes(p, w, v)
<1> DEFINE able == {v \in among : CanRun(p, v, ready)}
           fit(v) == IF Assess(p, v) = "fits" THEN 0 ELSE 1
           flown == {v \in able : \A w \in able : Evidence(v) <= Evidence(w)}
           fitting == {v \in flown : \A w \in flown : fit(v) <= fit(w)}
<1>1. able # {} /\ Selected(p, among, ready)
                    = CHOOSE v \in able : \A w \in able \ {v} : ~Precedes(p, w, v)
    BY Zenon DEF Selected
<1>2. \A v \in able : Evidence(v) \in Nat /\ fit(v) \in Nat
    BY DEF Evidence
<1>3. \A v \in able : Footprint(v) \in Nat
    <2> SUFFICES ASSUME NEW v \in able PROVE Footprint(v) \in Nat
        OBVIOUS
    <2>1. v \in DOMAIN Need /\ Assess(p, v) \in {"fits", "tight"}
        BY DEF CanRun
    <2>2. Need[v] # Unmeasured
        BY <2>1 DEF Assess
    <2> QED
        BY <2>1, <2>2, OneShotAssumption DEF Footprint
<1> HIDE DEF able, fit
<1>4. flown # {}
    <2>1. \E v \in able : \A w \in able : Evidence(v) <= Evidence(w)
        <3>1. PICK rank \in [able -> Nat] : \A v \in able : rank[v] = Evidence(v)
            <4>1. [v \in able |-> Evidence(v)] \in [able -> Nat]
                BY <1>2
            <4> QED
                BY <4>1
        <3>2. \E v \in able : \A w \in able : rank[v] <= rank[w]
            BY <1>1, FirstIsThere
        <3> QED
            BY <3>1, <3>2
    <2> QED
        BY <2>1
<1>5. fitting # {}
    <2>1. \E v \in flown : \A w \in flown : fit(v) <= fit(w)
        <3>1. PICK rank \in [flown -> Nat] : \A v \in flown : rank[v] = fit(v)
            <4>1. [v \in flown |-> fit(v)] \in [flown -> Nat]
                BY <1>2
            <4> QED
                BY <4>1
        <3> HIDE DEF flown
        <3>2. \E v \in flown : \A w \in flown : rank[v] <= rank[w]
            BY <1>4, FirstIsThere
        <3> QED
            BY <3>1, <3>2
    <2> QED
        BY <2>1
<1>6. PICK v \in fitting : \A w \in fitting : Footprint(v) <= Footprint(w)
    <2>1. PICK rank \in [fitting -> Nat] : \A x \in fitting : rank[x] = Footprint(x)
        <3>1. [x \in fitting |-> Footprint(x)] \in [fitting -> Nat]
            BY <1>3
        <3> QED
            BY <3>1
    <2> HIDE DEF fitting
    <2>2. \E x \in fitting : \A w \in fitting : rank[x] <= rank[w]
        BY <1>5, <2>1, FirstIsThere
    <2> QED
        BY <2>1, <2>2
<1>7. ASSUME NEW w \in able PROVE ~Precedes(p, w, v)
    <2>1. /\ v \in able /\ Evidence(v) <= Evidence(w)
          /\ Evidence(v) \in Nat /\ Evidence(w) \in Nat /\ fit(v) \in Nat /\ fit(w) \in Nat
          /\ Footprint(v) \in Nat /\ Footprint(w) \in Nat
        BY <1>2, <1>3
    <2>2. Evidence(w) = Evidence(v) => w \in flown /\ fit(v) <= fit(w)
        <3>1. ASSUME Evidence(w) = Evidence(v) PROVE w \in flown
            BY <3>1
        <3> QED
            BY <3>1
    <2>3. Evidence(w) = Evidence(v) /\ fit(w) = fit(v) => Footprint(v) <= Footprint(w)
        <3>1. ASSUME Evidence(w) = Evidence(v), fit(w) = fit(v) PROVE w \in fitting
            BY <2>2, <3>1
        <3> QED
            BY <1>6, <3>1
    <2>4. Precedes(p, w, v) <=>
            \/ Evidence(w) < Evidence(v)
            \/ Evidence(w) = Evidence(v) /\ fit(w) < fit(v)
            \/ Evidence(w) = Evidence(v) /\ fit(w) = fit(v) /\ Footprint(w) < Footprint(v)
        BY Zenon DEF Precedes, fit
    <2> HIDE DEF flown, fitting
    <2> QED
        BY <2>1, <2>2, <2>3, <2>4
<1>8. v \in able /\ \A w \in able \ {v} : ~Precedes(p, w, v)
    BY <1>7
<1>9. /\ Selected(p, among, ready) \in able
      /\ \A w \in able \ {Selected(p, among, ready)} : ~Precedes(p, w, Selected(p, among, ready))
    BY <1>1, <1>8
<1> QED
    BY <1>9 DEF able

RunFields == {"door", "at", "chosen", "sampled", "opened", "made", "runner", "told"}
Meanwhile == {"planned", "running", "ended", "bare", "record"}

RunType(w) ==
    /\ DOMAIN w = RunFields /\ w.door \in Doors
    /\ w.at \in Meanwhile \cup {"asked", "over"}
    /\ w.at \in Meanwhile => w.chosen \in Variants \cup {Remote}
    /\ w.sampled \in {"solo", "loaded", "unknown"}
    /\ w.opened \in Revisions \cup {NoRevision}

\* A runner lives from its start to its return, unless its parent died; the provider has none.
RunnerWhole(w) ==
    /\ w.at \in {"asked", "planned"} => w.runner = "none"
    /\ w.runner = "alive" => w.at = "running" \/ (w.at = "over" /\ w.told = "lost")
    /\ KindOf[w.door] = "remote" => w.at # "planned" /\ w.runner = "none"

\* Only a file that the run made whole gets to the record.
MadeWhole(w) ==
    /\ w.made \in {"none", "stale", "empty", "whole", "unfinished", "refusal"}
    /\ w.made = "stale" => KindOf[w.door] # "embedding"
    /\ w.made = "unfinished" => KindOf[w.door] = "text"
    /\ w.at = "record" => w.made \notin {"none", "stale", "empty"}

RowsOf(files, r) == {x \in files \ {Torn} : x.at = r}
HasRow(files, r, metric) ==
    \E x \in files \ {Torn} : x.at = r /\ x.metric = metric /\ x.status = "ok"

\* Nothing is on record before the step that records, and then at most the first of two rows.
RowsWhole(files, r, w) ==
    /\ \A x \in RowsOf(files, r) :
          /\ x.subject = w.chosen /\ x.revision = w.opened
          /\ x.status = "ok" => w.made \in {"whole", "refusal"}
    /\ w.at \notin {"record", "over"} => RowsOf(files, r) = {}
    /\ w.at = "record" =>
          \/ RowsOf(files, r) = {}
          \/ /\ KindOf[w.door] = "text" /\ w.made # "unfinished"
             /\ \E x : RowsOf(files, r) = {x} /\ x.metric = "speed" /\ x.status = "ok"
    /\ w.told = "answer" => w.at = "over"
    /\ w.told = "answer" /\ w.door \in Studio =>
          /\ HasRow(files, r, "speed")
          /\ KindOf[w.door] = "text" => HasRow(files, r, "prompt speed")

RunWhole(files, r, w) == RunType(w) /\ RunnerWhole(w) /\ MadeWhole(w) /\ RowsWhole(files, r, w)

OneShotInv ==
    /\ DOMAIN runs = Requests
    /\ runs = [r \in Requests |-> runs[r]]
    /\ \A r \in Requests : RunWhole(rows, r, runs[r])

LEMMA ChangedFields ==
    ASSUME NEW w, DOMAIN w = RunFields, NEW change, DOMAIN change \subseteq RunFields
    PROVE  /\ DOMAIN Changed(w, change) = RunFields
           /\ \A f \in RunFields :
                 Changed(w, change)[f] = IF f \in DOMAIN change THEN change[f] ELSE w[f]
BY DEF Changed

\* A step of one run leaves the rows of the others alone.
LEMMA OneRunMoves ==
    ASSUME OneShotInv, NEW r \in Requests, NEW w, runs' = [runs EXCEPT ![r] = w],
           \A q \in Requests \ {r} : RowsOf(rows', q) = RowsOf(rows, q),
           rows \ {Torn} \subseteq rows' \ {Torn},
           RunWhole(rows', r, w)
    PROVE  OneShotInv'
<1>1. /\ DOMAIN runs' = Requests /\ runs' = [q \in Requests |-> runs'[q]]
      /\ runs'[r] = w /\ \A q \in Requests \ {r} : runs'[q] = runs[q]
    BY DEF OneShotInv
<1>2. ASSUME NEW q \in Requests, q # r PROVE RunWhole(rows', q, runs[q])
    <2>1. RunWhole(rows, q, runs[q]) /\ RowsOf(rows', q) = RowsOf(rows, q)
        BY <1>2 DEF OneShotInv
    <2>2. \A metric : HasRow(rows, q, metric) => HasRow(rows', q, metric)
        BY DEF HasRow
    <2>3. RowsWhole(rows', q, runs[q])
        BY <2>1, <2>2, Zenon DEF RunWhole, RowsWhole
    <2> QED
        BY <2>1, <2>3 DEF RunWhole
<1>3. \A q \in Requests : RunWhole(rows', q, runs'[q])
    BY <1>1, <1>2
<1> QED
    BY <1>1, <1>3 DEF OneShotInv

\* Before the step that records there are no rows to look after.
LEMMA NoRowsYet ==
    ASSUME OneShotInv, NEW r \in Requests, runs[r].at \notin {"record", "over"}, NEW w,
           runs' = [runs EXCEPT ![r] = w], rows' = rows,
           RunType(w), RunnerWhole(w), MadeWhole(w),
           w.told = "answer" => w.at = "over" /\ w.door \notin Studio
    PROVE  OneShotInv'
<1>1. RowsOf(rows, r) = {} /\ RowsOf(rows', r) = {}
    BY DEF OneShotInv, RunWhole, RowsWhole
<1>2. RowsWhole(rows', r, w)
    BY <1>1 DEF RowsWhole
<1>3. RunWhole(rows', r, w)
    BY <1>2 DEF RunWhole
<1> QED
    BY <1>3, OneRunMoves

LEMMA RunsAre ==
    ASSUME OneShotInv, NEW r \in Requests
    PROVE  /\ RunWhole(rows, r, runs[r]) /\ RunType(runs[r]) /\ RunnerWhole(runs[r])
           /\ MadeWhole(runs[r]) /\ RowsWhole(rows, r, runs[r])
BY DEF OneShotInv, RunWhole

LEMMA KindsOfDoors ==
    /\ \A door \in CommandLine \cup {"daemon"} : KindOf[door] \in {"image", "speech", "transcribe", "text"}
    /\ \A door \in {"text", "chat", "stream", "dry_run"} : KindOf[door] = "text"
    /\ \A door \in {"claude", "claude_stream"} : KindOf[door] = "remote"
    /\ KindOf["embeddings"] = "embedding"
    /\ \A door : door \in DOMAIN KindOf /\ KindOf[door] \in {"image", "transcribe", "speech"}
            => door \notin Studio
BY DEF KindOf, CommandLine, Studio

LEMMA SetMoves ==
    ASSUME OneShotInv, NEW r \in Requests, NEW change, Set(r, change)
    PROVE  runs' = [runs EXCEPT ![r] = Changed(runs[r], change)]
BY DEF Set, OneShotInv

LEMMA PlanIsWhole ==
    ASSUME OneShotInv, NEW r \in Requests, runs[r].at = "asked", NEW v,
           v \in DOMAIN Workload \cup {Nobody}, KindOf[runs[r].door] # "remote",
           Planned(r, v), rows' = rows
    PROVE  OneShotInv'
<1>1. CASE v = Nobody
    <2> DEFINE change == [at |-> "over", told |-> "refused", sampled |-> "unknown"]
               w == Changed(runs[r], change)
    <2>1. /\ DOMAIN w = RunFields /\ w.at = "over" /\ w.told = "refused" /\ w.sampled = "unknown"
          /\ w.door = runs[r].door /\ w.chosen = runs[r].chosen /\ w.opened = runs[r].opened
          /\ w.made = runs[r].made /\ w.runner = runs[r].runner
        <3>1. DOMAIN change = {"at", "told", "sampled"} /\ DOMAIN change \subseteq RunFields
            BY DEF RunFields
        <3>2. DOMAIN runs[r] = RunFields
            BY RunsAre DEF RunType
        <3> HIDE DEF change
        <3>3. /\ DOMAIN w = RunFields
              /\ \A f \in RunFields : w[f] = IF f \in {"at", "told", "sampled"} THEN change[f] ELSE runs[r][f]
            BY <3>1, <3>2, ChangedFields
        <3> HIDE DEF w
        <3> QED
            BY <3>3 DEF RunFields, change
    <2>2. runs' = [runs EXCEPT ![r] = w]
        BY <1>1, SetMoves DEF Planned, EndRun
    <2> HIDE DEF w
    <2>3. RunType(w) /\ RunnerWhole(w) /\ MadeWhole(w)
        BY <2>1, RunsAre DEF RunType, RunnerWhole, MadeWhole, Meanwhile
    <2> QED
        BY <2>1, <2>2, <2>3, NoRowsYet
<1>2. CASE v # Nobody
    <2> DEFINE change == [at |-> "planned", chosen |-> v]
               w == Changed(runs[r], change)
    <2>1. /\ DOMAIN w = RunFields /\ w.at = "planned" /\ w.chosen = v
          /\ w.door = runs[r].door /\ w.told = runs[r].told /\ w.opened = runs[r].opened
          /\ w.made = runs[r].made /\ w.runner = runs[r].runner /\ w.sampled = runs[r].sampled
        <3>1. DOMAIN change = {"at", "chosen"} /\ DOMAIN change \subseteq RunFields
            BY DEF RunFields
        <3>2. DOMAIN runs[r] = RunFields
            BY RunsAre DEF RunType
        <3> HIDE DEF change
        <3>3. /\ DOMAIN w = RunFields
              /\ \A f \in RunFields : w[f] = IF f \in {"at", "chosen"} THEN change[f] ELSE runs[r][f]
            BY <3>1, <3>2, ChangedFields
        <3> HIDE DEF w
        <3> QED
            BY <3>3 DEF RunFields, change
    <2>2. runs' = [runs EXCEPT ![r] = w]
        BY <1>2, SetMoves DEF Planned
    <2> HIDE DEF w
    <2>3. v \in Variants
        BY <1>2, OneShotAssumption
    <2>4. RunType(w) /\ RunnerWhole(w) /\ MadeWhole(w)
        BY <2>1, <2>3, RunsAre DEF RunType, RunnerWhole, MadeWhole, Meanwhile
    <2>5. w.told # "answer"
        BY <2>1, RunsAre DEF RowsWhole
    <2> QED
        BY <2>1, <2>2, <2>4, <2>5, NoRowsYet
<1> QED
    BY <1>1, <1>2

\* What is selected is one of those it was selected among.
LEMMA SelectedIsThere ==
    ASSUME NEW p, NEW among \in SUBSET DOMAIN Workload, NEW ready
    PROVE  Selected(p, among, ready) \in DOMAIN Workload \cup {Nobody}
<1>1. among \in SUBSET DOMAIN Need
    BY OneShotAssumption
<1> QED
    BY <1>1, SelectedComesFirst

LEMMA CandidatesAreThere ==
    ASSUME NEW kind
    PROVE  Candidates(kind) \in SUBSET DOMAIN Workload
BY DEF Candidates

LEMMA BestIsPlanned ==
    ASSUME OneShotInv, NEW r \in Requests, PlanBest(r), KindOf[runs[r].door] # "remote"
    PROVE  OneShotInv'
<1>1. PICK importable \in BOOLEAN, p \in Profiles :
          Planned(r, IF Loads(rows) THEN Selected(p, Candidates(Kind(r)), Ready(Kind(r), importable))
                     ELSE Nobody)
    BY DEF PlanBest
<1>2. Selected(p, Candidates(Kind(r)), Ready(Kind(r), importable)) \in DOMAIN Workload \cup {Nobody}
    BY SelectedIsThere, CandidatesAreThere
<1> QED
    BY <1>1, <1>2, PlanIsWhole DEF PlanBest, Still

LEMMA TextIsPlanned ==
    ASSUME OneShotInv, NEW r \in Requests, PlanText(r)
    PROVE  OneShotInv'
<1>1. PICK importable \in BOOLEAN, p \in Profiles, q \in Profiles, asked \in Candidates("text") \cup {Nobody} :
          Planned(r, IF Loads(rows) /\ (runs[r].door = "text" \/ Resolves(q, asked))
                     THEN Selected(p, {asked} \ {Nobody}, Ready("text", importable))
                     ELSE Nobody)
    BY DEF PlanText
<1>2. {asked} \ {Nobody} \in SUBSET DOMAIN Workload
    BY CandidatesAreThere
<1>3. Selected(p, {asked} \ {Nobody}, Ready("text", importable)) \in DOMAIN Workload \cup {Nobody}
    BY <1>2, SelectedIsThere
<1> QED
    BY <1>1, <1>3, PlanIsWhole, KindsOfDoors DEF PlanText, Still

LEMMA EmbeddingIsPlanned ==
    ASSUME OneShotInv, NEW r \in Requests, PlanEmbedding(r)
    PROVE  OneShotInv'
<1>1. PICK importable \in BOOLEAN, p \in Profiles, q \in Profiles, asked \in Candidates("embedding") \cup {Nobody} :
          Planned(r, IF Resolves(q, asked) THEN PlannedVectors(p, asked, importable) ELSE Nobody)
    BY DEF PlanEmbedding
<1>2. Resolves(q, asked) => {asked} \in SUBSET DOMAIN Workload
    BY CandidatesAreThere DEF Resolves
<1>3. Resolves(q, asked) => PlannedVectors(p, asked, importable) \in DOMAIN Workload \cup {Nobody}
    BY <1>2, SelectedIsThere DEF PlannedVectors
<1> QED
    BY <1>1, <1>3, PlanIsWhole, KindsOfDoors DEF PlanEmbedding, Still

\* A run that ends before the step that records, and answers nobody in the studio.
LEMMA EndIsWhole ==
    ASSUME OneShotInv, NEW r \in Requests, runs[r].at \notin {"record", "over"},
           runs[r].runner # "alive", NEW told,
           told = "answer" => runs[r].door \notin Studio, EndRun(r, told), rows' = rows
    PROVE  OneShotInv'
<1> DEFINE change == [at |-> "over", told |-> told, sampled |-> "unknown"]
           w == Changed(runs[r], change)
<1>1. /\ DOMAIN w = RunFields /\ w.at = "over" /\ w.told = told /\ w.sampled = "unknown"
      /\ w.door = runs[r].door /\ w.chosen = runs[r].chosen /\ w.opened = runs[r].opened
      /\ w.made = runs[r].made /\ w.runner = runs[r].runner
    <2>1. DOMAIN change = {"at", "told", "sampled"} /\ DOMAIN change \subseteq RunFields
        BY DEF RunFields
    <2>2. DOMAIN runs[r] = RunFields
        BY RunsAre DEF RunType
    <2> HIDE DEF change
    <2>3. /\ DOMAIN w = RunFields
          /\ \A f \in RunFields : w[f] = IF f \in {"at", "told", "sampled"} THEN change[f] ELSE runs[r][f]
        BY <2>1, <2>2, ChangedFields
    <2> HIDE DEF w
    <2> QED
        BY <2>3 DEF RunFields, change
<1>2. runs' = [runs EXCEPT ![r] = w]
    BY SetMoves DEF EndRun
<1> HIDE DEF w
<1>3. RunType(w) /\ RunnerWhole(w) /\ MadeWhole(w)
    BY <1>1, RunsAre DEF RunType, RunnerWhole, MadeWhole, Meanwhile
<1> QED
    BY <1>1, <1>2, <1>3, NoRowsYet

LEMMA DeclineIsWhole ==
    ASSUME OneShotInv, NEW r \in Requests, Decline(r)
    PROVE  OneShotInv'
<1>1. runs[r].at = "planned" /\ runs[r].runner # "alive"
    BY RunsAre DEF Decline, RunnerWhole
<1> QED
    BY <1>1, EndIsWhole DEF Decline, Still

LEMMA StartIsWhole ==
    ASSUME OneShotInv, NEW r \in Requests, Start(r)
    PROVE  OneShotInv'
<1>1. PICK valid \in BOOLEAN, spawns \in BOOLEAN, sample \in Samples :
          IF valid /\ spawns /\ runs[r].chosen \in Ready(Kind(r), TRUE)
          THEN Set(r, [at |-> "running", runner |-> "alive", sampled |-> sample,
                       opened |-> Opened(runs[r].chosen)])
          ELSE EndRun(r, "failed")
    BY DEF Start
<1>2. runs[r].at = "planned" /\ runs[r].runner = "none" /\ rows' = rows
    BY RunsAre DEF Start, RunnerWhole, Still
<1>3. CASE EndRun(r, "failed")
    BY <1>2, <1>3, EndIsWhole
<1>4. CASE Set(r, [at |-> "running", runner |-> "alive", sampled |-> sample,
                   opened |-> Opened(runs[r].chosen)])
    <2> DEFINE change == [at |-> "running", runner |-> "alive", sampled |-> sample,
                          opened |-> Opened(runs[r].chosen)]
               w == Changed(runs[r], change)
    <2>1. /\ DOMAIN w = RunFields /\ w.at = "running" /\ w.told = runs[r].told /\ w.sampled = sample
          /\ w.door = runs[r].door /\ w.chosen = runs[r].chosen /\ w.opened = Opened(runs[r].chosen)
          /\ w.made = runs[r].made /\ w.runner = "alive"
        <3>1. DOMAIN change = {"at", "runner", "sampled", "opened"} /\ DOMAIN change \subseteq RunFields
            BY DEF RunFields
        <3>2. DOMAIN runs[r] = RunFields
            BY RunsAre DEF RunType
        <3> HIDE DEF change
        <3>3. /\ DOMAIN w = RunFields
              /\ \A f \in RunFields : w[f] = IF f \in {"at", "runner", "sampled", "opened"} THEN change[f] ELSE runs[r][f]
            BY <3>1, <3>2, ChangedFields
        <3> HIDE DEF w
        <3> QED
            BY <3>3 DEF RunFields, change
    <2>2. runs' = [runs EXCEPT ![r] = w]
        BY <1>4, SetMoves
    <2> HIDE DEF w
    <2>3. sample \in {"solo", "loaded", "unknown"}
        BY DEF Samples, SampleContention
    <2>4. Opened(runs[r].chosen) \in Revisions \cup {NoRevision}
        BY DEF Opened
    <2>5. RunType(w) /\ RunnerWhole(w) /\ MadeWhole(w)
        <3>1. RunType(w)
            BY <1>2, <2>1, <2>3, <2>4, RunsAre DEF RunType, Meanwhile
        <3>2. RunnerWhole(w)
            <4>1. RunnerWhole(runs[r])
                BY RunsAre
            <4>2. KindOf[w.door] # "remote"
                BY <4>1, <1>2, <2>1 DEF RunnerWhole
            <4>3. w.at = "running"
                BY <2>1
            <4> QED
                BY <4>2, <4>3 DEF RunnerWhole
        <3>3. MadeWhole(w)
            BY <1>2, <2>1, RunsAre DEF MadeWhole
        <3> QED
            BY <3>1, <3>2, <3>3
    <2>6. w.told # "answer"
        BY <1>2, <2>1, RunsAre DEF RowsWhole
    <2> QED
        BY <1>2, <2>1, <2>2, <2>5, <2>6, NoRowsYet
<1> QED
    BY <1>1, <1>3, <1>4

LEMMA RemoteIsAsked ==
    ASSUME OneShotInv, NEW r \in Requests, AskRemote(r)
    PROVE  OneShotInv'
<1>1. runs[r].at = "asked" /\ runs[r].runner = "none" /\ rows' = rows
    BY RunsAre DEF AskRemote, RunnerWhole, Still
<1>2. ASSUME NEW told \in {"refused", "unmeasured"}, EndRun(r, told) PROVE OneShotInv'
    BY <1>1, <1>2, EndIsWhole
<1>3. CASE Set(r, [at |-> "running", chosen |-> Remote])
    <2> DEFINE change == [at |-> "running", chosen |-> Remote]
               w == Changed(runs[r], change)
    <2>1. /\ DOMAIN w = RunFields /\ w.at = "running" /\ w.chosen = Remote
          /\ w.door = runs[r].door /\ w.told = runs[r].told /\ w.opened = runs[r].opened
          /\ w.made = runs[r].made /\ w.runner = runs[r].runner /\ w.sampled = runs[r].sampled
        <3>1. DOMAIN change = {"at", "chosen"} /\ DOMAIN change \subseteq RunFields
            BY DEF RunFields
        <3>2. DOMAIN runs[r] = RunFields
            BY RunsAre DEF RunType
        <3> HIDE DEF change
        <3>3. /\ DOMAIN w = RunFields
              /\ \A f \in RunFields : w[f] = IF f \in {"at", "chosen"} THEN change[f] ELSE runs[r][f]
            BY <3>1, <3>2, ChangedFields
        <3> HIDE DEF w
        <3> QED
            BY <3>3 DEF RunFields, change
    <2>2. runs' = [runs EXCEPT ![r] = w]
        BY <1>3, SetMoves
    <2> HIDE DEF w
    <2>3. RunType(w) /\ RunnerWhole(w) /\ MadeWhole(w)
        BY <1>1, <2>1, RunsAre DEF RunType, RunnerWhole, MadeWhole, Meanwhile
    <2>4. w.told # "answer"
        BY <1>1, <2>1, RunsAre DEF RowsWhole
    <2> QED
        BY <1>1, <2>1, <2>2, <2>3, <2>4, NoRowsYet
<1> QED
    BY <1>2, <1>3 DEF AskRemote

LEMMA ClientLeaves ==
    ASSUME OneShotInv, NEW r \in Requests,
           NEW told \in {"timeout", "cut"}, Leaves(r, told)
    PROVE  OneShotInv'
<1> DEFINE change == [told |-> told]
           w == Changed(runs[r], change)
<1>1. /\ DOMAIN w = RunFields /\ w.told = told
      /\ \A f \in RunFields \ {"told"} : w[f] = runs[r][f]
    <2>1. DOMAIN change = {"told"} /\ DOMAIN change \subseteq RunFields
        BY DEF RunFields
    <2>2. DOMAIN runs[r] = RunFields
        BY RunsAre DEF RunType
    <2> HIDE DEF change
    <2>3. /\ DOMAIN w = RunFields
          /\ \A f \in RunFields : w[f] = IF f \in {"told"} THEN change[f] ELSE runs[r][f]
        BY <2>1, <2>2, ChangedFields
    <2> HIDE DEF w
    <2> QED
        BY <2>3 DEF RunFields, change
<1>2. /\ w.door = runs[r].door /\ w.chosen = runs[r].chosen /\ w.opened = runs[r].opened
      /\ w.made = runs[r].made /\ w.runner = runs[r].runner /\ w.at = runs[r].at
      /\ w.sampled = runs[r].sampled
    BY <1>1 DEF RunFields
<1>3. runs' = [runs EXCEPT ![r] = w] /\ rows' = rows /\ runs[r].at # "over"
    BY SetMoves DEF Leaves, Still
<1> HIDE DEF w
<1>4. RunType(w) /\ MadeWhole(w)
    BY <1>1, <1>2, RunsAre DEF RunType, MadeWhole
<1>5. RunnerWhole(w)
    <2>1. RunnerWhole(runs[r])
        BY RunsAre
    <2>2. w.door = runs[r].door /\ w.runner = runs[r].runner /\ w.at = runs[r].at /\ w.at # "over"
        BY <1>2, <1>3
    <2> QED
        BY <2>1, <2>2, Zenon DEF RunnerWhole
<1>6. RowsWhole(rows', r, w)
    <2>1. RowsWhole(rows, r, runs[r])
        BY RunsAre
    <2> QED
        BY <2>1, <1>1, <1>2, <1>3 DEF RowsWhole
<1> QED
    BY <1>3, <1>4, <1>5, <1>6, OneRunMoves DEF RunWhole

\* A runner that returns is gone, whatever it says and whatever it leaves.
LEMMA ReturnIsWhole ==
    ASSUME OneShotInv, NEW r \in Requests, Returns(r, RunnerEndings)
    PROVE  OneShotInv'
<1>0. PICK ending \in RunnerEndings : \E leaves \in Makes(Kind(r), ending) :
          LET after == [runner |-> IF runs[r].runner = "alive" THEN "gone" ELSE "none",
                        made |-> IF leaves = "kept" THEN runs[r].made ELSE leaves]
          IN  CASE ending = "failed" ->
                     Set(r, Changed(after, [at |-> "over", told |-> Heard(r, "failed")]))
                [] ending = "bare"   -> Set(r, Changed(after, [at |-> "bare"]))
                [] OTHER             -> Set(r, Changed(after, [at |-> "ended"]))
    BY DEF Returns
<1>1. PICK leaves \in Makes(Kind(r), ending) :
          LET after == [runner |-> IF runs[r].runner = "alive" THEN "gone" ELSE "none",
                        made |-> IF leaves = "kept" THEN runs[r].made ELSE leaves]
          IN  CASE ending = "failed" ->
                     Set(r, Changed(after, [at |-> "over", told |-> Heard(r, "failed")]))
                [] ending = "bare"   -> Set(r, Changed(after, [at |-> "bare"]))
                [] OTHER             -> Set(r, Changed(after, [at |-> "ended"]))
    BY <1>0
<1> DEFINE after == [runner |-> IF runs[r].runner = "alive" THEN "gone" ELSE "none",
                     made |-> IF leaves = "kept" THEN runs[r].made ELSE leaves]
           why == Heard(r, "failed")
<1>2. runs[r].at = "running" /\ rows' = rows
    BY DEF Returns, Still
<1>3. PICK at \in {"over", "bare", "ended"} : \E change :
          /\ Set(r, Changed(after, change))
          /\ change = IF at = "over" THEN [at |-> at, told |-> why] ELSE [at |-> at]
    <2>1. CASE ending = "failed"
        <3>1. Set(r, Changed(after, [at |-> "over", told |-> why]))
            BY <1>1, <2>1
        <3> QED
            BY <3>1
    <2>2. CASE ending = "bare"
        <3>1. Set(r, Changed(after, [at |-> "bare"]))
            BY <1>1, <2>2
        <3> QED
            BY <3>1
    <2>3. CASE ending = "completed"
        <3>1. Set(r, Changed(after, [at |-> "ended"]))
            BY <1>1, <2>3
        <3> QED
            BY <3>1
    <2> QED
        BY <2>1, <2>2, <2>3 DEF RunnerEndings
<1>30. PICK change : /\ Set(r, Changed(after, change))
                     /\ change = IF at = "over" THEN [at |-> at, told |-> why] ELSE [at |-> at]
    BY <1>3
<1> DEFINE w == Changed(runs[r], Changed(after, change))
<1>4. runs' = [runs EXCEPT ![r] = w]
    BY <1>30, SetMoves
<1>5. /\ DOMAIN Changed(after, change) = {"runner", "made"} \cup DOMAIN change
      /\ Changed(after, change)["runner"] = after.runner
      /\ Changed(after, change)["made"] = after.made
      /\ Changed(after, change)["at"] = at
      /\ at = "over" => Changed(after, change)["told"] = why
    BY <1>30 DEF Changed
<1> DEFINE all == Changed(after, change)
<1>6. /\ DOMAIN all \subseteq RunFields /\ {"at", "runner", "made"} \subseteq DOMAIN all
      /\ all.at = at /\ all.runner = after.runner /\ all.made = after.made
      /\ IF at = "over" THEN "told" \in DOMAIN all /\ all.told = why ELSE "told" \notin DOMAIN all
      /\ DOMAIN all \cap {"door", "chosen", "opened", "sampled"} = {}
    BY <1>30, <1>5 DEF RunFields
<1>7. DOMAIN runs[r] = RunFields
    BY RunsAre DEF RunType
<1> HIDE DEF all
<1>8. /\ DOMAIN Changed(runs[r], all) = RunFields
      /\ \A f \in RunFields : Changed(runs[r], all)[f] = IF f \in DOMAIN all THEN all[f] ELSE runs[r][f]
    BY <1>6, <1>7, ChangedFields
<1>9. /\ DOMAIN w = RunFields /\ w.at = at /\ w.runner = after.runner /\ w.made = after.made
      /\ w.told = IF at = "over" THEN why ELSE runs[r].told
      /\ w.door = runs[r].door /\ w.chosen = runs[r].chosen /\ w.opened = runs[r].opened
      /\ w.sampled = runs[r].sampled
    <2>1. w = Changed(runs[r], all)
        BY DEF all
    <2> HIDE DEF w, after, why
    <2> QED
        BY <2>1, <1>6, <1>8 DEF RunFields
<1> HIDE DEF w
<1>10. /\ after.runner = IF runs[r].runner = "alive" THEN "gone" ELSE "none"
       /\ after.made = IF leaves = "kept" THEN runs[r].made ELSE leaves
    OBVIOUS
<1>11. /\ leaves \in {"kept", "empty", "whole", "unfinished", "refusal"}
       /\ leaves = "unfinished" => KindOf[runs[r].door] = "text"
    BY <1>1 DEF Makes, Kind, RunnerEndings, ImageMakes, TranscriptMakes, SpeechMakes, TextMakes, VectorsMake, RemoteMakes
<1> HIDE DEF after, why
<1>12. RunType(w)
    BY <1>2, <1>3, <1>9, RunsAre DEF RunType, Meanwhile
<1>13. RunnerWhole(w)
    <2>1. RunnerWhole(runs[r])
        BY RunsAre
    <2> QED
        BY <2>1, <1>2, <1>3, <1>9, <1>10 DEF RunnerWhole
<1>14. MadeWhole(w)
    <2>1. MadeWhole(runs[r])
        BY RunsAre
    <2> QED
        BY <2>1, <1>3, <1>9, <1>10, <1>11 DEF MadeWhole
<1>15. w.told # "answer"
    <2>1. runs[r].told # "answer"
        BY <1>2, RunsAre DEF RowsWhole
    <2> QED
        BY <2>1, <1>9 DEF why, Heard
<1> QED
    BY <1>2, <1>4, <1>12, <1>13, <1>14, <1>15, NoRowsYet

LEMMA StreamIsCut ==
    ASSUME OneShotInv, NEW r \in Requests, CutStream(r)
    PROVE  OneShotInv'
<1> DEFINE change == [at |-> "over", told |-> "cut", runner |-> Cut(runs[r].runner)]
           w == Changed(runs[r], change)
<1>1. /\ DOMAIN w = RunFields /\ w.at = "over" /\ w.told = "cut" /\ w.runner = Cut(runs[r].runner)
      /\ w.door = runs[r].door /\ w.chosen = runs[r].chosen /\ w.opened = runs[r].opened
      /\ w.made = runs[r].made /\ w.sampled = runs[r].sampled
    <2>1. DOMAIN change = {"at", "told", "runner"} /\ DOMAIN change \subseteq RunFields
        BY DEF RunFields
    <2>2. DOMAIN runs[r] = RunFields
        BY RunsAre DEF RunType
    <2> HIDE DEF change
    <2>3. /\ DOMAIN w = RunFields
          /\ \A f \in RunFields : w[f] = IF f \in {"at", "told", "runner"} THEN change[f] ELSE runs[r][f]
        BY <2>1, <2>2, ChangedFields
    <2> HIDE DEF w
    <2> QED
        BY <2>3 DEF RunFields, change
<1>2. runs' = [runs EXCEPT ![r] = w] /\ rows' = rows /\ runs[r].at = "running"
    BY SetMoves DEF CutStream, Still
<1> HIDE DEF w
<1>3. RunType(w) /\ MadeWhole(w)
    BY <1>1, RunsAre DEF RunType, MadeWhole, Meanwhile
<1>4. RunnerWhole(w)
    BY <1>1, RunsAre DEF RunnerWhole, Cut
<1> QED
    BY <1>1, <1>2, <1>3, <1>4, NoRowsYet

\* The provider's stream has no runner that could outlive it.
LEMMA RemoteIsCut ==
    ASSUME OneShotInv, NEW r \in Requests, CutRemote(r)
    PROVE  OneShotInv'
<1> DEFINE change == [at |-> "over", told |-> "cut"]
           w == Changed(runs[r], change)
<1>1. /\ DOMAIN w = RunFields /\ w.at = "over" /\ w.told = "cut" /\ w.runner = runs[r].runner
      /\ w.door = runs[r].door /\ w.chosen = runs[r].chosen /\ w.opened = runs[r].opened
      /\ w.made = runs[r].made /\ w.sampled = runs[r].sampled
    <2>1. DOMAIN change = {"at", "told"} /\ DOMAIN change \subseteq RunFields
        BY DEF RunFields
    <2>2. DOMAIN runs[r] = RunFields
        BY RunsAre DEF RunType
    <2> HIDE DEF change
    <2>3. /\ DOMAIN w = RunFields
          /\ \A f \in RunFields : w[f] = IF f \in {"at", "told"} THEN change[f] ELSE runs[r][f]
        BY <2>1, <2>2, ChangedFields
    <2> HIDE DEF w
    <2> QED
        BY <2>3 DEF RunFields, change
<1>2. runs' = [runs EXCEPT ![r] = w] /\ rows' = rows /\ runs[r].at = "running"
    BY SetMoves DEF CutRemote, Still
<1>3. KindOf[runs[r].door] = "remote"
    BY KindsOfDoors DEF CutRemote
<1> HIDE DEF w
<1>4. RunType(w) /\ MadeWhole(w)
    BY <1>1, RunsAre DEF RunType, MadeWhole, Meanwhile
<1>5. RunnerWhole(w)
    BY <1>1, <1>3, RunsAre DEF RunnerWhole
<1> QED
    BY <1>1, <1>2, <1>4, <1>5, NoRowsYet

\* A file that is new and not empty gets to the record.
LEMMA FileIsVerified ==
    ASSUME OneShotInv, NEW r \in Requests, runs[r].at = "ended", rows' = rows,
           runs[r].made \notin {"none", "stale", "empty"},
           NEW sampled \in {"solo", "loaded", "unknown"},
           Set(r, [at |-> "record", sampled |-> sampled])
    PROVE  OneShotInv'
<1> DEFINE change == [at |-> "record", sampled |-> sampled]
           w == Changed(runs[r], change)
<1>1. /\ DOMAIN w = RunFields /\ w.at = "record" /\ w.told = runs[r].told /\ w.runner = runs[r].runner
      /\ w.door = runs[r].door /\ w.chosen = runs[r].chosen /\ w.opened = runs[r].opened
      /\ w.made = runs[r].made /\ w.sampled = sampled
    <2>1. DOMAIN change = {"at", "sampled"} /\ DOMAIN change \subseteq RunFields
        BY DEF RunFields
    <2>2. DOMAIN runs[r] = RunFields
        BY RunsAre DEF RunType
    <2> HIDE DEF change
    <2>3. /\ DOMAIN w = RunFields
          /\ \A f \in RunFields : w[f] = IF f \in {"at", "sampled"} THEN change[f] ELSE runs[r][f]
        BY <2>1, <2>2, ChangedFields
    <2> HIDE DEF w
    <2> QED
        BY <2>3 DEF RunFields, change
<1>2. runs' = [runs EXCEPT ![r] = w]
    BY SetMoves
<1> HIDE DEF w
<1>3. RunType(w)
    BY <1>1, RunsAre DEF RunType, Meanwhile
<1>4. RunnerWhole(w)
    <2>1. RunnerWhole(runs[r])
        BY RunsAre
    <2> QED
        BY <2>1, <1>1 DEF RunnerWhole
<1>5. MadeWhole(w)
    <2>1. MadeWhole(runs[r])
        BY RunsAre
    <2> QED
        BY <2>1, <1>1 DEF MadeWhole
<1>6. w.told # "answer"
    BY <1>1, RunsAre DEF RowsWhole
<1> QED
    BY <1>1, <1>2, <1>3, <1>4, <1>5, <1>6, NoRowsYet

LEMMA SamplesAre ==
    /\ \A sample \in Samples : sample \in {"solo", "loaded", "unknown"}
    /\ \A before, after : Combined(before, after) \in {"solo", "loaded", "unknown"}
BY DEF Samples, SampleContention, Combined

\* An answer that goes out of a file without numbers is none of the studio's.
LEMMA ReturnedIsTold ==
    ASSUME OneShotInv, NEW r \in Requests, runs[r].at \in {"ended", "bare"}, NEW told,
           told = "answer" => runs[r].door \notin Studio, Tell(r, told), rows' = rows
    PROVE  OneShotInv'
<1>1. runs[r].runner # "alive" /\ runs[r].at \notin {"record", "over"}
    BY RunsAre DEF RunnerWhole
<1> QED
    BY <1>1, RunsAre, EndIsWhole DEF Tell, Heard, RowsWhole

LEMMA VerifyIsWhole ==
    ASSUME OneShotInv, NEW r \in Requests, Verify(r) \/ VerifyVectors(r) \/ VerifyBare(r)
    PROVE  OneShotInv'
<1>1. CASE Verify(r)
    <2>1. PICK after \in Samples :
              IF NewArtifact(runs[r])
              THEN Set(r, [at |-> "record", sampled |-> IF Kind(r) = "remote" THEN after
                                                        ELSE Combined(runs[r].sampled, after)])
              ELSE Tell(r, "failed")
        BY <1>1 DEF Verify
    <2>2. runs[r].at = "ended" /\ rows' = rows
        BY <1>1 DEF Verify, Still
    <2>3. CASE NewArtifact(runs[r])
        BY <2>1, <2>2, <2>3, SamplesAre, FileIsVerified DEF NewArtifact
    <2>4. CASE ~NewArtifact(runs[r])
        BY <2>1, <2>2, <2>4, ReturnedIsTold
    <2> QED
        BY <2>3, <2>4
<1>2. CASE VerifyVectors(r)
    <2>1. PICK after \in Samples :
              IF runs[r].made \in {"none", "empty"} THEN Tell(r, "failed")
              ELSE Set(r, [at |-> "record", sampled |-> Combined(runs[r].sampled, after)])
        BY <1>2 DEF VerifyVectors
    <2>2. runs[r].at = "ended" /\ rows' = rows /\ runs[r].made # "stale"
        BY <1>2, RunsAre DEF VerifyVectors, Still, Kind, MadeWhole
    <2>3. CASE runs[r].made \notin {"none", "empty"}
        BY <2>1, <2>2, <2>3, SamplesAre, FileIsVerified
    <2>4. CASE runs[r].made \in {"none", "empty"}
        BY <2>1, <2>2, <2>4, ReturnedIsTold
    <2> QED
        BY <2>3, <2>4
<1>3. CASE VerifyBare(r)
    <2> DEFINE told == IF NewArtifact(runs[r]) /\ Kind(r) \in {"image", "transcribe"} THEN "answer"
                       ELSE "failed"
    <2>1. runs[r].at = "bare" /\ rows' = rows /\ Tell(r, told)
        BY <1>3 DEF VerifyBare, Still
    <2>2. runs[r].door \in DOMAIN KindOf
        BY RunsAre, OneShotAssumption DEF RunType
    <2>3. told = "answer" => runs[r].door \notin Studio
        BY <2>2, KindsOfDoors DEF Kind
    <2> QED
        BY <2>1, <2>3, ReturnedIsTold
<1> QED
    BY <1>1, <1>2, <1>3

\* A run that is over after the step that records: what it told rests on its rows.
LEMMA OverIsWhole ==
    ASSUME OneShotInv, NEW r \in Requests, runs[r].at = "record", NEW told, EndRun(r, told),
           \A q \in Requests \ {r} : RowsOf(rows', q) = RowsOf(rows, q),
           rows \ {Torn} \subseteq rows' \ {Torn},
           \A x \in RowsOf(rows', r) :
              /\ x.subject = runs[r].chosen /\ x.revision = runs[r].opened
              /\ x.status = "ok" => runs[r].made \in {"whole", "refusal"},
           told = "answer" =>
              /\ HasRow(rows', r, "speed")
              /\ Kind(r) = "text" => HasRow(rows', r, "prompt speed")
    PROVE  OneShotInv'
<1> DEFINE change == [at |-> "over", told |-> told, sampled |-> "unknown"]
           w == Changed(runs[r], change)
<1>1. /\ DOMAIN w = RunFields /\ w.at = "over" /\ w.told = told /\ w.sampled = "unknown"
      /\ w.door = runs[r].door /\ w.chosen = runs[r].chosen /\ w.opened = runs[r].opened
      /\ w.made = runs[r].made /\ w.runner = runs[r].runner
    <2>1. DOMAIN change = {"at", "told", "sampled"} /\ DOMAIN change \subseteq RunFields
        BY DEF RunFields
    <2>2. DOMAIN runs[r] = RunFields
        BY RunsAre DEF RunType
    <2> HIDE DEF change
    <2>3. /\ DOMAIN w = RunFields
          /\ \A f \in RunFields : w[f] = IF f \in DOMAIN change THEN change[f] ELSE runs[r][f]
        BY <2>1, <2>2, ChangedFields, Zenon
    <2> HIDE DEF w
    <2> QED
        BY <2>1, <2>3 DEF RunFields, change
<1>2. runs' = [runs EXCEPT ![r] = w]
    BY SetMoves DEF EndRun
<1> HIDE DEF w
<1>3. RunType(w) /\ MadeWhole(w)
    BY <1>1, RunsAre DEF RunType, MadeWhole, Meanwhile
<1>4. RunnerWhole(w)
    <2>1. RunnerWhole(runs[r])
        BY RunsAre
    <2> QED
        BY <2>1, <1>1 DEF RunnerWhole
<1>5. RowsWhole(rows', r, w)
    <2>1. \A x \in RowsOf(rows', r) :
              /\ x.subject = w.chosen /\ x.revision = w.opened
              /\ x.status = "ok" => w.made \in {"whole", "refusal"}
        BY <1>1
    <2>2. w.told = "answer" => HasRow(rows', r, "speed")
                               /\ (KindOf[w.door] = "text" => HasRow(rows', r, "prompt speed"))
        BY <1>1 DEF Kind
    <2> QED
        BY <2>1, <2>2, <1>1 DEF RowsWhole
<1>6. RunWhole(rows', r, w)
    BY <1>3, <1>4, <1>5 DEF RunWhole
<1> QED
    BY <1>2, <1>6, OneRunMoves

\* The row that a run adds is its own, of what it chose and opened.
Adds(r, row, metric, status) ==
    /\ row \in rows' \ {Torn} /\ row.at = r /\ row.metric = metric /\ row.status = status
    /\ row.subject = runs[r].chosen /\ row.revision = runs[r].opened
    /\ RowsOf(rows', r) = RowsOf(rows, r) \cup {row}
    /\ \A q \in Requests \ {r} : RowsOf(rows', q) = RowsOf(rows, q)
    /\ rows \ {Torn} \subseteq rows' \ {Torn}

LEMMA RowIsOwn ==
    ASSUME OneShotInv, NEW r \in Requests, runs[r].at = "record",
           NEW metric \in {"speed", "prompt speed"}, NEW status \in {"ok", "failed"},
           NEW row, row = RowOf(r, metric, status), rows' = rows \cup {row}
    PROVE  Adds(r, row, metric, status)
<1> DEFINE new == [subject |-> runs[r].chosen, metric |-> metric, status |-> status,
                   contention |-> runs[r].sampled, revision |-> runs[r].opened,
                   knobs |-> runs[r].door, at |-> r]
<1>1. /\ runs[r].chosen \in Variants \cup {Remote} /\ runs[r].door \in Doors
      /\ runs[r].sampled \in {"solo", "loaded", "unknown"}
      /\ runs[r].opened \in Revisions \cup {NoRevision}
    BY RunsAre DEF RunType, Meanwhile
<1>2. RevisionFor(runs[r].chosen, runs[r].opened) = runs[r].opened
    BY <1>1, OneShotAssumption DEF RevisionFor
<1>3. row = new
    BY <1>2, Zenon DEF RowOf, Body
<1>4. /\ new \in [subject : Variants \cup {Remote}, metric : {"speed", "prompt speed"},
                  status : {"ok", "failed"}, contention : {"solo", "loaded", "unknown"},
                  revision : Revisions \cup {NoRevision}, knobs : Doors, at : Requests]
      /\ new.at = r /\ new.metric = metric /\ new.status = status
      /\ new.subject = runs[r].chosen /\ new.revision = runs[r].opened
    BY <1>1
<1> HIDE DEF new
<1>5. row # Torn
    BY <1>3, <1>4, RunRecordsAssumption
<1>6. /\ row.at = r /\ row.metric = metric /\ row.status = status
      /\ row.subject = runs[r].chosen /\ row.revision = runs[r].opened
    BY <1>3, <1>4
<1>8. RowsOf(rows', r) = RowsOf(rows, r) \cup {row}
    BY <1>5, <1>6 DEF RowsOf
<1>9. \A q \in Requests \ {r} : RowsOf(rows', q) = RowsOf(rows, q)
    BY <1>6 DEF RowsOf
<1>10. row \in rows' \ {Torn} /\ rows \ {Torn} \subseteq rows' \ {Torn}
    BY <1>5
<1> QED
    BY <1>6, <1>8, <1>9, <1>10 DEF Adds

\* A run that is over with the record it adds.
LEMMA RecordedIsWhole ==
    ASSUME OneShotInv, NEW r \in Requests,
           NEW metric \in {"speed", "prompt speed"}, NEW status \in {"ok", "failed"},
           RecordRun(r, metric, status), NEW told, Tell(r, told),
           status = "ok" => runs[r].made # "unfinished",
           told = "answer" =>
              /\ status = "ok"
              /\ IF Kind(r) = "text" THEN metric = "prompt speed" /\ HasRow(rows, r, "speed")
                 ELSE metric = "speed"
    PROVE  OneShotInv'
<1> DEFINE row == RowOf(r, metric, status)
           why == Heard(r, told)
<1>0. row = RowOf(r, metric, status)
    OBVIOUS
<1>1. runs[r].at = "record" /\ rows' = rows \cup {row} /\ EndRun(r, why)
    BY DEF RecordRun, Tell
<1> HIDE DEF row
<1>2. /\ row \in rows' \ {Torn} /\ row.at = r /\ row.metric = metric /\ row.status = status
      /\ row.subject = runs[r].chosen /\ row.revision = runs[r].opened
      /\ RowsOf(rows', r) = RowsOf(rows, r) \cup {row}
      /\ \A q \in Requests \ {r} : RowsOf(rows', q) = RowsOf(rows, q)
      /\ rows \ {Torn} \subseteq rows' \ {Torn}
    <2>1. Adds(r, row, metric, status)
        BY <1>0, <1>1, RowIsOwn
    <2> QED
        BY <2>1 DEF Adds
<1>3. status = "ok" => runs[r].made \in {"whole", "refusal"}
    BY <1>1, RunsAre DEF MadeWhole
<1>4. \A x \in RowsOf(rows', r) :
          /\ x.subject = runs[r].chosen /\ x.revision = runs[r].opened
          /\ x.status = "ok" => runs[r].made \in {"whole", "refusal"}
    <2>1. \A x \in RowsOf(rows, r) :
              /\ x.subject = runs[r].chosen /\ x.revision = runs[r].opened
              /\ x.status = "ok" => runs[r].made \in {"whole", "refusal"}
        BY RunsAre DEF RowsWhole
    <2> QED
        BY <2>1, <1>2, <1>3
<1>5. why = "answer" =>
          /\ HasRow(rows', r, "speed")
          /\ Kind(r) = "text" => HasRow(rows', r, "prompt speed")
    <2> SUFFICES ASSUME why = "answer"
                 PROVE  /\ HasRow(rows', r, "speed")
                        /\ Kind(r) = "text" => HasRow(rows', r, "prompt speed")
        OBVIOUS
    <2>1. told = "answer"
        BY <1>1, RunsAre DEF Heard, RowsWhole
    <2>2. HasRow(rows', r, metric)
        BY <1>2, <2>1 DEF HasRow
    <2>3. HasRow(rows, r, "speed") => HasRow(rows', r, "speed")
        BY <1>2 DEF HasRow
    <2> QED
        BY <2>1, <2>2, <2>3
<1> HIDE DEF why
<1> QED
    BY <1>1, <1>2, <1>4, <1>5, OverIsWhole

\* A text run adds its two rows one after the other and answers with the second.
LEMMA TextIsWhole ==
    ASSUME OneShotInv, NEW r \in Requests, RecordText(r)
    PROVE  OneShotInv'
<1> DEFINE written == Cardinality({x \in rows \ {Torn} : x.at = r})
<1>1. /\ Kind(r) = "text" /\ runs[r].made # "unfinished"
      /\ RecordRun(r, TextMetrics[written + 1], "ok")
      /\ IF written + 1 < Cardinality(DOMAIN TextMetrics) THEN UNCHANGED runs ELSE Tell(r, "answer")
    BY DEF RecordText
<1>2. runs[r].at = "record" /\ rows' = rows \cup {RowOf(r, TextMetrics[written + 1], "ok")}
    BY <1>1 DEF RecordRun
<1>3. TextMetrics[1] = "speed" /\ TextMetrics[2] = "prompt speed" /\ DOMAIN TextMetrics = 1 .. 2
    BY DEF TextMetrics
<1>4. Cardinality(DOMAIN TextMetrics) = 2
    <2>1. 1 \in Int /\ 2 \in Int /\ ~(1 > 2) /\ 2 - 1 + 1 = 2
        OBVIOUS
    <2>2. Cardinality(1 .. 2) = IF 1 > 2 THEN 0 ELSE 2 - 1 + 1
        BY <2>1, FS_Interval
    <2> QED
        BY <1>3, <2>1, <2>2
<1>5. written = Cardinality(RowsOf(rows, r))
    BY DEF RowsOf
<1> HIDE DEF written
<1>6. CASE RowsOf(rows, r) = {}
    <2>0. Cardinality({}) = 0
        BY FS_EmptySet
    <2>1. written = 0 /\ written + 1 = 1
        BY <1>5, <1>6, <2>0
    <2>11. TextMetrics[written + 1] = "speed"
        BY <1>3, <2>1
    <2> DEFINE row == RowOf(r, "speed", "ok")
    <2>2. rows' = rows \cup {row} /\ row = RowOf(r, "speed", "ok")
        BY <1>2, <2>11
    <2> HIDE DEF row
    <2>3. Adds(r, row, "speed", "ok")
        BY <1>2, <2>2, RowIsOwn
    <2>30. /\ row \in rows' \ {Torn} /\ row.at = r /\ row.metric = "speed" /\ row.status = "ok"
           /\ row.subject = runs[r].chosen /\ row.revision = runs[r].opened
           /\ \A q \in Requests \ {r} : RowsOf(rows', q) = RowsOf(rows, q)
           /\ rows \ {Torn} \subseteq rows' \ {Torn}
        BY <2>3 DEF Adds
    <2>4. runs' = runs
        BY <1>1, <1>4, <2>1
    <2>5. runs[r].made \in {"whole", "refusal"}
        BY <1>1, <1>2, RunsAre DEF MadeWhole
    <2>6. RowsOf(rows', r) = {row}
        BY <1>6, <2>3 DEF Adds
    <2>7. runs[r].told # "answer" /\ KindOf[runs[r].door] = "text"
        BY <1>1, <1>2, RunsAre DEF RowsWhole, Kind
    <2>8. RowsWhole(rows', r, runs[r])
        BY <1>1, <1>2, <2>30, <2>5, <2>6, <2>7 DEF RowsWhole
    <2>9. RunWhole(rows', r, runs[r])
        BY <2>8, RunsAre DEF RunWhole
    <2>10. runs' = [runs EXCEPT ![r] = runs[r]]
        BY <2>4 DEF OneShotInv
    <2> QED
        BY <2>30, <2>9, <2>10, OneRunMoves
<1>7. CASE RowsOf(rows, r) # {}
    <2>1. PICK x : RowsOf(rows, r) = {x} /\ x.metric = "speed" /\ x.status = "ok"
        BY <1>2, <1>7, RunsAre DEF RowsWhole
    <2>2. written = 1 /\ written + 1 = 2
        BY <1>5, <2>1, FS_Singleton
    <2>3. HasRow(rows, r, "speed")
        BY <2>1 DEF HasRow, RowsOf
    <2>4. RecordRun(r, "prompt speed", "ok") /\ Tell(r, "answer")
        <3>1. TextMetrics[written + 1] = "prompt speed"
            BY <1>3, <2>2
        <3>2. ~(written + 1 < Cardinality(DOMAIN TextMetrics))
            BY <1>4, <2>2
        <3> QED
            BY <1>1, <3>1, <3>2
    <2> QED
        BY <1>1, <2>3, <2>4, RecordedIsWhole
<1> QED
    BY <1>6, <1>7

LEMMA RecordIsWhole ==
    ASSUME OneShotInv, NEW r \in Requests,
           \/ RecordImage(r) \/ RecordSpeech(r) \/ RecordTranscript(r) \/ RecordVectors(r)
           \/ RecordRemote(r) \/ RecordUnfinished(r)
    PROVE  OneShotInv'
<1>1. Kind(r) # "text" => runs[r].made # "unfinished"
    BY RunsAre DEF MadeWhole, Kind
<1>2. ASSUME RecordAnswer(r), Kind(r) # "text" PROVE OneShotInv'
    BY <1>1, <1>2, RecordedIsWhole DEF RecordAnswer
<1>3. CASE RecordRemote(r)
    <2> DEFINE told == IF runs[r].made = "refusal" THEN "refused" ELSE "answer"
    <2>1. Kind(r) # "text" /\ RecordRun(r, "speed", "ok") /\ Tell(r, told)
        BY <1>3 DEF RecordRemote
    <2> HIDE DEF told
    <2> QED
        BY <1>1, <2>1, RecordedIsWhole
<1>4. CASE RecordUnfinished(r)
    BY <1>4, RecordedIsWhole DEF RecordUnfinished
<1> QED
    BY <1>2, <1>3, <1>4 DEF RecordImage, RecordSpeech, RecordTranscript, RecordVectors

LEMMA FailureIsWhole ==
    ASSUME OneShotInv, NEW r \in Requests, RecordFails(r)
    PROVE  OneShotInv'
<1>1. /\ runs[r].at = "record" /\ EndRun(r, Heard(r, "failed"))
      /\ rows' = rows \/ rows' = rows \cup {Torn}
    BY DEF RecordFails, Tell
<1>2. /\ \A q \in Requests : RowsOf(rows', q) = RowsOf(rows, q)
      /\ rows \ {Torn} \subseteq rows' \ {Torn}
    BY <1>1 DEF RowsOf
<1>3. \A x \in RowsOf(rows', r) :
          /\ x.subject = runs[r].chosen /\ x.revision = runs[r].opened
          /\ x.status = "ok" => runs[r].made \in {"whole", "refusal"}
    BY <1>2, RunsAre DEF RowsWhole
<1>4. Heard(r, "failed") # "answer"
    BY <1>1, RunsAre DEF Heard, RowsWhole
<1> QED
    BY <1>1, <1>2, <1>3, <1>4, OverIsWhole

LEMMA DryRunIsWhole ==
    ASSUME OneShotInv, NEW r \in Requests, DryRun(r)
    PROVE  OneShotInv'
<1>1. runs[r].at = "asked" /\ runs[r].runner = "none" /\ rows' = rows
    BY RunsAre DEF DryRun, Still, RunnerWhole
<1>2. EndRun(r, "refused") \/ \E asked : \E told \in {"measured", "unmeasured"} :
          Set(r, [at |-> "over", chosen |-> asked, told |-> told])
    BY Zenon DEF DryRun
<1>3. ASSUME EndRun(r, "refused") PROVE OneShotInv'
    BY <1>1, <1>3, EndIsWhole
<1>4. ASSUME NEW asked, NEW told \in {"measured", "unmeasured"},
             Set(r, [at |-> "over", chosen |-> asked, told |-> told])
      PROVE  OneShotInv'
    <2> DEFINE change == [at |-> "over", chosen |-> asked, told |-> told]
               w == Changed(runs[r], change)
    <2>1. /\ DOMAIN w = RunFields /\ w.at = "over" /\ w.told = told /\ w.chosen = asked
          /\ w.door = runs[r].door /\ w.sampled = runs[r].sampled /\ w.opened = runs[r].opened
          /\ w.made = runs[r].made /\ w.runner = runs[r].runner
        <3>1. DOMAIN change = {"at", "chosen", "told"} /\ DOMAIN change \subseteq RunFields
            BY DEF RunFields
        <3>2. DOMAIN runs[r] = RunFields
            BY RunsAre DEF RunType
        <3> HIDE DEF change
        <3>3. /\ DOMAIN w = RunFields
              /\ \A f \in RunFields : w[f] = IF f \in {"at", "chosen", "told"} THEN change[f] ELSE runs[r][f]
            BY <3>1, <3>2, ChangedFields
        <3> HIDE DEF w
        <3> QED
            BY <3>3 DEF RunFields, change
    <2>2. runs' = [runs EXCEPT ![r] = w]
        BY <1>4, SetMoves
    <2> HIDE DEF w
    <2>3. RunType(w) /\ RunnerWhole(w) /\ MadeWhole(w)
        BY <1>1, <2>1, RunsAre DEF RunType, RunnerWhole, MadeWhole, Meanwhile
    <2> QED
        BY <1>1, <2>1, <2>2, <2>3, NoRowsYet
<1> QED
    BY <1>2, <1>3, <1>4

\* What a death leaves is over, with the rows it had.
LEMMA DeathIsWhole ==
    ASSUME OneShotInv, Dies
    PROVE  OneShotInv'
<1> DEFINE over == [at |-> "over", told |-> "lost"]
<1>1. PICK with \in SUBSET Requests :
          /\ runs' = [q \in Requests |-> IF q \in with THEN Changed(runs[q], over) ELSE runs[q]]
          /\ \A q \in with : runs[q].at # "over"
          /\ rows' = rows \/ rows' = rows \cup {Torn}
    BY DEF Dies
<1>2. \A q \in Requests : RowsOf(rows', q) = RowsOf(rows, q)
    BY <1>1 DEF RowsOf
<1>3. \A q, metric : HasRow(rows, q, metric) => HasRow(rows', q, metric)
    BY <1>1 DEF HasRow
<1>4. ASSUME NEW r \in Requests PROVE RunWhole(rows', r, runs'[r])
    <2>1. CASE r \in with
        <3> DEFINE change == [at |-> "over", told |-> "lost"]
                   w == Changed(runs[r], change)
        <3>1. /\ DOMAIN w = RunFields /\ w.at = "over" /\ w.told = "lost"
              /\ w.door = runs[r].door /\ w.sampled = runs[r].sampled /\ w.opened = runs[r].opened
              /\ w.made = runs[r].made /\ w.runner = runs[r].runner /\ w.chosen = runs[r].chosen
            <4>1. DOMAIN change = {"at", "told"} /\ DOMAIN change \subseteq RunFields
                BY DEF RunFields
            <4>2. DOMAIN runs[r] = RunFields
                BY RunsAre DEF RunType
            <4> HIDE DEF change
            <4>3. /\ DOMAIN w = RunFields
                  /\ \A f \in RunFields : w[f] = IF f \in {"at", "told"} THEN change[f] ELSE runs[r][f]
                BY <4>1, <4>2, ChangedFields
            <4> HIDE DEF w
            <4> QED
                BY <4>3 DEF RunFields, change
        <3>2. runs'[r] = w
            BY <1>1, <2>1
        <3> HIDE DEF w
        <3>3. RunType(w) /\ MadeWhole(w)
            BY <3>1, RunsAre DEF RunType, MadeWhole, Meanwhile
        <3>4. RunnerWhole(w)
            BY <3>1, RunsAre DEF RunnerWhole
        <3>5. RowsWhole(rows', r, w)
            BY <1>2, <3>1, RunsAre DEF RowsWhole
        <3> QED
            BY <3>2, <3>3, <3>4, <3>5 DEF RunWhole
    <2>2. CASE r \notin with
        <3>1. runs'[r] = runs[r]
            BY <1>1, <2>2
        <3>2. RowsWhole(rows, r, runs[r])
            BY RunsAre
        <3>3. RowsWhole(rows', r, runs[r])
            BY <1>2, <1>3, <3>2, Zenon DEF RowsWhole
        <3> QED
            BY <3>1, <3>3, RunsAre DEF RunWhole
    <2> QED
        BY <2>1, <2>2
<1>5. DOMAIN runs' = Requests /\ runs' = [r \in Requests |-> runs'[r]]
    BY <1>1
<1> QED
    BY <1>4, <1>5 DEF OneShotInv

LEMMA OneShotStarts == OneShotInit => OneShotInv
<1> SUFFICES ASSUME OneShotInit PROVE OneShotInv
    OBVIOUS
<1>1. ASSUME NEW r \in Requests PROVE RunWhole(rows, r, runs[r])
    <2>1. PICK door \in Doors, held \in {"none", "stale"} :
              /\ runs[r] = Asked(door, held)
              /\ held = "stale" => door \in CommandLine
        BY DEF OneShotInit
    <2>2. \A x \in rows : x.at = Nobody
        BY DEF OneShotInit, Body
    <2>3. RowsOf(rows, r) = {}
        BY <2>2, OneShotAssumption DEF RowsOf
    <2>4. RunType(runs[r]) /\ RunnerWhole(runs[r])
        BY <2>1 DEF Asked, RunType, RunnerWhole, RunFields, Meanwhile
    <2>5. MadeWhole(runs[r])
        BY <2>1, KindsOfDoors DEF Asked, MadeWhole
    <2>6. RowsWhole(rows, r, runs[r])
        BY <2>1, <2>3 DEF Asked, RowsWhole
    <2> QED
        BY <2>4, <2>5, <2>6 DEF RunWhole
<1>2. DOMAIN runs = Requests /\ runs = [r \in Requests |-> runs[r]]
    BY DEF OneShotInit
<1> QED
    BY <1>1, <1>2 DEF OneShotInv

LEMMA OneShotInvariant == OneShotSpec => []OneShotInv
<1>1. OneShotInv /\ [OneShotNext]_oneShotVars => OneShotInv'
    <2> SUFFICES ASSUME OneShotInv, [OneShotNext]_oneShotVars PROVE OneShotInv'
        OBVIOUS
    <2>1. CASE UNCHANGED oneShotVars
        BY <2>1 DEF oneShotVars, OneShotInv
    <2>2. ASSUME NEW r \in Requests, PlanCommand(r) \/ PlanDaemon(r) PROVE OneShotInv'
        BY <2>2, BestIsPlanned, KindsOfDoors DEF PlanCommand, PlanDaemon, CommandLine
    <2>3. ASSUME NEW r \in Requests,
                 PlanText(r) \/ PlanEmbedding(r) \/ Decline(r) \/ Start(r) \/ AskRemote(r)
                 \/ ClientTimesOut(r) \/ CallerGoes(r)
          PROVE  OneShotInv'
        BY <2>3, TextIsPlanned, EmbeddingIsPlanned, DeclineIsWhole, StartIsWhole, RemoteIsAsked,
           ClientLeaves DEF ClientTimesOut, CallerGoes
    <2>4. ASSUME NEW r \in Requests,
                 DriverReturns(r) \/ StreamReturns(r) \/ VectorsReturn(r) \/ RemoteReturns(r)
          PROVE  OneShotInv'
        <3>1. Returns(r, RunnerEndings)
            BY <2>4 DEF DriverReturns, StreamReturns, VectorsReturn, RemoteReturns, Returns
        <3> QED
            BY <3>1, ReturnIsWhole
    <2>5. ASSUME NEW r \in Requests, CutStream(r) \/ CutRemote(r) PROVE OneShotInv'
        BY <2>5, StreamIsCut, RemoteIsCut
    <2>6. ASSUME NEW r \in Requests, Verify(r) \/ VerifyVectors(r) \/ VerifyBare(r) PROVE OneShotInv'
        BY <2>6, VerifyIsWhole
    <2>7. ASSUME NEW r \in Requests,
                 \/ RecordImage(r) \/ RecordSpeech(r) \/ RecordTranscript(r) \/ RecordVectors(r)
                 \/ RecordRemote(r) \/ RecordUnfinished(r)
          PROVE  OneShotInv'
        BY <2>7, RecordIsWhole
    <2>8. ASSUME NEW r \in Requests, RecordText(r) \/ RecordFails(r) \/ DryRun(r) PROVE OneShotInv'
        BY <2>8, TextIsWhole, FailureIsWhole, DryRunIsWhole
    <2>9. CASE Dies
        BY <2>9, DeathIsWhole
    <2>10. CASE WeightsMove
        BY <2>10 DEF WeightsMove, OneShotInv
    <2> QED
        BY <2>1, <2>2, <2>3, <2>4, <2>5, <2>6, <2>7, <2>8, <2>9, <2>10, Zenon DEF OneShotNext
<1> QED
    BY <1>1, OneShotStarts, PTL DEF OneShotSpec

\* SpeedIsEarned: whatever weights move, processes die and streams are cut.
THEOREM RecordedSpeedsAreEarned == OneShotSpec => []SpeedIsEarned
<1>1. OneShotInv => SpeedIsEarned
    <2> SUFFICES ASSUME OneShotInv, NEW x \in rows \ {Torn}, x.at \in Requests
                 PROVE  /\ x.subject = runs[x.at].chosen /\ x.revision = runs[x.at].opened
                        /\ x.status = "ok" => runs[x.at].made \in {"whole", "refusal"}
        BY DEF SpeedIsEarned
    <2>1. x \in RowsOf(rows, x.at)
        BY DEF RowsOf
    <2> QED
        BY <2>1, RunsAre DEF RowsWhole
<1> QED
    BY <1>1, OneShotInvariant, PTL

\* AnswerIsOnRecord: the studio never answers before its rows are written.
THEOREM AnswersAreOnRecord == OneShotSpec => []AnswerIsOnRecord
<1>1. OneShotInv => AnswerIsOnRecord
    <2> SUFFICES ASSUME OneShotInv, NEW r \in Requests,
                        runs[r].door \in Studio, runs[r].told = "answer",
                        NEW metric \in {"speed"} \cup (IF Kind(r) = "text" THEN {"prompt speed"} ELSE {})
                 PROVE  \E x \in rows \ {Torn} : x.at = r /\ x.metric = metric /\ x.status = "ok"
        BY DEF AnswerIsOnRecord
    <2>1. /\ HasRow(rows, r, "speed")
          /\ KindOf[runs[r].door] = "text" => HasRow(rows, r, "prompt speed")
        BY RunsAre DEF RowsWhole
    <2>2. metric = "speed" \/ (metric = "prompt speed" /\ KindOf[runs[r].door] = "text")
        BY DEF Kind
    <2>3. HasRow(rows, r, metric)
        BY <2>1, <2>2
    <2> QED
        BY <2>3 DEF HasRow
<1> QED
    BY <1>1, OneShotInvariant, PTL

\* RunnerGoesWithRequest: no end of a request but the death of its process leaves a runner.
THEOREM NoRunnerIsLeft == OneShotSpec => []RunnerGoesWithRequest
<1>1. OneShotInv => RunnerGoesWithRequest
    BY RunsAre DEF RunnerGoesWithRequest, RunnerWhole
<1> QED
    BY <1>1, OneShotInvariant, PTL

-----------------------------------------------------------------------------
(* The claims *)

ClaimsSpec == ClaimsInit /\ [][ClaimsNext]_claimsVars

\* What a verifier may have come to: a call has its quote on its page.
Earned(outcome) ==
    outcome.call \in {"supported", "refuted"} => outcome.cites = "both" /\ outcome.page = "quoted"
Verified == [call : {"pending", "failed", "supported", "refuted", "unresolved", "fabricated_citation"},
             cites : {"nothing", "half", "both"},
             page : {"unread", "quoted", "not_quoted", "unreachable", "broken"}]
Verdicts == {o \in Verified : Earned(o)}

CheckOf(at, verifiers, claims, report) ==
    [at |-> at, verifiers |-> verifiers, claims |-> claims, report |-> report]

\* The report counts what is in the claims, and they do not change any more.
Counted ==
    /\ check = CheckOf(check.at, check.verifiers, check.claims, check.report)
    /\ check.claims \in Seq([1 .. Verifiers -> Verdicts])
    /\ check.at = "asked" => check.claims # <<>>
    /\ check.at # "reported" => check.report = <<>>
    /\ check.at = "reported" =>
         /\ DOMAIN check.report = 1 .. Len(check.claims)
         /\ \A k \in 1 .. Len(check.claims) : check.report[k] = AggregateClaim(check.claims[k])

\* The verdicts of a claim that a citation shows, counted.
Shown(outcomes, call) ==
    Cardinality({i \in AggregateClaim(outcomes).citations :
        /\ outcomes[i].call = call
        /\ outcomes[i].cites = "both" /\ outcomes[i].page = "quoted"})

LEMMA CallsAreShown ==
    ASSUME NEW outcomes \in [1 .. Verifiers -> Verdicts]
    PROVE  /\ Shown(outcomes, "supported") + Shown(outcomes, "refuted")
                = Cardinality(AggregateClaim(outcomes).citations)
           /\ AggregateClaim(outcomes).final = "supported" =>
                Shown(outcomes, "supported") > Shown(outcomes, "refuted")
           /\ AggregateClaim(outcomes).final = "refuted" =>
                Shown(outcomes, "refuted") > Shown(outcomes, "supported")
<1> DEFINE voted(call) == {i \in 1 .. Verifiers : outcomes[i].call = call}
           cited == {i \in 1 .. Verifiers : outcomes[i].call \in {"supported", "refuted"}}
<1>1. AggregateClaim(outcomes).citations = cited
    BY DEF AggregateClaim
<1>2. ASSUME NEW call \in {"supported", "refuted"}
      PROVE  Shown(outcomes, call) = Cardinality(voted(call))
    <2>1. {i \in cited : /\ outcomes[i].call = call
                         /\ outcomes[i].cites = "both" /\ outcomes[i].page = "quoted"} = voted(call)
        BY DEF Verdicts, Earned
    <2> QED
        BY <1>1, <2>1 DEF Shown
<1>3. IsFiniteSet(voted("supported")) /\ IsFiniteSet(voted("refuted"))
    <2>1. IsFiniteSet(1 .. Verifiers)
        BY ClaimsAssumption, FS_Interval
    <2> QED
        BY <2>1, FS_Subset
<1>4. cited = voted("supported") \cup voted("refuted") /\ voted("supported") \cap voted("refuted") = {}
    OBVIOUS
<1>5. Cardinality(cited) = Cardinality(voted("supported")) + Cardinality(voted("refuted"))
    <2>1. Cardinality(cited) = Cardinality(voted("supported")) + Cardinality(voted("refuted"))
                               - Cardinality(voted("supported") \cap voted("refuted"))
        BY <1>3, <1>4, FS_Union
    <2>2. Cardinality(voted("supported") \cap voted("refuted")) = 0
        BY <1>4, FS_EmptySet
    <2>3. Cardinality(voted("supported")) \in Nat /\ Cardinality(voted("refuted")) \in Nat
        BY <1>3, FS_CardinalityType
    <2> HIDE DEF voted, cited
    <2> QED
        BY <2>1, <2>2, <2>3
<1>6. /\ Votes(outcomes, "supported") = Cardinality(voted("supported"))
      /\ Votes(outcomes, "refuted") = Cardinality(voted("refuted"))
    BY DEF Votes
<1>7. /\ AggregateClaim(outcomes).final = "supported" =>
           Votes(outcomes, "supported") > Votes(outcomes, "refuted")
      /\ AggregateClaim(outcomes).final = "refuted" =>
           Votes(outcomes, "refuted") > Votes(outcomes, "supported")
    BY DEF AggregateClaim
<1> QED
    BY <1>1, <1>2, <1>5, <1>6, <1>7

\* A call of the report rests on pages: more verifiers said so with a quote that is on the
\* page they cite than said the opposite.
THEOREM ReportedCallsRestOnPages == ClaimsSpec => []CallsRestOnPages
<1>1. ClaimsInit => Counted
    BY DEF ClaimsInit, Counted, CheckOf
<1>2. Counted /\ [ClaimsNext]_claimsVars => Counted'
    <2> SUFFICES ASSUME Counted, [ClaimsNext]_claimsVars PROVE Counted'
        OBVIOUS
    <2>0. check = CheckOf(check.at, check.verifiers, check.claims, check.report)
        BY DEF Counted
    <2>1. CASE UNCHANGED claimsVars
        BY <2>1 DEF claimsVars, Counted, CheckOf
    <2>2. CASE StartCheck
        <3>1. PICK at \in {"refused", "claim"} :
                check' = CheckOf(at, check'.verifiers, check.claims, check.report)
            BY <2>0, <2>2 DEF StartCheck, CheckOf
        <3>2. check.at = "off"
            BY <2>2 DEF StartCheck
        <3> QED
            BY <3>1, <3>2 DEF Counted, CheckOf
    <2>3. CASE StartClaim
        <3>1. check' = CheckOf("asked", check.verifiers,
                               Append(check.claims, [i \in 1 .. Verifiers |-> Pending]), check.report)
            BY <2>0, <2>3 DEF StartClaim, CheckOf
        <3>2. [i \in 1 .. Verifiers |-> Pending] \in [1 .. Verifiers -> Verdicts]
            BY DEF Pending, Verdicts, Verified, Earned
        <3>3. PICK claims : claims = Append(check.claims, [i \in 1 .. Verifiers |-> Pending])
            OBVIOUS
        <3>4. claims \in Seq([1 .. Verifiers -> Verdicts]) /\ claims # <<>>
            BY <3>2, <3>3 DEF Counted
        <3>5. check.at = "claim"
            BY <2>3 DEF StartClaim
        <3> QED
            BY <3>1, <3>3, <3>4, <3>5 DEF Counted, CheckOf
    <2>4. ASSUME NEW i \in 1 .. Verifiers, NEW outcome \in Verdicts, check.at = "asked", Outcome(i, outcome)
          PROVE  Counted'
        <3>1. Now \in 1 .. Len(check.claims)
            BY <2>4 DEF Counted, Now
        <3>2. PICK c : c = [check.claims[Now] EXCEPT ![i] = outcome]
            OBVIOUS
        <3>3. c \in [1 .. Verifiers -> Verdicts]
            BY <2>4, <3>1, <3>2 DEF Counted
        <3>4. check' = CheckOf(check.at, check.verifiers, [check.claims EXCEPT ![Now] = c], check.report)
            BY <2>0, <2>4, <3>2 DEF Outcome, CheckOf
        <3>5. [check.claims EXCEPT ![Now] = c] \in Seq([1 .. Verifiers -> Verdicts])
            BY <3>1, <3>3 DEF Counted
        <3>6. [check.claims EXCEPT ![Now] = c] # <<>>
            BY <3>1, <3>3 DEF Counted
        <3> QED
            BY <2>4, <3>4, <3>5, <3>6 DEF Counted, CheckOf
    <2>5. ASSUME NEW i \in 1 .. Verifiers, VerifierFails(i) PROVE Counted'
        BY <2>4, <2>5 DEF VerifierFails, Failure, Verdicts, Verified, Earned
    <2>6. ASSUME NEW i \in 1 .. Verifiers, VerifierAnswers(i) PROVE Counted'
        <3>1. PICK answer \in Answers, page \in FetchUrl :
                Outcome(i, IF ~ParseVerdict(answer) \/ (answer.cites = "both" /\ page = "broken") THEN Failure
                     ELSE [call |-> ApplyCitationGate(answer, page), cites |-> answer.cites,
                           page |-> IF answer.cites = "both" THEN page ELSE "unread"])
            BY <2>6 DEF VerifierAnswers
        <3>2. Failure \in Verdicts
            BY DEF Failure, Verdicts, Verified, Earned
        <3>3. ParseVerdict(answer) =>
                [call |-> ApplyCitationGate(answer, page), cites |-> answer.cites,
                 page |-> IF answer.cites = "both" THEN page ELSE "unread"] \in Verdicts
            <4>1. ParseVerdict(answer) =>
                    ApplyCitationGate(answer, page) \in
                        {"supported", "refuted", "unresolved", "fabricated_citation"}
                BY DEF ParseVerdict, ApplyCitationGate
            <4>2. ApplyCitationGate(answer, page) \in {"supported", "refuted"} =>
                    \/ answer.cites = "both" /\ page = "quoted"
                    \/ answer.call = "unresolved"
                BY DEF ApplyCitationGate
            <4>3. answer.call = "unresolved" => ApplyCitationGate(answer, page) \notin {"supported", "refuted"}
                BY DEF ApplyCitationGate
            <4> QED
                BY <4>1, <4>2, <4>3 DEF Answers, FetchUrl, Verdicts, Verified, Earned
        <3> QED
            BY <2>4, <2>6, <3>1, <3>2, <3>3 DEF VerifierAnswers
    <2>7. CASE ClaimDone
        <3>1. check' = CheckOf("claim", check.verifiers, check.claims, check.report)
            BY <2>0, <2>7 DEF ClaimDone, CheckOf
        <3> QED
            BY <2>7, <3>1 DEF ClaimDone, Counted, CheckOf
    <2>8. CASE WriteReport
        <3>1. check' = CheckOf("reported", check.verifiers, check.claims,
                               [k \in 1 .. Claims |-> AggregateClaim(check.claims[k])])
            BY <2>0, <2>8 DEF WriteReport, CheckOf
        <3>2. Claims = Len(check.claims)
            BY <2>8 DEF WriteReport
        <3> QED
            BY <3>1, <3>2 DEF Counted, CheckOf
    <2> QED
        BY <2>1, <2>2, <2>3, <2>5, <2>6, <2>7, <2>8 DEF ClaimsNext
<1>3. Counted => CallsRestOnPages
    <2> SUFFICES ASSUME Counted PROVE CallsRestOnPages
        OBVIOUS
    <2>1. ASSUME NEW k \in DOMAIN check.report
          PROVE  /\ check.report[k] = AggregateClaim(check.claims[k])
                 /\ check.claims[k] \in [1 .. Verifiers -> Verdicts]
        <3>1. check.at = "reported" /\ k \in 1 .. Len(check.claims)
            BY DEF Counted
        <3> QED
            BY <3>1 DEF Counted
    <2> QED
        BY <2>1, CallsAreShown DEF CallsRestOnPages, Shown
<1> QED
    BY <1>1, <1>2, <1>3, PTL DEF ClaimsSpec
=============================================================================
