------------------------------- MODULE Flights -------------------------------
(***************************************************************************)
(* Flight nights (tools/fly.py): every variant of the registry without a   *)
(* measured run is flown in plan order, unattended.  A pre-flight phase    *)
(* installs each missing runtime once; a flight downloads the weights,     *)
(* runs them, appends its entries to the model's file and commits it on a  *)
(* branch.  fly.py may be killed at any step; what git answers is ignored. *)
(***************************************************************************)
EXTENDS Naturals, Sequences, FiniteSets, FiniteSetsExt

CONSTANTS
    Plan,        \* the variants without a measured run, smallest download first
    ModelFile,   \* variants, each with the model whose file it is an entry of
    RuntimeOf,   \* variants, each with the runtime its FLIGHT_PLANS row names, or NoRuntime
    NeedsDir,    \* runtimes whose install script is given the downloaded model
    Unpinned,    \* variants whose revision is no pin
    NeedsGate3,  \* variants of an executor
    Watching,    \* may fly_queue be given a keyboard check?  main gives none
    NoRuntime,   \* also the branch checked out before the first flight
    MaxFlyNights, \* bound: nights started
    MaxDate      \* bound: days

Fleet == {Plan[i] : i \in DOMAIN Plan}
Runtimes == {RuntimeOf[v] : v \in Fleet} \ {NoRuntime}

ASSUME FlightsAssumption ==
    /\ Plan \in Seq(DOMAIN ModelFile \cap DOMAIN RuntimeOf)
    /\ NeedsDir \subseteq Runtimes
    /\ MaxFlyNights \in Nat /\ MaxDate \in Nat /\ Watching \subseteq BOOLEAN

VARIABLES
    installed, \* runtimes that pass their check
    entries,   \* per variant: the measured runs its registry file carries
    dry,       \* the night only logs
    night,     \* fly_queue: its step, nights so far, the date last read, the rows of the plan
               \* (positions in it), those still to look at, the variants whose runtime it found missing
    attempted, \* per runtime: "no", or how this night's install ended
    skip,      \* variants marked by the pre-flight phase
    log,       \* this night's outcome of each variant
    git        \* HEAD, the branches, the files changed and staged, the commits

flightVars == <<installed, entries, dry, night, attempted, skip, log, git>>

\* (mutant) what is committed counts, not what the file says
UnflownInGit(v) == \A c \in git.commits : v \notin c.holds
Unflown(v) == entries[v] = 0
PlanRows == {i \in DOMAIN Plan : Unflown(Plan[i])}
RuntimeInstalled(v) == RuntimeOf[v] \in installed

Landed == [at |-> "off", count |-> 0, date |-> 0, rows |-> {}, left |-> {}, missing |-> {},
           watched |-> FALSE]

FlightInit ==
    /\ installed \in SUBSET Runtimes
    /\ entries = [v \in Fleet |-> 0]
    /\ dry \in BOOLEAN
    /\ night = Landed
    /\ attempted = [r \in Runtimes |-> "no"]
    /\ skip = {}
    /\ log = [v \in Fleet |-> "none"]
    /\ git = [head |-> NoRuntime, branches |-> {NoRuntime}, dirty |-> {}, commits |-> {}]

At(step) == night.at = step
GoTo(step) == night' = [night EXCEPT !.at = step]
Row == Plan[Min(night.left)]
NextRow(step) == night' = [night EXCEPT !.at = step, !.left = @ \ {Min(@)}]
Over == night' = [night EXCEPT !.at = "off", !.left = {}]

\* The date read now; midnight may have passed since it was read last.
Today == {d \in {night.date, night.date + 1} : d <= MaxDate}

\* fly_queue: plan_rows asks each runtime once and keeps the answer.
StartNight ==
    /\ At("off") /\ night.count < MaxFlyNights
    /\ \E today \in Today, watched \in Watching :
          night' = [at |-> "preflight", count |-> night.count + 1, date |-> today,
                    rows |-> PlanRows, left |-> PlanRows, watched |-> watched,
                    missing |-> {v \in Fleet : ~RuntimeInstalled(v)}]
    /\ attempted' = [r \in Runtimes |-> "no"]
    /\ skip' = {} /\ log' = [v \in Fleet |-> "none"]
    /\ UNCHANGED <<installed, entries, dry, git>>

\* What a guard makes of its probe: good, bad, or an output it cannot read.  Without a
\* battery in sight the machine counts as on mains; nothing else passes unread.
OnAcPower(reading) == reading # "bad"
KeyboardActivity(reading) == reading # "good"
Passes(guard, reading) ==
    CASE guard = "power" -> OnAcPower(reading)
      [] guard = "key"   -> ~KeyboardActivity(reading)
      [] OTHER           -> reading = "good"

\* guards_ok: the first guard that fails ends the night, before an install as before a
\* flight.  Reading the keyboard only counts when fly_queue was given a check.
Guards == {"minutes", "idle", "display", "key", "disk", "power"}
GuardFails ==
    /\ At("install") \/ At("guard")
    /\ \E g \in Guards, reading \in {"good", "bad", "none"} :
          ~Passes(g, reading) /\ (g = "key" => night.watched)
    /\ Over
    /\ UNCHANGED <<installed, entries, dry, attempted, skip, log, git>>

\* (mutant) only the row that met the failure is marked
MarkFirstOnly(v) == UNCHANGED skip
MarkAgain(v) == skip' = IF attempted[RuntimeOf[v]] = "failed" THEN skip \cup {v} ELSE skip

PreflightRow ==
    /\ At("preflight") /\ night.left # {}
    /\ IF RuntimeOf[Row] = NoRuntime \/ Row \notin night.missing
       THEN NextRow("preflight") /\ UNCHANGED skip
       ELSE IF attempted[RuntimeOf[Row]] # "no"
       THEN NextRow("preflight") /\ MarkAgain(Row)
       ELSE GoTo("install") /\ UNCHANGED skip
    /\ UNCHANGED <<installed, entries, dry, attempted, log, git>>

\* run_runtime_install: a dry run only logs; a script that needs the model's
\* directory cannot be run yet; an install may time out, fail, pass while the check
\* still misses the runtime, or leave one older than the recipe's minimum, which only
\* runtime_status looks at.  It never raises.
Installs(runtime, dir) ==
    IF dry THEN {"dry"}
    ELSE IF runtime \in NeedsDir /\ ~dir THEN {"failed"} ELSE {"ok", "old", "failed"}

Preinstall ==
    /\ At("install")
    /\ \E result \in Installs(RuntimeOf[Row], FALSE) :
          /\ attempted' = [attempted EXCEPT ![RuntimeOf[Row]] = result]
          /\ installed' = IF result = "ok" THEN installed \cup {RuntimeOf[Row]} ELSE installed
          /\ skip' = IF result = "failed" THEN skip \cup {Row} ELSE skip
    /\ NextRow("preflight")
    /\ UNCHANGED <<entries, dry, log, git>>

PreflightDone ==
    /\ At("preflight") /\ night.left = {}
    /\ night' = [night EXCEPT !.at = "flights", !.left = night.rows]
    /\ UNCHANGED <<installed, entries, dry, attempted, skip, log, git>>

Note(outcome) == log' = [log EXCEPT ![Row] = outcome]
FlightRow ==
    /\ At("flights") /\ night.left # {}
    /\ IF Row \in skip THEN NextRow("flights") /\ Note("skipped")
       ELSE GoTo("guard") /\ UNCHANGED log
    /\ UNCHANGED <<installed, entries, dry, attempted, skip, git>>
QueueDone ==
    /\ At("flights") /\ night.left = {}
    /\ GoTo("done")
    /\ UNCHANGED <<installed, entries, dry, attempted, skip, log, git>>

\* fly_run up to the download: flown already, disk, power, runtime, pin.
\* A runtime that waits for the download is not refused yet.
Refusals ==
    IF ~Unflown(Row) THEN TRUE
    ELSE \/ ~RuntimeInstalled(Row) /\ ~dry /\ RuntimeOf[Row] \notin NeedsDir
         \/ Row \in Unpinned
Boards ==
    /\ At("guard")
    /\ \E disk \in {"good", "bad"}, power \in {"good", "bad", "none"} :
          IF Refusals \/ ~Passes("disk", disk) \/ ~Passes("power", power) THEN NextRow("key") /\ Note("refused")
          ELSE GoTo("fetch") /\ UNCHANGED log
    /\ UNCHANGED <<installed, entries, dry, attempted, skip, git>>

\* A download that fails raises through fly_queue; a dry run only names it.
Fetch ==
    /\ At("fetch")
    /\ \/ GoTo("ground")
       \/ ~dry /\ Over
    /\ UNCHANGED <<installed, entries, dry, attempted, skip, log, git>>

\* The install that waited for the download.
LateInstall ==
    /\ At("ground")
    /\ \E result \in IF RuntimeInstalled(Row) \/ RuntimeOf[Row] \notin NeedsDir THEN {"none"}
                     ELSE Installs(RuntimeOf[Row], TRUE) :
          /\ installed' = IF result = "ok" THEN installed \cup {RuntimeOf[Row]} ELSE installed
          /\ IF result = "failed" THEN NextRow("key") /\ Note("refused")
             ELSE GoTo("gate3") /\ UNCHANGED log
    /\ UNCHANGED <<entries, dry, attempted, skip, git>>

\* The suite is taken out of the engine's repository; an archive that fails raises.
Gate3 ==
    /\ At("gate3")
    /\ \/ dry /\ NextRow("key") /\ Note("dry-run")
       \/ ~dry /\ GoTo("run") /\ UNCHANGED log
       \/ ~dry /\ Row \in NeedsGate3 /\ Over /\ UNCHANGED log
    /\ UNCHANGED <<installed, entries, dry, attempted, skip, git>>

RunCommand ==
    /\ At("run")
    /\ \/ NextRow("key") /\ Note("failed")
       \/ GoTo("write") /\ UNCHANGED log
    /\ UNCHANGED <<installed, entries, dry, attempted, skip, git>>

\* powermetrics when it runs unprivileged, else the battery's current, else nothing.
SamplePower(metrics, battery) == metrics \/ battery

\* One entry for the speed, under the date of the flight, by now maybe the next day.
WriteSpeed ==
    /\ At("write")
    /\ entries' = [entries EXCEPT ![Row] = @ + 1]
    /\ git' = [git EXCEPT !.dirty = @ \cup {ModelFile[Row]}]
    /\ \E today \in Today :
          night' = [night EXCEPT !.at = "energy", !.date = today]
    /\ UNCHANGED <<installed, dry, attempted, skip, log>>

\* The file is read and written again for a second one when power could be sampled.
WriteEnergy ==
    /\ At("energy")
    /\ \E metrics, battery \in BOOLEAN :
          entries' = IF SamplePower(metrics, battery) THEN [entries EXCEPT ![Row] = @ + 1]
                     ELSE entries
    /\ GoTo("branch")
    /\ UNCHANGED <<installed, dry, attempted, skip, log, git>>

\* git checkout -b: refused when the branch exists; its answer is not read.
Branch ==
    /\ At("branch")
    /\ LET branch == <<ModelFile[Row], night.date>>
       IN  git' = IF branch \in git.branches THEN git
                  ELSE [git EXCEPT !.head = branch, !.branches = @ \cup {branch}]
    /\ GoTo("commit")
    /\ UNCHANGED <<installed, entries, dry, attempted, skip, log>>

\* git add names the model's file; a commit may be refused, and is not asked.
Holds(file) == {v \in Fleet : ModelFile[v] = file /\ entries[v] > 0}
Commit ==
    /\ At("commit")
    /\ \/ git' = [git EXCEPT !.dirty = @ \ {ModelFile[Row]},
                             !.commits = @ \cup {[on |-> git.head, file |-> ModelFile[Row],
                                                  holds |-> Holds(ModelFile[Row])]}]
       \/ git' = git
    /\ NextRow("key") /\ Note("ok")
    /\ UNCHANGED <<installed, entries, dry, attempted, skip>>

\* After each job the keyboard is looked at once more.
AfterJob ==
    /\ At("key")
    /\ \/ GoTo("flights")
       \/ night.watched /\ Over
    /\ UNCHANGED <<installed, entries, dry, attempted, skip, log, git>>

DiesAtNight ==
    /\ ~At("off") /\ ~At("done")
    /\ Over
    /\ UNCHANGED <<installed, entries, dry, attempted, skip, log, git>>

\* By day someone may go back to the branch the nights started from, which has
\* none of the entries.
Morning ==
    /\ At("done") /\ night.count < MaxFlyNights
    /\ Over
    /\ \/ UNCHANGED <<entries, git>>
       \/ /\ git.dirty = {}
          /\ git' = [git EXCEPT !.head = NoRuntime]
          /\ entries' = [v \in Fleet |-> 0]
    /\ UNCHANGED <<installed, dry, attempted, skip, log>>

FlightNext ==
    \/ StartNight \/ GuardFails \/ PreflightRow \/ Preinstall \/ PreflightDone \/ FlightRow
    \/ QueueDone \/ Boards \/ Fetch \/ LateInstall \/ Gate3 \/ RunCommand \/ WriteSpeed
    \/ WriteEnergy \/ Branch \/ Commit \/ AfterJob \/ DiesAtNight \/ Morning

(***************************************************************************)
(* Properties                                                              *)
(***************************************************************************)

\* A failed install costs exactly the models that need the runtime: when a night
\* walked its whole plan, the variants skipped are those of a runtime whose
\* install failed, every one of them and no other, and all others were tried.
SkipsExactlyBlocked ==
    At("done") =>
        \A i \in night.rows :
            LET v == Plan[i]
                blocked == RuntimeOf[v] # NoRuntime /\ v \in night.missing
                           /\ attempted[RuntimeOf[v]] = "failed"
            IN  /\ log[v] # "none"
                /\ (log[v] = "skipped") <=> blocked

\* A variant is measured once over all nights, whatever was killed or not committed:
\* a file that carries an entry gets no other, but for the energy of the same flight.
MeasuredOnce ==
    [][\A v \in Fleet : entries[v] > 0 =>
          \/ entries'[v] \in {0, entries[v]}
          \/ At("energy") /\ v = Row /\ entries[v] = 1 /\ entries'[v] = 2]_flightVars
=============================================================================
