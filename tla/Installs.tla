------------------------------- MODULE Installs -------------------------------
(***************************************************************************)
(* Installing a runtime (spacepilot/runtimes.py) through its three doors:  *)
(* the daemon's background job, the MCP tool and the command line.  Every  *)
(* job resolves what it would change, decides, installs and verifies, and  *)
(* no lock keeps two of them apart.  A pip runtime goes into the shared    *)
(* interpreter, an isolated one into a venv of its own, a script leaves a  *)
(* binary.  A package's version 0 is its absence.                          *)
(***************************************************************************)
EXTENDS Naturals, FiniteSets, FiniteSetsExt

CONSTANTS
    Pythons, NoPython, Packages,
    Versions,   \* the versions a package may have at the start, 0 its absence
    Method,     \* per runtime: "pip", "isolated" or "script"
    Main,       \* per runtime: the package its probe imports
    Needs,      \* per runtime: the versions each package it needs may have
    MinVersion, \* per runtime: the version this registry was checked against
    Supports,   \* pairs of a runtime and a Python its python_requires admits
    Broken,     \* runtimes whose build does not load on this machine
    External,   \* pip runtimes found in an environment of their own
    Elsewhere,  \* per runtime: the version its own venv or environment reports, 0 if none
    Override, PythonBin, Console, Own, \* where interpreter() looks, in its order
    Uv,         \* the pythons that uv can serve: all or none of them
    Doors, Jobs

Runtimes == DOMAIN Method

ASSUME InstallsAssumption ==
    /\ DOMAIN Main = Runtimes /\ DOMAIN Needs = Runtimes /\ DOMAIN MinVersion = Runtimes
    /\ DOMAIN Elsewhere = Runtimes
    /\ Supports \subseteq Runtimes \X Pythons /\ Versions \subseteq Nat
    /\ Broken \cup External \subseteq Runtimes
    /\ \A d \in Doors : Own[d] \in Pythons
    /\ {Override, PythonBin, Console} \subseteq Pythons \cup {NoPython}

VARIABLES
    env,     \* per Python, the version of every package
    pip,     \* the Pythons that have a pip
    venv,    \* per isolated runtime: does its venv exist, hold it, and which Python made it
    scripts, \* script runtimes whose binary is on PATH
    usable,  \* per door's process: what _ISOLATED_OK remembers of each venv
    job      \* per install: door, runtime, consent to a downgrade, step, and what it found

installVars == <<env, pip, venv, scripts, usable, job>>

Isolated == {r \in Runtimes : Method[r] = "isolated"}

NoVenv == [is |-> "none", by |-> NoPython]

\* An explicit override, a configured python_bin (only the command line passes its
\* configuration), the console script's interpreter, the process's own.
Interpreter(door) ==
    CHOOSE py \in Pythons :
        \/ py = Override
        \/ Override = NoPython /\ door = "cli" /\ py = PythonBin
        \/ /\ Override = NoPython /\ ~(door = "cli" /\ PythonBin # NoPython)
           /\ py = (IF Console # NoPython THEN Console ELSE Own[door])

PythonOk(r, py) == <<r, py>> \in Supports

\* What pip would write: the newest version it may of each package that does not fit.
Entries(r, packages) ==
    [p \in {q \in DOMAIN Needs[r] : packages[q] \notin Needs[r][q]} |-> Max(Needs[r][p])]
Lowers(entries, packages) ==
    \E p \in DOMAIN entries : packages[p] # 0 /\ entries[p] < packages[p]

\* check, per method: the probe must load, and the version may still be too old.
Loads(r, door) ==
    IF Method[r] = "script" THEN r \in scripts \ Broken
    ELSE IF r \in Isolated THEN venv[r].is = "full" /\ r \notin Broken
    ELSE \/ env[Interpreter(door)][Main[r]] # 0 /\ r \notin Broken
         \/ r \in External
Version(r, door) ==
    LET main == env[Interpreter(door)][Main[r]]
    IN  IF Method[r] = "pip" /\ main # 0 /\ r \notin Broken THEN main ELSE Elsewhere[r]
BelowMinimum(r, door) ==
    Method[r] # "script" /\ Version(r, door) # 0 /\ Version(r, door) < MinVersion[r]
Works(r, door) == Loads(r, door) /\ ~BelowMinimum(r, door)

\* Only the check of the shared interpreter looks at python_requires.
Compatible(r, door) == Method[r] = "pip" => PythonOk(r, Interpreter(door))

Idle == [at |-> "idle", door |-> "none", runtime |-> "none", allow |-> FALSE,
         entries |-> <<>>, made |-> FALSE, stale |-> FALSE]

InstallsInit ==
    /\ env \in [Pythons -> [Packages -> Versions]]
    /\ pip \in SUBSET Pythons
    /\ venv = [r \in Isolated |-> NoVenv]
    /\ scripts = {}
    /\ usable = [d \in Doors |-> [r \in Isolated |-> "unknown"]]
    /\ job = [j \in Jobs |-> Idle]

Goes(j, step) == job' = [job EXCEPT ![j].at = step]
World == <<env, pip, venv, scripts, usable>>

\* The MCP tool looks at nothing before it resolves.
Unchecked == {"mcp"}

\* start_install refuses an interpreter that is too old or new, the command line also what
\* is there already.
Ask(j) ==
    /\ job[j].at = "idle"
    /\ \E door \in Doors, r \in Runtimes, allow \in BOOLEAN :
          /\ door = "cli" => ~Works(r, door)
          /\ door \notin Unchecked => Compatible(r, door)
          /\ job' = [job EXCEPT ![j] =
                [Idle EXCEPT !.at = "resolving", !.door = door, !.runtime = r, !.allow = allow]]
    /\ UNCHANGED World

\* pip, else uv, else a pip that ensurepip brings: also the resolution may install one.
Installer(py) ==
    \/ (py \in pip \/ py \in Uv) /\ pip' = pip
    \/ py \notin pip \cup Uv /\ pip' = pip \cup {py}
NoInstaller(py) == py \notin pip \cup Uv /\ pip' = pip

\* preview: a script and a venv touch nothing here; pip resolves, or cannot.
DryRun(j) ==
    LET r == job[j].runtime  py == Interpreter(job[j].door)
    IN  /\ job[j].at = "resolving"
        /\ IF Method[r] # "pip" THEN Goes(j, "installing") /\ UNCHANGED pip
           ELSE \/ /\ Installer(py)
                   /\ job' = [job EXCEPT ![j].at = "resolved", ![j].entries = Entries(r, env[py]),
                                         ![j].stale = FALSE]
                \/ (NoInstaller(py) \/ Installer(py)) /\ Goes(j, "failed")
        /\ UNCHANGED <<env, venv, scripts, usable>>

\* (mutant) the route warns of a downgrade and goes on.
DecideAnyway(j) ==
    /\ job[j].at = "resolved"
    /\ Goes(j, "installing")
    /\ UNCHANGED World

\* The second half of preview and the decision: compare with what is installed by now and
\* stop before a downgrade nobody agreed to.
Decide(j) ==
    /\ job[j].at = "resolved"
    /\ LET lowers == Lowers(job[j].entries, env[Interpreter(job[j].door)])
       IN  Goes(j, IF lowers /\ ~job[j].allow THEN "refused" ELSE "installing")
    /\ UNCHANGED World

\* install: the shared interpreter is checked again, and pip resolves again.
StartPip(j) ==
    LET r == job[j].runtime  py == Interpreter(job[j].door)
    IN  /\ job[j].at = "installing" /\ Method[r] = "pip"
        /\ \/ /\ PythonOk(r, py) /\ Installer(py)
              /\ job' = [job EXCEPT ![j].at = "writing", ![j].entries = Entries(r, env[py])]
           \/ /\ IF PythonOk(r, py) THEN NoInstaller(py) ELSE UNCHANGED pip
              /\ Goes(j, "failed")
        /\ UNCHANGED <<env, venv, scripts, usable>>

\* The place a job looks at, its interpreter or its venv, is not what it was.
Moved(k) ==
    LET r == job[k].runtime  py == Interpreter(job[k].door)
    IN  job[k].at # "idle" /\ IF r \in Isolated THEN venv'[r] # venv[r] ELSE env'[py] # env[py]

\* What everybody else knows of the place that this step changes is out of date.
Overtakes(j, step) ==
    job' = [k \in Jobs |->
        IF k = j THEN [job[j] EXCEPT !.at = step]
        ELSE [job[k] EXCEPT !.stale = @ \/ Moved(k)]]

Write(j) ==
    LET py == Interpreter(job[j].door)
    IN  /\ job[j].at = "writing"
        /\ \/ /\ env' = [env EXCEPT ![py] =
                    [p \in Packages |-> IF p \in DOMAIN job[j].entries
                                        THEN job[j].entries[p] ELSE @[p]]]
              /\ UNCHANGED venv
              /\ Overtakes(j, "installed")
           \/ Goes(j, "failed") /\ UNCHANGED <<env, venv>>
        /\ UNCHANGED <<pip, scripts, usable>>

\* The script leaves a binary or fails.
RunScript(j) ==
    /\ job[j].at = "installing" /\ Method[job[j].runtime] = "script"
    /\ \/ scripts' = scripts \cup {job[j].runtime} /\ Goes(j, "installed")
       \/ Goes(j, "failed") /\ UNCHANGED scripts
    /\ UNCHANGED <<env, pip, venv, usable>>

\* _install_isolated: a venv that is there is used as it is.
LookVenv(j) ==
    /\ job[j].at = "installing" /\ job[j].runtime \in Isolated
    /\ LET absent == venv[job[j].runtime].is = "none"
       IN  job' = [job EXCEPT ![j].made = absent, ![j].at = IF absent THEN "venv" ELSE "filling"]
    /\ UNCHANGED World

\* A failed creation may leave a directory with an interpreter behind; a Python the runtime
\* does not support takes its venv away again.
MakeVenv(j) ==
    LET r == job[j].runtime  own == Own[job[j].door]
        made == [is |-> IF venv[r].is = "full" THEN "full" ELSE "empty", by |-> own]
    IN  /\ job[j].at = "venv" /\ UNCHANGED env
        /\ \/ /\ venv' = [venv EXCEPT ![r] = IF PythonOk(r, own) THEN made ELSE NoVenv]
              /\ IF PythonOk(r, own) THEN Goes(j, "filling") ELSE Overtakes(j, "failed")
           \/ /\ \E left \in {venv[r], made} : venv' = [venv EXCEPT ![r] = left]
              /\ Goes(j, "failed")
        /\ UNCHANGED <<pip, scripts, usable>>

\* _isolated_usable with refresh: only an existing venv is remembered.
Refreshed(door, r) ==
    [usable EXCEPT ![door][r] = IF venv'[r].is = "none" THEN "unknown"
                                ELSE IF venv'[r].is = "full" /\ r \notin Broken THEN "yes" ELSE "no"]

\* pip in the venv: on a failure the job that made the venv removes it, with all it holds.
\* A timeout raises past both the removal and the refresh, and may leave half a package.
Fill(j) ==
    LET r == job[j].runtime
    IN  /\ job[j].at = "filling" /\ UNCHANGED env
        /\ \/ /\ venv[r].is # "none"
              /\ venv' = [venv EXCEPT ![r].is = "full"]
              /\ usable' = Refreshed(job[j].door, r)
              /\ Goes(j, "installed")
           \/ /\ venv' = [venv EXCEPT ![r] = IF job[j].made THEN NoVenv ELSE @]
              /\ usable' = Refreshed(job[j].door, r)
              /\ Overtakes(j, "failed")
           \/ /\ \E left \in {venv[r].is, "empty"} :
                    venv' = [venv EXCEPT ![r].is = IF venv[r].is = "none" THEN "none" ELSE left]
              /\ Overtakes(j, "failed")
              /\ UNCHANGED usable
        /\ UNCHANGED <<pip, scripts>>

\* (mutant) an exit code of zero completes the job.
VerifyByExit(j) ==
    /\ job[j].at = "installed"
    /\ job' = [job EXCEPT ![j].at = "completed", ![j].stale = FALSE]
    /\ UNCHANGED World

\* The install is not the evidence: completed is what check says now.
Verify(j) ==
    /\ job[j].at = "installed"
    /\ job' = [job EXCEPT ![j].at =
                  IF Works(job[j].runtime, job[j].door) THEN "completed" ELSE "failed",
                          ![j].stale = FALSE]
    /\ UNCHANGED World

\* runtime_python of a driver: the venv only if it is remembered, or found, to load.
UsableVenv(door, r) ==
    \/ usable[door][r] = "yes"
    \/ usable[door][r] = "unknown" /\ venv[r].is = "full" /\ r \notin Broken
RuntimePython(door, r) ==
    IF r \in Isolated /\ UsableVenv(door, r) THEN venv[r].by ELSE Interpreter(door)

\* A driver asks for its interpreter, which fills the memory of its process.
Route(door, r) ==
    /\ usable[door][r] = "unknown" /\ venv[r].is # "none"
    /\ usable' = [usable EXCEPT ![door][r] = IF UsableVenv(door, r) THEN "yes" ELSE "no"]
    /\ UNCHANGED <<env, pip, venv, scripts, job>>

InstallsNext ==
    \/ \E j \in Jobs :
          \/ Ask(j) \/ DryRun(j) \/ Decide(j) \/ StartPip(j) \/ Write(j) \/ RunScript(j)
          \/ LookVenv(j) \/ MakeVenv(j) \/ Fill(j) \/ Verify(j)
    \/ \E d \in Doors, r \in Isolated : Route(d, r)

-----------------------------------------------------------------------------
\* A package that other work may need is lowered without consent only by a job whose
\* resolution another job has overtaken: what routes/runtimes.py stops at, and its limit.
NoSilentDowngrade ==
    [][\A j \in Jobs :
          (/\ job[j].at = "writing" /\ job'[j].at = "installed" /\ ~job[j].allow
           /\ Lowers(job[j].entries, env[Interpreter(job[j].door)]))
          => job[j].stale]_installVars

\* A completed install loads at the version the registry asks for, until somebody else's
\* write or removal: an exit code alone completes nothing (runtimes.install, check).
CompletedWorks ==
    \A j \in Jobs :
        job[j].at = "completed" /\ ~job[j].stale => Works(job[j].runtime, job[j].door)
=============================================================================
