------------------------------ MODULE Cockpit ------------------------------
(***************************************************************************)
(* The cockpit of the web studio (api/routes/gpu.py,                       *)
(* services/gpu_lifecycle.py, api/security.py, the settings of cli.py).    *)
(*                                                                         *)
(* Every open tab polls the status of the GPU box, which asks AWS at most  *)
(* once per Ttl; shows the settings with their secrets masked and posts    *)
(* the form back; and may open a shell on the box, or follow its log,      *)
(* through an ssh of the studio's.  Polls and posts run on threads and     *)
(* interleave at their locks and file accesses, shells on the event loop   *)
(* at their awaits.                                                        *)
(***************************************************************************)
EXTENDS Naturals, FiniteSets, Changes

CONSTANTS
    Tabs,      \* browser tabs
    Ttl,       \* _STATUS_CACHE_TTL_SEC
    MaxClock,  \* bound: how far the clock runs
    Typed,     \* what a person types into a field
    Mask,      \* "********"
    Default,   \* a field of DEFAULT_CONFIG
    Malformed, \* a config file that does not parse
    NoNumber,  \* a number of minutes that is none
    LocalOnly, \* settings.local_only
    Nobody     \* no tab

Reported == {"unknown", "stopped", "pending", "running"}

ASSUME CockpitAssumption ==
    /\ IsFiniteSet(Tabs) /\ Nobody \notin Tabs
    /\ Nobody \notin [at : Nat, status : [says : Reported, ready : BOOLEAN]]
    /\ Ttl \in Nat \ {0} /\ MaxClock \in Nat
    /\ {Mask, Default, Malformed, NoNumber} \cap Typed = {} /\ Mask # Default
    /\ LocalOnly \in BOOLEAN

VARIABLES
    clock,    \* time.monotonic, in seconds
    snapshot, \* _status_cache and _status_cache_at, or Nobody
    poll,     \* per tab: its status request
    lock,     \* who holds _status_refresh_lock
    asked,    \* when AWS was last asked; Ttl before the start at first
    raised,   \* history: did that end in an exception?
    file,     \* config.json
    form,     \* per tab: the settings it shows
    update,   \* per tab: the settings its post has read
    shell,    \* per tab: its shell
    tail      \* per tab: its log stream, and the ssh behind it

statusVars == <<clock, snapshot, poll, lock, asked, raised>>
configVars == <<file, form, update>>
shellVars == <<shell, tail>>

(***************************************************************************)
(* The status of the box                                                   *)
(***************************************************************************)

\* build_status: no answer of AWS is an unknown state; a query that timed out is
\* None, as if there were no box.
BuildStatus(aws) ==
    [says |-> IF aws = "error" THEN "unknown"
              ELSE IF aws \in {"none", "timeout"} THEN "stopped" ELSE aws,
     ready |-> aws = "running"]

StatusInit ==
    /\ clock = Ttl /\ snapshot = Nobody /\ poll = [t \in Tabs |-> "idle"]
    /\ lock = Nobody /\ asked = 0 /\ raised = FALSE

Waits == clock < MaxClock /\ clock' = clock + 1 /\ UNCHANGED <<snapshot, poll, lock, asked, raised>>

Recent == snapshot # Nobody /\ clock - snapshot.at < Ttl

\* get_cached_status: the first look at the cache.
Poll(t) ==
    /\ poll[t] = "idle" /\ ~Recent
    /\ poll' = [poll EXCEPT ![t] = "missed"]
    /\ UNCHANGED <<clock, snapshot, lock, asked, raised>>

\* (mutant) whoever waited for the lock asks AWS again
RecheckNever == FALSE
Recheck == Recent

\* The second look, under the lock: somebody else may have asked meanwhile.
AskAws(t) ==
    /\ poll[t] = "missed" /\ lock = Nobody
    /\ IF Recheck
       THEN poll' = [poll EXCEPT ![t] = "idle"] /\ UNCHANGED <<lock, asked, raised>>
       ELSE poll' = [poll EXCEPT ![t] = "asking"] /\ lock' = t /\ asked' = clock /\ raised' = FALSE
    /\ UNCHANGED <<clock, snapshot>>

Answered(t) ==
    /\ poll[t] = "asking"
    /\ poll' = [poll EXCEPT ![t] = "idle"] /\ lock' = Nobody
    /\ UNCHANGED <<clock, asked>>

Cached(t) ==
    /\ Answered(t)
    /\ \E aws \in {"none", "pending", "running", "timeout", "error"} :
          snapshot' = [at |-> clock, status |-> BuildStatus(aws)]
    /\ UNCHANGED raised

\* The worker says something about its health that is no object: build_status raises,
\* the lock is released, and nothing is cached.
BuildRaises(t) == Answered(t) /\ raised' = TRUE /\ UNCHANGED snapshot

StatusNext ==
    Waits \/ \E t \in Tabs : Poll(t) \/ AskAws(t) \/ Cached(t) \/ BuildRaises(t)

(***************************************************************************)
(* The settings: one secret, one plain field, the minutes to idle          *)
(***************************************************************************)

Fields == {"api_key", "region", "idle"}
Defaults == [f \in Fields |-> Default]

\* load_config: what does not parse is the defaults.
LoadConfig == IF file = Malformed THEN Defaults ELSE file

\* get_cockpit_config masks what is secret by its name, if it has a value.
Masked(cfg) == [cfg EXCEPT !["api_key"] = IF @ = Default THEN Default ELSE Mask]

ConfigInit ==
    /\ file \in {Defaults, Malformed}
    /\ form = [t \in Tabs |-> Nobody] /\ update = [t \in Tabs |-> Nobody]

Show(t) ==
    /\ update[t] = Nobody
    /\ form' = [form EXCEPT ![t] = Masked(LoadConfig)]
    /\ UNCHANGED <<file, update>>

\* Minutes that are no number are dropped, the others pulled into a day.
Minutes(v) == v # NoNumber

\* update_cockpit_config reads the file before it goes through the form.
ReadForUpdate(t) ==
    /\ form[t] # Nobody /\ update[t] = Nobody
    /\ update' = [update EXCEPT ![t] = LoadConfig]
    /\ \E f \in Fields, v \in Typed \cup {NoNumber} :
          /\ v = NoNumber => f = "idle"
          /\ form' = [form EXCEPT ![t][f] = v]
    /\ UNCHANGED file

\* (mutant) the form as it came
MergedAsIs(cfg, posted) == posted
Merged(cfg, posted) ==
    [f \in Fields |-> IF posted[f] = Mask \/ (f = "idle" /\ ~Minutes(posted[f]))
                      THEN cfg[f] ELSE posted[f]]

\* save_config replaces the file, and the answer is the next form.
SaveConfig(t) ==
    /\ update[t] # Nobody
    /\ file' = Merged(update[t], form[t])
    /\ form' = [form EXCEPT ![t] = Masked(Merged(update[t], form[t]))]
    /\ update' = [update EXCEPT ![t] = Nobody]

\* Somebody edits the file by hand and gets it wrong.
EditByHand == file' = Malformed /\ UNCHANGED <<form, update>>

ConfigNext ==
    \/ \E t \in Tabs : Show(t) \/ ReadForUpdate(t) \/ SaveConfig(t)
    \/ EditByHand

(***************************************************************************)
(* The shell: an ssh with the socket on one side and the box on the other  *)
(***************************************************************************)

\* client: is the browser still there?  out, in: the tasks that copy from and to ssh.
NoShell == [at |-> "off", client |-> FALSE, ssh |-> "none", out |-> FALSE, in |-> FALSE]

ShellInit == shell = [t \in Tabs |-> NoShell] /\ tail = [t \in Tabs |-> "none"]

Set(t, change) == shell' = [shell EXCEPT ![t] = Changed(@, change)] /\ UNCHANGED tail

OriginAllowed(origin) == origin \in {"none", "listed", "local"}
WebsocketIsLocal(host, origin) == host = "local" /\ OriginAllowed(origin)

Connect(t) ==
    /\ shell[t].at = "off"
    /\ \E host \in {"local", "foreign"}, origin \in {"none", "local", "listed", "foreign"} :
          Set(t, [at |-> IF LocalOnly /\ ~WebsocketIsLocal(host, origin) THEN "over" ELSE "auth",
                  client |-> TRUE])

\* The first frame, for three seconds; a frame that is no object raises.
Authenticate(t) ==
    /\ shell[t].at = "auth"
    /\ \E frame \in {"token", "wrong", "none", "not_json", "raises"} :
          Set(t, [at |-> IF frame = "token" /\ shell[t].client THEN "lookup" ELSE "over"])

\* AWS raises, there is no running box, ssh does not start, or it does.
OpenShell(t) ==
    /\ shell[t].at = "lookup"
    /\ \/ \E aws \in {"error", "timeout", "none", "pending", "unstartable"} : Set(t, [at |-> "over"])
       \/ Set(t, [at |-> "copying", ssh |-> "runs", out |-> TRUE, in |-> TRUE])

\* read_stdout: the end of ssh's output, or a socket that takes no more, ends it.
ReadStdout(t) ==
    /\ shell[t].at = "copying" /\ shell[t].out
    /\ shell[t].ssh = "ended" \/ ~shell[t].client
    /\ Set(t, [out |-> FALSE])

\* read_ws: text that is not JSON and bytes are typed, a resize is a command, any other
\* object is dropped, and JSON that is no object, a digit say, raises.
ReadWs(t) ==
    /\ shell[t].at = "copying" /\ shell[t].in
    /\ \E frame \in {"text", "bytes", "resize", "object", "scalar"} :
          /\ \/ ~shell[t].client \/ frame = "scalar"
             \/ frame # "object" /\ shell[t].ssh = "ended"
          /\ Set(t, [in |-> FALSE])

\* The first of the two ends the session: the handler's finally goes for ssh if it still runs.
\* (mutant) and leaves it to the signal
Signalled(ssh) == "over"
Terminated(ssh) == IF ssh = "runs" THEN "terminated" ELSE "over"
FirstCompleted(t) ==
    /\ shell[t].at = "copying" /\ ~(shell[t].out /\ shell[t].in)
    /\ Set(t, [at |-> Terminated(shell[t].ssh)])

\* A tenth of a second later; kill and wait.
Kill(t) ==
    /\ shell[t].at = "terminated"
    /\ Set(t, [at |-> "over", ssh |-> "ended"])

SshEnds(t) == shell[t].ssh = "runs" /\ Set(t, [ssh |-> "ended"])
ClientGoes(t) == shell[t].client /\ Set(t, [client |-> FALSE])

(***************************************************************************)
(* The log: an ssh that follows worker.log                                 *)
(***************************************************************************)

\* "reads" awaits a line of ssh, "sends" awaits the client.
StreamLogs(t) ==
    /\ tail[t] = "none"
    /\ \E aws \in {"none", "running"} :
          tail' = [tail EXCEPT ![t] = IF aws = "running" THEN "reads" ELSE "over"]
    /\ UNCHANGED shell
Line(t) ==
    /\ tail[t] \in {"reads", "sends"}
    /\ tail' = [tail EXCEPT ![t] = IF @ = "reads" THEN "sends" ELSE "reads"]
    /\ UNCHANGED shell

\* A client that goes cancels the stream: ssh is terminated where it awaits a line, and
\* left alone where it awaits the client.
Abandon(t) ==
    /\ tail[t] \in {"reads", "sends"}
    /\ tail' = [tail EXCEPT ![t] = IF @ = "reads" THEN "over" ELSE "orphaned"]
    /\ UNCHANGED shell
TailEnds(t) ==
    /\ tail[t] \in {"reads", "orphaned"}
    /\ tail' = [tail EXCEPT ![t] = "over"]
    /\ UNCHANGED shell

ShellNext ==
    \E t \in Tabs :
        \/ Connect(t) \/ Authenticate(t) \/ OpenShell(t) \/ ReadStdout(t) \/ ReadWs(t)
        \/ FirstCompleted(t) \/ Kill(t) \/ SshEnds(t) \/ ClientGoes(t)
        \/ StreamLogs(t) \/ Line(t) \/ Abandon(t) \/ TailEnds(t)

(***************************************************************************)
(* Properties                                                              *)
(***************************************************************************)

\* "Bounded, single-flight": however many tabs poll and however slowly AWS answers,
\* two questions to AWS are Ttl apart, unless the first ended in an exception
\* (get_cached_status).
OneQueryPerTtl == [][asked' # asked => raised \/ asked' - asked >= Ttl]_statusVars

\* The mask of a secret is never saved for the secret, whatever tabs show, post and
\* overwrite in turn (get_cockpit_config, update_cockpit_config).
MasksStayOut ==
    /\ file # Malformed => Mask \notin {file[f] : f \in Fields}
    /\ \A t \in Tabs : update[t] # Nobody => Mask \notin {update[t][f] : f \in Fields}

\* The ssh of a shell is gone when its handler is: whichever side ended first, and also
\* when ssh does not heed the first signal (the finally of inspect_shell_ws).
ShellGoesWithSocket == \A t \in Tabs : shell[t].at = "over" => shell[t].ssh # "runs"
=============================================================================
