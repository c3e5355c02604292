---------------------------- MODULE DaemonStart ----------------------------
(***************************************************************************)
(* How a daemon comes up and goes down (daemon/identity.py,                *)
(* daemon/server.py, daemon/service.py).                                   *)
(*                                                                         *)
(* Processes started at the same moment, by hand or by a supervisor, share *)
(* the identity directory and the runtime directory.  A process creates or *)
(* loads the one signing identity under an O_EXCL lock file, takes the     *)
(* flock next to the socket path, clears a stale socket, binds, serves,    *)
(* and on the way out removes the socket it bound.  Each file system call  *)
(* is a step, and a process may be killed between any two.                 *)
(*                                                                         *)
(* A deployment says which process the systemd unit runs, if any.  systemd *)
(* removes the unit's RuntimeDirectory whenever the unit's process ends.   *)
(***************************************************************************)
EXTENDS Naturals

CONSTANTS
    Procs,       \* daemon processes
    Deployments, \* what systemd may be in charge of: no process or one
    Mixed,       \* may daemons be started by hand next to systemd's?
    MaxStarts,   \* bound: starts of all processes together
    Free,        \* no lock file, no socket, no identity
    Stale        \* a file whose process is dead

ASSUME DaemonStartAssumption ==
    /\ \A unit \in Deployments : unit \subseteq Procs /\ \A p, q \in unit : p = q
    /\ Mixed \in BOOLEAN
    /\ MaxStarts \in Nat
    /\ Free # Stale /\ Free \notin Procs /\ Stale \notin Procs /\ Free \notin Nat

VARIABLES
    units,       \* the processes of the systemd unit
    identity,    \* the key in identity.json; keys are numbered as generated
    keys,        \* how many keys were generated
    idLock,      \* the identity lock file: Free, its creator, or Stale
    runtimeDir,  \* does the runtime directory exist?
    lockFile,    \* the inode behind daemon.sock.lock; Free if there is none
    inodes,      \* how many inodes daemon.sock.lock has had
    path,        \* whose socket daemon.sock is: Free, a process, or Stale
    pc,          \* per process: its next step
    key,         \* per process: the identity it loaded
    opened,      \* per process: the lock inode it has open
    locked,      \* per process: does it hold the flock on that inode?
    bound,       \* per process: the socket it found at the path after listen
    starts       \* how often processes were started

idVars == <<identity, keys, idLock>>
dirVars == <<runtimeDir, lockFile, inodes, path>>
own == <<key, opened, locked, bound>>
bookkeeping == <<units, starts>>
vars == <<idVars, dirVars, pc, own, bookkeeping>>

Init ==
    /\ units \in Deployments
    /\ identity = Free /\ keys = 0 /\ idLock = Free
    /\ runtimeDir = FALSE /\ lockFile = Free /\ inodes = 0 /\ path = Free
    /\ pc = [p \in Procs |-> "off"]
    /\ key = [p \in Procs |-> Free]
    /\ opened = [p \in Procs |-> Free]
    /\ locked = [p \in Procs |-> FALSE]
    /\ bound = [p \in Procs |-> Free]
    /\ starts = 0

At(p, label) == pc[p] = label

Goto(p, label) == pc' = [pc EXCEPT ![p] = label]

\* `daemon run` and systemd both make the runtime directory first.
Start(p) ==
    /\ At(p, "off") /\ starts < MaxStarts
    /\ Mixed \/ units = {} \/ p \in units
    /\ starts' = starts + 1
    /\ runtimeDir' = TRUE
    /\ Goto(p, "identity")
    /\ UNCHANGED <<idVars, units, lockFile, inodes, path, own>>

(***************************************************************************)
(* identity.load_or_create                                                 *)
(***************************************************************************)

LookForIdentity(p) ==
    /\ At(p, "identity")
    /\ IF identity # Free
       THEN key' = [key EXCEPT ![p] = identity] /\ Goto(p, "parent")
       ELSE Goto(p, "idlock") /\ UNCHANGED key
    /\ UNCHANGED <<idVars, dirVars, opened, locked, bound, bookkeeping>>

\* (mutant) the lock file is not created exclusively
AcquireIdLockShared(p) ==
    /\ At(p, "idlock")
    /\ idLock' = p
    /\ Goto(p, "idcheck")
    /\ UNCHANGED <<identity, keys, dirVars, own, bookkeeping>>

AcquireIdLock(p) ==
    /\ At(p, "idlock") /\ idLock = Free
    /\ idLock' = p
    /\ Goto(p, "idcheck")
    /\ UNCHANGED <<identity, keys, dirVars, own, bookkeeping>>

\* The wait is bounded; a lock file nobody will remove ends it the same way.
IdLockTimeout(p) ==
    /\ At(p, "idlock") /\ idLock # Free
    /\ Goto(p, "leaving")
    /\ UNCHANGED <<idVars, dirVars, own, bookkeeping>>

\* Another process may have won while this one waited for the lock.
Recheck(p) ==
    /\ At(p, "idcheck")
    /\ Goto(p, IF identity = Free THEN "idwrite" ELSE "idload")
    /\ UNCHANGED <<idVars, dirVars, own, bookkeeping>>

\* _write_atomic writes a temporary file and looks at the destination once more;
\* a write that fails leaves no identity ...
PrepareIdentity(p) ==
    /\ At(p, "idwrite")
    /\ \/ identity = Free /\ Goto(p, "idreplace")
       \/ Goto(p, "idfail")
    /\ UNCHANGED <<idVars, dirVars, own, bookkeeping>>

\* ... and moves the new record into place.
ReplaceIdentity(p) ==
    /\ At(p, "idreplace")
    /\ keys' = keys + 1
    /\ identity' = keys'
    /\ Goto(p, "idload")
    /\ UNCHANGED <<idLock, dirVars, own, bookkeeping>>

LoadIdentity(p) ==
    /\ At(p, "idload")
    /\ key' = [key EXCEPT ![p] = identity]
    /\ Goto(p, "idunlock")
    /\ UNCHANGED <<idVars, dirVars, opened, locked, bound, bookkeeping>>

\* The lock file is removed by name.
ReleaseIdLock(p) ==
    /\ pc[p] \in {"idunlock", "idfail"}
    /\ idLock' = Free
    /\ Goto(p, IF At(p, "idunlock") THEN "parent" ELSE "leaving")
    /\ UNCHANGED <<identity, keys, dirVars, own, bookkeeping>>

(***************************************************************************)
(* server.bind_unix_socket                                                 *)
(***************************************************************************)

EnsureParent(p) ==
    /\ At(p, "parent")
    /\ runtimeDir' = TRUE
    /\ Goto(p, "open")
    /\ UNCHANGED <<idVars, lockFile, inodes, path, own, bookkeeping>>

\* _lock_socket opens or creates the lock file, which nobody removes ...
OpenLock(p) ==
    /\ At(p, "open")
    /\ IF ~runtimeDir
       THEN Goto(p, "leaving") /\ UNCHANGED <<lockFile, inodes, opened>>
       ELSE /\ inodes' = IF lockFile = Free THEN inodes + 1 ELSE inodes
            /\ lockFile' = IF lockFile = Free THEN inodes' ELSE lockFile
            /\ opened' = [opened EXCEPT ![p] = lockFile']
            /\ Goto(p, "flock")
    /\ UNCHANGED <<idVars, runtimeDir, path, key, locked, bound, bookkeeping>>

HeldByAnother(p) == \E q \in Procs \ {p} : locked[q] /\ opened[q] = opened[p]

\* ... and locks it without waiting.
Lock(p) ==
    /\ At(p, "flock")
    /\ IF HeldByAnother(p)
       THEN Goto(p, "leaving") /\ UNCHANGED locked
       ELSE locked' = [locked EXCEPT ![p] = TRUE] /\ Goto(p, "stale")
    /\ UNCHANGED <<idVars, dirVars, key, opened, bound, bookkeeping>>

\* _remove_stale_socket
LookForSocket(p) ==
    /\ At(p, "stale")
    /\ Goto(p, IF path = Free THEN "bind" ELSE "probe")
    /\ UNCHANGED <<idVars, dirVars, own, bookkeeping>>

\* A socket accepts connections from listen until it is closed.
Listening == {p \in Procs : pc[p] \in {"check", "serve"}}

Probe(p) ==
    /\ At(p, "probe")
    /\ Goto(p, IF path \in Listening THEN "leaving" ELSE "unlink")
    /\ UNCHANGED <<idVars, dirVars, own, bookkeeping>>

UnlinkStale(p) ==
    /\ At(p, "unlink")
    /\ path' = Free
    /\ Goto(p, IF path = Free THEN "leaving" ELSE "bind")
    /\ UNCHANGED <<idVars, runtimeDir, lockFile, inodes, own, bookkeeping>>

Bind(p) ==
    /\ At(p, "bind")
    /\ IF runtimeDir /\ path = Free
       THEN path' = p /\ Goto(p, "listen")
       ELSE Goto(p, "leaving") /\ UNCHANGED path
    /\ UNCHANGED <<idVars, runtimeDir, lockFile, inodes, own, bookkeeping>>

Listen(p) ==
    /\ At(p, "listen")
    /\ Goto(p, "check")
    /\ UNCHANGED <<idVars, dirVars, own, bookkeeping>>

\* chmod and lstat go by the path; what is there is taken for the own socket.
CheckBound(p) ==
    /\ At(p, "check")
    /\ bound' = [bound EXCEPT ![p] = path]
    /\ Goto(p, IF path = Free THEN "leaving" ELSE "serve")
    /\ UNCHANGED <<idVars, dirVars, key, opened, locked, bookkeeping>>

\* The serving loop ends: /v1/shutdown, a signal, or an error.
StopServing(p) ==
    /\ At(p, "serve")
    /\ Goto(p, "cleanup")
    /\ UNCHANGED <<idVars, dirVars, own, bookkeeping>>

\* The path is looked at, and removed if it is still the socket seen at the start.
Cleanup(p) ==
    /\ At(p, "cleanup")
    /\ Goto(p, IF path # Free /\ path = bound[p] THEN "remove" ELSE "leaving")
    /\ UNCHANGED <<idVars, dirVars, own, bookkeeping>>

\* (mutant) the flock is given up before the socket is removed
RemoveUnlocked(p) ==
    /\ At(p, "remove")
    /\ IF locked[p]
       THEN locked' = [locked EXCEPT ![p] = FALSE] /\ UNCHANGED <<path, pc>>
       ELSE path' = Free /\ Goto(p, "leaving") /\ UNCHANGED locked
    /\ UNCHANGED <<idVars, runtimeDir, lockFile, inodes, key, opened, bound, bookkeeping>>

Remove(p) ==
    /\ At(p, "remove")
    /\ path' = Free
    /\ Goto(p, "leaving")
    /\ UNCHANGED <<idVars, runtimeDir, lockFile, inodes, own, bookkeeping>>

(***************************************************************************)
(* The end of a process                                                    *)
(***************************************************************************)

\* The kernel drops the flock and the sockets; files outlive the process.
Dies(p) ==
    /\ key' = [key EXCEPT ![p] = Free]
    /\ opened' = [opened EXCEPT ![p] = Free]
    /\ locked' = [locked EXCEPT ![p] = FALSE]
    /\ bound' = [bound EXCEPT ![p] = Free]
    /\ path' = IF path = p THEN Stale ELSE path
    /\ idLock' = IF idLock = p THEN Stale ELSE idLock
    /\ Goto(p, IF p \in units THEN "ended" ELSE "off")
    /\ UNCHANGED <<identity, keys, runtimeDir, lockFile, inodes, bookkeeping>>

\* Stopped, or ended by an exception: either way the process is gone.
Exit(p) == At(p, "leaving") /\ Dies(p)

Crash(p) == pc[p] \notin {"off", "ended", "leaving"} /\ Dies(p)

\* systemd removes the unit's RuntimeDirectory with everything in it.
RemoveRuntimeDirectory(p) ==
    /\ At(p, "ended")
    /\ runtimeDir' = FALSE
    /\ lockFile' = Free
    /\ path' = Free
    /\ Goto(p, "off")
    /\ UNCHANGED <<idVars, inodes, own, bookkeeping>>

Step(p) ==
    \/ LookForIdentity(p) \/ AcquireIdLock(p) \/ IdLockTimeout(p) \/ Recheck(p)
    \/ PrepareIdentity(p) \/ ReplaceIdentity(p) \/ LoadIdentity(p) \/ ReleaseIdLock(p)
    \/ EnsureParent(p) \/ OpenLock(p) \/ Lock(p) \/ LookForSocket(p) \/ Probe(p)
    \/ UnlinkStale(p) \/ Bind(p) \/ Listen(p) \/ CheckBound(p)
    \/ Cleanup(p) \/ Remove(p) \/ Exit(p)

Next == \E p \in Procs :
    Start(p) \/ Step(p) \/ StopServing(p) \/ Crash(p) \/ RemoveRuntimeDirectory(p)

(***************************************************************************)
(* Properties                                                              *)
(***************************************************************************)

\* "Create it once if it is absent; existing paths are never rotated": every
\* process that has an identity has the one on disk, through races of two first
\* starts and crashes in the middle of creation.
OneIdentity == \A p \in Procs : key[p] # Free => key[p] = identity

\* "Exclusively bind": two daemons never serve at the same time.
OneDaemon ==
    \A p, q \in Procs : At(p, "serve") /\ At(q, "serve") => p = q

\* A client that connects to the path reaches the daemon that serves; a daemon
\* on its way out never takes the socket of the next one with it.
PathLeadsToDaemon == \A p \in Procs : At(p, "serve") => path = p
=============================================================================
