----------------------------- MODULE DaemonProofs -----------------------------
(***************************************************************************)
(* For any number of daemons over the same files: they have one identity,  *)
(* and unless one is started by hand next to systemd's, one of them serves *)
(* at a time and the socket path leads to it.  For one daemon with any     *)
(* members and records: what it is told to be indexed is, and its shutdown *)
(* refuses nobody it waited for.                                           *)
(***************************************************************************)
EXTENDS DaemonStart, DaemonLife, Integers, TLAPS

-----------------------------------------------------------------------------
(* Coming up: the identity *)

StartSpec == Init /\ [][Next]_vars

\* The steps between the creation of the identity lock file and its removal.
Identifying == {"idcheck", "idwrite", "idreplace", "idload", "idunlock", "idfail"}

\* The lock file names who creates the identity, and only a missing one is replaced.
IdentityInv ==
    /\ DOMAIN pc = Procs /\ DOMAIN key = Procs
    /\ \A p \in Procs :
          /\ pc[p] \in Identifying => idLock = p
          /\ pc[p] = "idreplace" => identity = Free
    /\ OneIdentity

LEMMA IdentityInvariant == StartSpec => []IdentityInv
<1>1. Init => IdentityInv
    BY DEF Init, IdentityInv, Identifying, OneIdentity
<1>2. IdentityInv /\ [Next]_vars => IdentityInv'
    <2> SUFFICES ASSUME IdentityInv, [Next]_vars PROVE IdentityInv'
        OBVIOUS
    <2>1. CASE UNCHANGED vars
        BY <2>1 DEF vars, idVars, own, IdentityInv, OneIdentity
    <2>2. ASSUME NEW p \in Procs, NEW label, Goto(p, label), UNCHANGED <<idVars, key>>,
                 label \in Identifying => pc[p] \in Identifying,
                 label = "idreplace" => identity = Free
          PROVE  IdentityInv'
        BY <2>2 DEF Goto, idVars, IdentityInv, OneIdentity
    <2>3. ASSUME NEW p \in Procs, LookForIdentity(p) PROVE IdentityInv'
        BY <2>3 DEF LookForIdentity, Goto, At, idVars, IdentityInv, Identifying, OneIdentity
    <2>4. ASSUME NEW p \in Procs, AcquireIdLock(p) PROVE IdentityInv'
        <3>1. idLock = Free /\ idLock' = p /\ pc' = [pc EXCEPT ![p] = "idcheck"]
              /\ UNCHANGED <<identity, key>>
            BY <2>4 DEF AcquireIdLock, Goto, own
        <3>2. \A q \in Procs : pc[q] \notin Identifying
            BY <3>1, DaemonStartAssumption DEF IdentityInv
        <3> QED
            BY <3>1, <3>2 DEF IdentityInv, Identifying, OneIdentity
    <2>5. ASSUME NEW p \in Procs, IdLockTimeout(p) PROVE IdentityInv'
        BY <2>2, <2>5 DEF IdLockTimeout, own, Identifying
    <2>6. ASSUME NEW p \in Procs, Recheck(p) PROVE IdentityInv'
        BY <2>2, <2>6 DEF Recheck, At, idVars, own, Identifying
    <2>7. ASSUME NEW p \in Procs, PrepareIdentity(p) PROVE IdentityInv'
        BY <2>2, <2>7 DEF PrepareIdentity, At, own, Identifying
    <2>8. ASSUME NEW p \in Procs, ReplaceIdentity(p) PROVE IdentityInv'
        <3>1. pc[p] = "idreplace" /\ pc' = [pc EXCEPT ![p] = "idload"] /\ UNCHANGED <<idLock, key>>
            BY <2>8 DEF ReplaceIdentity, At, Goto, own
        <3>2. \A q \in Procs : key[q] = Free
            BY <3>1 DEF IdentityInv, OneIdentity
        <3>3. \A q \in Procs \ {p} : pc[q] # "idreplace"
            BY <3>1 DEF IdentityInv, Identifying
        <3> QED
            BY <3>1, <3>2, <3>3 DEF IdentityInv, Identifying, OneIdentity
    <2>9. ASSUME NEW p \in Procs, LoadIdentity(p) PROVE IdentityInv'
        BY <2>9 DEF LoadIdentity, At, Goto, idVars, IdentityInv, Identifying, OneIdentity
    <2>10. ASSUME NEW p \in Procs, ReleaseIdLock(p) PROVE IdentityInv'
        <3>1. pc[p] \in Identifying /\ UNCHANGED <<identity, key>>
              /\ \E label \in {"parent", "leaving"} : pc' = [pc EXCEPT ![p] = label]
            BY <2>10 DEF ReleaseIdLock, Goto, own, Identifying
        <3>2. \A q \in Procs \ {p} : pc[q] \notin Identifying
            BY <3>1 DEF IdentityInv
        <3> QED
            BY <3>1, <3>2 DEF IdentityInv, Identifying, OneIdentity
    <2>11. ASSUME NEW p \in Procs, Dies(p) PROVE IdentityInv'
        <3>1. /\ \E label \in {"ended", "off"} : pc' = [pc EXCEPT ![p] = label]
              /\ key' = [key EXCEPT ![p] = Free] /\ identity' = identity
              /\ idLock' = IF idLock = p THEN Stale ELSE idLock
            BY <2>11 DEF Dies, Goto
        <3> QED
            BY <3>1 DEF IdentityInv, Identifying, OneIdentity
    <2>12. ASSUME NEW p \in Procs, Start(p) \/ RemoveRuntimeDirectory(p) PROVE IdentityInv'
        BY <2>2, <2>12 DEF Start, RemoveRuntimeDirectory, own, Identifying
    <2>13. ASSUME NEW p \in Procs,
                  EnsureParent(p) \/ OpenLock(p) \/ Lock(p) \/ LookForSocket(p) \/ Probe(p)
                    \/ UnlinkStale(p) \/ Bind(p) \/ Listen(p) \/ CheckBound(p) \/ StopServing(p)
                    \/ Cleanup(p) \/ Remove(p)
           PROVE  IdentityInv'
        <3>1. UNCHANGED <<idVars, key>> /\ \E label : Goto(p, label) /\ label \notin Identifying
            BY <2>13 DEF EnsureParent, OpenLock, Lock, LookForSocket, Probe, UnlinkStale, Bind,
                         Listen, CheckBound, StopServing, Cleanup, Remove, own, Identifying
        <3> QED
            BY <2>2, <3>1 DEF Identifying
    <2> QED
        BY <2>1, <2>3, <2>4, <2>5, <2>6, <2>7, <2>8, <2>9, <2>10, <2>11, <2>12, <2>13
        DEF Next, Step, Exit, Crash
<1> QED
    BY <1>1, <1>2, PTL DEF StartSpec

\* Through every race of first starts and every crash in the middle of a creation, a
\* process that has an identity has the one on disk.
THEOREM IdentityIsOne == StartSpec => []OneIdentity
<1>1. IdentityInv => OneIdentity
    BY DEF IdentityInv
<1> QED
    BY <1>1, IdentityInvariant, PTL

-----------------------------------------------------------------------------
(* Coming up: the socket *)

\* The steps at which a process has the lock file open, holds its flock, owns the path.
Locking == {"flock"}
Locked == {"stale", "probe", "unlink", "bind", "listen", "check", "serve", "cleanup", "remove"}
Owning == {"listen", "check", "serve"}

SocketShapes ==
    /\ DOMAIN pc = Procs /\ DOMAIN opened = Procs /\ DOMAIN locked = Procs
    /\ inodes \in Nat

\* Everyone who opened the lock file opened the one that is there, so its flock is
\* exclusive, and only its holder touches the path.
SocketInv ==
    /\ SocketShapes
    /\ units \in Deployments
    /\ \A p \in Procs :
          /\ units = {} \/ p \in units \/ pc[p] = "off"
          /\ pc[p] = "ended" => p \in units
          /\ pc[p] \in {"off", "ended"} => opened[p] = Free
          /\ opened[p] # Free => opened[p] = lockFile
          /\ pc[p] \in Locking \cup Locked => opened[p] # Free
          /\ pc[p] \in Locked => locked[p]
          /\ locked[p] => opened[p] # Free
          /\ pc[p] \in Owning => path = p
    /\ \A p, q \in Procs : locked[p] /\ locked[q] => p = q

\* A step that changes neither the lock file nor the path.
LEMMA SocketStep ==
    ASSUME SocketInv, NEW p \in Procs, NEW label, Goto(p, label),
           UNCHANGED <<units, lockFile, inodes, path, opened, locked>>,
           pc[p] \notin {"off", "ended"}, label \notin {"off", "ended"},
           label \in Locking => pc[p] \in Locking \cup Locked,
           label \in Locked => pc[p] \in Locked,
           label \in Owning => pc[p] \in Owning
    PROVE  SocketInv'
BY DEF Goto, SocketInv, SocketShapes

\* Who holds the flock may change the path.
LEMMA PathStep ==
    ASSUME SocketInv, NEW p \in Procs, NEW label, Goto(p, label),
           UNCHANGED <<units, lockFile, inodes, opened, locked>>,
           pc[p] \in Locked, label \notin {"off", "ended"} \cup Locking,
           label \in Owning => path' = p
    PROVE  SocketInv'
<1>1. \A q \in Procs \ {p} : pc[q] \notin Locked
    BY DEF SocketInv
<1> QED
    BY <1>1 DEF Goto, SocketInv, SocketShapes, Owning, Locked, Locking

LEMMA SocketInvariant == ASSUME Mixed = FALSE PROVE StartSpec => []SocketInv
<1>1. Init => SocketInv
    BY DEF Init, SocketInv, SocketShapes, Locking, Locked, Owning
<1>2. SocketInv /\ [Next]_vars => SocketInv'
    <2> SUFFICES ASSUME SocketInv, [Next]_vars PROVE SocketInv'
        OBVIOUS
    <2>1. CASE UNCHANGED vars
        BY <2>1 DEF vars, dirVars, own, bookkeeping, SocketInv, SocketShapes
    <2>2. ASSUME NEW p \in Procs, Start(p) PROVE SocketInv'
        BY <2>2 DEF Start, Goto, At, own, SocketInv, SocketShapes, Locking, Locked, Owning
    <2>3. ASSUME NEW p \in Procs,
                 LookForIdentity(p) \/ AcquireIdLock(p) \/ IdLockTimeout(p) \/ Recheck(p)
                   \/ PrepareIdentity(p) \/ ReplaceIdentity(p) \/ LoadIdentity(p) \/ ReleaseIdLock(p)
                   \/ EnsureParent(p)
          PROVE  SocketInv'
        <3>1. UNCHANGED <<units, lockFile, inodes, path, opened, locked>>
              /\ pc[p] \notin {"off", "ended"}
              /\ \E label : /\ Goto(p, label)
                            /\ label \notin {"off", "ended"} \cup Locking \cup Locked \cup Owning
            BY <2>3 DEF LookForIdentity, AcquireIdLock, IdLockTimeout, Recheck, PrepareIdentity,
                        ReplaceIdentity, LoadIdentity, ReleaseIdLock, EnsureParent, At, dirVars, own,
                        bookkeeping, Locking, Locked, Owning
        <3> QED
            BY <3>1, SocketStep
    <2>4. ASSUME NEW p \in Procs, OpenLock(p) PROVE SocketInv'
        <3>1. CASE ~runtimeDir
            BY <2>4, <3>1, SocketStep DEF OpenLock, At, bookkeeping, Locking, Locked, Owning
        <3>2. CASE runtimeDir
            <4>1. /\ pc[p] = "open" /\ pc' = [pc EXCEPT ![p] = "flock"] /\ inodes' \in Nat
                  /\ opened' = [opened EXCEPT ![p] = lockFile'] /\ lockFile' # Free
                  /\ lockFile # Free => lockFile' = lockFile
                  /\ UNCHANGED <<units, path, locked>>
                BY <2>4, <3>2, DaemonStartAssumption
                DEF OpenLock, At, Goto, bookkeeping, SocketInv, SocketShapes
            <4>2. \A q \in Procs : opened[q] # Free => opened[q] = lockFile'
                BY <4>1 DEF SocketInv
            <4> QED
                BY <4>1, <4>2 DEF SocketInv, SocketShapes, Locking, Locked, Owning
        <3> QED
            BY <3>1, <3>2
    <2>5. ASSUME NEW p \in Procs, Lock(p) PROVE SocketInv'
        <3>1. CASE HeldByAnother(p)
            BY <2>5, <3>1, SocketStep DEF Lock, At, dirVars, bookkeeping, Locking, Locked, Owning
        <3>2. CASE ~HeldByAnother(p)
            <4>1. /\ pc[p] = "flock" /\ pc' = [pc EXCEPT ![p] = "stale"]
                  /\ locked' = [locked EXCEPT ![p] = TRUE]
                  /\ UNCHANGED <<units, lockFile, inodes, path, opened>>
                BY <2>5, <3>2 DEF Lock, At, Goto, dirVars, bookkeeping
            <4>2. \A q \in Procs \ {p} : ~locked[q]
                BY <3>2, <4>1 DEF HeldByAnother, SocketInv, Locking
            <4> QED
                BY <4>1, <4>2 DEF SocketInv, SocketShapes, Locking, Locked, Owning
        <3> QED
            BY <3>1, <3>2
    <2>6. ASSUME NEW p \in Procs,
                 LookForSocket(p) \/ Probe(p) \/ Listen(p) \/ CheckBound(p) \/ StopServing(p) \/ Cleanup(p)
          PROVE  SocketInv'
        <3>1. UNCHANGED <<units, lockFile, inodes, path, opened, locked>> /\ pc[p] \in Locked
              /\ \E label : Goto(p, label) /\ label \notin {"off", "ended"} \cup Locking
                            /\ (label \in Owning => pc[p] \in Owning)
            BY <2>6 DEF LookForSocket, Probe, Listen, CheckBound, StopServing, Cleanup, At, dirVars,
                        own, bookkeeping, Locking, Locked, Owning
        <3> QED
            BY <3>1, SocketStep DEF Locked
    <2>7. ASSUME NEW p \in Procs, UnlinkStale(p) \/ Bind(p) \/ Remove(p) PROVE SocketInv'
        <3>1. UNCHANGED <<units, lockFile, inodes, opened, locked>> /\ pc[p] \in Locked
              /\ \E label : Goto(p, label) /\ label \notin {"off", "ended"} \cup Locking
                            /\ (label \in Owning => path' = p)
            BY <2>7 DEF UnlinkStale, Bind, Remove, At, own, bookkeeping, Locking, Locked, Owning
        <3> QED
            BY <3>1, PathStep
    <2>8. ASSUME NEW p \in Procs, Dies(p), pc[p] # "off" PROVE SocketInv'
        <3>1. /\ \E label : pc' = [pc EXCEPT ![p] = label] /\ label = IF p \in units THEN "ended" ELSE "off"
              /\ opened' = [opened EXCEPT ![p] = Free] /\ locked' = [locked EXCEPT ![p] = FALSE]
              /\ path' = (IF path = p THEN Stale ELSE path)
              /\ UNCHANGED <<units, lockFile, inodes>>
            BY <2>8 DEF Dies, Goto, bookkeeping
        <3> QED
            BY <2>8, <3>1 DEF SocketInv, SocketShapes, Locking, Locked, Owning
    <2>9. ASSUME NEW p \in Procs, RemoveRuntimeDirectory(p) PROVE SocketInv'
        <3>1. /\ pc[p] = "ended" /\ pc' = [pc EXCEPT ![p] = "off"] /\ p \in units
              /\ UNCHANGED <<units, inodes, opened, locked>>
            BY <2>9 DEF RemoveRuntimeDirectory, At, Goto, own, bookkeeping, SocketInv
        <3>2. \A q \in Procs \ {p} : pc[q] = "off"
            BY <3>1, DaemonStartAssumption DEF SocketInv
        <3> QED
            BY <3>1, <3>2 DEF SocketInv, SocketShapes, Locking, Locked, Owning
    <2> QED
        BY <2>1, <2>2, <2>3, <2>4, <2>5, <2>6, <2>7, <2>8, <2>9 DEF Next, Step, Exit, Crash, At
<1> QED
    BY <1>1, <1>2, PTL DEF StartSpec

\* Unless daemons are started by hand next to systemd's, the path leads to the daemon that
\* serves: nobody on its way out, however late, takes another's socket with it.
THEOREM PathStaysWithDaemon == ASSUME Mixed = FALSE PROVE StartSpec => []PathLeadsToDaemon
<1>1. SocketInv => PathLeadsToDaemon
    BY DEF SocketInv, Owning, PathLeadsToDaemon, At
<1> QED
    BY <1>1, SocketInvariant, PTL

\* Under the same condition two daemons never serve at once.
THEOREM OneDaemonServes == ASSUME Mixed = FALSE PROVE StartSpec => []OneDaemon
<1>1. SocketInv => OneDaemon
    BY DEF SocketInv, Owning, OneDaemon, At
<1> QED
    BY <1>1, SocketInvariant, PTL

-----------------------------------------------------------------------------
(* Shutting down *)

LifeSpec == LifeInit /\ [][LifeNext]_lifeVars

AtRest == {"off", "ended", "finished"}

LifeShapes ==
    /\ DOMAIN writer = {"at", "queue", "closed"}
    /\ DOMAIN answer = Threads \cup {Main} /\ DOMAIN thread = Threads
    /\ DOMAIN main = {"at", "stop"}
    /\ DOMAIN history = {"told", "refused", "overran"}

\* The writer is closed after the background loop has ended, with its pool, unless the
\* wait for it ran out.
ShutdownInv ==
    /\ LifeShapes
    /\ main.at \in {"bind", "serve", "join", "close", "closing", "final", "finishing", "exit", "gone"}
    /\ main.at = "bind" => thread[Loop] = "off"
    /\ thread[Loop] # "pulling" => \A m \in Members : thread[m] \in AtRest
    /\ main.at \in {"close", "closing", "final", "finishing", "exit", "gone"} =>
          thread[Loop] \in AtRest \/ history.overran
    /\ writer.closed => main.at \in {"closing", "final", "finishing", "exit", "gone"}
    /\ RefusedOnlyOverrun

\* A step of the background threads while the main thread waits.
LEMMA ThreadStep ==
    ASSUME ShutdownInv, NEW t \in Threads, NEW label, Moves(t, label), thread[t] \notin AtRest,
           label = "pulling" => t = Loop,
           t = Loop /\ thread[Loop] = "pulling" => \A m \in Members : thread[m] \in AtRest,
           UNCHANGED main, DOMAIN writer' = DOMAIN writer, writer'.closed = writer.closed,
           DOMAIN answer' = DOMAIN answer,
           DOMAIN history' = DOMAIN history, history'.overran = history.overran,
           history'.refused = history.refused \/ (history'.refused /\ writer.closed)
    PROVE  ShutdownInv'
<1>1. Loop \notin Members /\ Threads = Members \cup {Loop} /\ (t = Loop \/ t \in Members)
    BY DaemonLifeAssumption DEF Threads
<1>2. /\ DOMAIN thread' = Threads /\ thread'[t] = label
      /\ \A u \in Threads \ {t} : thread'[u] = thread[u]
    BY DEF Moves, ShutdownInv, LifeShapes
<1>3. main.at \in {"close", "closing", "final", "finishing", "exit", "gone"} => history.overran
    BY <1>1 DEF ShutdownInv, AtRest
<1>4. main.at # "bind"
    BY <1>1 DEF ShutdownInv, AtRest
<1>5. LifeShapes'
    BY <1>2 DEF ShutdownInv, LifeShapes
<1>6. RefusedOnlyOverrun'
    BY <1>3 DEF ShutdownInv, RefusedOnlyOverrun
<1>7. ASSUME thread'[Loop] # "pulling", NEW m \in Members PROVE thread'[m] \in AtRest
    <2>1. t = Loop
        BY <1>1, <1>2, <1>7 DEF ShutdownInv
    <2> QED
        BY <1>1, <1>2, <1>7, <2>1 DEF ShutdownInv
<1> QED
    BY <1>3, <1>4, <1>5, <1>6, <1>7 DEF ShutdownInv

LEMMA ShutdownInvariant == LifeSpec => []ShutdownInv
<1>1. LifeInit => ShutdownInv
    BY DaemonLifeAssumption
    DEF LifeInit, WriterInit, RuntimeInit, ShutdownInv, LifeShapes, RefusedOnlyOverrun, AtRest, Threads
<1>2. ShutdownInv /\ [LifeNext]_lifeVars => ShutdownInv'
    <2> SUFFICES ASSUME ShutdownInv, [LifeNext]_lifeVars PROVE ShutdownInv'
        OBVIOUS
    <2>0. Loop \in Threads /\ Loop \notin Members /\ Members \subseteq Threads
        BY DaemonLifeAssumption DEF Threads
    <2>1. ASSUME UNCHANGED thread, main'.at = main.at, DOMAIN main' = DOMAIN main,
                 DOMAIN writer' = DOMAIN writer, writer'.closed = writer.closed,
                 DOMAIN answer' = DOMAIN answer, UNCHANGED history
          PROVE  ShutdownInv'
        BY <2>1 DEF ShutdownInv, LifeShapes, RefusedOnlyOverrun
    <2>2. CASE UNCHANGED lifeVars
        BY <2>1, <2>2 DEF lifeVars
    <2>3. CASE WriterStep \/ (\E r \in Local : Measure(r)) \/ PeerStep \/ PeerExits \/ Tailnet
        BY <2>1, <2>3 DEF WriterStep, Connect, Commit, StopWriter, Tell, Measure, PeerStep, Look,
            BindPeer, Retry, ClosePeer, PeerExits, Tailnet, writerVars, loopVars, serverVars, indexSide,
            ShutdownInv, LifeShapes
    <2>4. CASE Shutdown \/ Drain
        BY <2>1, <2>4 DEF Shutdown, Drain, indexSide, writerVars, loopVars, ShutdownInv, LifeShapes
    <2>5. CASE BeginTick
        <3>1. thread[Loop] = "tick" /\ \E label \in {"publish", "rebuild"} : Moves(Loop, label)
            BY <2>5 DEF BeginTick, Has
        <3>2. /\ UNCHANGED <<main, answer>> /\ DOMAIN writer' = DOMAIN writer
              /\ writer'.closed = writer.closed /\ UNCHANGED history
            BY <2>5 DEF BeginTick, Queued, serverVars, ShutdownInv, LifeShapes
        <3> QED
            BY <2>0, <3>1, <3>2, ThreadStep DEF AtRest, ShutdownInv, LifeShapes
    <2>6. CASE Rebuilt \/ Publish \/ PublishFails \/ Published \/ Wake
        <3>1. /\ thread[Loop] \notin AtRest \cup {"pulling"}
              /\ \E label : Moves(Loop, label) /\ label # "pulling"
              /\ UNCHANGED <<main, writer, history>> /\ DOMAIN answer' = DOMAIN answer
            BY <2>6 DEF Rebuilt, Publish, PublishFails, Published, Wake, Has, Tell, serverVars,
                writerVars, AtRest
        <3> QED
            BY <2>0, <3>1, ThreadStep DEF AtRest
    <2>7. CASE EndTick
        BY <2>0, <2>7, ThreadStep DEF EndTick, Has, serverVars, writerVars, AtRest
    <2>8. CASE Pull
        <3>1. /\ thread[Loop] = "pull" /\ DOMAIN thread' = Threads /\ thread'[Loop] = "pulling"
              /\ UNCHANGED <<main, writer, answer, history>>
            BY <2>0, <2>8 DEF Pull, Has, serverVars, writerVars
        <3> QED
            BY <3>1 DEF ShutdownInv, LifeShapes, RefusedOnlyOverrun, AtRest
    <2>9. ASSUME NEW t \in Threads, Check(t) PROVE ShutdownInv'
        <3>1. /\ thread[t] = "submit" /\ UNCHANGED <<main, writer, answer>>
              /\ \E label : Moves(t, label) /\ label # "pulling"
              /\ \/ history' = history
                 \/ writer.closed /\ history' = [history EXCEPT !.refused = TRUE]
            BY <2>9 DEF Check, Has, Onwards, writerVars, serverVars
        <3> QED
            BY <3>1, ThreadStep DEF AtRest, ShutdownInv, LifeShapes
    <2>10. ASSUME NEW t \in Threads, Put(t) PROVE ShutdownInv'
        <3>1. /\ thread[t] = "put" /\ UNCHANGED <<main, answer, history>> /\ Moves(t, "wait")
              /\ DOMAIN writer' = DOMAIN writer /\ writer'.closed = writer.closed
            BY <2>10 DEF Put, Has, Queued, serverVars, ShutdownInv, LifeShapes
        <3> QED
            BY <3>1, ThreadStep DEF AtRest
    <2>11. ASSUME NEW t \in Threads, Submitted(t) PROVE ShutdownInv'
        <3>1. /\ thread[t] = "wait" /\ UNCHANGED <<main, writer>> /\ DOMAIN answer' = DOMAIN answer
              /\ \E label : Moves(t, label) /\ label # "pulling"
              /\ \/ history' = history
                 \/ history' = [history EXCEPT !.told = @ \cup {answer[t]}]
            BY <2>11 DEF Submitted, Has, Tell, Onwards, serverVars
        <3> QED
            BY <3>1, ThreadStep DEF AtRest, ShutdownInv, LifeShapes
    <2>12. ASSUME NEW m \in Members, AskMember(m) PROVE ShutdownInv'
        <3>1. /\ thread[m] = "ask" /\ UNCHANGED <<main, writer, answer>>
              /\ \E label : Moves(m, label) /\ label # "pulling"
              /\ history' = history
            BY <2>12 DEF AskMember, Has, writerVars, serverVars
        <3> QED
            BY <2>0, <3>1, ThreadStep DEF AtRest, ShutdownInv, LifeShapes
    <2>13. CASE BindLocal
        <3>1. /\ main.at = "bind" /\ UNCHANGED <<writer, answer, history>>
              /\ \/ main' = [main EXCEPT !.at = "final"] /\ UNCHANGED thread
                 \/ main' = [main EXCEPT !.at = "serve"] /\ Moves(Loop, "tick")
            BY <2>13 DEF BindLocal, MainAt, MainGoes, writerVars
        <3> QED
            BY <2>0, <3>1 DEF Moves, ShutdownInv, LifeShapes, RefusedOnlyOverrun, AtRest
    <2>14. CASE StopLoop
        BY <2>14 DEF StopLoop, MainAt, MainGoes, writerVars, ShutdownInv, LifeShapes, RefusedOnlyOverrun
    <2>15. CASE Join
        <3>1. /\ main.at = "join" /\ UNCHANGED <<writer, answer, thread>>
              /\ main' = [main EXCEPT !.at = "close"]
              /\ \/ thread[Loop] = "ended" /\ history' = history
                 \/ history' = [history EXCEPT !.overran = TRUE]
            BY <2>15 DEF Join, MainAt, MainGoes, writerVars
        <3> QED
            BY <3>1 DEF ShutdownInv, LifeShapes, RefusedOnlyOverrun, AtRest
    <2>16. CASE Close \/ Closed \/ LeaveProcess
        <3>1. /\ UNCHANGED <<thread, answer, history>>
              /\ main.at \in {"close", "closing", "final", "finishing", "exit", "gone"}
              /\ \E step \in {"closing", "final", "finishing", "exit", "gone"} :
                    main' = [main EXCEPT !.at = step]
              /\ DOMAIN writer' = DOMAIN writer
            BY <2>16 DEF Close, Closed, LeaveProcess, MainAt, MainGoes, Queued, indexSide, writerVars,
                loopVars, ShutdownInv, LifeShapes
        <3> QED
            BY <3>1 DEF ShutdownInv, LifeShapes, RefusedOnlyOverrun
    <2> QED
        BY <2>0, <2>2, <2>3, <2>4, <2>5, <2>6, <2>7, <2>8, <2>9, <2>10, <2>11, <2>12, <2>13, <2>14,
           <2>15, <2>16 DEF LifeNext, LoopStep, PoolStep, MainStep
<1> QED
    BY <1>1, <1>2, PTL DEF LifeSpec

\* The writer outlives every thread that submits to it, unless the background loop outlived
\* the bounded wait for it: however the signal, the doors and the threads interleave.
THEOREM ShutdownRefusesNobody == LifeSpec => []RefusedOnlyOverrun
<1>1. ShutdownInv => RefusedOnlyOverrun
    BY DEF ShutdownInv
<1> QED
    BY <1>1, ShutdownInvariant, PTL

-----------------------------------------------------------------------------
(* What a caller of the index is told *)

Asks == [op : {"rebuild", "record", "stop"}, by : Threads \cup {Main},
         record : Records \cup {Loop, Main}]

\* Who has an operation in the queue waits for it.
Awaited(ask) ==
    /\ ask.op = "record" =>
          ask.by \in Threads /\ thread[ask.by] = "wait" /\ answer[ask.by] = "none" /\ ask.record \in Records
    /\ ask.op = "rebuild" => ask.by = Loop /\ thread[Loop] = "rebuild" /\ answer[Loop] = "none"
    /\ ask.op = "stop" => ask.by = Main

QueueInv ==
    /\ writer.queue \in Seq(Asks)
    /\ \A i \in 1 .. Len(writer.queue) : Awaited(writer.queue[i])
    /\ \A i, j \in 1 .. Len(writer.queue) :
          writer.queue[i].by = writer.queue[j].by /\ writer.queue[i].by # Main => i = j

\* Each caller has at most one operation in the queue and an answer of its kind.
ToldInv ==
    /\ LifeShapes
    /\ QueueInv
    /\ corpus \subseteq Local /\ todo \subseteq Local
    /\ \A t \in Threads :
          /\ thread[t] = "wait" => answer[t] \in {"none", "error"} \cup Records
          /\ thread[t] = "rebuild" => t = Loop /\ answer[t] \in {"none", "ok", "error"}
          /\ thread[t] \notin {"wait", "rebuild"} => answer[t] = "none"
    /\ ToldIsIndexed

\* A step of one thread that neither asks nor was answered.
LEMMA ThreadElsewhere ==
    ASSUME ToldInv, NEW t \in Threads, NEW label, Moves(t, label),
           {thread[t], label} \cap {"wait", "rebuild"} = {},
           UNCHANGED <<writer, answer, index, corpus>>, todo' \subseteq Local,
           DOMAIN main' = DOMAIN main, DOMAIN history' = DOMAIN history, history'.told = history.told
    PROVE  ToldInv'
<1>1. /\ DOMAIN thread' = Threads /\ thread'[t] = label
      /\ \A u \in Threads \ {t} : thread'[u] = thread[u]
    BY DEF Moves, ToldInv, LifeShapes
<1>2. LifeShapes'
    BY <1>1 DEF ToldInv, LifeShapes
<1>3. ASSUME NEW ask \in Asks, Awaited(ask) PROVE Awaited(ask)'
    BY <1>1, <1>3 DEF Awaited, Threads
<1>4. QueueInv'
    <2>1. \A i \in 1 .. Len(writer.queue) : writer.queue[i] \in Asks
        BY DEF ToldInv, QueueInv
    <2> QED
        BY <1>3, <2>1 DEF ToldInv, QueueInv
<1>5. ToldIsIndexed'
    BY DEF ToldInv, ToldIsIndexed
<1> QED
    BY <1>1, <1>2, <1>4, <1>5 DEF ToldInv

\* A thread queues an operation and waits for it.
LEMMA ThreadAsks ==
    ASSUME ToldInv, NEW t \in Threads, NEW op, NEW r, NEW label, Moves(t, label),
           thread[t] \notin {"wait", "rebuild"},
           \/ op = "record" /\ label = "wait" /\ r \in Records
           \/ op = "rebuild" /\ label = "rebuild" /\ t = Loop /\ r = Loop,
           writer' = Queued(op, t, r),
           UNCHANGED <<answer, index, corpus, main>>, todo' \subseteq Local,
           DOMAIN history' = DOMAIN history, history'.told = history.told
    PROVE  ToldInv'
<1> DEFINE ask == [op |-> op, by |-> t, record |-> r]
           queue == writer.queue
<1>0. ask \in Asks /\ t # Main /\ queue \in Seq(Asks)
    BY DaemonLifeAssumption DEF Asks, ToldInv, QueueInv
<1>1. /\ DOMAIN thread' = Threads /\ thread'[t] = label
      /\ \A u \in Threads \ {t} : thread'[u] = thread[u]
    BY DEF Moves, ToldInv, LifeShapes
<1>2. LifeShapes' /\ writer'.queue = Append(queue, ask)
    BY <1>1 DEF Queued, ToldInv, LifeShapes
<1>3. \A i \in 1 .. Len(queue) : queue[i] \in Asks /\ Awaited(queue[i])
    BY DEF ToldInv, QueueInv
<1>4. \A i \in 1 .. Len(queue) : queue[i].by # t
    BY <1>0, <1>3 DEF Awaited, Asks
<1>5. ASSUME NEW a \in Asks, Awaited(a), a.by # t PROVE Awaited(a)'
    <2>1. a.by \in Threads => thread'[a.by] = thread[a.by]
        BY <1>1, <1>5
    <2> QED
        BY <1>5, <2>1 DEF Awaited, Threads
<1>6. Awaited(ask)'
    BY <1>1 DEF Awaited, ToldInv
<1>7. /\ writer'.queue \in Seq(Asks) /\ Len(writer'.queue) = Len(queue) + 1
      /\ \A i \in 1 .. Len(queue) : writer'.queue[i] = queue[i]
      /\ writer'.queue[Len(queue) + 1] = ask
    BY <1>0, <1>2
<1>8. QueueInv'
    <2>1. ASSUME NEW i \in 1 .. Len(writer'.queue) PROVE Awaited(writer.queue[i])'
        <3>1. CASE i \in 1 .. Len(queue)
            <4>1. PICK a \in Asks : a = queue[i]
                BY <1>3, <3>1
            <4>2. Awaited(a)'
                BY <1>3, <1>4, <1>5, <3>1, <4>1
            <4> QED
                BY <1>7, <3>1, <4>1, <4>2
        <3>2. CASE i = Len(queue) + 1
            BY <1>6, <1>7, <3>2
        <3> QED
            BY <1>0, <1>7, <2>1, <3>1, <3>2
    <2>2. ASSUME NEW i \in 1 .. Len(writer'.queue), NEW j \in 1 .. Len(writer'.queue),
                 writer'.queue[i].by = writer'.queue[j].by, writer'.queue[i].by # Main
          PROVE  i = j
        <3>1. ASSUME NEW k \in 1 .. Len(queue) + 1 PROVE k \in 1 .. Len(queue) \/ k = Len(queue) + 1
            BY <1>0
        <3>2. CASE i \in 1 .. Len(queue) /\ j \in 1 .. Len(queue)
            BY <1>7, <2>2, <3>2 DEF ToldInv, QueueInv
        <3> QED
            BY <1>4, <1>7, <2>2, <3>1, <3>2
    <2> QED
        BY <1>7, <2>1, <2>2 DEF QueueInv
<1>9. ToldIsIndexed'
    BY DEF ToldInv, ToldIsIndexed
<1> QED
    BY <1>1, <1>2, <1>8, <1>9 DEF ToldInv

\* A thread takes its answer, if that is no record or one that is indexed.
LEMMA ThreadHears ==
    ASSUME ToldInv, NEW t \in Threads, NEW label, Moves(t, label), label \notin {"wait", "rebuild"},
           thread[t] \in {"wait", "rebuild"}, answer[t] # "none", Tell(t, "none"),
           UNCHANGED <<writer, index, corpus, main>>, todo' \subseteq Local,
           DOMAIN history' = DOMAIN history,
           \/ history'.told = history.told
           \/ thread[t] = "wait" /\ answer[t] # "error" /\ history'.told = history.told \cup {answer[t]}
    PROVE  ToldInv'
<1>0. t # Main
    BY DaemonLifeAssumption
<1>1. /\ DOMAIN thread' = Threads /\ thread'[t] = label
      /\ \A u \in Threads \ {t} : thread'[u] = thread[u]
      /\ DOMAIN answer' = Threads \cup {Main} /\ answer'[t] = "none"
      /\ \A u \in Threads \ {t} : answer'[u] = answer[u]
    BY DEF Moves, Tell, ToldInv, LifeShapes
<1>2. LifeShapes'
    BY <1>1 DEF ToldInv, LifeShapes
<1>3. ASSUME NEW ask \in Asks, Awaited(ask) PROVE Awaited(ask)'
    BY <1>1, <1>3 DEF Awaited, Threads
<1>4. QueueInv'
    <2>1. \A i \in 1 .. Len(writer.queue) : writer.queue[i] \in Asks
        BY DEF ToldInv, QueueInv
    <2> QED
        BY <1>3, <2>1 DEF ToldInv, QueueInv
<1>5. history'.told \subseteq index
    BY DEF ToldInv, ToldIsIndexed
<1>6. ASSUME NEW u \in Threads, answer'[u] \in Records PROVE answer'[u] \in index
    BY <1>1, <1>6, DaemonLifeAssumption DEF ToldInv, ToldIsIndexed
<1> QED
    BY <1>1, <1>2, <1>4, <1>5, <1>6 DEF ToldInv, ToldIsIndexed

\* The writer takes the first operation of the queue and tells its caller the outcome.
LEMMA WriterTells ==
    ASSUME ToldInv, writer.queue # <<>>,
           writer'.queue = Tail(writer.queue), DOMAIN writer' = DOMAIN writer,
           NEW outcome, Tell(Head(writer.queue).by, outcome),
           outcome \in {Outcome(Head(writer.queue)), "error"} \/ Head(writer.queue).op = "stop",
           index \subseteq index',
           outcome \in Records /\ Head(writer.queue).op # "stop" => outcome \in index',
           UNCHANGED <<thread, corpus, todo, main, history>>
    PROVE  ToldInv'
<1> DEFINE queue == writer.queue
           ask == Head(queue)
           c == ask.by
<1>1. queue \in Seq(Asks) /\ Len(queue) >= 1
    BY DEF ToldInv, QueueInv
<1>2. ask = queue[1] /\ ask \in Asks /\ Awaited(ask)
    BY <1>1 DEF ToldInv, QueueInv
<1>3. /\ writer'.queue \in Seq(Asks) /\ Len(writer'.queue) = Len(queue) - 1
      /\ \A i \in 1 .. Len(writer'.queue) : writer'.queue[i] = queue[i + 1]
    BY <1>1
<1>4. /\ DOMAIN answer' = Threads \cup {Main} /\ answer'[c] = outcome
      /\ \A u \in Threads \ {c} : answer'[u] = answer[u]
    BY <1>2 DEF Tell, Asks, ToldInv, LifeShapes
<1>5. LifeShapes'
    BY <1>4 DEF ToldInv, LifeShapes
<1>6. Main \notin Threads
    BY DaemonLifeAssumption
<1>7. ASSUME NEW a \in Asks, Awaited(a), a.by # c \/ a.by = Main PROVE Awaited(a)'
    BY <1>4, <1>6, <1>7, DaemonLifeAssumption DEF Awaited, Threads
<1>8. QueueInv'
    <2>1. ASSUME NEW i \in 1 .. Len(writer'.queue) PROVE Awaited(writer.queue[i])'
        <3>1. i + 1 \in 1 .. Len(queue) /\ i + 1 # 1 /\ 1 \in 1 .. Len(queue)
            BY <1>1, <1>3
        <3>2. PICK a \in Asks : a = queue[i + 1]
            BY <1>1, <3>1
        <3>3. Awaited(a) /\ (a.by # c \/ a.by = Main)
            BY <1>2, <3>1, <3>2 DEF ToldInv, QueueInv
        <3>4. Awaited(a)'
            BY <1>7, <3>3
        <3> QED
            BY <1>3, <3>2, <3>4
    <2>2. ASSUME NEW i \in 1 .. Len(writer'.queue), NEW j \in 1 .. Len(writer'.queue),
                 writer'.queue[i].by = writer'.queue[j].by, writer'.queue[i].by # Main
          PROVE  i = j
        <3>1. i + 1 \in 1 .. Len(queue) /\ j + 1 \in 1 .. Len(queue) /\ i \in Int /\ j \in Int
            BY <1>1, <1>3
        <3>2. i + 1 = j + 1
            BY <1>3, <2>2, <3>1 DEF ToldInv, QueueInv
        <3> QED
            BY <3>1, <3>2
    <2> QED
        BY <1>3, <2>1, <2>2 DEF QueueInv
<1>9. ASSUME NEW t \in Threads
      PROVE  /\ thread[t] = "wait" => answer'[t] \in {"none", "error"} \cup Records
             /\ thread[t] = "rebuild" => t = Loop /\ answer'[t] \in {"none", "ok", "error"}
             /\ thread[t] \notin {"wait", "rebuild"} => answer'[t] = "none"
             /\ answer'[t] \in Records => answer'[t] \in index'
    <2>1. CASE t # c
        BY <1>4, <2>1 DEF ToldInv, ToldIsIndexed
    <2>2. CASE t = c
        <3>1. ask.op # "stop" /\ outcome \in {Outcome(ask), "error"} /\ ask.op \in {"record", "rebuild"}
            BY <1>2, <1>6, <2>2 DEF Awaited, Asks
        <3>2. CASE ask.op = "record"
            BY <1>2, <1>4, <2>2, <3>1, <3>2 DEF Awaited, Outcome
        <3>3. CASE ask.op = "rebuild"
            BY <1>2, <1>4, <2>2, <3>1, <3>3 DEF Awaited, Outcome
        <3> QED
            BY <3>1, <3>2, <3>3
    <2> QED
        BY <2>1, <2>2
<1> QED
    BY <1>5, <1>8, <1>9 DEF ToldInv, ToldIsIndexed

\* The stop of the main thread goes behind what is queued.
LEMMA StopIsQueued ==
    ASSUME ToldInv, writer' = [Queued("stop", Main, Main) EXCEPT !.closed = TRUE],
           UNCHANGED <<answer, index, thread, corpus, todo, history>>, DOMAIN main' = DOMAIN main
    PROVE  ToldInv'
<1> DEFINE ask == [op |-> "stop", by |-> Main, record |-> Main]
           queue == writer.queue
<1>1. ask \in Asks /\ queue \in Seq(Asks)
    BY DEF Asks, ToldInv, QueueInv
<1>2. LifeShapes' /\ writer'.queue = Append(queue, ask)
    BY DEF Queued, ToldInv, LifeShapes
<1> HIDE DEF ask, queue
<1>3. /\ writer'.queue \in Seq(Asks) /\ Len(writer'.queue) = Len(queue) + 1
      /\ \A i \in 1 .. Len(queue) : writer'.queue[i] = queue[i]
      /\ writer'.queue[Len(queue) + 1] = ask
    BY <1>1, <1>2
<1>0. \A i \in 1 .. Len(queue) + 1 : i \in 1 .. Len(queue) \/ i = Len(queue) + 1
    BY <1>1
<1>4. \A a : Awaited(a)' <=> Awaited(a)
    BY DEF Awaited
<1>5. \A i \in 1 .. Len(writer'.queue) : Awaited(writer'.queue[i])
    BY <1>0, <1>3 DEF Awaited, ToldInv, QueueInv, ask, queue
<1>6. ASSUME NEW i \in 1 .. Len(writer'.queue), NEW j \in 1 .. Len(writer'.queue),
             writer'.queue[i].by = writer'.queue[j].by, writer'.queue[i].by # Main
      PROVE  i = j
    <2>1. i \in 1 .. Len(queue) /\ j \in 1 .. Len(queue)
        BY <1>0, <1>3, <1>6 DEF ask
    <2> QED
        BY <1>3, <1>6, <2>1 DEF ToldInv, QueueInv, queue
<1>7. QueueInv'
    BY <1>3, <1>4, <1>5, <1>6 DEF QueueInv
<1> QED
    BY <1>2, <1>7 DEF ToldInv, ToldIsIndexed

LEMMA ToldInvariant == LifeSpec => []ToldInv
<1>1. LifeInit => ToldInv
    <2> SUFFICES ASSUME LifeInit PROVE ToldInv
        OBVIOUS
    <2>1. writer.queue = <<>> /\ DOMAIN writer = {"at", "queue", "closed"}
        BY DEF LifeInit, WriterInit
    <2>2. QueueInv
        BY <2>1 DEF QueueInv
    <2> QED
        BY <2>1, <2>2, DaemonLifeAssumption
        DEF LifeInit, WriterInit, RuntimeInit, ToldInv, LifeShapes, ToldIsIndexed
<1>2. ToldInv /\ ShutdownInv /\ [LifeNext]_lifeVars => ToldInv'
    <2> SUFFICES ASSUME ToldInv, ShutdownInv, [LifeNext]_lifeVars PROVE ToldInv'
        OBVIOUS
    <2>0. Loop \in Threads /\ Loop \notin Members /\ Members \subseteq Threads
          /\ Local \subseteq Records /\ Members \subseteq Records
        BY DaemonLifeAssumption DEF Threads, Records
    <2>1. ASSUME UNCHANGED <<answer, index, thread, todo, history>>, corpus' \subseteq Local,
                 writer'.queue = writer.queue, DOMAIN writer' = DOMAIN writer,
                 DOMAIN main' = DOMAIN main
          PROVE  ToldInv'
        BY <2>1 DEF ToldInv, LifeShapes, QueueInv, Awaited, ToldIsIndexed
    <2>2. CASE UNCHANGED lifeVars
        BY <2>1, <2>2 DEF lifeVars, ToldInv
    <2>3. CASE Connect \/ (\E r \in Local : Measure(r)) \/ PeerStep \/ PeerExits \/ Tailnet
               \/ Shutdown \/ Drain
        <3>1. DOMAIN writer = {"at", "queue", "closed"} /\ DOMAIN main = {"at", "stop"}
              /\ corpus \subseteq Local
            BY DEF ToldInv, LifeShapes
        <3> QED
            BY <2>1, <2>3, <3>1 DEF Connect, Measure, PeerStep, Look,
                BindPeer, Retry, ClosePeer, PeerExits, Tailnet, Shutdown, Drain,
                writerVars, loopVars, serverVars, indexSide
    <2>4. CASE Commit
        <3> DEFINE ask == Head(writer.queue)
        <3>1. /\ writer.queue # <<>> /\ ask.op # "stop"
              /\ \/ index' = index \cup Indexed(ask) /\ Tell(ask.by, Outcome(ask))
                 \/ index' = index /\ Tell(ask.by, "error")
              /\ writer' = [writer EXCEPT !.queue = Tail(@)]
              /\ UNCHANGED <<thread, corpus, todo, main, history>>
            BY <2>4 DEF Commit, WriterAt, loopVars, serverVars
        <3>2. writer'.queue = Tail(writer.queue) /\ DOMAIN writer' = DOMAIN writer
            BY <3>1 DEF ToldInv, LifeShapes
        <3>3. CASE index' = index \cup Indexed(ask) /\ Tell(ask.by, Outcome(ask))
            <4>1. Outcome(ask) \in Records => Outcome(ask) \in index'
                BY <3>3, DaemonLifeAssumption DEF Outcome, Indexed
            <4> QED
                BY <3>1, <3>2, <3>3, <4>1, WriterTells
        <3>4. CASE index' = index /\ Tell(ask.by, "error")
            BY <3>1, <3>2, <3>4, DaemonLifeAssumption, WriterTells
        <3> QED
            BY <3>1, <3>3, <3>4
    <2>5. CASE StopWriter
        <3>1. /\ writer.queue # <<>> /\ Head(writer.queue).op = "stop"
              /\ writer' = [writer EXCEPT !.at = "ended", !.queue = Tail(@)]
              /\ Tell(Main, "ok")
              /\ UNCHANGED <<thread, corpus, todo, main, history, index>>
            BY <2>5 DEF StopWriter, WriterAt, loopVars, serverVars
        <3>2. writer'.queue = Tail(writer.queue) /\ DOMAIN writer' = DOMAIN writer
            BY <3>1 DEF ToldInv, LifeShapes
        <3>3. Head(writer.queue).by = Main
            <4>1. writer.queue \in Seq(Asks) /\ Len(writer.queue) >= 1
                BY <3>1 DEF ToldInv, QueueInv
            <4>2. Head(writer.queue) = writer.queue[1] /\ Awaited(writer.queue[1])
                BY <4>1 DEF ToldInv, QueueInv
            <4> QED
                BY <3>1, <4>2 DEF Awaited
        <3> QED
            BY <3>1, <3>2, <3>3, WriterTells
    <2>6. CASE BeginTick
        <3>1. /\ thread[Loop] = "tick" /\ UNCHANGED <<answer, index, corpus, todo, main>>
              /\ history' = history
              /\ \/ Moves(Loop, "publish") /\ UNCHANGED writer
                 \/ Moves(Loop, "rebuild") /\ writer' = Queued("rebuild", Loop, Loop)
            BY <2>6 DEF BeginTick, Has, serverVars
        <3>2. DOMAIN history' = DOMAIN history /\ history'.told = history.told /\ todo \subseteq Local
            BY <3>1 DEF ToldInv, LifeShapes
        <3>3. CASE Moves(Loop, "publish") /\ UNCHANGED writer
            BY <2>0, <3>1, <3>2, <3>3, ThreadElsewhere
        <3>4. CASE Moves(Loop, "rebuild") /\ writer' = Queued("rebuild", Loop, Loop)
            BY <2>0, <3>1, <3>2, <3>4, ThreadAsks
        <3> QED
            BY <3>1, <3>3, <3>4
    <2>7. CASE Rebuilt
        BY <2>0, <2>7, ThreadHears DEF Rebuilt, Has, Answered, serverVars, ToldInv
    <2>17. CASE PublishFails
        <3>1. /\ thread[Loop] = "publish" /\ Moves(Loop, "pull")
              /\ UNCHANGED <<main, writer, answer, index, corpus, todo, history>>
            BY <2>17 DEF PublishFails, Has, serverVars, writerVars
        <3>2. DOMAIN history' = DOMAIN history /\ history'.told = history.told /\ todo \subseteq Local
            BY <3>1 DEF ToldInv, LifeShapes
        <3> QED
            BY <2>0, <3>1, <3>2, ThreadElsewhere
    <2>8. CASE Publish \/ Published \/ EndTick \/ Wake
        <3>1. /\ thread[Loop] \notin {"wait", "rebuild"}
              /\ \E label : Moves(Loop, label) /\ label \notin {"wait", "rebuild"}
              /\ UNCHANGED <<main, writer, answer, index, corpus, history>> /\ todo' \subseteq Local
            BY <2>8 DEF Publish, Published, EndTick, Wake, Has, serverVars, writerVars, ToldInv
        <3> QED
            BY <2>0, <3>1, ThreadElsewhere
    <2>9. CASE Pull
        <3>1. /\ thread[Loop] = "pull" /\ DOMAIN thread' = Threads
              /\ \A t \in Threads : thread'[t] \in {"pulling", "ask", "off"}
              /\ UNCHANGED <<main, writer, answer, index, corpus, todo, history>>
            BY <2>9 DEF Pull, Has, serverVars, writerVars
        <3>2. \A t \in Threads : thread[t] \notin {"wait", "rebuild"}
            BY <3>1 DEF ShutdownInv, AtRest, Threads
        <3>3. QueueInv'
            <4>1. ASSUME NEW ask \in Asks, Awaited(ask) PROVE Awaited(ask)'
                BY <2>0, <3>2, <4>1 DEF Awaited, Asks
            <4>2. \A i \in 1 .. Len(writer.queue) : writer.queue[i] \in Asks
                BY DEF ToldInv, QueueInv
            <4> QED
                BY <3>1, <4>1, <4>2 DEF ToldInv, QueueInv
        <3> QED
            BY <3>1, <3>2, <3>3 DEF ToldInv, LifeShapes, ToldIsIndexed
    <2>10. ASSUME NEW t \in Threads, Check(t) PROVE ToldInv'
        <3>1. /\ thread[t] = "submit" /\ UNCHANGED <<main, writer, answer, index, corpus>>
              /\ \E label : Moves(t, label) /\ label \notin {"wait", "rebuild"}
              /\ \/ history' = history
                 \/ history' = [history EXCEPT !.refused = TRUE]
              /\ todo' \subseteq Local
            BY <2>10 DEF Check, Has, Onwards, Raised, writerVars, serverVars, ToldInv
        <3>2. DOMAIN history' = DOMAIN history /\ history'.told = history.told
            BY <3>1 DEF ToldInv, LifeShapes
        <3> QED
            BY <3>1, <3>2, ThreadElsewhere
    <2>11. ASSUME NEW t \in Threads, Put(t) PROVE ToldInv'
        <3>1. PICK r \in Handing(t) : writer' = Queued("record", t, r) /\ todo' = todo \ {r}
            BY <2>11 DEF Put
        <3>2. r \in Records
            BY <2>0 DEF Handing, Threads, ToldInv
        <3>3. /\ thread[t] = "put" /\ Moves(t, "wait") /\ todo' \subseteq Local
              /\ UNCHANGED <<answer, index, corpus, main, history>>
            BY <2>11, <3>1 DEF Put, Has, serverVars, ToldInv
        <3> QED
            BY <3>1, <3>2, <3>3, ThreadAsks
    <2>12. ASSUME NEW t \in Threads, Submitted(t) PROVE ToldInv'
        <3>1. /\ thread[t] = "wait" /\ answer[t] # "none" /\ Tell(t, "none")
              /\ UNCHANGED <<main, writer, index, corpus>>
              /\ \E label : Moves(t, label) /\ label \notin {"wait", "rebuild"}
              /\ \/ history' = history
                 \/ answer[t] # "error" /\ history' = [history EXCEPT !.told = @ \cup {answer[t]}]
              /\ todo' \subseteq Local
            BY <2>12 DEF Submitted, Has, Answered, Onwards, Raised, serverVars, ToldInv
        <3>2. /\ DOMAIN history' = DOMAIN history
              /\ \/ history'.told = history.told
                 \/ answer[t] # "error" /\ history'.told = history.told \cup {answer[t]}
            BY <3>1 DEF ToldInv, LifeShapes
        <3> QED
            BY <3>1, <3>2, ThreadHears
    <2>13. ASSUME NEW m \in Members, AskMember(m) PROVE ToldInv'
        <3>1. /\ thread[m] = "ask" /\ UNCHANGED <<main, writer, answer, index, corpus, todo>>
              /\ \E label : Moves(m, label) /\ label \notin {"wait", "rebuild"}
              /\ history' = history
            BY <2>13 DEF AskMember, Has, writerVars, serverVars
        <3>2. DOMAIN history' = DOMAIN history /\ history'.told = history.told /\ todo \subseteq Local
            BY <3>1 DEF ToldInv, LifeShapes
        <3> QED
            BY <2>0, <3>1, <3>2, ThreadElsewhere
    <2>14. CASE BindLocal
        <3>1. CASE UNCHANGED thread
            BY <2>1, <2>14, <3>1 DEF BindLocal, MainGoes, writerVars, ToldInv, LifeShapes
        <3>2. CASE Moves(Loop, "tick")
            <4>1. \/ thread[Loop] = "off" /\ main' = [main EXCEPT !.at = "serve"]
                  \/ UNCHANGED thread
                BY <2>14 DEF BindLocal, MainAt, MainGoes, ShutdownInv
            <4> QED
                BY <2>0, <2>14, <3>1, <3>2, <4>1, ThreadElsewhere
                DEF BindLocal, writerVars, ToldInv, LifeShapes
        <3> QED
            BY <2>14, <3>1, <3>2 DEF BindLocal
    <2>15. CASE StopLoop \/ Join \/ Closed \/ LeaveProcess
        <3>1. /\ UNCHANGED <<writer, answer, index, thread, corpus, todo>>
              /\ \E label : main' = [main EXCEPT !.at = label]
              /\ history' = history \/ history' = [history EXCEPT !.overran = TRUE]
            BY <2>15 DEF StopLoop, Join, Closed, LeaveProcess, MainGoes, indexSide, writerVars, loopVars
        <3>2. DOMAIN main' = DOMAIN main /\ DOMAIN history' = DOMAIN history /\ history'.told = history.told
            BY <3>1 DEF ToldInv, LifeShapes
        <3> QED
            BY <3>1, <3>2 DEF ToldInv, LifeShapes, QueueInv, Awaited, ToldIsIndexed
    <2>16. CASE Close
        <3>1. /\ UNCHANGED <<answer, index, thread, corpus, todo, history>>
              /\ DOMAIN main' = DOMAIN main
              /\ \/ UNCHANGED writer
                 \/ writer' = [Queued("stop", Main, Main) EXCEPT !.closed = TRUE]
            BY <2>16 DEF Close, MainGoes, loopVars, ToldInv, LifeShapes
        <3>2. CASE UNCHANGED writer
            BY <2>1, <3>1, <3>2 DEF ToldInv
        <3>3. CASE writer' = [Queued("stop", Main, Main) EXCEPT !.closed = TRUE]
            BY <3>1, <3>3, StopIsQueued
        <3> QED
            BY <3>1, <3>2, <3>3
    <2> QED
        BY <2>0, <2>2, <2>3, <2>4, <2>5, <2>6, <2>7, <2>8, <2>9, <2>10, <2>11, <2>12, <2>13, <2>14,
           <2>15, <2>16, <2>17 DEF LifeNext, LoopStep, PoolStep, MainStep, WriterStep
<1> QED
    BY <1>1, <1>2, ShutdownInvariant, PTL DEF LifeSpec

\* A submit that returned without an error has its record in the database, also while the
\* daemon shuts down around it.
THEOREM WhatIsToldIsIndexed == LifeSpec => []ToldIsIndexed
<1>1. ToldInv => ToldIsIndexed
    BY DEF ToldInv
<1> QED
    BY <1>1, ToldInvariant, PTL
=============================================================================
