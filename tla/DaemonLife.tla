----------------------------- MODULE DaemonLife -----------------------------
(***************************************************************************)
(* One daemon process from run_daemon to its exit (daemon/server.py,       *)
(* daemon/runtime.py, daemon/index.py).                                    *)
(*                                                                         *)
(* A writer thread owns the SQLite index and serves a queue.  A background *)
(* thread publishes local records, hands each to the writer and lets a     *)
(* pool of threads, one per member, pull pages and do the same; each waits *)
(* for the writer's answer.  The local door serves requests, the peer door *)
(* follows the tailnet.  A shutdown drains the doors, stops the background *)
(* thread with a bounded wait, then posts a stop to the writer.            *)
(***************************************************************************)
EXTENDS Naturals, Sequences

CONSTANTS
    Local,       \* records this machine measures
    Members,     \* other members of the fleet, each standing for a record it has
    Unindexable, \* records that _insert refuses: a value that is no number
    Doors,       \* how the peer door may be configured
    MayBreak,    \* may opening the index database fail?
    Loop, Main   \* the background thread, the thread that runs the daemon

Threads == Members \cup {Loop}
Records == Local \cup Members

ASSUME DaemonLifeAssumption ==
    /\ Local \cap Members = {} /\ Unindexable \subseteq Records
    /\ Loop \notin Members /\ Main \notin Threads
    /\ Doors \subseteq {"discover", "fixed", "disabled"}
    /\ MayBreak \in BOOLEAN
    /\ Records \cap {"none", "error", "ok"} = {}

VARIABLES
    writer,    \* the IndexWriter: its thread's step, its queue, _closed
    answer,    \* per caller: "none", "error", "ok", or the record that was committed
    index,     \* the records committed
    thread,    \* per background and pool thread: its next step
    loop,      \* the FleetBackgroundLoop: _stop, _rebuilt, this tick's errors, its state
    corpus,    \* local records measured so far
    published, \* local records in signed pages
    todo,      \* records of the new pages not yet handed to the writer
    main,      \* the main thread's next step, the asyncio stop event
    local,     \* the local door: "off", "up", "draining" (answers what it accepted), "down"
    peer,      \* the peer door: configuration, next step, what PeerListenerState says
    tailnet,   \* has this node a tailnet address?
    history    \* records told to be indexed; was a submit refused by the closed
               \* writer, the bounded wait overrun?

lifeVars == <<writer, answer, index, thread, loop, corpus, published, todo, main, local, peer,
          tailnet, history>>
serverVars == <<main, local, peer, tailnet>>
loopVars == <<thread, loop, corpus, published, todo>>
writerVars == <<writer, answer, index>>

\* The IndexWriter starts its thread when it is made, the other parts when they are told.
WriterInit ==
    /\ writer = [at |-> "connect", queue |-> <<>>, closed |-> FALSE]
    /\ answer = [c \in Threads \cup {Main} |-> "none"]
    /\ index = {}

RuntimeInit ==
    /\ thread = [t \in Threads |-> "off"]
    /\ loop = [stop |-> FALSE, rebuilt |-> FALSE, errors |-> FALSE, state |-> "stopped"]
    /\ corpus = {} /\ published = {} /\ todo = {}

\* run_daemon builds both before it binds.
LifeInit ==
    /\ WriterInit /\ RuntimeInit
    /\ main = [at |-> "bind", stop |-> FALSE]
    /\ local = "off"
    /\ \E door \in Doors :
          peer = [door |-> door, at |-> "off",
                  state |-> IF door = "disabled" THEN "disabled" ELSE "waiting"]
    /\ tailnet \in BOOLEAN
    /\ history = [told |-> {}, refused |-> FALSE, overran |-> FALSE]

Alive == main.at # "gone"

(***************************************************************************)
(* IndexWriter                                                             *)
(***************************************************************************)

WriterAt(label) == Alive /\ writer.at = label

\* _run: connecting or creating the schema may raise, and the thread is gone.
Connect ==
    /\ WriterAt("connect")
    /\ \E next \in {"idle"} \cup (IF MayBreak THEN {"ended"} ELSE {}) :
          writer' = [writer EXCEPT !.at = next]
    /\ UNCHANGED <<answer, index, loopVars, serverVars, history>>

Tell(c, what) == answer' = [answer EXCEPT ![c] = what]

\* A record that _insert refuses is rolled back and reported; a rebuild skips it.
Indexed(ask) == (IF ask.op = "rebuild" THEN corpus ELSE {ask.record}) \ Unindexable

Outcome(ask) ==
    IF ask.op = "rebuild" THEN "ok"
    ELSE IF ask.record \in Unindexable THEN "error" ELSE ask.record

\* (mutant) the caller goes on before the operation is committed
CommitLate ==
    /\ Alive /\ writer.queue # <<>>
    /\ LET ask == Head(writer.queue)
       IN  /\ ask.op # "stop"
           /\ IF writer.at = "idle"
              THEN Tell(ask.by, Outcome(ask)) /\ UNCHANGED index
                   /\ writer' = [writer EXCEPT !.at = "late"]
              ELSE index' = index \cup Indexed(ask) /\ UNCHANGED answer
                   /\ writer' = [writer EXCEPT !.at = "idle", !.queue = Tail(@)]
    /\ UNCHANGED <<loopVars, serverVars, history>>

\* The next operation is committed before its caller goes on, or the database
\* refuses it and it is rolled back as a whole.
Commit ==
    /\ WriterAt("idle") /\ writer.queue # <<>>
    /\ LET ask == Head(writer.queue)
       IN  /\ ask.op # "stop"
           /\ \/ index' = index \cup Indexed(ask) /\ Tell(ask.by, Outcome(ask))
              \/ UNCHANGED index /\ Tell(ask.by, "error")
    /\ writer' = [writer EXCEPT !.queue = Tail(@)]
    /\ UNCHANGED <<loopVars, serverVars, history>>

\* What was queued behind the stop stays there.
StopWriter ==
    /\ WriterAt("idle") /\ writer.queue # <<>> /\ Head(writer.queue).op = "stop"
    /\ writer' = [writer EXCEPT !.at = "ended", !.queue = Tail(@)]
    /\ Tell(Main, "ok")
    /\ UNCHANGED <<index, loopVars, serverVars, history>>

Answered(c) == answer[c] # "none"

Queued(op, c, r) == [writer EXCEPT !.queue = Append(@, [op |-> op, by |-> c, record |-> r])]

(***************************************************************************)
(* FleetBackgroundLoop and the puller's pool                               *)
(***************************************************************************)

Has(t, label) == Alive /\ thread[t] = label

Moves(t, label) == thread' = [thread EXCEPT ![t] = label]

Note == loop' = [loop EXCEPT !.errors = TRUE]

Measure(r) ==
    /\ Alive /\ r \notin corpus
    /\ corpus' = corpus \cup {r}
    /\ UNCHANGED <<writerVars, thread, loop, published, todo, serverVars, history>>

\* tick starts with a rebuild, until one has succeeded.
BeginTick ==
    /\ Has(Loop, "tick")
    /\ loop' = [loop EXCEPT !.errors = ~loop.rebuilt /\ writer.closed]
    /\ IF loop.rebuilt \/ writer.closed
       THEN Moves(Loop, "publish") /\ UNCHANGED writer
       ELSE Moves(Loop, "rebuild") /\ writer' = Queued("rebuild", Loop, Loop)
    /\ UNCHANGED <<answer, index, corpus, published, todo, serverVars, history>>

Rebuilt ==
    /\ Has(Loop, "rebuild") /\ Answered(Loop)
    /\ loop' = [loop EXCEPT !.rebuilt = answer[Loop] = "ok", !.errors = answer[Loop] = "error"]
    /\ Tell(Loop, "none")
    /\ Moves(Loop, "publish")
    /\ UNCHANGED <<writer, index, corpus, published, todo, serverVars, history>>

\* publisher.refresh signs what the corpus has and no page says.
Publish ==
    /\ Has(Loop, "publish")
    /\ todo' = corpus \ published
    /\ published' = corpus
    /\ Moves(Loop, "submit")
    /\ UNCHANGED <<writerVars, loop, corpus, serverVars, history>>

\* It raises, after none, some or all of the pages: nothing is handed over.
PublishFails ==
    /\ Has(Loop, "publish")
    /\ \E signed \in SUBSET corpus : published' = published \cup signed
    /\ Note
    /\ Moves(Loop, "pull")
    /\ UNCHANGED <<writerVars, corpus, todo, serverVars, history>>

Published ==
    /\ Has(Loop, "submit") /\ todo = {}
    /\ Moves(Loop, "pull")
    /\ UNCHANGED <<writerVars, loop, corpus, published, todo, serverVars, history>>

\* The loop hands over the records of its pages, a pool thread the one it pulled.
Handing(t) == IF t = Loop THEN todo ELSE {t}

\* Where a thread goes after a submit; an error ends the loop over the pages.
Onwards(t, raised) ==
    IF t # Loop THEN "finished" ELSE IF raised THEN "pull" ELSE "submit"

Raised(t) == Note /\ todo' = IF t = Loop THEN {} ELSE todo

\* submit looks whether the writer is closed ...
Check(t) ==
    /\ Has(t, "submit") /\ Handing(t) # {}
    /\ IF writer.closed
       THEN Raised(t) /\ Moves(t, Onwards(t, TRUE))
            /\ history' = [history EXCEPT !.refused = TRUE]
       ELSE Moves(t, "put") /\ UNCHANGED <<loop, todo, history>>
    /\ UNCHANGED <<writerVars, corpus, published, serverVars>>

\* ... then queues the record.
Put(t) ==
    /\ Has(t, "put")
    /\ \E r \in Handing(t) : writer' = Queued("record", t, r) /\ todo' = todo \ {r}
    /\ Moves(t, "wait")
    /\ UNCHANGED <<answer, index, loop, corpus, published, serverVars, history>>

Submitted(t) ==
    /\ Has(t, "wait") /\ Answered(t)
    /\ Tell(t, "none")
    /\ Moves(t, Onwards(t, answer[t] = "error"))
    /\ IF answer[t] = "error"
       THEN Raised(t) /\ UNCHANGED history
       ELSE history' = [history EXCEPT !.told = @ \cup {answer[t]}] /\ UNCHANGED <<loop, todo>>
    /\ UNCHANGED <<writer, index, corpus, published, serverVars>>

\* pull_once asks the members that the inventory shows, each in a thread of its own.
Pull ==
    /\ Has(Loop, "pull")
    /\ \E shown \in SUBSET Members :
          thread' = [t \in Threads |->
                        IF t = Loop THEN "pulling" ELSE IF t \in shown THEN "ask" ELSE "off"]
    /\ UNCHANGED <<writerVars, loop, corpus, published, todo, serverVars, history>>

\* No answer, a page whose record is not indexed yet, or an empty one.
AskMember(m) ==
    /\ Has(m, "ask")
    /\ \/ Moves(m, IF m \in history.told THEN "finished" ELSE "submit") /\ UNCHANGED loop
       \/ Moves(m, "finished") /\ Note
    /\ UNCHANGED <<writerVars, corpus, published, todo, serverVars, history>>

\* The tick ends when every pool thread has.
EndTick ==
    /\ Has(Loop, "pulling") /\ \A m \in Members : thread[m] \in {"off", "finished"}
    /\ loop' = [loop EXCEPT !.state = IF loop.errors THEN "degraded" ELSE "ok"]
    /\ Moves(Loop, "sleep")
    /\ UNCHANGED <<writerVars, corpus, published, todo, serverVars, history>>

Wake ==
    /\ Has(Loop, "sleep")
    /\ Moves(Loop, IF loop.stop THEN "ended" ELSE "tick")
    /\ UNCHANGED <<writerVars, loop, corpus, published, todo, serverVars, history>>

(***************************************************************************)
(* The two doors                                                           *)
(***************************************************************************)

indexSide == <<writerVars, loopVars, history>>

PeerAt(label) == Alive /\ peer.at = label

PeerGoes(label, says) == peer' = [peer EXCEPT !.at = label, !.state = says]

\* _serve_peer: where to listen.
Look ==
    /\ PeerAt("look")
    /\ IF main.stop THEN PeerGoes("done", peer.state)
       ELSE IF peer.door = "disabled" THEN PeerGoes("done", "disabled")
       ELSE IF peer.door = "fixed" \/ tailnet THEN PeerGoes("bind", peer.state)
       ELSE PeerGoes("wait", "waiting")
    /\ UNCHANGED <<indexSide, main, local, tailnet>>

\* A fixed address that cannot be bound ends the daemon, a discovered one is retried.
BindPeer ==
    /\ PeerAt("bind")
    /\ \/ tailnet /\ PeerGoes("up", "listening")
       \/ ~tailnet /\ PeerGoes(IF peer.door = "fixed" THEN "raised" ELSE "wait", "waiting")
    /\ UNCHANGED <<indexSide, main, local, tailnet>>

Retry ==
    /\ PeerAt("wait")
    /\ PeerGoes(IF main.stop THEN "done" ELSE "look", peer.state)
    /\ UNCHANGED <<indexSide, main, local, tailnet>>

ClosePeer ==
    /\ PeerAt("up") /\ main.stop
    /\ PeerGoes("done", peer.state)
    /\ UNCHANGED <<indexSide, main, local, tailnet>>

\* (mutant) a peer server that ends is not started again
PeerExitsForGood ==
    /\ PeerAt("up") /\ ~main.stop
    /\ PeerGoes("done", "waiting")
    /\ UNCHANGED <<indexSide, main, local, tailnet>>

\* The peer server ends by itself; only a discovered address is looked up again.
PeerExits ==
    /\ PeerAt("up") /\ ~main.stop
    /\ PeerGoes(IF peer.door = "fixed" THEN "done" ELSE "look", "waiting")
    /\ UNCHANGED <<indexSide, main, local, tailnet>>

Tailnet ==
    /\ Alive
    /\ tailnet' = ~tailnet
    /\ UNCHANGED <<indexSide, main, local, peer>>

\* POST /v1/shutdown sets the event, a signal tells the local server to exit.
Shutdown ==
    /\ local = "up" /\ Alive
    /\ \/ main' = [main EXCEPT !.stop = TRUE] /\ UNCHANGED local
       \/ local' = "draining" /\ UNCHANGED main
    /\ UNCHANGED <<indexSide, peer, tailnet>>

\* serve_local: the local server answers what it accepted before it is down.
Drain ==
    /\ Alive
    /\ \/ local = "up" /\ main.stop /\ local' = "draining" /\ UNCHANGED main
       \/ local = "draining" /\ local' = "down" /\ main' = [main EXCEPT !.stop = TRUE]
    /\ UNCHANGED <<indexSide, peer, tailnet>>

(***************************************************************************)
(* The main thread                                                         *)
(***************************************************************************)

MainAt(label) == main.at = label

MainGoes(label) == main' = [main EXCEPT !.at = label]

\* The socket is another daemon's, or the components are started and the doors opened.
BindLocal ==
    /\ MainAt("bind")
    /\ \/ MainGoes("final") /\ UNCHANGED <<thread, local, peer>>
       \/ /\ MainGoes("serve")
          /\ Moves(Loop, "tick")
          /\ local' = "up"
          /\ peer' = [peer EXCEPT !.at = "look"]
    /\ UNCHANGED <<writerVars, loop, corpus, published, todo, tailnet, history>>

\* (mutant) the writer is closed before the loop
StopLoopLast ==
    /\ MainAt("serve")
    /\ peer.at = "raised" \/ (local = "down" /\ peer.at = "done")
    /\ MainGoes("close")
    /\ loop' = [loop EXCEPT !.stop = TRUE]
    /\ UNCHANGED <<writerVars, thread, corpus, published, todo, local, peer, tailnet, history>>

\* Both doors are closed, or one raised; then the background loop is told to stop.
StopLoop ==
    /\ MainAt("serve")
    /\ peer.at = "raised" \/ (local = "down" /\ peer.at = "done")
    /\ MainGoes("join")
    /\ loop' = [loop EXCEPT !.stop = TRUE]
    /\ UNCHANGED <<writerVars, thread, corpus, published, todo, local, peer, tailnet, history>>

\* The wait for the thread is bounded: a member, the disk or the database may be slower.
Join ==
    /\ MainAt("join")
    /\ IF thread[Loop] = "ended"
       THEN /\ loop' = [loop EXCEPT !.state = IF @ = "degraded" THEN @ ELSE "stopped"]
            /\ UNCHANGED history
       ELSE /\ loop' = [loop EXCEPT !.state = "degraded"]
            /\ history' = [history EXCEPT !.overran = TRUE]
    /\ MainGoes("close")
    /\ UNCHANGED <<writerVars, thread, corpus, published, todo, local, peer, tailnet>>

\* (mutant) close does not look whether it was closed before
CloseAgain ==
    /\ main.at \in {"close", "final"}
    /\ writer' = [Queued("stop", Main, Main) EXCEPT !.closed = TRUE]
    /\ main' = [main EXCEPT !.at = IF @ = "close" THEN "closing" ELSE "finishing"]
    /\ answer' = [answer EXCEPT ![Main] = "none"]
    /\ UNCHANGED <<index, loopVars, local, peer, tailnet, history>>

\* IndexWriter.close: by _serve, and once more by run_daemon, which finds it closed.
Close ==
    /\ main.at \in {"close", "final"}
    /\ IF writer.closed
       THEN MainGoes(IF MainAt("close") THEN "final" ELSE "exit") /\ UNCHANGED writer
       ELSE /\ writer' = [Queued("stop", Main, Main) EXCEPT !.closed = TRUE]
            /\ MainGoes(IF MainAt("close") THEN "closing" ELSE "finishing")
    /\ UNCHANGED <<answer, index, loopVars, local, peer, tailnet, history>>

Closed ==
    /\ main.at \in {"closing", "finishing"} /\ Answered(Main)
    /\ MainGoes(IF MainAt("closing") THEN "final" ELSE "exit")
    /\ UNCHANGED <<indexSide, local, peer, tailnet>>

\* The interpreter waits for pool threads; the loop and the writer end with it.
LeaveProcess ==
    /\ MainAt("exit") /\ \A m \in Members : thread[m] \in {"off", "finished"}
    /\ MainGoes("gone")
    /\ UNCHANGED <<indexSide, local, peer, tailnet>>

LoopStep ==
    \/ BeginTick \/ Rebuilt \/ Publish \/ PublishFails \/ Published \/ Pull \/ EndTick \/ Wake
    \/ Check(Loop) \/ Put(Loop) \/ Submitted(Loop)
PoolStep(m) == AskMember(m) \/ Check(m) \/ Put(m) \/ Submitted(m)
WriterStep == Connect \/ Commit \/ StopWriter
PeerStep == Look \/ BindPeer \/ Retry \/ ClosePeer
MainStep == BindLocal \/ StopLoop \/ Join \/ Close \/ Closed \/ LeaveProcess

LifeNext ==
    \/ LoopStep \/ (\E m \in Members : PoolStep(m)) \/ WriterStep \/ PeerStep \/ MainStep
    \/ (\E r \in Local : Measure(r))
    \/ PeerExits \/ Tailnet \/ Shutdown \/ Drain

\* Threads are scheduled, answers and time-outs come, requests end.
LifeFairness ==
    /\ WF_lifeVars(LoopStep) /\ \A m \in Members : WF_lifeVars(PoolStep(m))
    /\ WF_lifeVars(WriterStep) /\ WF_lifeVars(PeerStep) /\ WF_lifeVars(MainStep)
    /\ WF_lifeVars(Drain)

(***************************************************************************)
(* Properties                                                              *)
(***************************************************************************)

\* A submit that returned without an error has its record in the database, also
\* when the daemon shuts down around it; so does what the cursors have passed.
ToldIsIndexed ==
    /\ history.told \subseteq index
    /\ \A t \in Threads : answer[t] \in Records => answer[t] \in index

\* Shutting down refuses nobody: the writer outlives every thread that submits,
\* unless the background loop outlived the bounded wait for it.
RefusedOnlyOverrun == history.refused => history.overran

\* While the tailnet stays up, a daemon that discovers it keeps coming back to
\* an open peer door, however often the peer server ends.
PeerDoorOpens ==
    []<>(peer.at = "up" \/ main.at # "serve" \/ peer.door # "discover" \/ ~tailnet)

\* A daemon that was told to stop ends, unless the wait for its background loop
\* ran out.
ShutdownEnds == main.stop \/ main.at \notin {"bind", "serve"} ~> ~Alive \/ history.overran
=============================================================================
