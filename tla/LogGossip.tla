----------------------------- MODULE LogGossip -----------------------------
(***************************************************************************)
(* LOG gossip: how one ship's measurement records reach another ship's     *)
(* replicas and index (daemon/log.py, driven by FleetBackgroundLoop and    *)
(* the peer route /v1/log/records of daemon/runtime.py).                   *)
(*                                                                         *)
(* The author's LocalLogPublisher signs new corpus records in pages and    *)
(* numbers them within an epoch; page files are created O_EXCL and written *)
(* in place, state.json is replaced by a rename.  `refresh` runs on every  *)
(* tick and inside every served pull, under one lock.  The puller keeps an *)
(* in-memory cursor per author, stores each page as an immutable replica   *)
(* and submits its records to the index.  A page cut short by a crash or   *)
(* a full disk stays in its slot: Torn.  Streams of different authors      *)
(* share nothing but the index, so one author and one puller are modelled. *)
(***************************************************************************)
EXTENDS Naturals, Integers, FiniteSets

CONSTANTS
    Records,    \* record IDs, in the order `refresh` sorts them
    PageSize,   \* records per page
    Epochs,     \* epoch UUIDs, in the order their directories sort
    MaxSeq,     \* bound: sequence numbers used
    MaxFaults,  \* bound: how often each kind of fault happens
    MaxKinds,   \* bound: kinds of fault in one behaviour
    NoPage,     \* an empty slot
    Torn,       \* a page file that does not parse or verify
    NoState,    \* no state.json
    Down,       \* the publisher is not running
    NoJob,      \* nobody holds the publisher's lock
    NoCursor    \* the puller has no cursor for this author

Kinds == {"publisherCrash", "openError", "writeError", "lostState",
          "pullerCrash", "tornReplica", "indexError", "timeout"}

ASSUME GossipAssumption ==
    /\ Records \subseteq Nat /\ IsFiniteSet(Records)
    /\ Epochs \subseteq Nat /\ Epochs # {}
    /\ PageSize \in Nat \ {0}
    /\ MaxSeq \in Nat
    /\ MaxFaults \in [Kinds -> Nat] /\ MaxKinds \in Nat
    /\ NoState \notin [epoch : Epochs, seq : Int]

VARIABLES
    corpus,     \* the author's local records
    store,      \* the author's page files, by epoch and sequence
    state,      \* state.json
    minted,     \* epochs ever created
    mem,        \* the running publisher's epoch and sequence
    job,        \* the refresh in progress, and what it is for
    replica,    \* the puller's page files
    index,      \* the puller's index
    cursor,     \* the puller's cursor for this author
    call,       \* the puller's current pull
    rebuilt,    \* the puller has replayed its replicas since it started
    faults      \* faults so far

publisherVars == <<corpus, store, state, minted, mem>>
pullerVars == <<replica, index, cursor, rebuilt>>
gossipVars == <<publisherVars, job, pullerVars, call, faults>>

Seqs == 0..MaxSeq
Idle == [phase |-> "idle"]
Waiting == [phase |-> "waiting"]

Fault(kind) ==
    /\ faults[kind] < MaxFaults[kind]
    /\ Cardinality({k \in Kinds \ {kind} : faults[k] > 0}) < MaxKinds
    /\ faults' = [faults EXCEPT ![kind] = @ + 1]

(***************************************************************************)
(* Reading pages: an unreadable file is skipped                            *)
(***************************************************************************)

Readable(page) == page # NoPage /\ page # Torn

\* _published_records: what the current epoch's readable pages hold.
PublishedRecords(e) == UNION {store[e][s] : s \in {t \in Seqs : Readable(store[e][t])}}

ReplicaRecords ==
    UNION {replica[p[1]][p[2]].records :
           p \in {q \in Epochs \X Seqs : Readable(replica[q[1]][q[2]])}}

\* The records of the next page: the first PageSize of those left.
Chunk(todo) == {r \in todo : Cardinality({q \in todo : q < r}) < PageSize}

Stored == {p \in Epochs \X Seqs : Readable(store[p[1]][p[2]])}

\* The pages a cursor has not covered.  After an epoch change all of them,
\* those of older epochs included.
Candidates(c) ==
    IF c = NoCursor \/ c.epoch # mem.epoch THEN Stored
    ELSE {p \in Stored : p[1] = mem.epoch /\ p[2] > c.seq}

\* The first of them by sequence, then by path.
FirstOf(S) == CHOOSE p \in S : \A q \in S : p[2] < q[2] \/ (p[2] = q[2] /\ p[1] <= q[1])

\* (mutant) the limit cuts the page
ServedTruncated(c) ==
    LET p == FirstOf(Candidates(c)) IN
    [epoch |-> mem.epoch, seq |-> p[2], reset |-> c = NoCursor \/ c.epoch # mem.epoch,
     records |-> {r \in store[p[1]][p[2]] : \A q \in store[p[1]][p[2]] : r <= q}]

\* records_since: the first uncovered page, signed again under the current epoch.
Served(c) ==
    LET p == FirstOf(Candidates(c)) IN
    [epoch |-> mem.epoch, seq |-> p[2], records |-> store[p[1]][p[2]],
     reset |-> c = NoCursor \/ c.epoch # mem.epoch]

(***************************************************************************)
(* The publisher                                                           *)
(***************************************************************************)

GossipInit ==
    /\ corpus = {}
    /\ store = [e \in Epochs |-> [s \in Seqs |-> NoPage]]
    /\ state = NoState
    /\ minted = {}
    /\ mem = Down
    /\ job = NoJob
    /\ replica = [e \in Epochs |-> [s \in Seqs |-> NoPage]]
    /\ index = {}
    /\ cursor = NoCursor
    /\ call = Idle
    /\ rebuilt = FALSE
    /\ faults = [k \in Kinds |-> 0]

Measure(r) ==
    /\ r \notin corpus
    /\ corpus' = corpus \cup {r}
    /\ UNCHANGED <<store, state, minted, mem, job, pullerVars, call, faults>>

\* LocalLogPublisher.__init__ / _load_state: a missing state.json opens an epoch.
Start ==
    /\ mem = Down
    /\ IF state # NoState
       THEN mem' = state /\ UNCHANGED <<state, minted>>
       ELSE \E e \in Epochs \ minted :
                /\ mem' = [epoch |-> e, seq |-> -1]
                /\ state' = mem'
                /\ minted' = minted \cup {e}
    /\ UNCHANGED <<corpus, store, job, pullerVars, call, faults>>

\* refresh begins: collect what is not yet published in this epoch.
BeginRefresh(for) ==
    LET todo == corpus \ PublishedRecords(mem.epoch) IN
    job' = [for |-> for, todo |-> todo, at |-> IF todo = {} THEN "done" ELSE "page"]

\* FleetBackgroundLoop.tick on the author; with nothing new it does nothing.
LoopTick ==
    /\ mem # Down
    /\ job = NoJob
    /\ corpus \ PublishedRecords(mem.epoch) # {}
    /\ BeginRefresh("tick")
    /\ UNCHANGED <<publisherVars, pullerVars, call, faults>>

\* refresh raises: the lock is released and a waiting pull is answered with an error.
Abandon ==
    /\ job' = NoJob
    /\ call' = IF job.for = "pull" THEN Idle ELSE call

\* (mutant) the sequence advances only when the page was written
WritePageNoAdvance ==
    LET e == mem.epoch
        s == mem.seq + 1
    IN  /\ job # NoJob
        /\ job.at = "page"
        /\ s <= MaxSeq
        /\ \/ /\ store[e][s] = NoPage
              /\ mem' = [mem EXCEPT !.seq = s]
              /\ store' = [store EXCEPT ![e][s] = Chunk(job.todo)]
              /\ job' = [job EXCEPT !.at = "state"]
              /\ UNCHANGED call
           \/ /\ store[e][s] # NoPage
              /\ Abandon
              /\ UNCHANGED <<mem, store>>
        /\ UNCHANGED <<corpus, state, minted, pullerVars, faults>>

\* The page loop: the sequence advances before the page file is created, and an
\* occupied slot is an immutability conflict.
WritePage ==
    LET e == mem.epoch
        s == mem.seq + 1
    IN  /\ job # NoJob
        /\ job.at = "page"
        /\ s <= MaxSeq
        /\ mem' = [mem EXCEPT !.seq = s]
        /\ \/ /\ store[e][s] = NoPage
              /\ store' = [store EXCEPT ![e][s] = Chunk(job.todo)]
              /\ job' = [job EXCEPT !.at = "state"]
              /\ UNCHANGED call
           \/ /\ store[e][s] # NoPage
              /\ Abandon
              /\ UNCHANGED store
        /\ UNCHANGED <<corpus, state, minted, pullerVars, faults>>

\* The page file cannot be created, or its writing fails half way.
PageFails(kind, left) ==
    LET e == mem.epoch
        s == mem.seq + 1
    IN  /\ job # NoJob
        /\ job.at = "page"
        /\ s <= MaxSeq
        /\ store[e][s] = NoPage
        /\ Fault(kind)
        /\ mem' = [mem EXCEPT !.seq = s]
        /\ store' = [store EXCEPT ![e][s] = left]
        /\ Abandon
        /\ UNCHANGED <<corpus, state, minted, pullerVars>>

Written == [job EXCEPT !.todo = @ \ Chunk(@),
                       !.at = IF job.todo = Chunk(job.todo) THEN "done" ELSE "page"]

WriteState ==
    /\ job # NoJob
    /\ job.at = "state"
    /\ state' = mem
    /\ job' = Written
    /\ UNCHANGED <<corpus, store, minted, mem, pullerVars, call, faults>>

StateFails ==
    /\ job # NoJob
    /\ job.at = "state"
    /\ Fault("writeError")
    /\ Abandon
    /\ UNCHANGED <<publisherVars, pullerVars>>

\* A pull is answered with the page its cursor selects, or with no page at all.
LogReply ==
    IF Candidates(cursor) = {} THEN Idle ELSE [phase |-> "ingest", page |-> Served(cursor)]

\* refresh returns to the tick or to the route that began it.
Finish ==
    /\ job # NoJob
    /\ job.at = "done"
    /\ job' = NoJob
    /\ call' = IF job.for = "pull" THEN LogReply ELSE call
    /\ UNCHANGED <<publisherVars, pullerVars, faults>>

\* The author's daemon dies; a page file being written stays behind, torn.
PublisherCrash ==
    /\ mem # Down
    /\ Fault("publisherCrash")
    /\ mem' = Down
    /\ job' = NoJob
    /\ call' = IF call = Waiting THEN Idle ELSE call
    /\ \/ UNCHANGED store
       \/ /\ job # NoJob
          /\ job.at = "page"
          /\ mem.seq < MaxSeq
          /\ store[mem.epoch][mem.seq + 1] = NoPage
          /\ store' = [store EXCEPT ![mem.epoch][mem.seq + 1] = Torn]
    /\ UNCHANGED <<corpus, state, minted, pullerVars>>

\* state.json is gone when the daemon starts again, its pages are not.
LoseState ==
    /\ mem = Down
    /\ state # NoState
    /\ Fault("lostState")
    /\ state' = NoState
    /\ UNCHANGED <<corpus, store, minted, mem, job, pullerVars, call>>

(***************************************************************************)
(* The puller                                                              *)
(***************************************************************************)

\* _pull_member sends its cursor; the route refreshes before it answers.
Ask ==
    /\ call = Idle
    /\ mem # Down
    /\ job = NoJob
    /\ call' = Waiting
    /\ BeginRefresh("pull")
    /\ UNCHANGED <<publisherVars, pullerVars, faults>>

\* The HTTP client gives up; the publisher finishes for nobody.
Timeout ==
    /\ call = Waiting
    /\ Fault("timeout")
    /\ call' = Idle
    /\ job' = [job EXCEPT !.for = "nobody"]
    /\ UNCHANGED <<publisherVars, pullerVars>>

\* _pull_member takes a page that continues its cursor or resets it.
Continues(p) ==
    cursor # NoCursor => p.reset \/ (p.epoch = cursor.epoch /\ p.seq > cursor.seq)

Replica(p) == [reset |-> p.reset, records |-> p.records]

\* ingest_page: a new slot is written, the same page again is accepted, anything
\* else in the slot fails the pull.
Ingest ==
    LET p == call.page IN
    /\ call.phase = "ingest"
    /\ \/ /\ Continues(p)
          /\ replica[p.epoch][p.seq] \in {NoPage, Replica(p)}
          /\ replica' = [replica EXCEPT ![p.epoch][p.seq] = Replica(p)]
          /\ call' = [phase |-> "submit", page |-> p, left |-> p.records]
       \/ /\ ~Continues(p) \/ replica[p.epoch][p.seq] \notin {NoPage, Replica(p)}
          /\ call' = Idle
          /\ UNCHANGED replica
    /\ UNCHANGED <<publisherVars, job, index, cursor, rebuilt, faults>>

\* (mutant) the cursor moves before the records reach the index
SubmitCursorFirst(r) ==
    LET p == call.page IN
    /\ call.phase = "submit"
    /\ r \in call.left /\ \A q \in call.left : r <= q
    /\ index' = index \cup {r}
    /\ cursor' = [epoch |-> p.epoch, seq |-> p.seq]
    /\ call' = IF call.left = {r} THEN Idle ELSE [call EXCEPT !.left = @ \ {r}]
    /\ UNCHANGED <<publisherVars, job, replica, rebuilt, faults>>

\* The page's records go to the index one by one, then the cursor moves.
Submit(r) ==
    LET p == call.page IN
    /\ call.phase = "submit"
    /\ r \in call.left /\ \A q \in call.left : r <= q
    /\ index' = index \cup {r}
    /\ IF call.left = {r}
       THEN cursor' = [epoch |-> p.epoch, seq |-> p.seq] /\ call' = Idle
       ELSE call' = [call EXCEPT !.left = @ \ {r}] /\ UNCHANGED cursor
    /\ UNCHANGED <<publisherVars, job, replica, rebuilt, faults>>

SubmitFails ==
    /\ call.phase = "submit"
    /\ Fault("indexError")
    /\ call' = Idle
    /\ UNCHANGED <<publisherVars, job, pullerVars>>

\* The first tick after a start replays the replicas into the index; when it
\* fails it is tried again on a later tick.
Rebuild ==
    /\ call = Idle
    /\ ~rebuilt
    /\ rebuilt' = TRUE
    /\ index' = index \cup ReplicaRecords
    /\ UNCHANGED <<publisherVars, job, replica, cursor, call, faults>>

\* The puller's process goes and comes back: cursors are in memory only, and
\* the index is derived data that may be gone as well.
Forgotten ==
    /\ cursor' = NoCursor
    /\ rebuilt' = FALSE
    /\ index' \in {index, {}}

PullerCrash ==
    /\ Fault("pullerCrash")
    /\ Forgotten
    /\ call' = Idle
    /\ job' = IF call = Waiting THEN [job EXCEPT !.for = "nobody"] ELSE job
    /\ UNCHANGED <<publisherVars, replica>>

\* ... in the middle of writing a replica, or a full disk cuts the file short.
TornReplica ==
    LET p == call.page IN
    /\ call.phase = "ingest"
    /\ Continues(p)
    /\ replica[p.epoch][p.seq] = NoPage
    /\ Fault("tornReplica")
    /\ replica' = [replica EXCEPT ![p.epoch][p.seq] = Torn]
    /\ Forgotten \/ UNCHANGED <<cursor, rebuilt, index>>
    /\ call' = Idle
    /\ UNCHANGED <<publisherVars, job>>

PublisherStep == Start \/ LoopTick \/ WritePage \/ WriteState \/ Finish

PullerStep == Ask \/ Ingest \/ \E r \in Records : Submit(r)

GossipNext ==
    \/ \E r \in Records : Measure(r)
    \/ Start
    \/ LoopTick
    \/ WritePage
    \/ PageFails("openError", NoPage)
    \/ PageFails("writeError", Torn)
    \/ WriteState
    \/ StateFails
    \/ Finish
    \/ PublisherCrash
    \/ LoseState
    \/ Ask
    \/ Timeout
    \/ Ingest
    \/ \E r \in Records : Submit(r)
    \/ SubmitFails
    \/ Rebuild
    \/ PullerCrash
    \/ TornReplica

\* Both daemons keep ticking every two seconds and a supervisor restarts them.
Fairness == WF_gossipVars(PublisherStep) /\ WF_gossipVars(PullerStep) /\ WF_gossipVars(Rebuild)

GossipSpec == GossipInit /\ [][GossipNext]_gossipVars

FairSpec == GossipSpec /\ Fairness

(***************************************************************************)
(* Properties                                                              *)
(***************************************************************************)

\* The cursor never runs past a record: everything the author published up to
\* the puller's cursor is in the puller's replicas, so no page is "permanently
\* skipped" (the words of records_since).
NoSkip ==
    cursor # NoCursor =>
        \A s \in 0..cursor.seq : Readable(store[cursor.epoch][s]) =>
            store[cursor.epoch][s] \subseteq ReplicaRecords

\* A replica says what the author's own page of that epoch and sequence says,
\* although every page is signed again when it is served.  A lost state.json
\* ends that: pages of the epoch before are signed again under the new one, with
\* the sequence they had.
ReplicaFaithful ==
    faults["lostState"] = 0 =>
        \A e \in Epochs, s \in Seqs : Readable(replica[e][s]) =>
            Readable(store[e][s]) /\ store[e][s] = replica[e][s].records

\* The index holds every replicated record the cursor has passed: a pull that
\* dies between the replica and the index is repeated.  That, too, needs the pages
\* of one epoch: a page of the epoch before, replicated under the new one in a
\* slot that the new epoch never fills, is asked for by no cursor again.
CursorIndexed ==
    faults["lostState"] = 0 /\ cursor # NoCursor =>
        \A s \in 0..cursor.seq : Readable(replica[cursor.epoch][s]) =>
            replica[cursor.epoch][s].records \subseteq index

\* Every record the author measures reaches the puller's index.
Converges == \A r \in Records : r \in corpus ~> r \in index

\* It does so through crashes, failed writes, refused records and time-outs on either
\* side, as long as state.json and the replicas stay whole, and no daemon dies whose
\* sequence ran past a page it could not create: its next one fills that gap, below
\* cursors that have passed it.
ConvergesWhole ==
    \A r \in Records : r \in corpus ~>
        \/ r \in index
        \/ faults["lostState"] > 0 \/ faults["tornReplica"] > 0
        \/ faults["openError"] > 0 /\ faults["publisherCrash"] > 0
=============================================================================
