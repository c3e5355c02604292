# SpacePilot, verified

TLA+ models of SpacePilot's stateful parts, the TLC runs that check them and
the TLAPS proofs about them. Paths below are relative to the repository's
`spacepilot/` package unless they start with another directory.

SpacePilot runs inference on the machines a user can reach. A per-user daemon
on every machine keeps a signed list of the fleet's members (ORDERS), exchanges
measurement records (LOG), and shows which ships are awake. A local web server
(the studio) plans and runs workloads, keeps a catalogue of models and runtimes,
and rents a GPU box for video. Command-line tools measure machines overnight.

## 1. Inventory

### Parts whose behaviour over time matters

| Part (sources) | State | Operations | What makes it correct |
|---|---|---|---|
| Fleet membership: `daemon/orders.py`, controls in `daemon/runtime.py` | one `fleet.yaml` per machine, the identity key, documents in hand between fetch and lock | init, add, join, set rates | one author, no two documents with one version, no rollback, bindings are permanent |
| LOG gossip: `daemon/log.py`, driven by `daemon/runtime.py` | author: epoch, sequence, page files, `state.json`; puller: cursor, replicas, index | refresh, serve `/v1/log/records`, pull, ingest, submit, rebuild | replicas are what was signed, the cursor waits for the index, everything converges |
| Peer door: `daemon/peer_auth.py` | nonce cache with expiries | verify a signed request | a request is accepted once; the cache is bounded |
| Fleet view: `daemon/fleet.py` | recorded revision and roster, last-seen times, removed members | refresh on `GET /v1/fleet` | what is shown is fresh, and the roster is that of the recorded revision |
| Daemon start: `daemon/identity.py`, `server.py`, `service.py` | identity file, lock files, socket, processes | create or load the identity, lock, clear stale socket, bind, serve, clean up | one identity, one daemon, a path that leads to it |
| Daemon life: `daemon/index.py`, `runtime.py`, `server.py` | writer queue, database, background and pool threads, the two doors | tick, submit, pull, rebuild, discover, bind, drain, stop, close | an answered submit is in the database, a shutdown ends, the peer door comes back |
| GPU studio: `services/watchdog.py`, `api/routes/generate.py` and `gpu.py`, `ltx_worker.py`, `infra/gpu-box.sh` | box, worker process, job metadata files, background tasks, idle clock | launch, terminate, generate, extend, poll, fetch, idle watchdog | jobs settle, videos are whole, a busy box is spared and an idle one goes |
| Cockpit: `api/routes/gpu.py`, `services/gpu_lifecycle.py`, `api/security.py` | status cache, config file, sockets, ssh processes | poll, show and post settings, shell, follow the log | AWS is asked seldom, secrets survive the form, no ssh outlives its shell |
| Local workers: `local_workers.py`, `drivers/` | resident drivers, order of use, budget | load, evict, unload, dispatch | what is loaded fits the budget; what is not counted is in use |
| One-shot runs: `services/*_execution.py`, subprocess drivers, `api/routes/inference.py` | runner, artifact, weights on disk, measurement rows | plan, confirm, run, verify, record, stream | a speed on record was earned, an answer is on record, the runner goes with its request |
| Sweeps: `sweep.py`, `measurements.py` | recorded cells, run record | guard, run a job, record | completed means whole, an interruption loses the job in flight |
| Flights: `tools/fly.py` | registry files, git branch, flight log | pre-flight installs, flights | measured once; a failed install costs exactly its models |
| Installs: `runtimes.py`, `api/routes/runtimes.py`, `mcp_server.py` | interpreters, venvs, job tables | preview, install, probe | no downgrade nobody agreed to; completed means it loads |
| Downloads: `services/model_catalog.py`, `paths.py` | job table, cache snapshots | download, resolve | completed means something is there for every pattern |
| Audio jobs and plates: `api/routes/audio.py`, `services/audio.py`, `api/routes/generate.py` | job documents, raw and finished files | music, voice, mix, synthesis, upscale, composite | what is shown as completed is whole; a failure leaves no half file |
| Device probe: `device_probe.py` | a profile | probe | one profile is of one card |
| Claim verification: `tools/verify_claims.py` | the outcomes of the verifiers | route, ask, gate, vote, report | a call rests on quotes that are on their pages |

### How they interact

- `runtime.FleetRuntime` joins the daemon's parts: the local door calls
  `init/add/join` and `snapshot`; the peer door authenticates against the
  current ORDERS and serves the node's self-description, ORDERS, pictures and
  LOG pages; the background loop ticks publisher, puller and index every two
  seconds. A served pull and a tick share the publisher's lock. Membership is
  read, never written, by the fleet view, by the peer door and by the puller.
- The studio's requests, its background tasks and the watchdog share the job
  metadata files and the idle clock. The worker and AWS are reached over the
  network, where answers get lost. Audio jobs, upscales and composites share
  files by name.
- Installs, downloads and one-shot runs meet on disk: an interpreter, a cache, a
  corpus. Nothing locks any of the three.
- Sweeps, flights and one-shot runs write the measurement records (`Corpus`) that
  the LOG publishes.

### Hard behaviours

Facts fetched before a lock is taken; O_EXCL files written in place; several
files updated one after the other with crashes in between; a bounded cache that
must not forget too early; clocks of different machines; racing process starts
with kills at any system call; three awaited reads before an irreversible
`terminate`; tasks in memory against metadata on disk; a thread that others wait
for while it is being stopped; drivers used outside the lock that counts them;
files with names that several tasks write; nights cut short anywhere.
`PROJECT.json` lists them as hazards with their lines and the properties aimed
at each.

### Parts without a model

`PROJECT.json` names them all with the reason.

- Stateless: the picture sampler, parsing of registry files and recommendations,
  request validation, read-only routes, storyboard decomposition, the
  parameters of the video engines, presentation in the command line.
- Refusing: the gated subsystems (checkpoint sync, LoRA, billing), which answer
  every call with a refusal, and `coreai`, which no runtime reaches.
- Other programs: the voice companion, the native app, the web pages and the
  provisioning scripts.
- `index.py`'s standalone `rebuild_index`, which only tests call.

## 2. Modules

| Module | What it is |
|---|---|
| `Orders` | membership across machines |
| `FleetLedger` | abstract specification of membership: a ledger of revisions and views that only move forward |
| `OrdersProofs` | proofs about `Orders`, and that it implements `FleetLedger` |
| `LogGossip`, `LogGossipProofs` | one author's stream and one puller, and what its replicas and cursor promise |
| `PeerAuth`, `PeerAuthProofs` | the replay window, and its proofs |
| `FleetView`, `FleetViewProofs` | `FleetManager.refresh` and the ships' clocks, and its proofs |
| `DaemonStart` | racing starts, kills and exits |
| `DaemonLife` | writer, background loop, doors and shutdown of one daemon |
| `DaemonProofs` | proofs about `DaemonStart` and `DaemonLife` |
| `GpuStudio`, `GpuStudioProofs` | video jobs, box, worker and watchdog, and its proofs |
| `Cockpit` | status cache, settings, shell and log stream of the GPU box |
| `LocalWorkers` | the in-process drivers and their budget |
| `Installs`, `Downloads` | concurrent installs; concurrent downloads and the cache |
| `AudioJobs`, `Plates` | the studio's audio jobs; upscales and composites of one video |
| `BackroomProofs` | proofs about `Cockpit`, `LocalWorkers`, `Installs`, `Downloads`, `AudioJobs` and `Plates` |
| `Corpus` | the operators on measurement records |
| `Probe` | the hardware probe as a function of what a machine answers |
| `OneShot` | one bounded run through each of its doors; extends `Corpus` and `Probe` |
| `Sweep` | nights of a sweep; extends `Corpus` |
| `Flights` | nights of flights |
| `Claims` | claim verification |
| `MeasuredProofs` | proofs about `Sweep`, `Flights`, `Probe`, `OneShot` and `Claims` |
| `Changes` | a record with some of its fields changed, for steps that change many |
| `MC*` | instances for TLC: sets, symmetry, which faults may happen |

`MCFleet`, `MCDoors`, `MCDaemon`, `MCMeasured` and `MCBackroom` each hold several
modules that share no state. A behaviour picks one of them at the start and leaves the
others at rest, so a run asks a group of related questions and explores the sum
of the state spaces instead of their product.

Definitions marked `(mutant)` are wrong variants of the definition below them,
the way a plausible bug would have it. No specification uses them; putting one
in the place of its neighbour makes the property named in `PROJECT.json` fail,
which shows that the property looks where it should.

### Orders

A machine has a key, a `fleet.yaml`, self-descriptions fetched for `add`
(`described`) and documents fetched for `join` (`held`). `Describe` and `Fetch`
are the network halves of `FleetRuntime.add` and `join`, before the mutation
lock. `Fetch` is one step for two requests, `/v1/self` and `/v1/orders`: every answer is
signed by the key that was pinned, and a peer whose key changes between the two has lost its
`fleet.yaml`, so nothing but a refused join could follow. `Add`, `Join` and their refusals are the halves under it, each with the
whole check of `add_member`, `join_orders`, `validate_transition` and
`OrdersStore.apply`. `Write` is the rename, so a `Crash` leaves the old or the
new document. `Reinstall` loses the state directory; the identity lives in
another directory and may survive. Signatures are perfect: a document exists if
its author wrote it. `published` and `usedKeys` are history.

### LogGossip

The publisher refreshes under one lock, on a `LoopTick` or for a served pull
(`job` says for whom). `BeginRefresh` picks what is new; `WritePage`,
`WriteState` and `Finish` are the page file, `state.json` and the hand-over, with
a failed write or a crash possible at each. The puller's call is `Ask`, then
`Ingest` (replica), `Submit` per record (index), then the cursor. Files that are
not complete are `Torn` and stay in their slot, because O_EXCL refuses to replace
them. `Rebuild` replays the replicas into the index at the first tick of a run.
Streams of different authors share only the index, so one author and one puller
are enough.

### PeerAuth

`Sign` stamps a request with the sender's clock, `Verify` is the freshness
window followed by `NonceCache.consume` (expire, look up, refuse when full,
remember), `Restart` empties the cache. The route runs on the event loop, so
verifications do not overlap. Signature, membership and source checks refuse
without touching state. The daemon's clock moves forward only.

### FleetView

A request loads `fleet.yaml` (`Load`), refuses or compares it (`Check`,
`Compare`), marks removed and unmarks current members, records version and
roster (one step each), asks the ships one after the other (`Answer`,
`NoAnswer`), and replies. The clock is read once, in `Check`, as the code does;
a ship samples its picture with its own clock when it answers. Time passes only
while a request waits or nobody asks. An answer is ready, busy or unknown (online
and idle read as ready). A revision has any roster: no control removes a member
today, but `validate_transition` asks nothing of the roster and the view has a
path for members that left. The manager has no lock, so requests interleave at
every step; `crossed` is history, and says that the recorded version was recorded
while another request was about to record the roster of a different one.

### DaemonStart

Every file-system call of identity creation, socket lock, stale-socket probe,
bind, listen and cleanup is a step with a label of `pc`, and `Crash` may follow
any of them. `lockFile` and `opened` are inodes, since a lock file that was
removed and created again is another lock. A deployment says which process a
systemd unit runs; `RemoveRuntimeDirectory` is what systemd does when the unit's
process ends (behaviour of systemd, not of the repository). Permissions, links and
non-socket paths lead to refusals and are left out.

### DaemonLife

One process from `run_daemon` to its exit. The writer thread takes one message
after the other from its queue, inserts, commits or rolls back, and answers
(`Commit`, `CommitLate` for the window between the two). The background loop
rebuilds until that succeeded once (`Rebuilt`), publishes, which may raise after any
of its pages (`PublishFails`), hands every record over and waits for its answer
(`Check`, `Put`, `Submitted`: the test of `_closed`, the message, the answer), and
lets one pool thread per member do the same with what it pulled. The main thread
binds, serves, drains, stops the loop, joins it for at most ten seconds (`Join`
may run out at whatever step the loop is), closes the writer and leaves. `Look`, `BindPeer`, `Retry` and
`PeerExits` are the peer door's loop over a `tailnet` that comes and goes.

### GpuStudio

`Generate` writes the metadata files of one or two takes and hands their tasks
over; with `extend` it is `extend_video_api`, whose response fails for several
takes after the files were written. A task is `Submit`, `Poll`, `Fetch`, `Finish`; tasks of
one request run in turn. The worker has one slot, a thread per job (`Render`,
`Encode`, `Complete` or `RenderFails`, `FreeSlot`) and an output directory that
survives `RestartWorker`. The watchdog's `Scan`, `Decide`, `Look`, `Kill`,
`Reset` are the parts of its loop between awaits. `LaunchRequested`,
`LaunchCheck`, `LaunchRun` are the route and the script's calls to AWS. A thread empties CUDA's cache
before and after its `try` block; when that raises, it is gone with its slot
(`ThreadDies`), and a job it had not begun says queued until the worker is restarted
(`Stranded`, which `JobsSettle` excepts). Any
answer may be lost, AWS may reclaim a box, and studio or worker may restart.
`since` (jobs queued since the last scan) and `torn` (files a worker restart
left unfinished) are history. Rendering takes any time but ends: `_dispatch_remote`
polls without a bound, so nothing could be said about a worker that never ends.

### Cockpit

Three parts that share no state. `Poll`, `Recheck`, `AskAws`, `Cached` are a
status request before, at and under the refresh lock; `BuildRaises` is a
status that cannot be built, which releases the lock and caches nothing. The clock stands
for the monotonic one; `asked` and `raised` are history. `Show` masks the secrets, `ReadForUpdate`
and `SaveConfig` are the two ends of a post with other posts in between;
`EditByHand` leaves what an editor may leave. A shell is `Connect`,
`Authenticate`, `OpenShell`, then two reading tasks and the wait for the first of
them (`FirstCompleted`), and `Kill`; a log stream is `StreamLogs`, `Line`,
`Abandon`.

### LocalWorkers

`Hit`, `Refuse` and `Load` are `load_driver` under the manager's lock, with the
whole eviction; `Infer`, `Generate`, `Finish` run after it was given back, on an
object that may be evicted by then and loads itself again. `active`
is the table the budget sums and `order` the one eviction walks. The table may
hold drivers that were refused or failed to load, which the order never names. The
budget may be unknown, and may be lowered.

### Installs and Downloads

`Ask`, `DryRun`, `Decide`, then pip (`StartPip`, `Write`), a venv (`LookVenv`,
`MakeVenv`, `Fill`) or a script (`RunScript`), then `Verify`. The MCP tool resolves an
install without the look at the Python's version that the other doors take (`Unchecked`).
What of a runtime is found outside the interpreter has a version of its own (`Elsewhere`),
and may be below the recipe's minimum. `stale` is history:
another job has written what this one's preview read; it is never taken back, also
not when the job finds its venv made by somebody else. pip is a function from a
resolution to what the interpreter holds. In `Downloads`, a job is stored under
the recipe's id, and a task looks it up twice, once per `_download_task` and once
per thread; `FetchFile` is the hub's client file by file, `HeadMoves` the hub.

### AudioJobs and Plates

Both follow files through absent, half and whole. An audio job is asked for,
rendered raw and normalised; a mix opens the files of other jobs; `Throw` and
`StudioDies` leave the document as it was. In `Plates`, `hold` says whether a
task's ffmpeg writes its file alone, together with another, or to a file that has
lost its name to `DiscardPartial`; `left` is history.

### Corpus, Probe, OneShot

`Corpus` and `Probe` are operators: which record a run writes, which files a
reader can load, what a profile is made of. `OneShot` carries a request from
`Plan*` through a confirmation and `Start` to the runner's end (`DriverReturns`,
`StreamReturns`, `VectorsReturn`, `RemoteReturns`), to `Verify*` and `Record*`. What differs between the five kinds of run is
what its runner may make (`Makes`), what is verified and how many rows are
written. Runs of one process die together (`Dies`), weights move at any time
(`WeightsMove`), and a daemon's client may stop waiting (`ClientTimesOut`). When the caller of a stream
leaves (`CallerGoes`), the request is cancelled, but the thread is still in the
generator's step: the runner's next line ends it (`CutStream`, `CutRemote`), and the last
step, which has no line to wait for, goes on to the record.

### Sweep and Flights

`Sweep` walks the grid, as the set of positions still to do: `NextJob` holds every guard in the code's order, `Infer`,
then one action per record file, `Killed` anywhere, also inside a file, and the
next night starts with what is on disk. `Flights` has the pre-flight phase
(`PreflightRow`, `Preinstall`), then per variant (`left` is the set of positions of the plan still to look at) the guards, `Boards`, `Fetch`,
`LateInstall`, `Gate3`, `RunCommand`, `WriteSpeed`, `WriteEnergy` (the file is
written twice), `Branch`, `Commit`; git may refuse or fail, which the code ignores. The date
is read again when an entry is written, and names the branch. `MeasuredOnce` is about
the registry file: a checkout that takes the entries away (`Morning`) makes the
variant unflown again. Between nights (`Morning`) a person may
put the tree back.

### Claims

One claim after the other: every verifier fails or answers, in any order; an
answer that cites passes the gate with what the fetch of its page shows; the vote
and the report are functions of the outcomes.

## 3. Runs

| Run | Question | Distinct states |
|---|---|---|
| `fleet` | do stale documents, crashes and reinstalls ever fork, roll back or lose membership; is it the ledger? Is a request accepted once; is what the fleet view shows fresh and of one revision, also when requests overlap? | 984,000 |
| `gossip` | does every record arrive whatever crashes; while no state is lost, does the cursor wait for the index and are replicas what was signed? | 44,500 |
| `gossip_torn_replica` | finding: a torn replica keeps later records out | |
| `gossip_lost_state` | finding: a lost `state.json` makes a page skipped | |
| `fleet_clock` | finding: a slow ship makes the next one unknown | |
| `fleet_overlap` | finding: two overlapping requests leave version and roster apart, and the newest document is refused | |
| `daemon` | do racing starts end in one daemon; does its life keep what it answered, end when told, and reopen its peer door? | 290,000 |
| `daemon_unit` | finding: systemd removes another daemon's lock and socket | |
| `gpu_studio` | are queued jobs spared, videos whole, jobs settled, idle boxes gone? | 179,000 |
| `gpu_idle` | finding: an extension with two takes keeps the box for ever | |
| `measured` | is what nights, single runs, probes and verifiers put on record whole, earned and of one thing? | 1,581,000 |
| `backroom` | do installs, drivers, downloads, audio jobs, plates and cockpit tabs survive overlapping with themselves? | 1,892,000 |

### Bounds, and why they are enough

- `fleet`, membership: two machines, three keys (one for a reinstall), two fleets, versions
  up to 4, three documents in hand. A fork needs two writers or one writer with
  an old document: two machines with one reinstall have both, and every binding
  conflict needs two members. The proofs lift all bounds.
- `gossip`: two records in pages of two are one full page or two partial ones, so
  numbering continues; two epochs are one loss of `state.json`. Each of the eight
  kinds of fault happens at most once and at most two kinds in one behaviour: every
  pair meets. Four sequence numbers are more than these faults use up (three
  records would need more, and the model stops where they end).
- `fleet`, doors: three requests for a cache of two meet a full cache; the clock
  runs to 7, past the longest life of an entry (twice the skew of 2, counted
  from a time up to the skew ahead). The proofs lift the bounds. One request after
  the other: two ships, because the hazard is what one ship's delay does to the
  next; offsets from -2 to 2 lie on both sides of the freshness window of 1 and of
  the tolerated second; a revision in between. Overlapping requests: two are enough
  to leave version and roster apart, three revisions let a ship leave and return
  and a third one repair what two have left; the clock rests and nobody
  answers, because what is recorded does not depend on the answers. The proofs have any number of
  requests, clocks and revisions together.
- `daemon`: three processes and five starts are a holder, a racer and a late
  comer, each of which may have died and left something behind. The life of one
  daemon has one record the index takes, one it refuses and one member: two
  threads that submit, so that one waits behind the other while a stop comes.
- `gpu_studio`: two jobs are one request with two takes or two requests; one
  box, one launch, one lost answer and one restart, an idle limit of one tick.
  More faults repeat the same recovery. Two boxes (a double launch) are left to
  the proof of `SparesQueued`, which holds for every number.
- `measured`: a grid of two by two over three nights with at most three jobs each
  is never done in one night. Two nights of flights see at most two midnights (`MaxDate`), so
one may fall within a night and one between them. Flights have two variants of one file, one that
  needs a built runtime, one without a pin. Two one-shot runs share rows and
  weights: the door under question beside another of the same process, with one
  move of weights that one of them may choose. The probe covers the products of what tools may answer for
  up to two cards. Two claims and two verifiers have a tie and a majority.
- `backroom`: two jobs, requests, downloads or tabs, since every hazard here is
  one that overtakes another (installs through the route and the MCP tool: the
  command line does what the route does and refuses more); a third audio job,
  because a mix has two inputs; a third render, because a file needs two writers
  and one who discards. Drivers of sizes 1, 1 and 3 under a budget of 2 or none,
  which may change: evict one, evict several, refuse. One runtime is found elsewhere at a version below its
minimum, one at its minimum.

`CHECK_DEADLOCK FALSE` appears where the system may really stop: all daemons
ended, a studio that is idle without a box, nights and requests used up, clocks
and revisions at their bounds, or gossip whose records are all indexed.

### Fairness

- Gossip: both daemons keep ticking (`FleetBackgroundLoop._run` loops until
  stop) and a supervisor restarts a killed one (`service.py`, `Restart=on-failure`
  and launchd's `KeepAlive`), so the
  steps of publisher, puller and rebuild are weakly fair. New measurements,
  timeouts and faults are not.
- Daemon life: the background, pool, writer, peer and main threads are scheduled,
  a call to a member ends or times out (the client has a time-out), and requests
  the server drains end. The tailnet, measurements and the stop are not fair. A
  database that cannot be opened (`MayBreak`) is left out of the run: whoever
  submits then waits for ever.
- Studio: the watchdog's loop, time, background tasks, rendering threads, the
  launch script and a pending box are weakly fair. Users, restarts, reclaims and
  lost answers are not; the latter are bounded, so a retry succeeds in the end.

## 4. Findings

1. A crash while `ingest_page` writes a replica leaves a torn file nobody
   replaces; the author's later records never arrive (`gossip_torn_replica`).
2. After the loss of `state.json`, a reset serves an old epoch's page as the new
   epoch's, and the cursor passes the new one (`gossip_lost_state`).
3. `refresh` compares every picture with the clock it read before the first
   ship was asked; after a slow ship, later ones look ahead of the daemon's clock
   and are shown as unknown (`fleet_clock`).
4. Two overlapping `GET /v1/fleet` that loaded different revisions can record the
   version of one with the roster of the other; the newest document is then refused
   until there is a newer one, and every ship is shown as unknown (`fleet_overlap`).
5. The unit's `RuntimeDirectory` is the directory of a daemon started by hand,
   whose lock and socket systemd removes (`daemon_unit`).
6. `extend` with several takes loses its background tasks after the metadata
   files say queued; the watchdog never lets the box go (`gpu_idle`).

## 5. Proofs

`tlapm` checks every proof to its leaves, for every value of the constants: any
number of machines, daemons, ships, jobs, tabs, tasks, records and faults. Every
safety invariant and action property the passing runs check is a theorem. Each
argument is an inductive invariant that strengthens the property, a proof that every
action preserves it, and temporal steps that only put the two together.

A component that shares a run with others has its own specification in the proof
module (`StatusSpec`, `StartSpec`, `ViewSpec`, ...): its Init and its Next under
its own variables, without fairness. The run's behaviours are behaviours of one of
them while the others rest.

### Membership and LOG

- `OrdersProofs`: `IInv` strengthens the three invariants with `KeysDistinct`
  (machines have distinct identities, all on record) and `Traceable` (what a
  machine holds or has in hand was published, and what it has in hand is pinned
  to another machine's key). The second is the point: it excludes that an author
  gets a document of its own fleet back from a peer and then signs a version
  that is taken. Hence `HelmHoldsLatest`, hence every revision is above all
  others, hence `NoFork` and `BindingsPermanent`. `AddRevises` and `RatesRevise`
  say what the document operations return; there is one step lemma per control.
  `NoRollback` and the refinement of `FleetLedger` follow from the same invariant.
- `LogGossipProofs`: `ReplicasAreFaithful` and `CursorsAreIndexed`. While no
  `state.json` was lost there is one epoch (`OneEpoch`), and the page of a pull in
  flight is the author's own page of its number (`InHand`). What makes the cursor
  honest is the last part of `InHand`: no replica lies between the cursor and the
  page in hand, because the author serves the first page the cursor has not passed
  (`FirstIsFirst`). A cursor forgotten in a crash starts from nothing, below every
  replica.

### Daemon

- `PeerAuthProofs`: `Remembered` says that the entry of an accepted request
  outlasts its freshness; with it a second delivery is either stale or found.
  The bound of the cache needs `Full` counted after expiry.
- `FleetViewProofs`: `ShownReadyWasFresh` holds for any number of overlapping
  requests. A row that says ready was sampled after the clock was read and by a
  clock no more than the tolerated second ahead (`RowInv`); ageing does the rest.
  `RosterIsOfRevision` holds for any number of them too. Its invariant is that, unless
  the recorded version crossed a request, all who are about to record a roster have
  loaded that version (`RecordInv`), so whoever comes last records the right one. The
  run `fleet_overlap` shows what a crossing does.
- `DaemonProofs`, start: `IdentityIsOne` rests on the creator's lock file: between
  its creation and its removal it names one process, and only that one may replace a
  missing identity. `PathStaysWithDaemon` and `OneDaemonServes` rest on `SocketInv`:
  everyone who has the lock file open has the inode that is there, so the flock is
  exclusive, and only its holder touches the path. Both assume `Mixed = FALSE`, that
  nobody starts a daemon by hand beside systemd's; the run `daemon_unit` shows that
  they fail otherwise.
- `DaemonProofs`, shutdown: `ShutdownInv` orders the main thread's steps against
  the background loop and its pool, so the writer is closed under nobody unless the
  bounded wait ran out. `ToldInv` gives every caller at most one message in the
  queue and an answer of its kind, so an answer is the answer to the question asked,
  and it follows the commit.

### Studio

- `GpuStudioProofs`: `Spared` adds to `SparesQueued` that after a scan which saw
  no active job, whatever is queued was queued since. `TypeCorrect` needs `Slots`,
  the count of used slots is the number of threads, those that died holding one included. `CompletedVideosAreWhole`
  follows what is whole from the worker's disk (`WorkerWhole`) through the task
  that fetches it (`TaskWhole`) to the studio's copy: a worker says completed of a
  job only when its thread is at rest, and a box that is gone answers no fetch.
- `BackroomProofs`, one section per part. Cockpit: while nobody holds the refresh
  lock, the cached answer is at least as young as the last question, unless that one raised
  (`StatusInv`); a mask is posted only over a secret that is merged back; ssh runs
  only between its start and the handler's `finally`. Plates: each request holds its
  file alone, together or by no name, and only a lone one may leave it half written.
  Audio: what is completed takes no step any more (`Lasting`), so a mix that was asked
  for over completed files opens whole ones. Downloads: both lookups of a task find a job that
  is at least as new as its own, the cache only grows (`CacheGrows`), and a pinned
  revision is not moved. Local workers: an object that is loaded and not counted is
  the object of a request between its dispatch and its end. `FitInv` says that the
  order names the loaded drivers of the table, each once, and that a table entry
  without weights is used by no request, so that `infer` never loads it behind the
  manager's back; eviction along the order then leaves what fits or nothing
  (`PoppedIs`, `LoadStep`). What a sum over a set of drivers does (`SumSteps`,
  `ResidentWithout`, `ResidentGrows`) is shown by a least counterexample among the
  finite sets (`SmallestSet`), which needs no induction over an operator. Installs: a job that
  nobody overtook still finds what its preview found (`UpToDate`), which decides
  both what pip leaves and whether consent was asked.

### Measurements

- `MeasuredProofs`. Sweep: a record of a load time comes after one of a speed, so
  that a cell with any record has the one that counts (`SweepWhole`), and what is
  lost without a death is at most the one cell in flight (`SweepLoses`,
  `InFlightIsOne`). Flights: what the pre-flight phase has passed is marked exactly if
  its runtime was missed and its install failed, marks stay for the night, and the
  log follows them (`Skips`). Probe: a Linux card whose memory is known has a name, so that
  the largest-card rule replaces name and memory together (`BestIsThere`,
  `LargestIsSound`), and nothing after it touches either. (A Mac's display may report
  memory and no name; the profile then has none.)
- One-shot runs: `OneShotInv` has four parts. `RunType` says what a run of each door
  looks like at each step; `RunnerWhole`, that a runner lives from its start to its
  return unless its parent died; `MadeWhole`, that only a file the run made whole
  gets to the step that records; `RowsWhole`, that a row says what its run chose and
  opened, and which rows there are at which step. A row is compared with its run and
  never with the cache, because weights move between plan, start and record.
  `ChangedFields` and `OneRunMoves` reduce every step to the fields of one run;
  `SelectedComesFirst` shows that the planner's order has a first candidate, by the
  least rank at each of its three levels.
- Claims: the counts of citations for and against a call are those of the outcomes
  the gate let through (`CallsAreShown`).

### What the proofs assume

The named assumptions on the constants, which TLC evaluates in the runs. Most say
of which kind a constant is, or that a distinguished value (`Nobody`, `Torn`,
`NoState`, ...) is not one of the values it stands beside. Those that say more:

- `DaemonStartAssumption`: a unit has at most one process (systemd's main process).
- `DaemonLifeAssumption`: what the index refuses is a set of records fixed in
  advance, as validation depends on the record alone.
- `SweepFilesAssumption`, `RunRecordsAssumption`: a torn file parses as no record.
- `SourcesAssumption`: a card whose memory Linux reports has a readable vendor.
- `InstallsAssumption`: every door's interpreter is one of the Pythons.
- `LocalWorkersAssumption`: sizes and budgets are natural numbers, so sums of floats
  and their rounding are not what `LoadFits` is about; and there are more `Copies` of
  a driver's object than requests, so that a new object is one nobody uses.
- `OneShotAssumption`: what a variant needs is a number or unmeasured.

### Only model-checked

- Liveness (`ConvergesWhole`, `ShutdownEnds`, `PeerDoorOpens`, `JobsSettle`,
  `UnmarkedBoxGoes`): fairness and `ENABLED` are out of the prover's reach.
- The findings' properties, which do not hold.

## 6. Beyond the models

Left out on purpose, or shown by a model without a property that forbids it, and
worth knowing when reading the results.

Fleet and daemon:

- Crashes keep a completed rename; losing one (power failure before the
  directory is synced) needs a model of the file system's write ordering.
- The nonce cache lives in memory, so a restart within the skew accepts a request
  again. Peer routes only read, apart from the publisher's refresh. A clock that
  steps back is not modelled.
- When the file of a page cannot be created, its sequence number is used up in
  memory only. If the daemon dies before the next `state.json`, the restarted one
  fills the gap with new records, below cursors that have passed it, and they reach
  no puller until it restarts (`log.py:484`; `ConvergesWhole` excepts the pair).
- A loss of `state.json` also costs what the cursor promises, not only what the
  replicas say: the reset serves an old page, and its records are counted as passed
  (`NoSkip`, finding 2). `ReplicaFaithful` and `CursorIndexed` are therefore stated
  up to the first such loss.
- A database that cannot be opened ends the writer's thread before it reads its queue
  (`index.py:245`): whoever submits waits for ever. `MayBreak` models it, and the run
  leaves it out.
- A local record the index refuses ends the publishing of that tick
  (`runtime.py:123`); what follows it reaches the author's own index only when a
  restart replays the corpus.
- Every failed answer of a ship is one `NoAnswer`, shown as unknown: the daemon's
  client reports an unreachable ship as `FleetRuntimeError` (`runtime.py`), which
  is not among the errors `fleet.py` takes for asleep, so no state asleep occurs.

Studio and cockpit:

- A metadata file is rewritten in place, and the watchdog takes one it cannot
  parse for a finished job; `write_meta` is one step here.
- A worker thread that dies keeps its slot, so the worker answers busy until it is
  restarted (`ltx_worker.py:145`, `ThreadDies`).
- Launching does not reset the idle clock (`gpu.py:73`): after a long idle time the
  watchdog may terminate a box as soon as it runs.
- `get_instance_info` answers its own time-out like a missing box (`cli.py:272`), so
  the status says stopped and a launch goes ahead, although
  `gpu_lifecycle.py:34` keeps a failed query apart from a stopped box.
- Two configuration updates may overwrite each other, and a file that does not
  parse is overwritten with defaults. A frame of the shell that is JSON but no
  object ends the session. A log stream whose client goes while a line is being
  sent leaves its ssh behind (`Abandon`).
- An audio job that throws, or whose studio dies, says running for ever; a mix of an
  unfinished job may hold half a voice; a failed mux leaves half a video that the
  library lists. A composite takes whatever plate is there (`generate.py:519`);
  after a crash that is half a plate, and every composite of that video fails
  until it is upscaled again. `HalfIsInTheMaking` excepts crashes and files of two
  writers.

Runs and measurements:

- A record is written in place (`measurements.py:522`): after a crash inside it every
  reader of the corpus raises until someone removes the file (`Torn`, `Loads`).
- Two runs of one process each call themselves solo, because a process's own tree
  is never a competitor (`OwnTree`); the sweep samples contention once, before the
  job.
- A run that ends inside a think block records its wall time as its speed, in a
  failed row that no summary reads.
- The runner's stderr is not drained while stdout is read (`mlx_lm_driver.py:270`);
  what runners print is not modelled.
- A preview that another install has overtaken may lower a package silently;
  `NoSilentDowngrade` says exactly that and no more. A venv whose creation failed
  keeps its interpreter, and the retry skips the version check (`runtimes.py:466`).
- A machine whose GPU reports its memory but neither vendor nor device id, beside a
  second card and after an `nvidia-smi` whose output cannot be read, would give a
  profile of two cards. amdgpu alone exports a memory size, beside the ids, so
  `SourcesAssumption` excludes it.
- A pattern with several shards counts as present when one of them is
  (`paths.py:479`).
- A fetch that raises anything but `FetchError` counts as a failed provider, and
  its tokens are missing from the cost (`verify_claims.py:366`).

## 7. Plan

Done: the parts of section 2, and the theorems of section 5.

1. The fleet view with a lock around the record, as a variant that shows what the
   lock would be worth.
2. The corpus summary against a reference definition over bounded inputs.
3. Two launches and two boxes in a run of their own that checks no liveness.
