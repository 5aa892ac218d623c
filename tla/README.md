# QuantIAN: TLA+ models, checks and proofs

QuantIAN is a set of Python services on three clouds that find each other through a
registry, pass market events along, and record what they do in a hash-chained audit ledger.
This directory holds TLA+ modules that model those services from their source, TLC
configurations that check them on small instances, and TLAPS proofs about the registry, the
peers, the bridge, the dashboard, the cloud deployment and the local launcher for every
instance. `PROJECT.json` maps each definition to the lines it models and lists the runs,
mutants, findings, hazards and theorems.

To check a run: `tlc -config <cfg> <module>`, as `PROJECT.json` pairs them.
To check the proofs: `tlapm <module>` for each of `RegistryProofs`, `MembershipProofs`,
`AnomalyProofs`, `RiskProofs`, `PipelineProofs` (with those of ingestion), `BridgeProofs`,
`DashboardProofs`, `ScriptProofs`.

## 1. Inventory

| Component | State | Operations | Hard behaviour | What makes it correct |
|---|---|---|---|---|
| Audit ledger (`registry_service/store.py`, `shared/utils/hashing.py`) | chain of blocks | seal a block, walk the chain | damage at rest, blocks chained on top of it | the walk reports damage exactly when there is some |
| Registry (`registry_service/`) | peer table, ledger, two JSON files, lock, verifier state | register, heartbeat, append, list, verify | threads of the request pool, saves that raise, crashes between the two files, a handler with two lock sections | acknowledged blocks survive; the disk only grows; every request ends |
| Peer membership (`shared/runtime/service_runtime.py`, registry) | `_registered`, table, ages | register-or-heartbeat loop, freshness rule, discovery | calls that time out and execute late, restarts of both sides, a lost table | flag and table agree again; live peers return; dead ones expire |
| Ingestion peer and routing (`aws_ingestion/`, `route_with_retries`) | three unlocked lists, state file, counters | ingest, store, route to three capabilities | unlocked threads, retries of calls that were executed, an unreachable registry | bounded duplication; the audit trail claims nothing that did not happen |
| Anomaly peer (`azure_anomaly/`, `shared/storage/`) | alerts, bounded histories, blob or file | analyse, review | dicts that grow while they are serialised, failed uploads, restarts | what is stored is never torn; what is audited was stored |
| Risk peer (`gcp_risk/`) | events, portfolio, snapshots, file | set portfolio, ingest (with auto-compute), compute | unlocked threads, the ledger written before the file, arithmetic at its edges | file and memory do not diverge; metrics are what they are named for |
| IoT bridge and publisher (`iot/`, `simulator/mqtt_publisher/`) | connections, the publisher's queue, counters | publish and wait, callbacks of the MQTT client, one post per message | lost connections on both sides of the broker, acknowledgements and posts that time out, a start that fails | a message is ingested no more often than it was sent; order; the bridge comes back |
| Cloud deployment (`scripts/cloud_deploy.py`, `infra/vm/`) | manifests in `dist/live`, resources of three clouds | provision, deploy, bootstrap, go-live | a command that stops between any two calls and is run again | manifests are true; hosts agree; orphans are accounted for |
| Schemas, settings, ids, time | none | none | none | declarations |
| Local stack (`scripts/run_local_stack.py`) | child processes, the data directory | start, health gate, seed, options, reset, shutdown | interrupts at any step, children that die or hang, processes left by an earlier run | nothing is left behind; a reset is clean; the shutdown ends |
| Web dashboard (`web_dashboard/src/`) | polled data, error and busy flags | `usePolling`, refresh, review of alerts | fetches that overlap, answers out of order, reviews that cross | what is shown goes back only for a known reason and catches up; a review is shown |
| Demo scripts (`local_flow_demo.py`, `discovery_flow_demo.py`) | none | straight-line calls | none | clients |
| Streamlit dashboard | none | read and render | none | presentation |
| `dist/azure-containerapp-src` | none | none | none | generated copy |

Interactions. Every peer registers with the registry, heartbeats, and appends audit
blocks over HTTP (`ServiceRuntime`); append failures are swallowed. The bridge posts MQTT
messages to ingestion. Ingestion asks the registry for the peers of a capability and
calls the anomaly peer (`/anomaly/analyze`) and the risk peer (`/risk/events`, then
`/risk/compute`), each with retries. Nothing is transactional across services: each keeps
its state in memory and rewrites one JSON document after a change. All handlers are plain
functions, so FastAPI runs them on a pool of threads; only the registry has a lock.

## 2. Modules

| Module | Models | Extends / instantiates |
|---|---|---|
| `Ledger` | hashing, sealing, the verification walk, as operators | |
| `DurableLog` | abstract specification: what the registry promises of the ledger | `Ledger` |
| `RegistryService` | store, handlers, verifier, both files | `Ledger`; `DurableLog` under the mapping `log <- ledgerFile`, `damaged <- corrupted` |
| `PeerMembership` | the registration protocol in discrete time | |
| `IngestionPeer` | ingestion service and routing | |
| `AnomalyPeer` | anomaly service and state store | |
| `RiskPeer` | risk service: state and handlers | |
| `RiskMetrics` | risk service: arithmetic | |
| `EventPipeline` | composition: ingestion peer, and behind its calls the anomaly and the risk peer | `IngestionPeer` |
| `IotBridge` | MQTT publisher, subscriber and bridge | |
| `CloudDeploy` | the deployment script | |
| `LocalStack` | the launcher of the local stack and its child processes | |
| `Dashboard` | the polling hook and the panel of the alerts | |
| `RegistryProofs`, `MembershipProofs`, `AnomalyProofs`, `RiskProofs`, `BridgeProofs`, `DashboardProofs` | theorems | the module they are about |
| `ScriptProofs` | theorems about the two scripts an operator runs | `CloudDeploy`, `LocalStack` |
| `PipelineProofs` | theorems about the ingestion peer, then about the composition, and that it implements `IngestionPeer` | `EventPipeline` |
| `MC*` | constants, and symmetry of the thread pool, for TLC | the module of the same name |

How state and actions correspond to the code:

- **Registry.** A request is a process that runs one or two store operations (`op`, `arg`,
  `pc`). An operation takes the lock and changes memory (`UpsertPeer`, `Heartbeat`,
  `AddBlock`), replaces `peers.json` (`SavePeers`), then `ledger.json` (`SaveLedger`), and
  releases the lock. `SaveFails` is either save raising: the `with` block releases the
  lock and the request is answered 500 with memory changed. `RegisterPeer` goes through
  `upsert`, releases the lock, and goes through `append`. A SHA-256 digest is the term
  that was hashed, so equality of digests is equality of what was hashed.
- **Membership.** Time is discrete and nothing reads an absolute clock: `age` stands for
  `last_heartbeat`, `timer` for the sleep or the age of the call. A request lives in
  `requests` until its last effect, which may come after its caller timed out. The
  registry parses a request before it handles it, which is when `observed_at` is taken.
- **Ingestion, anomaly, risk.** `th[w]` is one thread: its place in the handler and its
  locals. A step is as small as the interpreter can interleave where it matters: an append
  to a list, one turn of an iterator over a dict, the replacement of the file. The
  contents of a window, a score or a snapshot are abstracted to what they were computed
  from. Calls to other services fail without effect, succeed, or are given up by their
  caller and take effect at any later time, or never (`late`).
- **Pipeline.** `EventPipeline` puts the request threads of the anomaly and the risk peer
  (`PeerThreads`, their places and locals in `serving`) behind the calls of `IngestionPeer`.
  A thread takes a call (`TakeCall`, or `TakeLate` when its caller has gone), goes through
  the handler step by step, and with its last step (`Ends`) the caller goes on, if it still
  waits. `analyze_event` copies the history and scores (`AnalyzeEvent`), appends, inserts
  the alert, dumps alerts and history one after the other and replaces the blob;
  `ingest_event` appends, dumps, replaces the file and comes to `auto_compute`, which is on
  in `gcp_risk/main.py:24`; `compute_risk` and `set_portfolio` end with the same save. The
  memory of a peer is shared without a lock, so a thread may replace the document by a dump
  that is older than what it finds there. Each dump of a dict or list is one step: the
  iterator over the alerts raises when the dict grows, which is `HandlerFails`, and
  otherwise has what the dict held at its end (`AnomalyPeer` takes the iterators apart). A
  caller that gives up, or crashes, leaves the thread to serve the call to its end. A
  handler that raises, as a failed save or a grown dict does, answers 500 or loses its
  process: the caller gives up (`GiveUp`) and the handler then stops wherever it is
  (`HandlerFails`). Either peer restarts from its document when its handlers have ended or
  failed (`RestartAnomaly`, `RestartRisk`); the risk peer may lose the portfolio so.
- **Risk metrics.** Exact integers over a common denominator, so that TLC compares without
  rounding. Code parameters (5 % tail, window of 24) are constants, set so small that
  series of four events fill them. The portfolio in effect is a variable, for it may change
  with any request.
- **IoT bridge.** Callbacks run one at a time on the client library's thread, so a
  connection callback waits for a post under way. The publisher sends with QoS 1:
  `Publish` queues the message and waits, `WaitEnds` is the wait that returns after five
  seconds without an acknowledgement, and a lost connection makes the library send again
  what was not acknowledged. Broker, network and library are external.
- **Deployment.** A command is the list of its steps; `Fail` ends it at any of them.
  `save_manifest` empties the file before it writes it, so a stop there can leave no
  manifest.
- **Local stack.** The `try` block of `main` is the list of its steps, with `Popen` and the
  `append` of its result as two, the first of which may raise; the `finally` block is two
  loops over the list. A process knows its run and whether what it holds goes back to
  before the last reset. A port belongs to the first process that binds it. `Abandon` is a
  launcher that was killed, or interrupted again while it shut down.
- **Dashboard.** Every `await` ends a step. A run of the hook is in `runs` from its start to
  its arrival, and in between the peer answers it, at any time and in any order. Interval
  and closures are modelled by what they captured (`sawNull`). `mountedRef` is not a
  variable: it is false only between a cleanup and the effect that follows in the same
  commit, for `App` is never unmounted.

## 3. Runs

Passing runs:

| Run | Shows | Bounds and why they are enough |
|---|---|---|
| `registry` | the inductive invariant (types, lock, file a prefix of memory), exact verification, durable acknowledgements, audit after peer; every request ends and damage is reported; the disk implements `DurableLog`; readers see growth only, unless a save failed | two threads and the verifier contend for the lock; one failed save, two crashes and one damaged block, in every order with two requests; safety and refinement are also proved for all bounds |
| `membership` | the flag is the registry's word (`MembershipInv`), acknowledged peers are online, dead ones expire, running ones return after the last fault | `StaleAfter` exceeds the sum of interval, timeout and the life of a request, as 90 s does in the code; three faults and a lost table overlap a late request with a restart |
| `ingestion_threads` | window baselines precede and the file is a prefix of both lists (`IngestionInv`); answered events are on disk as long as requests do not overlap; duplicates are bounded by given-up calls and by retries; every route of a message was executed, given up or cut off by a failed lookup, a failed save or a crash, and the counters say so (`OutcomesAccounted`) | two threads, two events, two attempts; two faults, one of which may be a restart, spend a whole route, or lose one call of each event |
| `event_pipeline` | a second alert has a given-up call behind it; a restart keeps the baseline of saved alerts, unless the save of the alert crossed another one; a price out of order has a given-up call behind it; a risk takes its event into account unless the event was never stored or the save that stored it crossed another one | one ingestion thread, two events, two attempts; two threads at the peers, so that a call that was given up is served beside its retry or the next call, or beside `set_portfolio`, and either one saves last; one fault or restart of the ingestion peer, and one restart of a peer; a history of two is full |
| `anomaly` | nothing torn and nothing audited that was never stored (`AnomalyInv`); answered alerts and reviews stay stored as long as requests do not overlap | two threads, two symbols (so the history dict grows too), a window of one, two faults, a restart |
| `risk_peer` | file and memory do not diverge (`RiskInv`); as long as requests do not overlap, answered is stored, snapshots are stored with their events and the latest is the newest (`SnapshotsInOrder`), and the ledger is ahead by a bounded number | two threads, two portfolios that overlap and an empty one, two faults, a restart |
| `risk_metrics` | value at risk is the quantile, drawdown the worst fall, rolling return telescopes (`CompoundedMetrics`) | all histories of up to four events for two symbols, zero prices included, under a portfolio of two positions and one of one; three returns exceed the window of two and fill two tail parts |
| `iot_bridge` | counters add up and a message is ingested no more often than it was sent (`BridgeInv`), only a failed post or a message sent twice is overtaken, the bridge subscribes again and drains | four messages in the order of the simulator, two of them valid; two faults, two lost connections on either side, a crash |
| `cloud_deploy` | manifests true (`DeployInv`), orphans accounted for, hosts agree, the app agrees if nothing disturbed the deployment, `deploy-azure` repairs (`DeploymentAgrees`) | four commands: a failure, a repair, a replacement and a check after it |
| `local_stack` | a shutdown leaves no child and the run checks its own children's health (`StackInv`), `--reset-state` is clean, both unless an earlier run was cut short; the shutdown ends | the first and the last of the services, with the bridge or the publisher; two runs, so that one finds what the other left; a death, a kill |
| `dashboard` | flags stand for something under way and two verdicts on an alert are under way only when reviews crossed (`DashboardInv`); an acknowledged review is shown or about to be; the list goes back only when the answer was passed by another one; it catches up | two alerts can cross; two fetches can pass each other; two reviews can be under way, and any number be posted; one fault, two changes of interval or tab |

Each module has one type invariant; it is checked together with the invariant that states
how its pieces of state agree, as the conjunction named above.

`overlapped` in `IngestionPeer`, `AnomalyPeer` and `RiskPeer` records whether two requests
were ever in progress at once. The peers save without a lock, so with overlapping requests
a thread may replace the document by an older dump of memory, and an answered change is
then missing from it until the next save. The properties whose premise is `~overlapped` say
what holds otherwise; the invariants without the premise hold under every interleaving.

In `EventPipeline` requests overlap at a peer even when the ingestion peer sends one at a
time, for a call that was given up is served to its end. `crossed` has the calls that
replaced the document while another thread of the same peer had begun to serialise its
state and had yet to save it. That is the code's weakness and the properties name it: the
older dump that comes last takes the event of a saved alert out of the blob, or a stored
price out of the file, and a restart then drops it, so `BaselineKept` and
`ComputedWithEvent` do not hold without the exception (TLC finds both histories with the
bounds of `event_pipeline`). What they do say is that nothing else makes a restart drop
them: neither an older dump that came first, nor a save that failed, nor a call that was
executed late. `BaselineKept` says moreover that saves of alerts cross only if requests
overlapped or a call to the anomaly peer was given up.

Deadlock checking is off where the bounds let a model run out of work; the registry and
membership runs keep it on.

Violated property, a statement of the repository that the code does not keep:

| Run | Statement | What happens |
|---|---|---|
| `cloud_deploy_interrupted` | go-live deploys the app (`infra/vm/DEPLOYMENT_NOTES.md:50`) | a rerun takes a half-deployed app for deployed |

Fairness, and why the code justifies it:

- Registry: threads that can run do (`threading.Lock` is released on every path), the
  verifier's timer fires, the supervisor restarts the process (`Restart=always` in the
  systemd units). Nothing is assumed of clients or failures.
- Membership: the event loop runs what is ready, supervisors restart processes, the clock
  advances, and a call that can only fail ends by its timeout.
- Bridge: lifespan runs, the library's thread connects and calls back, and a post ends by
  its timeout. The late execution of a request is not assumed.
- Local stack: the launcher goes on, for each of its waits has a deadline. Nothing is
  assumed of the children.
- Dashboard: the interval fires, and a fetch is answered or fails and then arrives. `fetch`
  has no timeout of its own: that the services and the proxy end every request is an
  assumption about them. Nothing is assumed of the operator.

## 4. Proofs

Each theorem is of the form `Spec => []Inv`, `Spec => [][A]_vars` or a refinement, and holds
for any number of threads, peers, events, messages, symbols, alerts and retries and any bounds on
faults and crashes, under the assumptions named with it.

| Module | Theorem | Establishes |
|---|---|---|
| `RegistryProofs` | `RegistryInvariant` | the inductive invariant; what readers were served is on disk unless a save failed |
| | `TypeCorrect` | types of memory, files and processes |
| | `FilePrefixInvariant` | `ledger.json` is a prefix of the ledger in memory |
| | `VerifyIsExact` | the walk reports damage exactly when there is some |
| | `AckedBlocksSurvive` | acknowledged blocks are on disk at their `block_id` |
| | `AuditedPeersSurvive` | the audit trail on disk names peers that are on disk |
| | `DiskIsAppendOnly` | no step shortens or rewrites the ledger on disk |
| | `ReadersSeeAppendOnly` | readers see the ledger grow only, across crashes too, unless a save fails |
| | `RegistryImplementsDurableLog` | the refinement of `DurableLog`, damage included |
| `MembershipProofs` | `MembershipInvariant` | the inductive invariant; a peer's flag is the registry's word |
| | `AckedPeersAreOnline` | recently acknowledged peers are known and online |
| | `DeadPeersExpire` | no late request keeps a dead peer online beyond its bound |
| `PipelineProofs` | `IngestionInvariant` | the inductive invariant; `state.json` is a prefix of the lists, windows look back |
| | `AnswersArePersisted` | without overlap, answered events are in `state.json` |
| | `DuplicationIsBounded` | no call is executed more often than attempts and given-up calls allow |
| | `OutcomesAreAccounted` | every route has an outcome, and the counters agree |
| `AnomalyProofs` | `AnomalyInvariant` | the inductive invariant; nothing torn, nothing audited that was not stored |
| | `AnswersAreStored` | without overlap, answered alerts and reviews stay stored |
| `RiskProofs` | `RiskInvariant` | the inductive invariant; file and memory do not diverge, and how far the ledger is ahead |
| | `SnapshotsAreInOrder` | without overlap, snapshots are stored with their events and the latest is the newest |
| | `AnswersAreStored` | without overlap, what was answered is in the file |
| `PipelineProofs` | `PipelineImplementsIngestion` | the composition refines `IngestionPeer`, so that its theorems hold of it |
| | `PipelineInvariant` | the inductive invariant |
| | `AlertsAreNotRepeated` | a repeated alert has a given-up call behind it |
| | `BaselinesAreKept` | a restart keeps the events of saved alerts in the baseline, but for saves that crossed |
| | `PricesAreInOrder` | prices out of order or repeated have a given-up call behind them |
| | `RisksAreComputedWithEvent` | a risk takes its event into account unless it was never stored, or its save crossed another one |
| `BridgeProofs` | `BridgeInvariant` | the inductive invariant; counters add up, no message is ingested more often than it was sent or before it was published |
| | `MessagesAreInOrder` | a message is overtaken only if its post was given up or it was sent again |
| `DashboardProofs` | `DashboardInvariant` | the inductive invariant; the flags wait for something under way |
| | `ReviewsAreRefreshed` | an acknowledged review is shown, or there is a reason |
| | `ListGoesForward` | the list goes back only with an answer that was passed |
| `ScriptProofs` | `DeployInvariant` | the inductive invariant; what a manifest names exists and is complete, wherever commands were stopped |
| | `OrphansAreExplained` | instances that no manifest names: one at most for each failed command, each replacement and the command that runs |
| | `DeploymentsAgree` | after a completed go-live or bootstrap the VMs agree, and the app if nothing disturbed the deployment; deploy-azure repairs it |
| | `StackInvariant` | the inductive invariant; a launcher that nothing cuts short leaves no process behind and checks the health of its own children |
| | `ResetStaysClean` | after a reset no service works with data from before it, unless a run was cut short |

Assumptions on the constants, each in the module that declares them and evaluated by TLC on
every run of it:

- Registry: `ProcsAssumption` (the verifier is not a pool thread, nobody is not a process)
  and `BoundsAssumption` (bounds are natural numbers).
- Membership: `TimesAssumption`. Of the times in the code it uses that a stale peer is not
  yet offline (90 s, 180 s) and that a request can outlive the timeout of its caller.
- Ingestion: `RetriesAssumption` (at least one attempt), `BoundsAssumption`, and
  `ListsAssumption`: the list of the peers of a capability names none twice, because the
  registry keeps its peers in a dict by node id.
- Anomaly: `WindowAssumption` (`maxlen` is positive), `SymbolAssumption` (an event has a
  symbol), `ReviewAssumption` (a verdict is not the status of a new alert).
- Risk: `PortfolioAssumption`: a portfolio is a set of symbols, possibly empty, and not
  `None`.
- Pipeline: those of ingestion, `WindowAssumption`, `ThreadsAssumption` (a pool has finitely
  many threads), and `PeersAssumption`: one anomaly peer
  and one risk peer, as every deployment in the repository has. With two peers of a
  capability each holds its own history, and the properties would be about each.
- Bridge: `KindAssumption`: the messages are a finite sequence of valid, invalid and
  unparsable ones.
- Dashboard: `BoundsAssumption`, and `ValuesAssumption`: null, a fetch without answer and a
  failed one are not lists.
- Deployment: `BoundsAssumption` (bounds are natural numbers).
- Local stack: `ServicesAssumption`: the services are a list, the one that takes the
  portfolio is among them, and none is also an extra; and `RunsAssumption` (bounds are
  natural numbers).

The arguments. None of the properties is inductive alone, and what each proof adds is the
reason why the code works:

- **Registry** (`RegistryInv`: `IndInv` and `ServedFromDisk`). `FilePrefix` survives
  `SaveLedger` only because one process at a time is between its change of memory and its
  save, which is `LockHeld`. A crash resets memory to the file, so what holds of memory
  must be known of the file, and `StoppedIdle` says nothing runs in between. That an
  acknowledged block is new on disk when it is acknowledged needs `AppendInProgress`. That
  a `peer_registered` block names a peer on disk needs `RegistrationInFlight` for the
  window between the lock sections and `AuditedInMemory` for blocks a failed save left
  behind. That the walk is exact after blocks were chained onto damage needs
  `SealedHashes`: a stored hash is damaged or the hash of an undamaged block, so no later
  block hides the damage. The chain lemmas (`NewBlockFacts`, `AppendKeepsBroken`,
  `PrefixKeepsBroken`, `DamageIsSeen`) carry the reasoning about hashes. `ServedFromDisk`
  is the other half of `LockHeld`: outside the lock memory is what is on disk, unless a
  save failed, so a reader is never served a block that a crash could take back.
- **Membership** (`MembershipInv`). `RequestsTracked` ties a request to the call its peer
  is in, or to one given up, and to the time it was sent: what it can still write into the
  table is no older than itself. `AgesBounded` turns that into bounds on
  `last_heartbeat`, behind the death of the peer and behind the last success it was told of.
- **Ingestion** (`IngestionInv`). `Left` is the set of routes that a thread has yet to
  call, and `CallsInv` says they are untouched: hence the attempts of a route are those of
  one loop of `route_with_retries`, late ones included. `OutcomesInv` is the complement:
  what is not left has its outcome. `EventsApart` keeps two threads off the same event.
  `SavesInv` says that without overlap the thread in progress saves the lists as they
  are; with overlap only `ListsInv` is left, that a snapshot is a prefix of the lists.
- **Anomaly** (`AnomalyInv`). Alerts and dumps are compared by their ids, for reviews
  change alerts in place. `IdsFresh` covers alerts that threads have yet to insert;
  `DumpsFaithful` says that a dump is the beginning of the dict and has the thread's own
  alert, which is why the block recorded after the save mentions a stored alert.
- **Risk** (`RiskInv`). `Within` is reflexive and transitive, and dumps and file are within
  memory at all times. The other half needs no overlap: the one thread in progress has
  read and serialised what memory holds (`Current`; the dict keeps its size, so
  `SizeChanged` does not happen). The order of all snapshots is the invariant (`InOrder`),
  not only the latest, because a restart cuts them back to a prefix. `MissingExplained`
  leaves the snapshot in progress out, which is the one that `AuditAhead` adds.
- **Pipeline** (`PipelineInv`). The steps of the ingestion peer are inherited through
  `PipelineImplementsIngestion`, with `IngestionInv`. `ThreadsInv` ties a thread to its
  caller: one that still waits is at that call, and nobody else waits for the same call; one
  that does not has given up, so `lost` of the call is positive. What a document must keep
  is said of memory, of the document and of every dump on its way to it (`AlertsInv`,
  `HistoryInv`, `StoreInv`), so that neither a restart nor a save that comes late can break
  it. `Holds` counts from the end of a history how far an event is from being pushed out,
  and no further than the analyses since. `Durable` says the same of the risk peer: an event
  is in the file and in each dump under way, whichever replaces the file last. A save makes
  its event durable unless it crosses another one (`SaveBlob`, `SaveRiskFile`: if it does
  not cross, there is no other dump to think of). `PassedInv` says that a thread behind the
  store call has its event durable, or never will, which carries to the snapshot and to
  late calls. `Reached` says how an event came into a list at all, from which a repeated
  one has a given-up call behind it. `RawInv` says that without overlap the message in
  progress is the newest, and `LateIsLost` that a call executed late was given up. The
  proof has one lemma for every step of a thread; a step leaves the peer that it is not
  about alone (`RiskApart`, `AnomalyApart`). `PipelineInv` also passes TLC on the bounds of
  `event_pipeline`.
- **Bridge** (`BridgeInv`). A message can be sent while copies of it are still about, in
  the broker's queue for the bridge, in a post or in one given up. `SendsPaid` says that
  whatever is still in the publisher's queue, unsent in this connection, has been charged
  to `resent` already, so that `Transmit` may add a copy. `QueueInOrder` says that the
  queue is in the order of publication, hence what is sent is earlier than all that is
  still to be sent. `InLine` carries that on: nothing that the bridge has taken is ahead of
  the message being posted, of those the broker holds, or of those still to be sent, unless
  that one was sent again. Copies are counted as cardinalities of sets of positions, and
  the lemmas about `Append`, `Tail` and `RemoveAt` (`TimesAppend`, `TimesWithout`) are the
  arithmetic.
- **Dashboard** (`DashboardInv`). `InTime` is about each run that awaits: as long as no
  other has settled, its answer is not behind the data, and of every review that was
  acknowledged after its start the refreshing run is under way too. `ReviewsInv` says that
  until reviews cross there is one at most, that of `busyId`.
- **Deployment** (`DeployInv`). `InProgram` says that what a command has left is the end of
  its list of steps; `StepFacts` turns the six lists into which step follows which, and where
  one lands that skips what is done already. Everything else is about the step at hand:
  `ProvisionDone` and `DeployDone` say what the command has done by then, so that the
  manifest it writes is true and the last step has what the command promises. `OrphanBudget`
  refines the count of orphans: a new instance is one until `save_aws` names it, and with
  `--replace` its place is paid in advance, for `save_aws` then leaves the instance that the
  manifest named before. `AppFollows` says why the app agrees in an undisturbed deployment:
  AWS is provisioned before there is an app, and never again.
- **Local stack** (`StackInv`). `ListedNext` says that in what is left of the `try` block
  every `Popen` is followed by the `append` of its child, which holds of `MainSteps` for any
  list of services. `ChildrenKnown` says that as long as no run was cut short every process
  is of this run and known: in `processes`, or the one that the next step appends, or, in
  the last loop, in what the loop has not visited. So an empty loop means that nothing is
  left, whoever answers a health check is of this run, and a new run with `--reset-state`
  finds no process with old data. The interrupt between `Popen` and `append` is the case in
  which this fails; it counts as a run that was cut short.

TLC checks the inductive invariants of all modules but the pipeline's as invariants of
their runs.

Model-checked only: all liveness properties (fairness is out of the prover's reach),
and `RiskMetrics`, for what its folds compute for series of every length would need an
induction over data that the installed provers cannot do.

## 5. Limits

- Behaviours of the models that no property forbids, because the code makes no attempt at
  them: a block that readers were served is taken back when its save failed and the
  process then dies (hence "unless a save fails"); a crash between the two lock sections
  of a registration leaves a peer without its block; a route that gives up while the
  registry is unreachable leaves no `routing_failed` block; the history of events below
  the threshold is saved with the next alert only; of two overlapping computations the
  one that read fewer events may append last; what is published while the bridge
  reconnects is lost; a publisher that loses its connection ends with its queue; a child
  of the local stack that dies after its health check is not noticed.
- Discovery returns peers whatever their status, although `docs/P2P_OVERLAY.md:53` speaks of
  "currently online peers": `Providers` in `IngestionPeer` is therefore a fixed list, and a
  call to a dead peer is one that fails.
- Truncating the tail of `ledger.json` is not damage to `verify_ledger`: the walk has no
  record of how long the chain was. The model damages blocks, it does not remove them.
- A manifest written in part (neither empty nor whole) makes `load_manifest` raise until
  it is deleted by hand; only the empty one is modelled.
- `--replace` renews AWS only: Azure and GCP names are fixed and their resources are found
  again. `CloudDeploy` has it so, and `DeploymentAgrees` excludes replacements because
  the app keeps the URL of the replaced registry until `deploy-azure` is run.
- A price of zero that makes the first portfolio return -1 makes `compute_risk` divide by
  zero: `ComputeRaises` is the effect. Prices and weights are taken to be non-negative,
  and the weights of a portfolio to sum to 1, which the schemas do not enforce.
- Scores, volatility, rounding, backoff times and HTTP details are abstracted. The risk
  model's exact arithmetic does not show floating-point error.
- The run `event_pipeline` has one ingestion thread, and `ingestion_threads` is about the
  interleavings of several; the theorems about the pipeline are for any number of threads
  on both sides. The pipeline is about the events of one symbol, and its snapshots are not
  part of the risk peer's file (they are in `RiskPeer`); reviews of alerts are in
  `AnomalyPeer`. A peer restarts when its handlers have ended or failed; a caller whose
  connection breaks is taken to give up before the process is gone. The published total
  that the simulator prints is left out.
- Narrower than the code: `AppendBlock` appends blocks of
  one event type; `CorruptFile` damages one of the three hashes of a block, and stands for
  damage to any field that is hashed; the dashboard's alerts only move on, so a
  peer that restarts without an unsaved review is outside `Dashboard`; launchers of the
  local stack run one after the other.
- Not modelled: the simulator's random walk, the presentation of both dashboards (the
  Streamlit one reads, posts on a button and renders), the risk and IoT panels'
  buttons, each with one busy flag for one request, settings, schemas, and the demo scripts,
  straight-line clients without state.

## 6. Plan

Done: ledger and registry, membership, ingestion and routing, anomaly and risk peer, the
pipeline of these three, the IoT bridge with its publisher, the web dashboard, the cloud
deployment and the local launcher, all with proofs; risk metrics, model-checked.

Left, in order:

1. An abstract specification of a peer's store (memory, one document, whole-document
   saves), which the anomaly, risk and ingestion peers implement when requests come one at
   a time.
