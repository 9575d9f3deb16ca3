# A TLA+ model of the MCP evaluation operator

The repository is a Kubernetes operator that evaluates MCP servers for security.
An `MCPServer` carries a cron schedule; the operator creates an
`MCPEvaluationRun` for every fire, starts a Job for it, and an evaluator inside the
Job's pod clones the server, exercises it, asks LLM personas for their opinion and
patches a verdict into the run's status. A console shows runs as they happen. These
modules model the parts in which several actors write the same objects, each from a
copy that may be out of date, and the parts that talk to peers which may be slow, dead
or hostile.

## 1. Inventory

| Component | State it keeps | Operations | Why it is hard |
|---|---|---|---|
| run controller (`internal/controller/mcpevaluationrun_controller.go`) | none of its own: run status, finalizer, Job, egress policy, pod label | one Reconcile: adopt, fail, create the Job, label the pod, retry, complete, finalize | reads stale caches, writes merge patches without a version, shares `status.phase` with the evaluator, may stop between any two API calls |
| server controller (`internal/controller/mcpserver_controller.go`) | server status (`lastEvaluationDate`, mirrored verdict), trigger annotation, the set of runs | isDue, createRun, clearTriggerAnnotation, syncLatestRunResult, pruneRuns | three calls for one fire, catch-up after an outage, pruning from the list the verdict is read from |
| evaluator (`runner/src/evaluator.ts`) | report, failed personas, current abort controller | patch Running, persona by persona, score, complete or fail, signals, fatalCrash | async handlers that race main, degraded continuation, security gates that must stay fatal |
| status writer (`runner/src/k8s.ts`) | the pending terminal patch | patchStatus with retries, flushTerminalPatch, persistReport | a terminal patch that could not be written must not be lost or replaced by a poorer one |
| MCP client, fuzzer, probes (`runner/src/mcpclient.ts`, `fuzz.ts`, `probes.ts`) | pending requests, raw waiters, transport state, crash count, position in the cases | request, time out, late answer, crash, handshake, recover | a timeout racing an answer, a death noticed several times, a restart of the target under pending requests |
| Vigil client and gates (`runner/src/vigil.ts`, `vigilsegments.ts`) | scan units, endpoint, attempt | chunk, scan, retry, fall back | every stretch of text must be scanned although chunks and endpoints change |
| mesh transport (`runner/src/meshhttp.ts`) | dials, bridge connections | wait for the proxy, SOCKS5 dial, CONNECT, forward, close | half-open tunnels, silent peers, close while dialling |
| Occludra gateway (`images/occludra-gateway`) | requests in flight, journal ring | acquire, scrub, forward, fall back, restore, journal | slots on every exit path, ring overrun |
| console server and browser (`frontend/server`, `frontend/src/data`) | copy of the cluster, reports, log followers, chat sessions; the browser's snapshot | watch, fetch a report, follow a log, change a server, ask a question | reconnects and re-attachments, handlers that await with shared state |
| target supervisor, cloner (`images/target`, `images/cloner`) | restart count, marker files | start, restart; clone | deaths at any point |
| activity and readiness (`activity.go`, `health.go`) | gauge, cached probe result | count active runs, probe | stale cache read by the autoscaler |
| Vigil store and corpus loader (`images/vigil-llm`, `images/vigil-corpus-loader`) | vector collection | load, retry | idempotent reload |
| console model (`frontend/src/model`) | none | what is displayed of a snapshot | - |

The actors of the cluster interact through the API server only: the server controller
creates and deletes runs, the run controller creates the Job and labels its pod, the evaluator
patches the status of its run, and the two controllers learn of each other's writes
through watches; the console's server is one more watcher. Inside the pod the evaluator
drives the MCP client (FIFOs, or HTTP inside the pod) and the gates (over the mesh) in
sequence; its handlers for signals, frames, timers and ends of streams run in between.
The properties that make these parts correct are listed with the runs in section 4, and
everything in the code that is hard to test, at its line, in `PROJECT.json` under
`hazards`.

## 2. Plan

1. `EvalRun` - the life of one run: run controller, evaluator, Job, pod, caches;
   `EvalRun_proofs`, `EvalRunOrder_proofs`. **Done.**
2. `ServerSchedule`, `ServerSchedule_proofs` - the server controller. **Done.**
3. `Evaluator`, `Evaluator_proofs` - pipeline, status writer, signals and fatalCrash in
   one process, and what of the verdict reaches the status when patches are lost. **Done.**
4. `Requests`, `McpClient`, `McpClient_proofs` - the promise to callers and the client,
   target and driver that implement it. **Done.**
5. `Chunks`, `Mesh`, `Mesh_proofs` - chunking, gates, dials and bridge. **Done.**
6. `Live`, `Chat`, `Console`, `Console_proofs` - the console with its browser, and the
   gateway behind the chat. **Done.**
7. `Iteration` - what the proofs need of numbers and of loops. **Done.**
8. An abstract life cycle of a run (accepted, evaluating, settled, gone) that both
   `EvalRun` and the runs of `ServerSchedule` implement, so that the assumption the
   second makes about runs is discharged by the first. Left.

Every safety property of the passing runs, invariants and action properties alike, is
stated by a theorem (section 5); the liveness properties are checked by TLC alone.

## 3. Modules

### `EvalRun`

| Variable | In the code |
|---|---|
| `run`, `runC` | the stored `MCPEvaluationRun` and the controller's informer copy |
| `job`, `jobC` | the Job (how many were created, state of the newest) and the cached state |
| `pods`, `podC` | the pod of every Job with the evaluator in it; what `findPod` returns from the cache |
| `policy`, `policyC` | `<run>-evaluate-egress` and what the cache says of it |
| `refs` | the MCPServer and all OpenCodeAgents of the run exist |
| `rec` | the reconcile in progress: next API call, the status it read and the one it wants |
| `lag`, `faults` | bounds: versions a cache is behind, faults left |
| `hist` | history: an evaluator succeeded; the controller tore the policy down |

One action is one API call together with the decisions that follow it up to the next
call, so every other actor can act between any two calls. `StartFrom` is the code
from the terminal check to the first call, `Decide` the code from the stuck-pod check
to the end. `MergePatch` is what a merge patch computed against the cached copy does
to the stored object: only fields that differ from the copy are sent. `RecAbort` is an
API error or a crash: a reconcile has no memory, so both mean that the next one starts
from the caches. The trace annotation patch at the head of Reconcile is left out: it
touches no field the model keeps, and its only effect on control, that the first
reconcile of a run works from the stored object, is already that of `RecAdopt`.

The Job controller, TTL controller, garbage collector and kubelet are external and
modelled from what buildJob asks of them: `backoffLimit: 0`, one pod per Job, a
deadline that deletes the pod, a TTL with foreground deletion, background deletion by
the controller. A pod is reduced to the combinations of statuses the code tells apart.

### `ServerSchedule`

`srv`/`srvC` and `runs`/`runsC` are the server and its runs with their cached copies,
`now` the clock in ticks, `rec` the reconcile: list, create, clear, patch, prune. The
schedule fires every `Period` ticks; `isDue` is the code's bounded walk, with its bound
of 1000 as the constant `MaxWalk`. Runs finish, are re-opened and disappear as
`EvalRun` shows they may. Status fields nothing reads (conditions, next time, last run)
are left out, and with them the reconcile of a server with missing agents.

### `Evaluator`

The process inside the pod, in more detail than `EvalRun` has it and without the
controller. `main` is where main and evaluate are: each value of `main.pc` is an await,
and an action is the code from one await to the next, so the handlers can run at any
of them. `st` is the status as the API server has it, `rep` the report, `pend` the
field `pendingTerminalPatch`, `ev` the evidence collected from the target and whether
Vigil has cleared it (`aside` is text of the target that no gate is given), `tm` the termination message, `cm` the report's ConfigMap, `sig`
the flag `terminated`, `crash` where fatalCrash is.

| Code | Actions |
|---|---|
| main up to the handlers | `Boot` |
| evaluate | `FetchCRs`, `LoopHead`, `Collect`, `EnsureTarget`, `Exercise`, `scanUntrusted`, `Abort`, `Begin`, `bootOpencode`, `Answer`, `Synthesize`, `Score`, `Complete` |
| main's catch and finally | `Throw` (part of the step that throws), `Finally`, `flushTerminalPatch`, `Persist`, `Return` |
| patchStatus | `MainPatch`, `CrashPatch` |
| onSignal, fatalCrash | `Signal`, `Crash`, `CrashExit` |

A patch that is given up may have been applied by its last attempt. Patches that carry
findings only are left out: they change nothing the model keeps. Node is process 1 of
its container, so a SIGTERM that comes before onSignal is installed does nothing.

### `Requests` and `McpClient`

`Requests` is what a caller of the client may rely on, with one variable: the request
last made, settled exactly once, with data only by the answer to that very request; a
raw frame without an id takes whatever comes next. `McpClient` is everything that has to
keep this up, and `RequestsKept` is the refinement (`Promise == INSTANCE Requests`; the
variable `call` is the same, everything else is hidden).

| Variable | In the code |
|---|---|
| `tgt`, `deaths`, `work` | the target, its incarnation, and what it has received and may still answer |
| `tr`, `stale` | the transport, what it is connected to; an abandoned SSE stream |
| `pending`, `rawWaiters`, `crashEvents`, `call` | the fields of McpClient; the outcome the driver awaits |
| `shook` | history: the incarnation the handshake was completed with |
| `drv` | where ensureTarget, enumerateSurface, runFuzz and runProbes are |

The evaluator is one event loop. A handler (`Response`, `MalformedFrame`, `Timeout`,
`StreamEnds`, `BodyBreaks`, `StaleStreamEnds`, `AbortPost`) runs only while the driver awaits; the
driver's steps are `ConnectOk` and its failures, `Initialize*`, `ListPage*`, `Case*`,
`PassEnds`, `Proceed`. `Restart` and `Serve` are the supervisor, `TargetDies` the target.
`TargetCrashError` and a send on a lost connection (`TargetUnavailableError`) are told
apart as the code does: only the first makes the driver recover.

### `Chunks` and `Mesh`

`Chunks` has no state: `chunkSpans`, `chunkText` and `scanUnits` over texts as sequences
of UTF-16 units. `Mesh` is the evaluator's security layer in the order main uses it:
wait for the proxy, start the bridge, send the gate's units to the GPU scanner and then
the CPU scanner with their retries, serve OpenCode's connections, close. `dial` has the
stage of every socket (`tcp`, `greeting`, `auth`, `connect`, `chain`, then `open`,
`refused`, `hung`, `dead`), `gate` where analyze is, `conn` the bridge's connections. A
peer answers, refuses, falls silent or goes away at each stage.

### `Live`, `Chat` and `Console`

`Live` has the cluster, the server's copy of it (`store`, `reports`, `lastError`, a
`watch` per resource, the report reads `fetch`; a report is stored whole or, when it is
too large for a ConfigMap, as a prefix that does not parse), one client with its WebSocket (`down`,
`up`), its `LogFollower` (`current`, and `stray` for one that was stopped while it was
attaching), and the browser's snapshot. A client's actions on servers are checked
against the store and applied later. `Chat` follows a question through useChat,
handleChat from await to await, OpenCode with its sessions, and the gateway: limiter and
journal. `Console` puts both behind one server. They share only that the chat looks up
whether the server knows a run, and `Admit` allows both outcomes; so a behaviour of
`Console` is one of the stream or one of the chat.

## 4. Runs

| Run | Checks | Shows |
|---|---|---|
| `evalrun_safety` | `TypeOK`, `CompletedIsEarned`, `CoveredUntilTeardown`, `RetriesNeverForgotten`, `JobDeletedBeforeRun` | about 1.1 million states: the retry budget, the meaning of Completed, policy before Job and Job before run survive stale caches and a fault at any call |
| `evalrun_live` | `RunSettles`, `DeletedRunLeavesNothing` | a run comes to rest although terminal phases can be overwritten on the way; deletion at any moment leaves nothing |
| `schedule` | `TypeOK`, `NoOverlap`, `FiresNeverForgotten`, `VerdictOutlivesRun`, `FireServed`, `TriggerServed`, `VerdictMirrored`, `HistoryBounded` | the uncached list is enough against overlap; merge patches of stale copies give no fire back; mirroring comes before pruning; every fire is served and every trigger gets a run of its own; verdicts reach a paused server |
| `evaluator` | `TypeOK`, `GatedTextCleared`, `OneAfterSignal`, `CompletedIsUsable`, `ExitTellsStatus`, `MaliciousSticks`, `ProcessEnds` | about 2.2 million states: the gates fail closed for every order of personas, for the text they are given; one given-up patch leaves status, message and exit code in agreement, a stored Malicious verdict stays, the process ends |
| `client` | `TypeOK`, `CrashCountedOnce`, `FuzzedAfterHandshake`, `RequestsKept`, `DriverEnds` | about 320,000 states over three transports: late, foreign and malformed frames settle nothing they should not; a death is counted once; recovery shakes hands again; the driver ends whatever the target does |
| `mesh` | `TypeOK`, `ScannedWhole`, `FaultsTolerated`, `SocketsReleased`, `LayerEnds` | about 226,000 states: no stretch of text up to the overlap escapes the scan, wherever white space and surrogates fall; only a failing CPU scanner stops a gate; timers free every socket |
| `console` | `TypeOK`, `StoreMirrored`, `LogExact`, `SessionOfRun`, `SlotsBalanced`, `HopsComplete`, `CatchesUp`, `AskSettles` | about 708,000 states: snapshot and broadcasts add up through every reconnect; a re-attached log is not duplicated, in one batch or in several; the chat keeps runs apart, shows no hops with a hole as complete and always gives the model back |
| `policy_leak` | `PolicyGoneOnceTerminal`, violated | the egress policy stays when the evaluator writes the terminal phase first |
| `eviction` | `EvictionIsRetried`, violated | an eviction seen before the Job's condition fails the run |
| `fires_once` | `FiresOnce`, violated | a crash between createRun and patchStatus runs one fire twice |
| `verdict_lost` | `VerdictSurvivesOutage`, violated | a Malicious verdict whose patch was given up is dropped for the poorer patch that follows it |
| `ungated` | `PayloadsScanned`, violated | in strict mode a persona is prompted with capabilities or with the server's own error message, which no gate was given |

The five violations are disagreements between the code and its documentation; each
is a finding in `PROJECT.json` with the line it contradicts. `MaliciousSticks` and
`VerdictSurvivesOutage` are two sides of one promise: a verdict that was stored is
safe, one that was not is lost. `GatedTextCleared` and `PayloadsScanned` divide another:
the gates fail closed for what `vigilsegments.ts` hands them, and not all text of the
target is handed to them.

### Bounds

- `MaxRetries` is 2 in the code and 1 (0 in the liveness run) in the configurations;
  the interesting cases are the last retry and the refusal after it, and the theorems
  hold for every value. `MaxJobs` = 2: one Job and its replacement, which is what
  confusing one attempt with another takes.
- `NAgents` = 1: `EvAgent`/`EvResult` repeat per persona without new control.
- `RunLag`, `KubeLag` = 1: a cache misses one version of its object at a time. The
  environment waits when a cache would fall further behind (`Paced`); the theorems
  hold for every lag.
- `MaxFaults` = 1: one deletion, lost reference, API error, crash, deadline, TTL,
  eviction, OOM, lost patch or lost termination message, at any point.
- `EarlierPodsGone`: a new pod reaches its first persona only after the pod of the
  previous Job is gone. A terminating pod has 30 s; the new one has to be scheduled,
  clone, install and boot.
- `Period` = 2, `MaxTime` = 4 (two fires), `MaxRuns` = 2, `Limit` = 1, one trigger, and
  one fault, edit or second trigger, at any point of a reconcile. A trigger that is set
  between createRun and clearTriggerAnnotation goes with the run just created;
  `TriggerServed` leaves it out. `MaxWalk` = 2: after an outage over both fires the walk ends at its
  bound, with the newest fire just reached. With a shorter bound (in the code: more than
  1000 missed fires) `FiresNeverForgotten` fails: a trigger records the present time, and
  a reconcile that works from a copy older than that records the earlier fire at which
  its walk stopped. This run does not cover a walk that is cut short.
  A patch that conflicts (clearTriggerAnnotation sets the resourceVersion) is the fault
  that ends a reconcile. `Outcomes` has a failure
  and a malicious verdict: `syncLatestRunResult` treats a completion like the second.
- A behaviour that runs into `MaxJobs` or `MaxRuns` sees failing API calls; the
  liveness properties except it (`OutOfJobs`, `OutOfRuns`).
- `Evaluator`: two personas of any kinds (25 suites) in every Vigil mode, which is what
  collecting evidence twice and stopping between two personas take; one fault: a call
  that fails after its retries, a stray error or the deletion of the run. One persona
  with three faults passes as well and shows nothing else.
- `McpClient`: `MaxRestarts` = 2, so that the target dies, recovers, dies again and stays
  away; two tools, two cases each, three protocol cases of which two have no id;
  `MaxPages` = 2 (50 in the code), `MaxTries` = 2 handshakes in a deadline; one malformed
  frame or silent endpoint; one request that timed out and may still be answered, next to
  the one that is awaited, which is what confusing two takes.
- `Mesh`: texts of no and of ten units, chunks of six with an overlap of two (500 and 100
  in the code), at most one white space and one surrogate pair, at every position, and a
  second text that is the same again or an echo; `CpuRetries` = 2 (3 in the code); two
  connections of OpenCode.
- `Console`: one run and one server, two changes in the cluster and one failure of a
  watch, call, stream or socket; two log lines, so that a batch may be appended to another
  and a second attachment would duplicate either; two attempts to read a report (6 in the code); `MaxQueue` = 1 holds log batches back
  while messages are on the socket. Two panels, two runs to ask about, two questions with
  up to two model calls each, a ring of two entries, one slot, one remembered session and
  one outage: every limit is reached and passed, and the ring turns over between a cursor
  and its read. No question follows the eviction of a session here; that case rests on
  `OneRunPerSession`.
- Deadlock is not checked: a settled run, a server with no time left and a process that
  has ended have nothing to do.

### Fairness

`EvalRun`: the work queue keeps reconciling (every reconcile that does not end the run
requeues itself, and every write is an event), a reconcile comes to its end, watches
deliver, and the evaluator, kubelet, Job controller and garbage collector make progress
when they can. The last two are strong only because the model lets caches catch up
between reconciles and holds the environment back while a cache lags; in the system
neither waits. Nothing is assumed of deletions, faults, deadlines or TTLs.
`ServerSchedule`: the reconcile is requeued for the next fire at the latest, or within a
minute while a trigger waits; watches deliver; runs settle and deleted runs go, which is
`evalrun_live`. Nothing is assumed of time.
`Evaluator`: main comes to the end of every await. Calls to the API server, Vigil and
the target have timeouts and bounded retries, a persona is raced against its timeout
(`evaluator.ts:512`). Nothing is assumed of signals, errors, deletions or fatalCrash.
`McpClient`: the event loop runs what is ready, request timers fire, the supervisor
restarts the target. The target owes nothing, not even to die or to answer.
`Mesh`: main goes on; every dial, request and idle connection has its timer
(`meshhttp.ts:583`, `pipeSockets`, `collectResponse`); OpenCode, told to stop, closes its
connections. Peers owe nothing.
`Console`: informers deliver and restart, timers fire, calls to the API server return,
the browser reconnects and handles its messages; every await of handleChat has a timer.
Nothing is assumed of the log stream, OpenCode or the gateway. `CatchesUp` is about
behaviours in which the watches stay up in the end.

## 5. Proofs

TLAPS proves the following for every value of the constants that the assumptions below
allow. In each module of proofs the invariant comes first, then what the operators of
the model return, then one lemma per group of actions with a case per action, and the
theorems last.

### Runs and servers

| Theorem | Inductive invariant, and why the property alone is not one |
|---|---|
| `EvalRun_proofs!TypeCorrect`: `Spec => []TypeOK` | `TypeInv` adds `Shaped(rec)`, the order of the API calls. Without it a patch could follow a reconcile that never computed a status. The bound on retries follows from `retryJob` comparing the value it increments. |
| `Earned`: `Spec => []CompletedIsEarned` | `EarnedInv`: until an evaluator succeeded, no object, cache, pod, Job condition or pending patch holds anything a success could be derived from (`NoSuccessYet`). The status alone says nothing of what the next reconcile reads. |
| `FinalizerKeepsJobFirst`: `Spec => JobDeletedBeforeRun` | `FinalizerInv`: while a reconcile works, a live run has its finalizer; a reconcile about to drop it has deleted the Job, and the one controller cannot be creating another. |
| `PolicyCovers`: `Spec => []CoveredUntilTeardown` | `CoverInv`: before the teardown the cache is right when it shows the policy, and a reconcile about to create the Job or to label a pod has seen or created it. |
| `BudgetOnlyShrinks`: `Spec => RetriesNeverForgotten` | `BudgetInv`: the stored count is the cached one or its successor, and what a reconcile wants is the count it read or its successor; since a reconcile's copy is the cached one, its patch never lowers the stored count. |
| `UncachedListPreventsOverlap`: `Spec => NoOverlap` | `CreateInv`: between the uncached list and the creation no run becomes active, because only this controller creates runs and reconciles a server once at a time. |
| `ServerSchedule_proofs!TypeCorrect`: `Spec => []TypeOK` | `DateInv` adds `Timed`: a reconcile serves a fire not after the time at which it looked at the clock, no date was stored since that is later, and it writes the date it read or one that is not in the future. |
| `FiresKept`: `Spec /\ [][FromRecentCopy]_vars => FiresNeverForgotten` | `Kept`: the fire a reconcile serves is in the period of its clock, and what it writes is either the date it read, which a merge patch leaves out, or a date not before the stored one's period. `FromRecentCopy` is discussed below. |
| `VerdictsOutlive`: `Spec => VerdictOutlivesRun` | `ShownInv`: a reconcile shows the newest verdict of the list it prunes from, the stored status is not behind the cached one (so a patch that is left out by the merge has been made already), and whatever is shown has a verdict. Pruning after the patch is safe only because all of these talk of one list. |

### The evaluator's pod

| Theorem | Inductive invariant, and why the property alone is not one |
|---|---|
| `Evaluator_proofs!TypeCorrect`: `Spec => []TypeOK` | `Typed`, with `Shape`: which patch main awaits and where it goes from there. |
| `GatesFailClosed`: `Spec => []GatedTextCleared` | `ScanInv`: evidence that is not cleared is being scanned or ends the run. A persona may reuse what an earlier one collected, so the claim is about every place main can be in, not about the prompt. |
| `SignalHeeded`: `Spec => []OneAfterSignal` | `SignalInv`: after the persona a signal let through, main prepares none. |
| `CompletedBacked`: `Spec => []CompletedIsUsable` | `UsableInv`, `PendInv`: while no patch was given up, the results of all personas before the current one are in the status or in the patch main awaits; a Completed patch is remembered for the flush only on the way out of a success. |
| `ExitAgrees`: `Spec => []ExitTellsStatus` | `OutcomeInv`, `PendInv`: with at most one patch given up, either the status has the report's phase or the patch is still remembered, up to the flush; afterwards the status has it. |
| `VerdictFinal`: `Spec => MaliciousSticks` | `VerdictInv`: after a verdict of Vigil main only fails, and the only patches left, also that of a racing fatalCrash and of the flush, carry Failed and no other risk. |
| `McpClient_proofs!TypeCorrect`, `CrashesCounted`: `[]CrashCountedOnce`, `HandshakeFirst`: `[]FuzzedAfterHandshake` | One invariant: the pending map is the awaited request and nothing else (`Awaiting`); what was counted before a connection came up is at most the deaths before it, and a connection that reads as up may count one more only if its target died since (`Counted`, `Supervised`); a connection used for listing or fuzzing is to the incarnation that shook hands (`Shaken`). A count alone does not say which notice of a death is the first. |
| `PromiseKept`: `Spec => Promise!Init /\ [][Promise!Next]_call` | The refinement of `Requests` step by step, from the same invariant: only `Awaiting` shows that a late or foreign frame cannot settle the request. |
| `ChunkTextCovers` | No state: what `chunkText` computes for every text. A turn of the loop of `chunkSpans` keeps that every piece fits, is longer than the overlap unless it is the last, and that every window up to the overlap before the end of the last piece lies in one (`TurnLoop`), also when a start moves past half of a surrogate pair; each turn moves forward, so the loop reaches the end of the text (`SpansLoop`). |
| `Mesh_proofs!TypeCorrect`, `GivenUpLast`: `[]FaultsTolerated`, `NothingUnscanned`: `[]ScannedWhole` | `IInv`: the gate's units are those of the evidence (`UnitsOfEvidence`), every unit before the one at hand has a verdict whichever scanner gave it (`Progress`), and the failures of the CPU scanner add up to its attempts (`Counted`). `NothingUnscanned` then composes with `ChunkTextCovers` and with what dropping blanks and echoes and deduplicating keep. |

### The console

| Theorem | Inductive invariant, and why the property alone is not one |
|---|---|
| `OneRunPerSession`: `Spec => []SessionOfRun` | `IInv`: where every handler is and what its session was told (`Asking`), that entries of `sessionRun` agree with it although they can be evicted and OpenCode forgets sessions (`Entries`), and that a browser holds only sessions of answered questions (`Given`). A handler uses after two awaits what it checked before them. |
| `SlotsGivenBack`: `Spec => []SlotsBalanced` | Inductive by itself, with the types. |
| `HopsWithoutHole`: `Spec => []HopsComplete` | `Ring`: the journal is the last entries in order, and all of them while it is not full; no cursor is ahead of it. |
| `StoreKept`: `Spec => []StoreMirrored` | `LiveInv`: inductive with the types of the socket: each message changes the browser-to-be exactly as the server changed its store. `Replay` is the loop of the browser over the messages, of any number. |
| `LogsKept`: `Spec => []LogExact` | `LiveInv`: the log must be right after each of the messages on the socket and not only after the last (`LogsAhead`), because `onclose` drops the rest and leaves the browser with any of those states; and what was sent must be all a follower has read but what is pending (`BatchesAddUp`), or the next batch would leave a hole. |
| `Console_proofs!TypeCorrect`: `Spec => []TypeOK` | Both invariants. |

### Assumptions

- `BoundsAssumption`, `EvaluatorAssumption`, `ScheduleAssumption`, `ClientAssumption`,
  `MeshAssumption`: the bounds are naturals, and there is at least one Job, persona,
  version of lag, run and page.
- `FromRecentCopy` is a hypothesis of `FiresKept` alone: a reconcile starts from a copy of
  the server whose date is behind the stored one by at most `MaxWalk` fires (1000 in the
  code), however long the server has lived and however long ago it was last evaluated. It
  is necessary: without it TLC finds the behaviour described under the bounds of `ServerSchedule`, in which a walk
  that is cut short writes an older date back. The `schedule` run satisfies it.
- `ChunkAssumption`: `Overlap + 1 < MaxChars` and `Overlap <= 4/5 MaxChars` (100 and 500
  in the code). A piece may end at white space after four fifths of its length, and one
  unit earlier when it would split a surrogate pair; with a larger overlap
  the next piece would start where the last one ends, without any overlap.
- `ChatAssumption`: the marks `Plain` and `Nobody` are no runs. `LiveAssumption`: runs and
  servers have different names, and a report is tried at least once (`REPORT_ATTEMPTS`
  is 6).

### Recursion and induction

The prover cannot instantiate an induction principle that takes an operator. `Iteration`
states it over sets instead (`SetInduction`, `BoundedInduction`, from the least element
of a set of numbers) and derives from it that a loop which maps a set into itself has a
history (`Iterates`). So what the recursive functions `chunkSpans` and `Replay` compute
is proved for every input. It takes a form of the model that can be reasoned about: the
body of `chunkSpans`' loop is the operator `Turn`, `Replay` is a recursive function, and
the keys of requests in `McpClient` are numbered by the naturals, of which `Fresh` takes
one nobody remembers; few are ever in use at once, so TLC's state space stays finite.

### Only model-checked

Everything about liveness, since fairness and ENABLED are beyond the prover: `RunSettles`,
`DeletedRunLeavesNothing`, `FireServed`, `TriggerServed`, `VerdictMirrored`,
`HistoryBounded` (that pruning reaches its limit), `ProcessEnds`, `DriverEnds`,
`SocketsReleased`, `LayerEnds`, `CatchesUp`, `AskSettles`, and of `RequestsKept` that every
request is settled in the end. The five violations are counterexamples and need no proof.

## 6. Not modelled

Pod templates, network policy rules, prompts, scores and their parsing, generators and
detectors of the fuzzer, the static scan, redaction, byte-level parsing of frames and
proxy replies, logging and tracing are data. Leader election is controller-runtime's: one
active replica is assumed. The cloner, the activity server and readiness probe, the
corpus loader and the console's display functions have no module; `PROJECT.json` gives
the reason for each.

Left out inside the modules, with no property that depends on it: `Live` has one pod per
run (the code follows the newest), no agents informer and no 503 of `createServer` when no
agent is installed, and a log stream that breaks is attached again like one that ends (in
the code only the end does so, `live.ts:226-229`); `Chat` does not filter the journal by
client, and one step stands for every exit of the gateway's proxy, the fallback upstream
included; `Mesh` always has a GPU scanner, without which a gate behaves as it does once
that one failed, and its texts are those of the fields that `vigilsegments.ts` picks.

## 7. Behaviours a reader should know of

These are in the model, or next to it, and break no property above; they are where a
property had to be stated with an exception.

- A report too large for a ConfigMap is stored as `summary.json` and
  `report.truncated.json`, "not valid JSON by design" (`k8s.ts:95-96`). `maybeFetchReport`
  falls back to the prefix (`live.ts:152`), JSON.parse rejects it at each of its six
  attempts, and the console never shows that report. `CatchesUp` promises reports that are
  stored whole.
- A reconcile that derives the phase from a stale copy of the run lowers the phase the
  evaluator has patched since, a terminal one included: the ranks are compared with the
  cached phase (`mcpevaluationrun_controller.go:582`) and the merge patch carries no
  version, although `Rank` is there "so the controller never downgrades a phase set by the
  runner" (`mcpevaluationrun_types.go:48`). `RunSettles` is what remains of it: such a run
  still comes to rest.
- While creations of runs are rejected, `createRun`'s error returns before patchStatus
  (`mcpserver_controller.go:187`) and no verdict is mirrored; `VerdictMirrored` holds
  because faults end.
- A POST that breaks off after its headers is no crash to the client
  (`mcpclient.ts:510-514`); the death is counted at the next send, unless the target is
  back by then.
- A death of the target that is noticed while no case is pending is not recovered from:
  later sends end as `TargetUnavailableError` (`mcpclient.ts:182`), and runFuzz and
  runProbes recover only after `crashed` (`fuzz.ts:461`, `probes.ts:222`).
- On SSE the end of an abandoned stream counts as a crash; with streamable HTTP a restart
  between two calls goes unnoticed (exceptions in `CrashCountedOnce`,
  `FuzzedAfterHandshake`).
- Through an HTTP proxy, a CONNECT whose proxy hangs up before it replies never settles
  (`meshhttp.ts:631-660`), and `bridge.close()` waits for it; `LayerEnds` excepts that
  scheme. `server.close` is awaited before `closeAllConnections` (`:697`).
- An informer whose start is rejected is not started again (`live.ts:119`, `:127`), and the
  first CONNECT of any resource takes the shared error back. `CatchesUp` therefore assumes
  that the watches stay up.
- A `LogFollower` that is stopped while it attaches streams on (`live.ts:199-233`), and its
  lines mix with those of the next one; `LogExact` excepts those runs.
- After an answer timeout OpenCode still works on the question when the next one is
  admitted; its calls are then among the hops of the next answer. The journal entry of a
  call is added after its response, so the last hop may also be missing from its own
  answer. `HopsComplete` is about the entries, not about whose they are.
