# A TLA+ model of quantz

quantz is a trading agent: a loop polls a market, closes and opens paper
positions, asks a planner for a decision, submits it to a risk governor,
records what happened and learns from the records. A FastAPI server starts and
stops the loop, ingests ticks and streams the state to a console.

This directory holds TLA+ modules translated from the code in `src/quantz`, the
TLC configurations that check them on small instances, and proofs, checked by
TLAPS, of the properties that matter most for every instance. Source paths
below are relative to the repository; `PROJECT.json` maps every definition to
its lines.

## The system

| Component | State | Operations | Talks to |
|---|---|---|---|
| Agent cycle, `agent.py`, `cli.py:354-430` | locals of one cycle | `run_once`, `_monitor` | everything below, by calls |
| Paper portfolio, `paper.py` | `paper-state.json` | `reconcile`, `open_count`, `open_position` | the cycle; read by the console, reports, promotion |
| Experience store, `memory.py`, `memory_sqlite.py` | a JSONL file, or a database | `append`, `read_raw`, summaries, lifecycle rows | the cycle, memory context, reports |
| Vector memory, `vector_memory.py` | a database of documents | `upsert`, `search`, `compact` | the cycle (index), memory context (search) |
| Memory context, `memory_context.py` | none | `build` | reads both stores for the planner |
| Planners, `planner.py` | none | `decide`, `DecisionPolicy.apply` | an HTTP API, the audit log |
| Risk governor, `risk.py` | none | `evaluate` | between the planner and the broker |
| Brokers, `broker.py`, `bridge.py`, `scripts/mt5_bridge_server.py` | the broker's orders | `place_order` | HTTP, MetaTrader |
| Feeds, `market.py` | simulated market state | `snapshot`, `state` | the cycle |
| Monitor sessions, `autonomous_runtime.py` | a thread, its stop event, `monitor_state`, `monitor_events` | `start_agent`, `stop_agent`, `_monitor_loop` | API threads, the cycle |
| Event stream, `api/app.py:189-202`, `autonomous_runtime.py:507` | `event_sequence`, a condition | `_notify`, the SSE generator | every writer, every console |
| Ticks, `autonomous_runtime.py:291-302,492` | a buffer of 500, a tape file | ingest, reload | the EA, the console |
| Settings, `config.py`, `api/settings.py` | files, a database, the environment | load, patch | the server |
| Replay, report, promotion, `replay.py`, `report.py`, `promotion.py` | files of an output directory | backtest, gate | the portfolio, the store |
| Review, compare, candidate, experiment | files of an output directory | two monitor runs and a verdict | the cycle, the store |
| Orchestrator, `orchestrator.py`, `agent_tools.py` | a transcript | bounded tool calling | an HTTP API, the replay |
| Stack supervisor, `stack.py` | child processes | start, watch, terminate | the servers |

What is hard in it:

- **Three stores, no transaction.** A cycle writes the portfolio (up to twice),
  the experience store and the vector index. The process can die between any
  two writes and in the middle of one; exceptions of feeds, the analyst, the
  planner and the stores leave the cycle anywhere.
- **Threads.** API threads, the session's thread and the event loop share
  `monitor_state`, the stop event, the list of events and the event sequence.
- **A stop is a request.** It can arrive anywhere in the loop.
- **Waiting without a predicate.** `_wait_for_event` sleeps whatever the
  sequence is, so it relies on its timeout.
- **Files and accounts that several processes use.** The console's monitor and
  the CLI's may trade on one portfolio file and one MT5 account; a number read
  is used after others have changed it, and no file is locked.
- **Orders without an answer.** A POST may time out after the broker has filled
  the order, and `order_send` may answer nothing.
- **Directories used again.** Training sessions, experiments and imports start
  from what an earlier one, perhaps killed, has left.

## What is modelled

### TradingAgent, PaperLedger

`TradingAgent` is one process running `_monitor` (or the server's
`_monitor_loop`, which lacks the cooldown) over `TradingAgent.run_once`, with
`PaperPortfolio`, the experience store and the vector index.

| State | Code |
|---|---|
| `open`, `closed`, `paperFile` | `paper-state.json`; `paperFile = "torn"` when it does not parse |
| `memory`, `tail` | the parsable records; whether a JSONL file's last line has its end |
| `indexed` | decisions with a vector document |
| `pc`, `symbol`, `hits`, `justClosed`, `counted`, `status` | the locals of `_monitor` and `run_once` |
| `decision`, `failures` | names for decisions; a count of what went wrong, for the bounds and the loss properties |

One action per write: `Snapshot` (`market_feed.snapshot`), `CooldownReconcile`
(`cli.py:390-406`), `Reconcile` (`agent.py:45-56`), `Decide` (`agent.py:57-90`),
`OpenPosition` (`agent.py:91-111`), `AppendRecord` (`agent.py:115`), `Index`
(`agent.py:116-125`). `Fail` is a kill or an exception between writes,
`FailInPaperWrite` and `FailInAppend` one inside a write, `UnreadablePaper` is
`_read_state` raising. A position is named by the decision that opened it and a
record by its decision; prices are abstracted to the set `hits` of positions the
snapshot closes; the planner and the governor to the answers they may give,
which the governor's symbol veto limits (`risk.py:50`).

`PaperLedger` is what the cycle promises: a position is opened, closed and
reported, in that order, one step at a time, and only a lost file loses it.
`LedgerImplemented` is the refinement, with `reported` mapped to the union of
the records' outcomes.

What the code promises under failures is less than its documents say, and the
module states exactly how much less, in the two parts of `LossBounded`. `TraceLossBounded`: each failure leaves at
most one position that cannot be traced to its decision (two with JSONL, because
a record appended behind a line cut short is skipped with it).
`OutcomeLossBounded`: the same for closed positions whose outcome reaches no
record. Without failures both say that nothing is lost.

### MonitorSession, SessionControl

`MonitorSession` is `AutonomousRuntime`'s thread per session. `start_agent` and
`stop_agent` hold `monitor_lock` and are one action each; `_monitor_loop` is cut
at every point another thread can be seen from: building the agent, the `while`
condition, the check per symbol, the fetch, the cycle, the wait, the `finally`
clause and the notification after it (the thread is still alive there, so a
start answers "already_running"). `Raise` is an exception of the settings, a
feed or the agent. `RestartServer` kills the daemon threads and starts with the
state of `__init__`. `late` counts the cycles a thread began after its stop
event was set. `TruthfulStatus` says what a console may conclude from the
status (`StoppedIsQuiet`, `RunningIsLive`), `StopCompletes` that a stop is
carried out (`StopQuiesces`) and shown (`StoppingSettles`).

`SessionControl` is the console's view: idle, running, stopping; a stopping
session begins at most one more cycle, and ends. `SessionImplemented` is the
refinement, fairness included.

### EventStream

Writers change what is shown and then call `_notify`; consoles connect, are sent
a snapshot, wait in a thread of asyncio's pool, and are sent an update when the
sequence has moved. The read of the sequence, the payload and the start of the
wait are separate steps, so notifications are missed in the model as they are in
the code; the timeout of `wait` is the disjunct of `WaitOver` for a console that
was not notified. A console that goes away frees its place in the queue but not
the thread its wait has. `NotifyLost` is an exception between the change and the
notification, which tick ingestion can raise (`autonomous_runtime.py:299`).
Payloads are abstracted to the number of the last change in them. Two payloads
never overlap on the event loop; they only read, so the model does not exclude it.
`EveryConsoleServed` is that every notified change reaches every console that
stays (`UpdatesReachConsole`) and that no wait is queued for ever (`PoolServesAll`).

### DecisionPipeline

From the context `run_once` has built to the order it places:
`PlaybookSelector.select`, `VariableDrivenPlanner.decide`,
`AIDecisionPlanner.decide` with `_normalize_payload`, `DecisionPolicy.apply` and
the two stand-ins for a missing answer, `RiskGovernor.evaluate` and
`_position_size`. `TradingAgent` takes any answer of planner and governor;
this module says which answers there are.

Numbers are integers in the units the module's head lists (lots, percentages and
ATR factors are such that the code's products stay whole). `PerUnit` is the
contract size in those units, 10 for XAUUSD. Three conversions are modelled by
what they do: `int(raw_lot / lot_step)` floors, and may lose one more step when
the quotient of two floats should be whole (`Lots` offers both); `min` and the
minimum lot follow; the clamps of confidence are in `Clamp`. With lot steps of
whole hundredths `round(..., 2)` does nothing, and rounding prices to five
digits is below the unit. `Scenes` holds what the cycle may find (market,
account, memory, playbook, analysis) and `Answers` what the model may say.

The settings are in the scene, so one behaviour passes through several agents,
and they are one record because `services.py:67-103` builds the planner, the
policy and the governor from one object; that they agree is checked
(`PolicyAnswersForGovernor`). Left out: the block on news, which no
configuration can switch on because `AgentSettings.constraints` has no
`max_news_risk`; several playbooks, of which the first that fits is taken; an
account with equity zero, on which `evaluate` would raise.

### SqliteLifecycle

The two experience stores and what is read back. `RecordCycle` appends what a
cycle of the agent can put on record to the store the settings name, `StartImport`
to `EndImport` are `import-memory`, one transaction per row, started at any time,
beside an agent, and cut anywhere (`CutImport`). `AppendRaw` is `append_raw`: a
replaced row gets a new id, and the decision's executions and outcomes are
deleted and written again. The reads are operators: `ReadSymbolRaw` and
`JsonlSymbolRows`, `Summary`, `Lessons` and `Context` (what the planner is given),
`Lifecycle` (`decision_lifecycle`). `TerminalStays` is about the answers of
`Lifecycle` along a behaviour. `ImportKeepsContext` is about the planner's context after a
whole import beside which nothing was decided (`undisturbed`): it is that of the rows
the agent wrote to the table itself (`Own`) followed by the file's, so imported
decisions count as the newer ones, whenever they were made; where the table had no rows of
its own it is the context of the file. A trade's outcome is filed
under the decision that saw the close, not the one that opened the trade.
`file` is what `read_raw` understands of the file: lines cut short are in `TradingAgent`,
and rows without a decision, which `import_jsonl` passes over, are written by no agent.
Rows carry decision, symbol, verdict, execution and closed trades; the wording and
the other columns are left out, and so are `reason_quality`, the regime and the
risk posture.

### VectorMemory

`append_record` of several indexers on one database: `Upsert`, then `compact` as
`ReadRows`, `Mark` and `Summarize`, each of which others may act between. `Abort`
is an exception (a locked database, swallowed by `agent.py:124`) or a kill.
Documents are told apart by the time of their decision and their symbol. What a
compaction cut between its two transactions loses is collected in `dropped`, so
`FoundOrSummarized` says that nothing else is lost (`NothingForgotten`) and that a
document is never active and in a summary (`NeverBoth`). It can be in two summaries: two
compactions that read the rows before either has marked them summarise them both, and
nothing in the code prevents it. `OnceEach` says that this is the only way: a document
is in no more summaries than there are processes that compacted it (`told`), each
once. `SearchWindow` says that the newest documents
stay active (`RecentKept`) and not many more: the limit plus what aborted compactions
and the other indexers' documents add (`ActiveBounded`). The search also ranks the
`context_summary` documents, which are never compacted; their number is not bounded by the code
and not counted by the property.

### SettingsStore

The API server's settings and its ticks. A `PUT /api/settings` is a transaction
for each setting (the ones other than the key are one, `config`), a read of the
key and a write of the environment; requests run in threads and meet, and any of
the transactions may raise (`FailPut`): the request is answered with an error and
what it had written stays. Ticks go to the buffer and then to the tape; a line of the
tape may be missing, torn, or whole without its end (`Taped`), and a line that begins
behind such an end is lost with the one before it. `Restart` kills the requests and
reads the key and the tape.

`ServerMatchesDisk` is about both. `KeyInUse`: with no request in flight each setting is
what the patches ask for in their order (`patched`), except for what is in `doubt`, which
the model computes step by step: what a request that failed or was killed had not written
yet (`Missing`), and everything after requests that met, until a request alone
writes it again (`Settled`). The key the planner uses is the stored one; after the stored
one is deleted it is the key that was in use then (`kept`), because
`apply_environment` never removes one, and after the next restart the shell's.
`TapeKeepsTicks`: the buffer is the end of the tape unless a write since the start failed
or met an unended line (`untaped`), and the tape lacks at most two ticks for each write
that failed (`failed`).

### LiveExecution

Traders (the CLI's monitor, the console's) on one MT5 account, over the bridge
or in their process (`rail`). `ReadAccount` is the account feed, with
`positions_get()` failing into a count of none; `MayOpen` the governor's limit;
`OrderSend` one call of `order_send` with the next filling mode, of the adapter
and of the bridge server alike, with its answers: filled, any other code, INVALID_FILL
(`Told`), or None. None is booked as the code books it, as an order that was not accepted
(`broker.py:78`, `mt5_bridge_server.py:106`), although the terminal may have executed it; `silent`
remembers these orders, and `RecordsTellTruth` says that they are the only ones whose
record may be wrong. Over the bridge the server's thread goes on after the trader has given up
(`GiveUp`: a time-out, a lost answer, an exception, a kill). The terminal is
external: a retcode other than DONE is taken for a definite refusal, as the code
takes it; None means either. `ExposureBounded` says how far the account can
pass `max_open_positions`: by orders in flight, traders that have read and not yet
ordered, orders given up, and blind reads. `UnrecordedBounded`: positions no record
owns to are at most one per order given up and one per order refused on record for
want of an answer. The planner, prices and the paper side are left out.

### PaperBook

Monitors sharing one `paper-state.json`: reconcile and open are a read, a
truncation and a write, with others in between. `clash` remembers that a write fell
between another's read and write (or a read met a truncated file); `TrueAccount`
holds until then, so it says that these meetings are the only danger; the lost
update itself is in the model, excluded by the property, and prevented by nothing in
the code.
`TradingAgent` has the crashes; this module has the interleavings.

### TrainingRun

`train-agent` sessions on one output directory. The orchestrator's loop (`Think`,
`StepsOver`), the rule brain (`RuleTool`), the model's brain, which may call any
tool, and the four tools. `run_backtest` is a replay candle by candle: `Cycle`
(reconcile at the candle's quote, decide, open), `Record` (the append), `Hits`
(close against the candle's range), then report and gate, written one after the
other. `BacktestFails` is an exception in the replay, `CutSession` a kill;
what the directory has then is what the next session starts from. Prices are
integers, a stop loses 1 R and a target wins 2; the replayed planner trades
either side or holds. `BuildReport` merges the closes of the portfolio with those
of the records (`_closed_positions`), `GateReasons` is `_gate`.
A model's arguments are taken to be the session's. `EvidenceComplete` is about what a
session decides by. The report accounts for every execution and every position of its directory,
and for each run that was cut it misses at most the record of one position (`ReportBalances`). A gate that allows has
seen enough trades, which stays true; and until a backtest is begun or cut, the directory
has no open position and its trades are good enough for the stage, also when earlier runs
there were cut (`GateSeesWholeRun`; the model notes in `gate.cuts` how often something had been
cut when the file was written). Both files are merged in the report, so neither notices that the
outcome of a position that `Hits` closes is in no record.

### Experiment

`quantz experiment`, stage by stage, with the files each leaves, killed at any
stage and begun again in the same directory. `_run_monitor` takes any TypeError for a monitor
without `quiet` and starts it again on the same memory: `BaseRaises` and `CandidateRaises`,
of which a second one in the same stage ends the experiment like a kill. A monitor run adds wins, losses,
open positions and rejections per symbol (`Yields`); a run killed half way is a
run that gained less. `Losers`, `ScansTooOften` and `LosesOverall` are the
recommendations that change a candidate, `Candidate` the builder, `Verdict` the
comparator. `FairTrial` has three parts: the candidate can trade (`CandidateTrades`),
the two sides have run equally often but for kills, which leave the base one run
ahead, and second starts, which add one to either, and the candidate on the market its
base left (`EqualFooting`); and no two results are each better than the other (`VerdictOneWay`). What the
verdict is does depend on which side is the candidate: it has to win. Averages are
compared by products, so the rounding to four digits
is left out.

### StackSupervisor

`run_stack`: `Popen` per service, which may raise before the `try` block, the health
wait (which goes on after 45 seconds like after success), the polling loop,
`_terminate` with its two loops and the deadline they share. Services exit, hang, go
deaf to SIGTERM. `NoneForgotten` names the two ways to be left with children: an
exception or a Ctrl+C outside the `try` block, or in the `finally` block.

### Composition

`MCMemory`, `MCExecution` and `MCOperations` each check several modules that share
no state, as a sum: a behaviour is of one of them while the others have not begun.
Modules that do share state are composed in one module each: the cycle with its
three stores in `TradingAgent`, planner, policy and governor in `DecisionPipeline`,
traders with bridge and terminal in `LiveExecution`, orchestrator with replay,
portfolio, report and gate in `TrainingRun`.

## The runs

| Run | Module, bounds | Shows |
|---|---|---|
| `agent` | MCTradingAgent, 2 symbols, 4 decisions, 2 failures, both stores, with and without the cooldown | `OnePositionPerSymbol`, `OutcomeReportedOnce`, `LossBounded`, `UnreadableStopsTrading`, `CooldownHonoured`, `LedgerImplemented` |
| `agent_cooldown_outcomes` | cooldown, no failure | violated: `OutcomesRecorded` |
| `agent_index` | no failure | violated: `ExperienceIndexed` |
| `session` | MCMonitorSession, 2 sessions with and without a limit, 2 symbols, 2 iterations, 2 events kept, restarts | `OneLoop`, `TruthfulStatus`, `OneLateCycle`, `StopCompletes`, `SessionImplemented` |
| `stream` | 2 consoles, 2 writers, 1 pool thread, 2 changes | `HeartbeatOwesNothing`, `EveryConsoleServed` |
| `decision` | three settings (paper with the variable planner, paper with the AI planner that falls back, live with the one that fails closed), scenes at every limit | `OrderWithinRisk`, `ProtectiveStops`, `PolicyAnswersForGovernor`, `FailsClosed`, `LiveNeedsMemory` |
| `decision_live_playbooks` | the live settings | violated: `LivePlaybooksOnly` |
| `memory` | MCMemory: 2 symbols, 3 decisions, 2 imports, 2 rows of context; 2 indexers, 5 documents, limits 2 and 1, an abort; 2 requests, 3 patches or 4 ticks with a buffer of 2, a restart | `TablesAgree`, `ImportKeepsContext`, `TerminalStays`; `FoundOrSummarized`, `SearchWindow`; `ServerMatchesDisk` |
| `execution` | MCExecution: 2 traders, limit 1, 3 orders, a lapse, a blind read; 2 monitors, 3 trades | `RecordsTellTruth`, `UnrecordedBounded`, `ExposureBounded`; `TrueAccount` |
| `operations` | MCOperations: 2 sessions, 2 backtests of 2 candles, 3 steps, both brains, one stage, a cut; 2 experiments, with a kill or a monitor that raises (where the base trades one symbol); 3 services, one deaf | `EvidenceComplete`, `SessionEnds`; `FairTrial`; `NoneForgotten`, `OneForAll` |
| `training_gate` | the rule brain, 5 steps, two stages | violated: `SatisfiedMeansPassed` |
| `training_look_ahead` | one session | violated: `NoLookAhead` |

Why the bounds are enough. Two symbols let a position of another symbol be
affected by a reconcile; enough decisions let a symbol open, close, open again and
close while a failure and its aftermath (the swallowed second record) happen in
between; two failures let a second one hit the recovery from the first. Sessions
start while the one before is dying; two iterations of two
symbols let a stop fall before, between and after each. Two writers notify two changes out of order; one pool thread for two
consoles makes one wait for the other's timeout. The scenes of `DecisionPipeline`
lie on, just inside and just outside each threshold (trend, volatility, spread,
margin, daily loss, positions, samples, risk, confidence), an equity small enough
for the minimum lot, a playbook with its own distances and risk, and answers with
a stop missing, at the entry, near it (the cap) and at a usual distance. Three
decisions are more rows than a context shows, and let a trade be opened, closed by
another decision and imported twice; five documents over a limit of two make both
indexers compact, one with rows the other has marked; four ticks over a buffer of two let two fall out
and a line be lost with the one beside it; three patches let one fail, one meet
another and one settle what they left. Three orders of two traders let an order be
sent while one
is in flight and a third after a lapse. Two sessions let the second find the
files of one that was cut; three steps are a backtest, an adjustment and one tool more (the
two findings' runs have what they need); the candles hit nothing, the quote and
only the range. The yields of a monitor run make a symbol a loser that is scanned
too often, or a winner with few or many rejections. A kill and a second start are
tried apart, because each adds to one count of `EqualFooting`, and the theorem has
them together. Three services let the watcher
stop at each, and one deaf service uses the deadline of the others. The invariants that are proved
do not depend on these bounds.

Deadlock is checked in `agent`, `session`, `stream` and `decision`; where a bound on
decisions or iterations stops the program there, the agent or the session is stopped and can be
started again. In the three composed runs the programs end (a supervisor, a
command), or the bounds end them, so their configurations do not check it;
that they end as they should is `SessionEnds` and `OneForAll`.

### Fairness

`MonitorSession`: weak fairness of each thread's own steps. Every call the loop
makes has a timeout, its wait has one, and a daemon thread that can run is
scheduled. Nobody is forced to start or stop anything, and a server need not
restart. `EventStream`: weak fairness of the payload, the start of a wait, the
end of a wait and the resumption of each generator, and of abandoned waits. The
event loop and the executor serve in order, and `wait` has a timeout of 20
seconds. No writer is forced to write or to notify, so the liveness property
speaks of notified changes. `TrainingRun`: weak fairness of the session's own
steps, one sequential process whose calls all have timeouts or read files;
failures and kills are not forced. `StackSupervisor`: weak fairness of the
supervisor's steps, whose loops sleep and time out, and of a process that has been
killed, or sent a signal it heeds, to die; nobody is forced to exit, to hang or to
press Ctrl+C.

## The findings

1. `OutcomesRecorded`: the cooldown's reconcile (`cli.py:390`) finds the closes
   and drops them; `README.md:304` says the store records the outcome.
2. `ExperienceIndexed`: `vector_memory.py:407` treats `PaperClose` objects as
   dictionaries; the exception is swallowed at `agent.py:124`;
   `docs/autonomous-agent-architecture.md:99` says experience is auto-indexed.
3. `LivePlaybooksOnly`: only the variable planner obeys a blocked playbook
   (`planner.py:98`); the AI planner passes the selection to the model
   (`planner.py:290`), and an order can follow. The learning plan's line 339,
   "Live mode only allows playbooks explicitly promoted to live status", is
   enforced for one planner of two.
4. `SatisfiedMeansPassed`: after a backtest that failed, the rule brain evaluates
   the gate file an earlier session left, of any stage, and ends with "Goal gate is
   satisfied."; `orchestrator.py:69` says it checks the current run.
5. `NoLookAhead`: `replay.py:39` closes a position, opened at a candle's close, on
   the range of that candle; `docs/agent-learning-implementation-plan.md:379-382`
   executes, advances the market and then closes.

Three documents (`README.md:217`, `docs/ai-windows-continuation.md:38`,
`docs/windows-mt5-handoff.md:196`) keep the state and events of the monitor session in
`data/monitor-session.json` across restarts of the web server. No code writes or reads
such a file: the session is in the server's memory only, which is what
`RestartServer` of `MonitorSession` models. It is a feature that is not there rather than
one that fails, so it has no run.

A trade that a crash separates from its record (`agent.py:106` opens before
`agent.py:115` records) is not listed: `TraceLossBounded` states exactly how many
there can be.

## What is proved

Every invariant that a passing run checks, and every action property, is a theorem
for every value of the constants; so is the safety of both refinements. The
assumptions on the constants are the ASSUMEs of the modules, which TLC evaluates in every
run: bounds are naturals, the sets of symbols, traders, monitors and markets that
are counted are finite, and the numbers of scenes, candles, gates and
configurations are numbers. A theorem about a module that a composed run checks is
about that module's own specification (`LiveSpec`, `BookSpec`, `SqliteSpec`, ...); the
theorems about the composed type invariants (`ExecutionTypeCorrect`,
`MemoryTypeCorrect`, `OperationsTypeCorrect`) first show that a behaviour of the sum
is a behaviour of each part.

`SetFacts` holds what several proofs cite: sizes of sets that differ by an element,
the smallest number of a set and from it induction over the naturals for a set
(`NaturalsAreReached`), sums (`SumStays`, from the existence of the fold that
`SumFunction` is), and queues (`PutLast`, `TakeFirst`, `TakeOut`).

Where a property is a bound on a cardinality along a history (`LossBounded`,
`UnrecordedBounded`, `ExposureBounded`, `ActiveBounded`, `Busy`, `sequence`), the
argument has one form: a quantity is found that no step raises without paying, one
lemma says what each action does to the sets, and arithmetic follows.

`TradingAgentProofs`, for any symbols, either store, with and without cooldown,
any bounds: `TypeCorrect`, `OnePosition`, `ReportedOnce`, `UnreadableStops`,
`CooldownIsHonoured`, `LossIsBounded`,
`ImplementsLedger`. The inductive invariant `IInv` adds three parts.
`LoopInv` ties the locals to the files at each point of the loop: the count the
governor sees is taken from the file that `OpenPosition` will append to, which is
what carries the veto from `Reconcile` to `OpenPosition`. `FreshInv` says that
positions carry ids of earlier decisions, so an opened position is new.
`ReportInv` says where a closed position is on its way to a record:
`justClosed` holds at most one (by the symbol veto), is not yet reported, and is
empty outside a cycle; that is what makes a second report impossible and lets
each step be one step of the ledger. For `LossIsBounded` the quantity is the
positions nothing explains (or reports, but for the record in hand), and one more
while the JSONL file ends in a cut line, which spoils the next record too; each
failure pays for `RecordsLostPerFailure`.

`MonitorSessionProofs`, for any number of sessions, symbols, iterations and any
event limit: `TypeCorrect`, `OneLoopAtATime`, `StatusIsTruthful`,
`AtMostOneLateCycle`, and `ImplementsSession`, the safety of
`SessionImplemented`: every step is a start, a stop, a late cycle, an end, or
nothing, of the one session that `SessionControl` knows. The strengthening: only the last
thread can be alive (`CurrentInv`), a cycle is about a symbol there is
(`SymbolInv`), and a thread that is about to begin a cycle has begun no late one
(`LateInv`), nor has one that was not told to stop, which is why a new session
starts with none.

`EventStreamProofs`, for any consoles, writers, pool and number of changes:
`HeartbeatSafe`, `StreamTypeCorrect`. The strengthening of the first says that numbers only flow from the
sequence and the version, which grow; of the second, that a change is counted once
by the version and then is pending or was notified (`CountInv`), and that the queue is
made of the consoles whose wait has not begun, each once, while those that hold
a thread, with those that left one behind, fit the pool (`PoolInv`).

`DecisionPipelineProofs`, for any settings, scenes, answers and contract size
(assumptions: the numbers of the settings and scenes are naturals or integers,
the lot step and the equity are not zero): `TypeCorrect`, `OrderRisk`,
`PolicyAnswers`, `NoOrderWithoutModel`, `LiveOrderHasMemory`, `StopsProtect`. `LotsBounded` is
the arithmetic: floor, cap and lost step stay within the money at risk.
`PathInv` carries what the policy established about a decision to the governor
and the order, `StopsInv` what the planner did to its prices. `StopsProtect` has a
hypothesis, `RoomForStops`: a least stop and reward ratios above zero. No code checks
the settings for them. The defaults and all of `configs/` satisfy it, TLC
evaluates it for the run's scenes, and without it the theorem is false: with a least
stop and an ATR of zero the stop is the entry price, the computed lot is zero, and
`allow_min_lot` turns that into an order.

`MemoryProofs` is about the three modules of the `memory` run.
For any symbols and numbers of decisions and imports: `TablesAlwaysAgree`, the action
property `TerminalForGood`, and `ImportsKeepContext`. `SameRowInv` says that a
decision's row in the table and its row in the file are
the same wherever both exist, so that a row an import writes again tells nothing
new: without it a repeated import could reopen a decision. `ImportInv` follows a running import: the rows it is
through with are stored with ids in the file's order and above those of all others, so that a whole one leaves a
table that reads as its own rows and then the file (`ReadsOwnAndFile`).
For any indexers, symbols and limits: `CompactionKeepsEachOnce`, `SearchKeepsNewest`.
`IndexerInv` says where a
compaction's documents are between its steps: those in hand to be summarised are
marked already, and those in hand to be marked are stored; a document an indexer has yet to
upsert is new, so that no upsert makes a summarised one active again. `SearchInv`
adds that whatever is compacted, or in hand to be, has enough newer documents beside it
(`KeptInv`), and that for every choice of the compactions under way that will be marked,
what they leave active fits the limit, the calls that have not read it, and the aborts
(`WindowInv`; quantified over the choices, because batches overlap). `OnceInv` says that no process
holds a document it has summarised before, because what it took is marked by then; each new summary of a document
is therefore paid for by one more process in `told`.
For any keys, patches, ticks and restarts: `ServerRestartsAsItWas`. `PutInv` says of
a request that is alone which settings it has written already, and of every setting
that
is not in doubt that it is what the patches ask for, or is missing from a request under way;
`TickInv` that the buffer is the end of the tape, where the end of an end that grew by one is the
end of what grew, and that an unended last line is paid for by a write that failed.

`ExecutionProofs` is about the two modules of the `execution` run. For any traders, limit, orders and
lapses: `RecordsAreTrue`, `UnrecordedAreLapses`, `ExposureIsBounded`.
`CallInv` says where a call of `place_order` stands: as long as filling modes are
left there is no answer and nothing was executed, and an answer leaves none, so that
a thread that outlives its caller executes its order at most once; an order of which
nothing was heard (`silent`) has none left either. `SeatInv` ties the
order a trader records to its answer, `HandInv` gives each order in hand one hand.
An order nobody holds and without a record was either answered to its trader as
failed or lost with a lapse, so the untold ones are no more than the lapses
(`UntoldInv`); orders that may still be executed have a
waiting trader or a lapse over the bridge (`WaitersInv`); positions held, orders
pending and traders about to order stay within the bound (`ExposureInv`), the crux
being that a trader read the account when the others' orders were already counted.
For any monitors and trades: `AccountIsTrue`. `AccountInv` says that before a
clash at most one monitor is inside an operation, what it will write is a
true account (`CopyInv`), and every monitor that found no position and may still
open one has its place beside the open ones (`Fits`).

`OperationsProofs` is about the three modules of the `operations` run.
For every deployment: `NoChildForgotten`. `StackInv` says
that behind the place of the killing loop nothing is up that was not killed.
For any markets, base configurations, yields, runs, kills and errors: `TrialsAreFair`. `CountInv`
counts the runs of both sides stage by stage, a run halfway being worth as much as a
kill, and `FilesInv` says which memories the files
of each stage tell of. That the candidate can trade is a fact about the builder,
proved from the order of its two changes; that no two results are each better than the other is arithmetic.
For any candles, prices, stages, gates, sessions and cuts: `EvidenceIsComplete`. `BookOk`
and `RowInv` say that openings, positions and closes balance and that the memory
tells of each opening but the one being recorded and one for every cut; `EvidenceInv`
follows report and gate from the replay that wrote them. Closes never become fewer
(`EnoughStays`), which is why a gate stays right about their number. That the report's sums are numbers
is `SumStays`.

## Only model-checked

Liveness (`StopCompletes`, `EveryConsoleServed`, `SessionEnds`, `OneForAll`) and the fairness part of
`SessionImplemented`, which need fairness and ENABLED. The values of the folds: that `SumFunction` adds up every
trade of a set, or that `SelectSeq` keeps each matching row, is not
proved; the theorems use what does not depend on it (a sum of numbers is a number, two
stores read with the same operator give the same). The five violated properties are TLC's.

## Not modelled, and why

- A JSONL record of experience cut exactly before its end of line would parse; `TradingAgent`
  treats a cut line as lost. (For the tape of ticks `SettingsStore` has both.)
- `external_open_symbol_positions` (`agent.py:48`) is set nowhere and taken as 0.
- `search`, the hash embedder, the Qdrant store and the ranking of reasons:
  floating-point scores without state; and with the search the growth of the summary
  documents.
- Quotes, indicators and the simulated market: inputs of every model.
- The analysts, teacher examples, the decision audit, the learning report and the notes and deltas
  of a comparison: they are only shown, or are text for a model.
- `promotion_status` of a review: printed, and read by nothing.
- Rendering, the EA, MetaTrader and the model providers' APIs are outside.

## Plan

Done: the agent cycle with its ledger, the sessions, the event stream, the way
from a snapshot to an order, the stores and their import, the vector memory, the
settings and ticks, live orders, the shared portfolio, training sessions,
experiments, the stack. What is left, in this order:

1. The selection among several playbooks and the conditions of each, and the
   memory context's risk posture and ranking of reasons.
2. Theorems about the readers: that `Lessons` and `Context` depend only on the rows they show,
   and the sums of a report as sums over its trades, by induction with `NaturalsAreReached`.
