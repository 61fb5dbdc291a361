# AEGIS mql5bot: models, checks and proofs

This directory models the trading system in TLA+, checks the models with TLC
on small instances and proves theorems about them with TLAPS. Paths are
relative to `src/`; `PROJECT.json` (`map`) names the source lines every
definition stands for, its `hazards` what is hard to test in this code and
which property watches it.

## 1. The system

The repository holds a MetaTrader 5 Expert Advisor (`mql5/`, about 7600 lines:
`Experts/Mql5Bot/Mql5Bot.mq5` and `Include/Mql5Bot/*.mqh`) and a Python
toolkit (`python/mql5bot/`, about 35 000 lines) that researches, certifies and
supervises strategies. Only the Expert Advisor places orders. One EA runs
per account (`docs/OWNER_DELIVERY.md`).

The terminal runs the handlers of the EA (OnInit, OnTick, OnTimer once a
second, OnTradeTransaction, OnDeinit) one at a time, so there are no data
races between handlers. What is concurrent is everything else: the trade
server fills, triggers, stops out and answers late while a handler waits in
`OrderSend`; the program and the terminal may stop between any two writes.
The Python programs meet in files and in one database: a console and a command
line on the same rows, an evidence package that its owner may edit between two
gate runs, a registry of looks that survives the process that wrote it.

| Component | State | Operations | Hard because | Correct when |
|---|---|---|---|---|
| Fail-safe engine (`RiskManager`, `StateStore` hot state) | engine state and reason, day-start and peak equity, day key, five GlobalVariables | restore and one-shot reset, rollover, limits, trips, pauses | five separate writes, kills, two clocks | HALT is left by a reset only; a breach stops the engine; a restart loses nothing |
| Retry queue and execution (`TradeManager`, `RetryQueue`) | queued operations with attempt counters, pending ticket, comment counter | open, place, close, modify, cancel; ProcessQueue; OnBar | ambiguous timeouts, retries, a full queue | attempts are bounded, nothing is executed twice, what is reported done was done |
| Event flow (`Mql5Bot.mq5`) | orphan scan flag, tick counter, day flags | OnTimer, OnNewBar and what they call | the server acts between two requests of a handler | one position or one order at a time; HALT goes flat |
| SL guard (`SlGuard`) | eight guard items | Enqueue, CoversTicket, Pump | stale items, refused and queued requests | no position stays without a valid stop in a running engine |
| Ticket and magic registries (`StateStore`, `MagicMap`) | records per ticket, id to magic number, two text files | load, adopt, register, prune, flag, save, allocate | delete-then-write, colliding hashes, another strategy at the next start | positions stay with their strategy, a scale-out on file is not repeated |
| Meta layer and allocation (`meta_layer.py`, `Allocation.mqh`) | weights, modes, book, one file | decide, persist, poll, scale | restarts, a writer and a reader of one file | an allocation only reduces, within its caps and change limit |
| Factory (`factory/*.py`, `api/main.py`, `research_service.py`) | strategies, versions, runs, events; campaigns | register, record, transition, campaign steps | a decision in one session, the write in another; crashes | no rung without evidence, no LIVE without a human |
| Safety authorities and phone (`discovery/safety.py`, `governor.py`, `notify/*`) | kill switch, breaker, ramps; offsets | trip, reset, rebalance, poll | repeated and lost updates, restarts | sticky halts, every authority asked |
| Campaigns, books (`discovery/orchestrator.py`, `score.py`, `portfolio.py`) | stage results, candidates | run, stop, resume, score, assemble | a stage raises half-way | no stage runs twice, caps hold, nobody is left out without a reason |
| Tester runs (`mt5tester.py`) | places a report may land | clear, launch, wait, search | a terminal that is slow, late or dead, or still writes during the next run | an ok leg rests on its own report wherever that can be known |
| Owner gate, package, safety legs, demo harness | evidence files and hashes, stages, log lines | measure, build, bind, verify, grade | edits between steps, stale files, kills, sleeps | a positive verdict has clean evidence of one run |
| Research pipeline (`pipeline.py`, `optimizer.py`, `certify.py`, `meta_*.py`) | stage cache, registry of looks, folds, ladder of legs | funnel, folds, windows, certification | crashes between read and record, boundaries | one look, nothing looks ahead, VERIFIED is earned |
| Backtest engines (`engine.py`, `fast_engine.py`, `sizer.py`) | cash, books, log | one bar, one sizing | two programs that must agree | the ledger balances, both agree, no size above its risk |
| Data store (`data_layer.py`) | raw, clean and derived files with records | add, promote, derive, load | a crash in a file, in a record or between them | lineage leads to the raw bytes |

Not modelled: the symbol specification with its start-up wait, the indicators
and the DSL runtimes (floating point), loggers and telemetry (output only), the
MetaTrader scripts. `PROJECT.json` says of each component how much is modelled.

## 2. The modules

```
FailSafe <- refined by - EngineState <- MCEngineState            EngineStateProofs
RetryQueue <- TradeExec <- EntryFlow <- MCEntryFlow   ExecutionProofs
SlGuard, TradeExec, Registries <- MCExecution        RegistriesProofs
Lifecycle <- Store <- Console, ResearchService <- MCFactory          FactoryProofs
Reconcile, OwnerGate, DemoHarness, SafetyLegs, GateSelfcheck <- MCEvidence   EvidenceProofs
MetaLayer <- AllocationFile;  SafetyAuthorities <- TelegramOperator;
Campaigns, ResearchBook, TesterRun <- MCOperations   OperationsProofs
OneLook, WalkForward, MetaStudies, Certification, DatasetStore,
Sizing <- PortfolioEngine <- FastEngine <- MCResearch   ResearchProofs, EngineProofs
```

(`A <- B`: B extends A.) The MC modules give the constants their values; where
components share no state an MC module explores each while the others rest,
which is their composition up to the order of independent steps.

**FailSafe / EngineState.** `eng` is CRiskManager, `gv` the GlobalVariables in
the terminal's memory, `disk` those on disk, `todo` and `snap` the
GlobalVariableSet calls the running handler has still to make. One OnTimer
pass is four steps in program order (rollover, pause gate, limits, guard
verdict); each queues its HotStateSave, which `WriteNext` carries out one
variable at a time before the next step may run. `OnInit` is the restore of
`InitAfterSpec` with the one-shot reset. `Kill` ends the terminal between two
writes. Equity, the day and the guard's verdict are inputs.

**RetryQueue / TradeExec.** The queue is a set of records; a slot's index decides
only ties between equally due items. Time is counted in timer passes. Each
public operation of CTradeManager is one action: it sends (`Send`), gets one of
four answers and queues a retryable failure. The trade server is external:
a TIMEOUT means the request was executed, is lost, or is executed later
(`LateEffect`), as far as `TimedOut` allows. `calls`, `attempts`, `made` and
`done` are history. An answer is taken to arrive before the backoff of the item
it requeues ends, so one pass pops an item once. The immediate re-sends inside
one MarketChain call count as one attempt.

**EntryFlow.** The handlers as sequences of steps (`step`, `todo`), every request
a step of its own, with the server free to act between any two. OnTimer is
queue, orphan scan, HALT enforcement, limits and guard; OnNewBar is pending
housekeeping, exit rules, gates, then flip or entry. What the signal, the
limits, the exit rules and the guard decide are inputs; their requests go
through the operations of TradeExec.

**SlGuard.** Guard items with their phase and pump counter, one action per visit
of Pump. Prices are abstracted to the place of a stop: none, two valid places,
one at or beyond the entry. The trade manager appears by what becomes of a
request.

**Registries.** `mapFile` and `stateFile` are the two text files, `ea` the
program's memory, `resting` and `account` the server's orders and positions.
Start, adoption, sync, flush, deaths between delete and write, scale-outs and
queued scale-outs are actions. `OnInit` does not look at what `SaveToFile`
returns: the program goes on under a row that may be in no file (`given` keeps
the rows programs have traded under). A re-initialisation in place is a stop
and a start.

**Lifecycle / Store / Console / ResearchService.** `transition` reads and judges
in one session and writes in another; `Decide` and `Commit` are the two. Every
console request and factory command is an action of Console; a research run
(`run_idea`) is a process of one client with a step per call of the store.
Measurements are good, bad or missing; the ten research gates are operators on
them.

**MetaLayer / AllocationFile.** Decisions with eligibility, factors, budget,
modes, caps and change limit on whole parts; the file the EA polls, and its
parser down to the quotes of a key. `past` is the history of decisions, each
with the one it started from: a restart takes up whatever state file there is,
of an older decision, of another configuration, damaged or none.

**SafetyAuthorities / TelegramOperator / Campaigns / ResearchBook / TesterRun.**
The kill switch of a process with governor, breaker, ramp and entry chain; the
phone with its offset and watchdog; stages of a campaign that may stop
anywhere; score and book; headless runs whose report may land, be stale, be
torn, or never come. A launch clears the places a report may land and asks
nothing of the terminal before it, which may still write there; two runs that
start within one second share a run directory. In the book the correlation of
two candidates may be unknown (no returns, or of different lengths): such pairs
are skipped, as in the code. The direction caps and their like turn out all or
nothing: the first admitted candidate holds the whole target, so a target above
any cap empties the book and a target within every cap never meets one.

**Reconcile / OwnerGate / GateSelfcheck / SafetyLegs / DemoHarness.** A file is
what a run put into it and what is wrong with it, its hash is the file. The
gate's own stages, the builder step by step, the owner's edits and bindings,
the verifier's ladder, the comparison of trades, the graders of safety legs
against an EA that may do the wrong thing, and one demo run with kills,
suspends and timeouts. A stamp of a leg is a second, in which the EA may act any
number of times, so that the graders' strict comparisons of stamps have
something to miss. A connection check whose export does not parse raises past
`run()`, which leaves no record.

**OneLook / WalkForward / MetaStudies / Certification / DatasetStore.** The funnel
with its cache and registry, folds and walk-forward windows, studies abstracted
to the bars a decision was computed from, the ladder of legs and its verdict,
the layered store whose record follows its file; a kill may cut short the file
or leave a record nobody can read. A walk-forward window keeps its scores as
ranked and as they are without the trades the purge drops.

**Sizing / PortfolioEngine / FastEngine.** Whole ticks, units and money. One step
is one bar with all phases in program order; the fast engine is fed the same
bars.

## 3. The runs

| Run | Checks | Bounds |
|---|---|---|
| `EngineState_orderly` | `HaltIsSticky`; `ImplementsFailSafe` (refinement of FailSafe); `DailyPauseEnds` | 3 equity levels, limits 5% and 15%, 2 days, 3 starts |
| `EngineState_kill` | `MemoryPersisted` between handlers; `BreachStops`: a pass that sees a breach leaves a stopped engine, also after kills between two writes | 2 levels, 2 days, 2 starts |
| `TradeExec_calls` | queue: `NoDuplicateFill`, `DoneIsFilled`, `RetriesEnd`; registries: `Attribution`, `SavedFlagHolds` | queue: all kinds, 2 calls, 1 slot, 2 attempts, timeouts executed or lost; registries: 2 strategies whose hashes collide, 2 magic numbers, 2 entries, 3 starts, flush every 2 ticks |
| `EntryFlow_market` | `SingleExposure` in market mode | 2 calls, 2 slots, 1 restart, timeouts executed or lost |
| `EntryFlow_pending` | `TrackedExposure`, `HaltGoesFlat` in pending mode | 2 calls, 1 slot, timeouts lost |
| `SlGuard_ladder` | guard: `EscalationJustified`, `SecuredOrHalted`; queue: `AttemptsBounded` with late executions and a restart | guard: 2 positions, 2 slots, 1 visit a pass, pump limits 2/2/2/3; queue: 2 calls, 2 slots |
| `Factory_ladder` | `LiveWasDecided`, `LadderBacked`, `CampaignsAreHonest`, `RunReturns` | 1 strategy, 2 clients, 2 specs, 2 versions, 2 asks, 2 posts, 1 crash |
| `Evidence_chain` | `ComparisonIsSound`, `PositiveIsSound`, `PassedMeansShown`, `SelfcheckIsEarned`, `DemoIsSound` | 2 golds, 2 gate runs, 1 trouble, 1 edit of the comparison, 1 of the tree, 4 stamps and 5 lines a leg |
| `Operations` | `AllocationSound`, `BookIsSound`, `OutcomeIsTruthful`, `AuthoritySound`, `StopIsNotLost`, `CampaignIsResumable` | 3 meta ids, 3 decisions (the third under a change limit only), 1 restore, 4 candidates of a book, some without comparable returns, 2 phone updates, 3 campaign runs, 2 launches |
| `Research` | `LookIsEarned`, `RecordedLookIsFinal`, `SelectionIsHonest`, `NothingLooksAhead`, `CertificateIsEarned`, `NeverOverRisks`, `FastMirrorsTruth`, `AccountsBalance`, `LineageHolds` | 1 worker with 3 jobs, 2 contents, frames of 8, 9 and 12 bars, walks over 20 and 23, studies of 8, 3 engine steps, 2 deaths |
| `Evidence_failclosed` | *violated*: `FailClosed` | as `Evidence_chain`, 6 stamps a leg |
| `Operations_allocation` | *violated*: `FreshIsApplied` | as `Operations` |

What the properties say, beyond their names: `CampaignsAreHonest` is that a
strategy in SHADOW passed gates, robustness and out-of-sample look, that a
survivor's measurements were there, and that a campaign posted once is rejected
only on evidence that failed. `ComparisonIsSound` is that a comparison of trades found
VALID, edited or not, is a match. `PositiveIsSound` is that a positive verdict
rests on clean evidence, of one gate run when no build was interrupted, and that a
certificate in force is one of such a package. `OutcomeIsTruthful` is that an ok leg has a report with rows
of a terminal that ended by itself, and of that run unless it lay in a place that
cannot be cleared or comes from an earlier terminal that was still to write when
its run was judged. `AllocationSound` is that a decision moves no weight by more
than the change limit from what an earlier decision of the same configuration gave,
over restarts, and that a layer runs on the state one such decision left.
`BookIsSound` is that the limits hold on what is held, and that whoever is left
out is so for a reason that stands in the finished book. `PassedMeansShown` is
that nothing forbidden happened but what one second hides from the grader
(`Unseen` names the three ways). `Attribution` holds whenever the map on file has
every row a program has traded under. `NothingLooksAhead` is that no bar is counted under a decision
computed from it or a later one, and none twice. `FastMirrorsTruth` is that the
fast engine closes the same trades for the same reasons and stands where the
engine stands after every bar.

Why the bounds are enough. Three equity levels give every combination of
the two limits against either baseline; two days are needed for a pause and its
rollover, three starts for a stop, a reset and the start after it. Two calls
are needed for any interference through the queue (shared key, full queue,
overtaking); backoff and attempt cap act per item, so two attempts already have
a first send, a retry and a give-up. For the guard, two tickets are needed for
an item that outlives its position; the pump limits are scaled down keeping
their order. Two strategies with one hash slot are the collision the probing is
for; three starts are the other strategy's and the first one's again. Two
clients are what a stale decision takes, two posts a second run of a campaign,
one crash a run cut anywhere. Two gate runs are what it takes for a file of an
earlier one to stay. A leg of four stamps holds a baseline entry, a stop, what
shares its second and an answer after it; five lines are the longest exchange a grader
reads. Two launches are what a late report and a shared directory take, three decisions
a state saved before the last one. Frames of 8, 9 and 12 bars have folds that divide and
folds that do not.

Market mode allows timeouts that were executed or lost; pending mode only lost
ones: a placement executed although its answer was lost leaves an order the EA
does not know, which is `OnePendingPerCall` below.

The factory's database is either reopened with a strategy anywhere on the
ladder and worked on by console and command line, or empty and filled by
research. Mixed, `RejectionHasCause` does not hold: an owner who promotes a
strategy past ROBUSTNESS_PASS while its campaign runs has it rejected by the
run without evidence that failed.

### Fairness

The timer fires once a second (`EventSetTimer(1)`) and the terminal runs handlers
to their end: weak fairness of the timer's steps, of a running handler's
writes and of the requests it still has to make. In `EntryFlow` the firing of
the timer is strongly fair, because handlers of bars come between. Nothing is
assumed of the trade server, except in `HaltGoesFlat`: `CloseExecuted` is
strongly fair there, an assumption on the broker, without which no client could
go flat. `DailyPauseEnds` also assumes that days pass. A research run
(`RunReturns`) and a demo run take their next step while their process lives
(weak fairness). No start of a stopped EA is assumed anywhere.

### Where code and documents disagree

Two runs are findings (`PROJECT.json`): `FailClosed`, a safety file whose raw
evidence was changed and bound again still yields a positive verdict
(`owner_gate.py:2365` against `:23-25`); and `FreshIsApplied`, no allocation file
ever becomes FRESH in the EA, because `Allocation.mqh:565` takes the opening quote
of a key and `ParseString` (`:257`) asks for it again.

The modules state further claims of documents and comments that the code does
not keep. They are not among the listed runs; each is seen by putting its name
in place of the properties of the configuration named (with the changes given;
`Parts` narrowed to the part concerned shortens the search).

| Claim | Configuration | What the code does |
|---|---|---|
| `DailyPauseIsTodays` (`failsafe.py:11`) | `EngineState_orderly` | a start on a later day keeps the pause a further day: the stored day key is ignored |
| `SavedHaltSurvives` (`StateStore.mqh:6`) | `EngineState_kill` | GlobalVariables are never flushed |
| `ResetIsAWayOut` (`failsafe.py:69`) | `EngineState_orderly`, `DailyLossPct = 0` | the peak is kept by a reset, so the drawdown trips again |
| `OnePendingPerCall` (`MQL5_EXECUTION_AUDIT.md:58`) | `TradeExec_calls` | a placement executed despite its timeout is sent again |
| `NoDuplicateFill` (`TradeManager.mqh:12`) | `SlGuard_ladder` | with late executions: the history is searched when the answer comes and not before the re-send |
| `DoneIsFilled` (`TradeManager.mqh:28`) | `TradeExec_calls`, `MaxRestarts = 1`, `Parts = {"queue"}` | comments repeat after a restart: the counter is not persisted |
| `CapNeverReset` (`RetryQueue.mqh:136`) | `TradeExec_calls`, 3 calls, 2 slots, 3 attempts, 2 items a pass | a re-request assigns the counter 0 |
| `StopNeverLoosened` (`PositionGuard.mqh:118`) | the same, 2 attempts | a queued modify overtakes a newer one |
| `NoDoubleClose` (`MQL5_EXECUTION_AUDIT.md:65`) | `TradeExec_calls` | a scale-out executed despite its timeout is repeated |
| `HaltNoNewOrders` (`USER_GUIDE.md:33`) | `EntryFlow_market` | an entry queued before the latch is still sent |
| `ProfitStopKept` (`PositionGuard.mqh:118`), `ClosedMeansPaused` (`MQL5_EXECUTION_AUDIT.md:47`), `OneItemPerPosition` (`SlGuard.mqh:308`), `RetriesGetTime` (`SlGuard.mqh:274`) | `SlGuard_ladder` | a stop beyond the entry is put back; the guard lets go without a pause; FindPosition matches any active item; the pump counter counts visits before the position was found |
| `ScaledOutOnce` (`PositionGuard.mqh:116`), `TouchesOwnOnly` (`USER_GUIDE.md:66`) | `TradeExec_calls`, `Parts = {"registry"}` | a flag not yet on file, or of a queued scale-out, is lost; records of another strategy in the file are managed |
| `TerminalNeverResurrects` (`lifecycle.py:21`) | `Factory_ladder` | a decision gone stale overwrites a terminal state |
| `ResumeIsLegal` (`api/main.py:454`) | `Factory_ladder` | a resume carries no evidence and is always refused |
| `OosUntouchedBySearch` (`research_service.py:170`) | `Factory_ladder` | the gates' measurements of every variant use the whole series |
| `GrossWithinCap` (`docs/META_LAYER_CONTRACT.md:84`) | `Operations` | caps are applied before the change limit, which may hold a weight above them |
| `OnePolicyPerCampaign` (`orchestrator.py:132`), `TrialsAreAllCounted` (`:198`) | `Operations` | a first run that dies leaves results without a policy; documents of a stage that raised are not counted |
| `OverfittingNeverPays` (`score.py:60`) | `Operations` | the service hands a PBO in the other direction |
| `StaleIsNeverTaken` (`mt5tester.py:1031`), `TruncatedIsNeverOk` (`:836`) | `Operations` | a place that cannot be cleared keeps its old report, the terminal of an earlier run writes after the places were cleared, two runs of one second share their directory; a report cut after its first rows parses |
| `UnknownIsWorst` (`discovery/portfolio.py:38`) | `Operations` | pairs without comparable returns are skipped, so that two clones are both held |
| `AttributionSurvives` (`USER_GUIDE.md:68`) | `TradeExec_calls`, `Parts = {"registry"}` | a magic map that cannot be written goes unnoticed (`Mql5Bot.mq5:808`); the next strategy of the same hash gets the same magic number |
| `SliceReadOnce` (`pipeline.py:796`), `OldLooksStillCount` (`:799`), `CacheKnowsTheContent` (`:1134`) | `Research` | a crash between read and record lets the slice be read again; v1 keys bind by another name; a tag replaces the digest |
| `FailedVerdictIsFailed` (`status.py:134`) | `Research` | a withheld verdict hides a failed leg |
| `CapIsOnNotional` (`engine.py:51-52`) | `Research`, lines of two symbols with bars near 100 and 200 and a heat cap of 40 % | every book is valued at the new entry's price, whatever its symbol |
| `RefNamesTheBytes` (`data_layer.py:392`), `DerivedIsReproducible` (`:318`), `ParentsCanBeRead` (`:235`) | `Research` | a derived dataset built again replaces bytes a reference names; one is built from a clean file a crash cut short under its old record; a kill while the clean record is written again leaves none that parses |
| `PurgeActsOnSelection` (`optimizer.py:139`, `WFA_CONTRACT.md:17`) | `Research` | the best run is picked on metrics with the trades the purge drops (`optimizer.py:228`); only the reported metrics are without (`:231-233`) |
| `RestoreCleansUp` (`demo_harness.py:581`) | `Evidence_chain` | lines between the last poll and the kill are read as the restore's |
| `FailedIsOnRecord` (`docs/SAFETY_DEMO_PLAN.md:147-149`) | `Evidence_chain` | an export of the connection check that does not parse raises what `demo_harness.py:666` does not catch: no `run.json` |
| `NothingUnseen` (`safety_legs.py:38,54,62`) | `Evidence_chain` | the graders compare stamps of one second: an entry in the second of the trip, a size behind another request and an unsent retry beside another entry pass |
| `EveryCheckRan` (`gate_selfcheck.py:863`), `NothingOldIsUsed`, `NotVerifiedIsNoPass` (`broker_symbol_parity.py:584`) | `Evidence_chain` | an empty object as record passes with one check; the last run's report or bundle is judged; the tool's exit code is not looked at |


## 4. The proofs

TLAPS checks every theorem below for all values of the constants that satisfy the
named assumptions of the modules (sizes, ranges and the few facts noted here).
Each rests on an inductive invariant; the property alone never carries itself
over a step. The proofs have one lemma per action of the next-state relation and
follow the same argument: initial states satisfy the invariant, every action
and every stutter keeps it, it implies the property.

| Module | Theorems | Argument |
|---|---|---|
| `EngineStateProofs` | `EngineTypeCorrect`, `NothingUnsaved` (`MemoryPersisted`), `BreachesStop` (`BreachStops`), `HaltSticky` (`HaltIsSticky`), `Refinement` (`ImplementsFailSafe`) | `IInv`: types, and `Followed`: what the GlobalVariables and the writes still queued add up to is what the engine holds. `Silenced`: the daily limit is silent only while the engine is stopped already. For the refinement a stopped EA maps to the state its next start would restore, and each single write to a stutter |
| `ExecutionProofs` | `QueueKeepsShape`, `AttemptsCapped` (`AttemptsBounded`), `FillsOnce` (`NoDuplicateFill`), `ReportsAreTrue` (`DoneIsFilled`); for `EntryFlow`: `OneAtATime` (`SingleExposure`), `RestingOrderIsKnown` (`TrackedExposure`) | `QInv`: an item's counter accounts for the requests already sent for its call. `FillInv`: a market order waits in the queue only while its call has had no effect (`Unfilled`), and in one session a comment names one call (`Named`). For `EntryFlow`: an entry is queued only while there is neither a position nor an order, at most one is, and the gates see the queue; in pending mode the order that rests is the one whose ticket is remembered |
| `RegistriesProofs` | `Attributed` (`Attribution`), `FlagHolds` (`SavedFlagHolds`); for `SlGuard`: `LadderTypeCorrect`, `EscalatesWithCause` (`EscalationJustified`) | `RegInv`: while the map on file holds every row given to a program, a magic number belongs to one strategy in file, memory and account, and what carries one carries a given row; `FlagInv`: what the file says of a scale-out, memory says too before it is written again; `GuardInv`: an item past phase 0 is bound to a ticket, and each phase has its share of the pumps |
| `FactoryProofs` | `StoreTypeCorrect`, `LiveDecided` (`LiveWasDecided`), `LadderIsBacked` (`LadderBacked`), `CampaignsHonest` (`CampaignsAreHonest`) | every action of a client reduces to one of a few steps on the rows (`StoreStep`), so the ladder is argued once; `LadderInv` keeps the evidence below each rung, also for decisions read and not yet written; `CauseInv` and `Measured` follow a research run step by step |
| `OperationsProofs` | `CampaignResumes` (`CampaignIsResumable`), `OutcomesAreTruthful` (`OutcomeIsTruthful`), `StopNotLost` (`StopIsNotLost`), `AuthoritiesHold` (`AuthoritySound`), `AllocationHolds` (`AllocationSound`), `BookHolds` (`BookIsSound`) | `CampaignInv`: results are a prefix of the stages; `TesterInv`: a cleared place holds reports of the run under way or of runs judged before their terminals were done, and every terminal still to write is one of those; `InboxInv` and `SwitchInv`: an update below the offset was handled, and its halt is in force; `AuthorityInv`: an entry is the governor's answer on the authorities of its moment, and what was demoted has no share; `WeightsInv`: the weights are whole percents. The meta layer and the book: below |
| `EvidenceProofs` | `SelfcheckEarned` (`SelfcheckIsEarned`) | `HeldSoFar`: what the checks made so far exclude, given that one edit cannot be undone; each judging stage is shown to need what it claims. For `SafetyLegs`, `GradesAreEarned` (`PassedMeansShown`), for `Reconcile`, `ComparisonHolds` (`ComparisonIsSound`), for `OwnerGate`, `PositiveHolds` (`PositiveIsSound`), for `DemoHarness`, `CredentialsHold`, `AcceptanceHolds`, `SuspensionHolds` (the safety of `DemoIsSound`): below |
| `ResearchProofs` | `Lineage` (`LineageHolds`), `LookFinal` (`RecordedLookIsFinal`), `LookEarned` (`LookIsEarned`), `LooksBack` (`NothingLooksAhead`), `CertificateEarned` (`CertificateIsEarned`), `OutOfSample`, `SelectionHolds` (`SelectionIsHonest`) | below |
| `EngineProofs` | `SizesWithinBudget` (`NeverOverRisks`), `AccountsHold` (`AccountsBalance`) | below |

In `ResearchProofs`, the store's invariant (`DataInv`) ties each record that can be
read, the one still to be written and every reference to the bytes it was promoted or
derived from (`Backed`). It rests on two facts: a raw file on record is never written
again (`RawStays`), and a clean file is what cleaning makes of it or what a crash left
of that (`CleanFiles`), which is why a derived record may name a whole parent and be of
a torn one. The looks need what a cache entry under an untagged key says, and that the
registry is written before a slice is read again. The studies need that every decision
was fed by bars and closes before it (`FeedsAreOfTheirTime`) and that a bar is governed
by the last decision at or before it, of which there is one at most; the windows of the
drift feed are counted with the cardinality theorems of the library, and the greatest
and least elements of sets of bars are found by the well-foundedness of `<` on the
naturals. The certificate needs that the legs run so far are the plan's, in order
(`OnPlan`), and that the plan is every regime at every model. The walk-forward run needs
that the test segments start strictly later one after the other, so that its schedule is
accepted and the latest entry at or before a bar is the segment the bar lies in, and
that ranking a grid is a preorder, so that a first leader exists. The folds of
cross-validation need what the merge of the widened test blocks leaves: after each turn
the spans stand one after the other with a gap between, lie within the frame and have
lost no bar, so that the gaps between them are the training spans and each bar is in one
span, a training or a test one, and a bar within the embargo of a test bar is in a
widened block and so in no training span.

In `EngineProofs`, the sizer keeps no state: its theorem is about `SizePosition`, rounded to the broker's
grid, cut to every cap and stepped down until the margin fits.

`GradesAreEarned` holds for any number of bars and needs no assumption. Its `LegInv` has
one part per kind of leg, each saying what a fault leaves in the log for good unless one
second hides it (`Unseen`): an entry after the second of the trip is a request with a
later stamp (`TripInv`); a size over the approval stands in the size line or in the
first request of its second, or behind that one (`MetaInv`); a bare position has its
strip and nothing that ends it (`StripInv`); an entry sent twice leaves two requests
between its two lines, one not sent a giveup or none, unless another entry went out in
that second (`LostInv`); a position lost or doubled at the restart is in the first
relaunch after the opening or in a heartbeat before the next start (`RestartInv`); a
netting mistake is in a snapshot the verdict reads (`AccountInv`).

`ComparisonHolds` is for any minutes, frozen columns, tester legs and number of edits. Its
invariant says that the deals of a leg alternate, an opening one first, and what an edit leaves of
the comparison written: each event still tells of one that the builder wrote, each that was
written is still told of, and only the volume of a deal after the tick path is stated
anew. From it a comparison found VALID is a match, field by field. The other half,
that the verifier can read what the builder wrote, is about counts: a leg is flat
before each entry, every entry deal is told of by one event, paired or extra, and that is a
bijection, so the verifier's count is the number of entries.

`PositiveHolds` is for any golds, models, safety tests, commits, gate runs, faults,
interrupted builds and touched files. `GateOK` says what is in the package at any
moment: a file is of a run that happened, and what is wrong with it is what its kind can
have when it is written, or an edit of the owner's; a compile record or comparison
that does not say otherwise shows an accepted commit; and every recorder but the
manifest recorded its files unedited, a comparison without fault no list with
foreign trades. The manifest is left out, since the owner may bind it again at any
time: that is why each kind of file needs a second witness, its own recorder or
the verifier's look into it, and the proof names one for each. `Current` is the
invariant behind one run: while no build was interrupted, every file but the lists
and the owner's coverage record is in the list the next build removes or already of the current
run; a list is brought in by the window it is bound to. `ReportsHonest`
carries the verdict's meaning to the certificate, which is issued of a report after the package
may have changed.

`CredentialsHold`, `AcceptanceHolds` and `SuspensionHolds` are the safety part of
`DemoIsSound`, for any accounts files and any of the three tests. `DemoInv` goes by what is left of
the harness's program (`Placed`): it is always a tail of one of the programs, and a failed or
suspended run is on its way to the restore. `Positions` says for each number of steps left
which probe the terminal has, on which account, and that a line "closed" the wait could
take, unread or read since the launch, means that the position is gone; `RestartPos` has no such
line until the cleanup is launched, `AccountPos` none at the launch, and `RestorePos` looks from before
its own launch. `LoginProved` follows the kept login through the two launches
that prove it: the terminal has no EA then, and the launch without credentials starts
with what the one before it kept.

`AllocationHolds` is for any strategies, certificates, correlations and configurations. Its
`AllocationInv` says that a decision is `Ruled` by its own configuration, that every decision on
record moved moderately from the one it started from, of the same configuration (`Recorded`), and
that what the layer and its file hold is what one decision on record left under their
configuration, or nothing (`LeftBy`): a file may be of an older decision or of another
configuration, but never of a mixture. The work is in one decision: each
factor is bounded and the penalty of a correlation positive, so a share is a
natural number; every pass of the redistribution keeps each weight within the cap
(`RedistributeKeeps`), so the budget and the modes only lower it, and the change limit
is applied last. Sums are recursive functions on the subsets of a finite set; that
they exist, and are naturals for natural terms, is proved by the least size at which they
would not be (`LeastNumber`, from the well-foundedness of `<`), since the library's
induction theorems cannot be instantiated here. The passes of the redistribution, the
turns of the book and its falls are shown to exist in the same way.

`BookHolds` is for any candidates whose correlations are symmetric or unknown. Every
turn of the selection leaves it without comparable near-duplicates and leaves a reason
beside whoever was passed over: a place, a duplicate, or, since an average is no more
than its greatest term (`SumsAreUnder`), one member whose correlation alone is enough. A
target beyond a cap admits nobody, as the first candidate would hold all of it; a target
within every cap is never exceeded, as a part weighs no more than the whole
(`SumsGrow`), so that nobody falls out. The score rises with each component, as each
normalizer is monotone and missing evidence counts nothing (`ContributionRises`).

`AccountsHold` is for any lines, configurations, prices and number of bars, with gaps, masked
orders, swaps and both account modes. `Sound` is the invariant of a run between any two
changes within a bar: it is typed, the cash is the capital plus what was booked less
what the open legs have paid and still owe (`Ledger`), every book is the sum of its legs and
stands apart from the others as the account's mode asks, under the cap on their number (`Fit`),
and bars and signals are those of its lines (`Quoted`). One closed leg moves the same
amount from what is owed to what is booked, in whole and in part, because what the
rest of a leg keeps of its fee is the fee less the share that was booked. On this one
lemma rest, in turn, a volume closed first in, first out, a whole book, a scale-out, each errand to
all books, an order that opens, merges or offsets, the turn of a line, and the phases
of a bar. `InOrder` adds that a halted run is flat with the cash for basis; and that no line
both left and entered on a bar (`OneWay`) holds as each line has one turn and the lines differ.
Sums, slices, errands and turns are recursive functions; that they exist is shown by the
least index at which they would not.

Assumptions that limit a theorem, and why they are there:

- `HaltSticky` and `Refinement` hold for `KillAllowed = FALSE`: a terminal that dies
  before it wrote its GlobalVariables forgets a HALT (`SavedHaltSurvives` above).
- `FillsOnce`, `ReportsAreTrue` and `OneAtATime` take `"late"` out of `TimedOut`: an order executed
  after the program looked for it is sent twice, which the claim `NoDuplicateFill`
  under `SlGuard_ladder` shows. `ReportsAreTrue` and `RestingOrderIsKnown` are about one session
  (`MaxRestarts = 0`), and `RestingOrderIsKnown` about `TimedOut` within `{"lost"}`.
- `Lineage` assumes `CleaningRepairs`: what `promote_clean` accepts is not corrupt after
  cleaning. TLC evaluates it for the downloads of the run.
- The looks assume one process (`OneProcess`): two processes can each read the
  registry before the other writes it (`pipeline.py:804-809` reads, looks, then
  writes); that a selection chooses among what it is given, and that a caller's
  tag is not the digest of another dataset.
- `CertificateEarned` assumes that no regime and no model is listed twice, as in
  `certify.py`'s constants; `LooksBack` that a minimum of training bars is above one.
- `SizesWithinBudget` assumes a `volume_min` that is a multiple of `volume_step`. With
  another minimum the sizer may answer a size off the grid.
- `SelfcheckEarned` assumes at most one edit of the tree: an edit made and undone
  between two checks is not noticed by either.
- `ComparisonHolds` assumes that the edits of a written comparison are of a label, the
  basis of a volume or a stated volume. An event left out is not among them: the verifier
  counts the entries of MT5, so that an omitted event of an entry that MT5 does not
  have is not noticed (`owner_gate.py:1443-1466`).
- `PositiveHolds` assumes that no test is both the tester's and the demo harness's and that
  `real_ticks` is none of the bar models. In `PositiveIsSound` a window counts only beside
  its list (after interrupted builds a window of an earlier run may lie in the
  package with no list, as evidence of nothing), and the accepted commit is that of
  the runs which wrote the package's own records: the last run may have been
  interrupted before it wrote any.
- `OutOfSample` assumes a selection window of at least two bars and a test segment of at
  least one (60 and 120 in the code). `SelectionHolds` rests on it for walk-forward runs and,
  for the folds, takes the number of bars and blocks, embargo, purge and warm-up as
  naturals; a frame shorter than its blocks has no fold.
- `LadderTypeCorrect` and `EscalatesWithCause` assume that an unbound item is dropped earlier
  than an unanswered close is given up (10 and 20 pumps in the code).
- `AccountsHold` assumes what `RunConfig.validate` and `_validate_instruments` enforce: one of the
  two account modes, room for a position at least, no line given twice; and that prices, costs and
  multiples are whole, as everywhere in these models.
- `AllocationHolds` assumes what `MetaConfig.__post_init__` enforces (caps and changes within
  `(0, 1]`) and that a correlation lies within `[-1, 1]`; `AuthoritiesHold` that a score is a
  number, the risk budget not negative and a candidate's signals finitely many;
  `BookHolds` that a score is in `[0, 1]`, as `compute_score` returns it, that the correlation of two
  candidates does not depend on their order, and that a measurement is one number or missing.

## 5. What is only model-checked

- Liveness: `DailyPauseEnds`, `RetriesEnd`, `HaltGoesFlat`, `SecuredOrHalted`, `RunReturns` and the
  part of `DemoIsSound` that says a run ends with a record (`RunIsRecorded`). Their fairness and
  `ENABLED` are beyond the prover.
- `FastMirrorsTruth`, two programs side by side, bar by bar: it compares the engines' close events,
  picked from the log by `SelectSeq`, whose definition the prover cannot expand.

## 6. What is not modelled, and why

- Symbol specification and start-up wait, signals, indicators, the DSL runtimes and
  its toolkit: floating-point series without protocol state. The models take a
  signal, a stop distance or a measurement as an input.
- Loggers, telemetry, reports, MetaTrader scripts, command-line parsing and the web
  layer's formatting: output only.
- `StateStore`: re-initialisation in place (parameter or period change), the legacy
  magic-number input, and a `state.txt` that cannot be read at start.
- Two processes on the registry of looks (see `OneProcess`), and two processes of one
  kill switch: `KillSwitch` lives in the memory of its process.
- Prices in `SlGuard` and amounts in the meta layer are abstracted as section 2
  says; the engines count whole ticks and units, so rounding of floating-point
  money is outside.
- `PROJECT.json` (`components`) says for each part what is left out, and its
  one hazard without a property why.
