# Formal verification of hodl

TLA+ models of `hodl`, the command line tool in `src/hodl/` that compares
historical Ethereum positions, the TLC runs that check them on small instances
and the TLAPS proofs that establish the main results for every instance.

    tlc -workers 2 -config MCEngine.cfg MCEngine.tla          # one run
    tlapm BlockResolutionProofs.tla                           # one proof module

`PROJECT.json` holds the machine-readable side: components, runs, the lines each
definition models (`map`), a mutant for every checked property, hazards,
findings and theorems. Paths below are relative to `src/`.

## 1. The system

`hodl compare` is one sequential program per invocation. The concurrency is at
its edges: each local fork is an Anvil subprocess whose upstream is the
`ReadBridge`, an HTTP server with one daemon thread per request, and these
threads share one SQLite connection (the *evidence cache*) with the main
thread; several `hodl` processes may share the cache file. Nothing else is
persisted.

    cli.run --> ceiling --> engine.compare --> Simulator.enter/compound/exit
       |           |              |                     |
       |           v              v                     v
       |      Archive.at     verify, Prices      evidence() --> Cache.get
       |           |              |                     |           ^
       |           +------> Cache.get <--+              v           |
       |                                 |      Fork (Anvil) --> ReadBridge
       |                                 |         |  handler threads
       +-- report                        +---------+-- Router, positions, staking

| Component (source) | State | Operations | What is hard | Correct when |
|---|---|---|---|---|
| Evidence cache (`cache.py`) | table `evidence`, one connection, an `RLock` | `get`: SELECT, fetch, INSERT OR IGNORE, commit; `close` | the lock is dropped during the fetch; fetches nest; several processes; kills | a row never changes, what was returned is durable, replay gives the same outcome, nobody waits for ever |
| Read bridge (`fork.py` 46-131) | in-flight handlers | `do_POST`, `respond`, `close` | handlers outlive the fork they serve; Anvil's caller times out first | a late or failed read affects no other action |
| Action evidence (`simulation.py` 74-108) | a row per action | `evidence` | exceptions travel through JSON as class names | the class on replay is the class of the first run |
| Block resolution (`cli.py` 132-153, `data.py` 22-158) | three kinds of row | ceiling protocol, `at`, `deployment` | rows are shared by runs with different ceilings while the chain grows | rows are exact; runs of one scenario agree; offline reruns find every row |
| Gas-funded deposit (`simulation.py` 201-245) | candidate, reserve, fork snapshot | probe loop | every exit of a probe must roll back; the loop bound | budget shared exactly, the fork untouched, gives up only if gas keeps rising |
| Engine (`engine.py`) | position, reward state, events, rows | `compare` | a position exists only as carried state; any action may fail | rewards neither lost nor paid twice; one row per date; a loss is final |
| Gauge and staking rewards (`positions.py` 361-450, `staking.py` 87-256) | captured counters | capture, restore, claim | counters captured months earlier; tokens listed and removed meanwhile | as if the position had been held on chain |
| Fork lifecycle (`fork.py` 133-225) | bridge, directory, process | enter, poll, exit | partial start, deadlines, failing teardown | nothing stays open |
| Fork transactions (`fork.py` 240-331) | gas and transaction counters | `transact`, `snapshot` | failed transactions, nested snapshots | counters match the fork |
| Storage seeding (`fork.py` 372-450) | words of fork storage | `mapping_slot` | probe words over live storage | every word put back |
| Routes (`routes.py`) | fork, gas, quotes | `best`, `execute` | probes that fail half way | probes leave nothing; minimum output and full spend |
| Pool deposits and withdrawals (`positions.py` 1-360) | balances | `deposit`, `withdraw` | protocol-specific units and limits | balance deltas match |
| Prices, gas price (`data.py` 180-245) | none | window, median | both ends of the window, rounding | no future price |
| Scenario model (`model.py`) | none | anniversaries, v2 shares | short months, rounding | no drift, no overpayment |
| Report (`report.py`) | none | `comparison_records`, table, headlines | rows are compared twice, per date and all together | text and CSV show the same comparison |
| Catalog, configuration | none | address tables, ABI checks, environment | | data |
| Legacy Brownie files (`src/`, `scripts/`) | | | | `README.md` says they are not part of the program |

## 2. Modules

| Module | Models | Role |
|---|---|---|
| `BlockResolution` | `cli.run` ceiling, `Archive.at`, `last_block_at`, `Archive.deployment` | state machine |
| `BlockResolutionProofs` | | eleven theorems, with the inductive invariant |
| `EvidenceCache` | `Cache.get`, `Simulator.evidence`, `ReadBridge`, `Archive.request` | state machine |
| `EvidenceCacheProofs` | | nine theorems: the inductive invariant and eight properties |
| `GasFunding` | what `funded_deposit` promises | abstract specification |
| `FundedDeposit` | `Simulator.funded_deposit`, `Fork.snapshot` | state machine, implements `GasFunding` |
| `FundedDepositProofs` | | invariants and the refinement |
| `ContinuousPosition` | a position held on chain | abstract specification |
| `Engine` | `compare`, the `Simulator` actions, reward capture and restore | state machine, implements `ContinuousPosition` |
| `EngineProofs` | | eight theorems: both inductive invariants, the types, four properties and the refinement |
| `RewardSettlement` | what `settle_rewards` promises | abstract specification |
| `Router` | `Simulator.settle_rewards`, `Router`, `Fork.approve`, `transact`, `snapshot` | state machine, implements `RewardSettlement` |
| `RouterProofs` | | five theorems: the inductive invariant, the types, both properties and the refinement |
| `ForkLifecycle` | `Fork.__enter__`, `__exit__`, `ReadBridge.close` | state machine |
| `Contracts` | a contract's words and getters (external) | shared operators |
| `Seeding` | what `set_mapping` and `mapping_word` promise | abstract specification |
| `StorageSlots` | `Fork.set_mapping`, `mapping_word`, `mapping_slot` | state machine, implements `Seeding` |
| `ForkProofs` | | proofs about `StorageSlots` (six theorems, with the refinement) and `ForkLifecycle` (five) |
| `Positions` | `positions.deposit`, `withdraw`, `pool_deposit`, `pool_withdraw`, the staking calls, `Simulator.exit` with its gas debit | state machine |
| `PositionsProofs` | | four theorems: the inductive invariant and both properties |
| `VaultShares` | v2 share arithmetic of `model.py`, `free_funds` | operators |
| `MarketData` | `Prices.at`, `select_price`, `Archive.gas_price` | operators |
| `Calendar` | `anniversaries`, with the calendar it rests on (external) | operators |
| `Records` | `comparison_records`, `table` and the headlines of `report.py` | operators |
| `Benchmarks` | the dates, holdings and cash of `compare`, prices, and the report of all rows | state machine |
| `BenchmarksProofs` | | six theorems: both inductive invariants, dates, prices and the report |
| `MC*` | | instances for TLC |

### BlockResolution

One action per step of a run between two accesses of the cache or the archive.
`ceilingRow`, `atRow` and `codeRow` are the rows of the namespaces
`run-ceiling-v1`, `timestamp-v1` and `deployment-v1`; `Kept` is INSERT OR
IGNORE. `FetchCeiling` and `StoreCeiling` are separate, because another run may
store its row in between: the run then keeps its own ceiling although the row
says another. `Due` is the order in which `compare` asks for its dates. `low`
and `high` are the locals of both binary searches, one probe per step.
`Absent` in `found[p][Code]` is a strategy reported as unavailable. Finality is
trusted: `Finalize` only extends the chain, and the timestamp of a block never
changes, which is what the code relies on when it keys rows by timestamp alone.
Two simplifications. A failed read inside the ceiling or date search ends the
run (`Fail`) and one inside the deployment search makes the strategy
unavailable (`ReadFails`), as in `main` and `compare`. An offline run is a run
that never takes a miss action, so its behaviours are among those modelled and
no variable records the mode. The rows of single blocks and code reads
(`rpc-v1`) are those of `EvidenceCache`.

### EvidenceCache

`call[p][f]` is the `get()` a frame is in: a bridge handler thread, or the main
thread's outer `get` of an action (`Outer`) and the `get` of a read nested in its
fetch (`Inner`). Its `pc` runs lookup, fetch, store, commit; those are the two
critical sections of `Cache.get` with the commit made visible, since a kill
may come before it. The `RLock` is `lock[p]`, owned by a thread. SQLite's one
writer is `txn`. `Calculate` is `calculate()` of `Simulator.evidence`; `Return`
is what the callers make of the payload. The fetch of an action makes two kinds of
requests. Those to the archive and the price API are reads in the cache, made by a
handler for Anvil (`BridgeRead`) or by the main thread itself (`DirectRead`: gas price,
token price), and `ArchiveFails` is any of them failing. Those to its own Anvil are not
cached, and `NodeFails` is any of them failing: a node that is not up at the startup
deadline, a transport failure, an error response, a receipt that does not come. It may
come at any time of the fetch, also when no archive read is under way; when one is,
its handler goes on for nobody. Most failures end the action, but the startup loop polls
again and `mapping_slot` takes the next word, so a failed request allows an outcome of
`Unavailable` and does not force it (`Outcomes`). `Stop` is an exit or a kill at any step.
Left out: the hit and miss counters, which are incremented outside the lock and
only printed; SQLite's five second busy timeout, after which a second writer
fails: in the model it waits.

### FundedDeposit and GasFunding

One action per way a probe can go, with the environment choosing limit, revert,
failed read and gas. `fork` is what can be undone, `saved` the open snapshot,
`verdict` what the `with` block ends in before the rollback takes effect.
`halvings` and `raises` are ghosts that count what used up the rounds.
`GasFunding` is the promise in one step: an exact split, or an error, and the
caller's fork as it was. The exception is `Break`, implemented by `RestoreFails`: the
request `evm_revert` can be refused, a RuntimeError that ends the command, or fail on its
way, an `Unavailable` that replaces what was in flight. `evidence` stores the latter like
any other and the command goes on, so nothing is promised of the fork: it may still
have the probe on it, or be back without `gas_units` and `transactions` being restored.
There is no result then, and the callers leave that fork without using it again.

### Engine and ContinuousPosition

One action per branch of `compare`. All amounts are in one unit at price one, so
that value is conserved exactly and any loss or double payment shows. The
contracts' accounts are modelled by the counters the code captures: per token
the integral at the last checkpoint, the entitlement and what was paid
(`integrate_fraction` and `minted`, the packed claim word). A token that is not
listed at a date is neither checkpointed nor claimable then. Gauges and staking
wrappers share the model. `WorkingBalance`, the 40% of a share that earns without a
boost, is applied to every token, where the code does so for CRV only; no property
depends on it. `ContinuousPosition` never captures or restores
anything: it is the position the README of the program says the estimate
stands for.

### Router and RewardSettlement

One action per step between two requests to the local node. `way` says how each venue
treats a trade (fills it, fills part of it, reverts, has no code) and is chosen at the
start, because a contract at a fixed block behaves the same in the probe and in the
execution; `Yield` is what it pays, and falls with the trades already made there, so
that the second reward sold at a venue gets less than the first, and a probe that was
not undone would show. `fork` is all that a snapshot can restore: wallet, allowances,
trades, and the counters `gas_used` and `transactions`, which the code restores by hand.
Helpers of an execution take the fork `f` and the locals `r` they work on, so that a
step can be spoken of in the state of the probe that took it first. `saved` is the open
snapshot, `run` the locals of `execute` and `execute_hop`, `verdict`
what the `with` block ends in before the rollback. `entry` is a ghost: the fork at the
start of the real execution, so that the refinement sees a sale as one step.

`hops()` and `mint_route` are modelled by their results: `Hops` whose venue has
code, or one of their errors (`CandidatesUnknown`). `candidate_paths` is all
paths of up to three hops over distinct intermediates. The order of candidates
is left open, as it only decides ties. A reverted transaction pays ether that
`gas_used` does not count (`TradeReverts`). The node refuses a transaction whose ether
and gas the account cannot pay, so a transaction is mined only if the account affords it
(`Affords`), and otherwise `NodeFails`. A request may also fail after `transact` has sent
its transaction, at `evm_mine`, the receipt or the block read. Then wallet, allowances
and trades have changed, and `gas_used` and `transactions` have not (`Uncounted`):
`WrapLost`, `ApprovalLost` and `TradeLost` say which transactions each step can lose so,
one of the two of an approval included. A lost `evm_revert` likewise may have gone through
(`RestoreFails`). A transaction in `txs` has its kind, by which
`GasFor` counts what it cost. Curve pools are assumed to take the
amount they are asked for, which `HopAssumption` states and the code relies on.
The allowance reset is in `Approve`, although no modelled contract leaves an
allowance behind: `execute_hop` fails on partial fills first.

`RewardSettlement` has one step per claimed reward. `Exchanged` accounts for
every token of the wallet, so that a sale may leave no intermediate token, spend
no other one, and charges exactly the gas it reports.

### ForkLifecycle

The definitions have names of their own (`LifecycleInit`, `LifecycleNext`, `Nothing`),
because `ForkProofs` has this module and `StorageSlots` side by side.
A record per `hodl` process: where its fork is between `__enter__` and
`__exit__`, and which of bridge, directory and Anvil it owns. A port is picked
and given back at once (`PickPort`), and bound later by Anvil (`Bind`). Anvil is
unconstrained: it may die, stay silent or ignore the signal. `OSError` before
the `try` is no `Unavailable` and ends the command (`SetupRaises`); a teardown
whose wait of 15 seconds expires is `stuck`: the program ends with its
Anvil still running. Left out: a missing `anvil` binary, which fails before
anything is opened; SIGKILL; and interrupts during the polling loop.

### StorageSlots and Seeding

One action per request to the node: the trace, and for each candidate word the
read, the probe, the question and the restoration. `AskFails` is the
`except Unavailable` of `mapping_slot`, which makes no difference between a
getter that reverts (a proxy whose implementation has just been overwritten)
and a node that does not answer. Each action of the engine has a fork of its own
at its own block, so every `OpenFork` chooses a layout anew, and with it the
contract may have been upgraded. `plan` is what each action asks for, in order:
words set, whole words captured, words captured earlier put back, and
transactions of the contract in between (`Act`). A captured word reaches the
next action only if this one succeeds (`Finish`).

`Contracts` says what is assumed of a contract: which word a getter shows
(or none, if it computes its answer), which it loads on the way, which part of the
word it shows, and which words it cannot do without. The assumption that matters
is `WordAssumption`: no contract has the probe, 2^71 + 19, in a word.
The order of candidates is left open, where the code follows the
trace. `Seeding` is the promise in one step per call: one getter's word is
replaced as a whole, every other getter answers as before. Left out:
`wrapper_slots` of `staking.py`, which finds the words of a struct by comparing
contents and writes no probe, and `shift`, which no caller passes.

### Positions and VaultShares

One deposit, or one whole exit, on a fork of its own. An action is one step of
`deposit` or `withdraw` between two changes of the wallet; `held` is the local
that walks through the function (`amount`, `underlying`, `shares`), and `InHand` in the
proofs is the token it is of. Contracts pay any amount of `Pays`, after up to two
approvals, so every check of the code has something to refuse (`Fails` is what
follows from it, and from any failed request). Conversions are the promise
of `RewardSettlement`: all of the input, one output, gas. `base` is a ghost, the
wallet once it was seeded. `vault` is what a vault's getters answer; only
`VaultDeposit` changes it (`After`). The gas price is that of `MarketData`, from the
transactions of the block. A block without transactions has none and fails the first
transaction, which the guard of `Transacts` says. `VaultShares` rounds as the code
does; `Unit`, 10^18 in the program, is a constant, so that locked profit is
released in a few steps of the model.

### Benchmarks, Calendar, MarketData and Records

`Benchmarks` is the frame of `compare`: dates one by one, then rows in the order of the
code's loops, token by token, cash, and strategy by strategy, where a strategy's rows are
whatever a strategy may report. `Answered` is one call of `Prices.at`: the market has been
seen at any subset of `Around`, and the API (external) answers each hourly sample with
the nearest observation within its search width, either one if two are equally
near. `Calendar` computes Unix times as Python's `datetime` does, for the
years 1970 to 2037, in which every fourth year is a leap year. `Records` keeps of a
row what the comparison reads: strategy, asset, date, status and proceeds. It leaves
every row at its place in the report (`RowsAt`), so that a row of the text and of the
CSV is the same place, not just an equal row. The
property helpers `Civil`, `Monthly` and `Latest` are definitions of their own,
written without what they check.

## 3. Runs

| Run | Question | Distinct states |
|---|---|---|
| `blocks` | do two runs racing on one cache, with different ceilings, over a growing chain, resolve exactly and alike? | 3,555,478 |
| `cache` | two processes, or one that is restarted, with a handler each, killed at any step, any request failing: is what was reported durable and first, do replays agree, has each failure a cause, does every `get` return? | 14,472 |
| `funded_deposit` | every sequence of probes: does the loop give up only when it should, and is each way out clean? | 275,514 |
| `engine` | three dates, one or two strategies and assets, a token listed later or removed after it was captured, everything may fail: is the position worth what one held on chain is, is there one row per date, is a loss final? | 815,186 |
| `positions` | every kind of position, contracts that pay what they like: is what is reported what the wallet shows, and are shares never worth more than was paid? | 256,866 |
| `benchmarks` | dates over fourteen months, prices from any market, reports of up to three strategies: do dates drift, is a price found, do text and CSV agree? | 38,197 |
| `router` | are rewards converted whole, once and as quoted, and do probes leave no trace? | 128,370 |
| `slots` | does seeding words of a contract that changes from fork to fork hit the right word, and do probes leave no trace? | 6,653 |
| `forks` | two commands with fork after fork: is everything released in order, and does every fork end? | 42,529 |
| `engine_brief`, `router_dust`, `forks_private` | expected violations, section 6 | |

Bounds and why they are enough.

- `blocks`: five blocks, so that searches take several probes and both halves matter;
  heads from 2 to 4. Heads 3 and 4 both cover the ends 6 and 7, so that two runs of one
  end may hold different ceilings, and head 2 covers neither, so that an explicit end
  may not be final yet; starts before genesis, before and after the block of the
  deployment; one anniversary, between blocks. Runs are symmetric. The proofs drop all
  bounds.
- `cache`: a cache file is used by one of two crews (`Crews`). One is a process alone,
  with two actions that share a read, one ending in `DepositLimit` (a class that is not
  kept by name) and one in `Unaffordable`. The other is two processes and one action with
  one read, which is enough for them to meet in every step. A process has one handler
  next to its main thread: it may be abandoned with its read while the main thread goes on
  to the next action, which reads for itself. The proofs have any number of each.
- `funded_deposit`: budgets to 12 give 0 to 4 halvings and 8 to 12 rounds; gas to
  18 at half a unit leaves room for nine rising needs after a halving, the case
  in which the loop really gives up.
- `engine`: three dates are entry, a month that follows a compound, a month
  that follows a skip, and the end. Shares of 5 have a working balance of 2, so
  the 40% rounding shows. One comparison has a single strategy and a token listed
  at the second date; the other adds a vault without rewards and a second asset, and
  its token is removed after it was captured at entry or not at all.
- `positions`: a strategy of each kind, v2 in three versions, on pools with ether, with
  wrapped ether and without a pool, from and to ether, the coin and another token.
  Vaults are empty, without shares, in profit, with locked profit that is all, partly or
  not released, with more locked than they have, shut down or at their limit. Amounts to
  3 are enough for shares that round to zero. The proofs drop all bounds.
- `benchmarks`: starts on January 31 before a common and a leap February, on November
  30 at the last second of the day and on February 29; ends on an anniversary and a
  second before and after it. Observations at both ends of the day, between samples and
  after the target. Proceeds below, between and above the benchmarks' so that each
  kind of row can be the best.
- `router`: a reward reaches ether over Curve, over either of two Uniswap fee tiers,
  and over an intermediate; `yCRV` is minted or bought; an LP token is redeemed
  first. So routes tie, beat each other only after gas, share venues, and
  begin or end with a wrap. Three sequences of claims have a zero amount, a
  reward that already is the target and two rewards that compete for the same
  venue. 40 ether units are enough for every gas bill, as on the fork, which is
  funded beforehand; quotes round to zero for the smallest amounts.
- `slots`: one contract at three dates, each time plain, behind a proxy that moved its
  words, with a getter that is not packed although its caller masks, or with a
  getter that computes its answer. Two getters, one of which loads the other's
  word first; three actions: deposit and capture, restore and capture again,
  restore. The proofs drop these bounds.
- `forks`: two processes and two ports are enough to be given one port or
  different ones; two blocks, to fork the same one or not. The proofs drop all
  of these bounds.

Deadlock is checked in every run; finished models stutter in `Done`.

Fairness is assumed only in `cache` and `forks` (`FairSpec`). In `cache`, for
`EveryGetReturns`: strong fairness of each frame's own step, in `get` or at the archive.
`Archive.request` has a 45 second timeout, so an answer or an error comes, and a thread
that waits for the lock competes with others that release it again and again, of which
Python's `RLock` wakes some waiter each time. And weak fairness of an action that makes
its next read or ends: it runs on the main thread, and every request it makes of its
node has a timeout. Nothing obliges a process to start, stop or ask. In `forks`, for
`EveryForkEnds`: weak fairness of the steps of the program once a fork is entered (each
request and the work in the `with` block have timeouts) and of the startup deadline,
which is a clock. Nothing is assumed of Anvil: that a silent or unkillable Anvil holds
nobody up is what the deadline and `wait(timeout=15)` are for.

What the properties say, in short (each is stated before its definition):

- `RowsExact`: cached dates and deployments do not depend on who found them below which
  ceiling. `RunsAgree`: no two runs work on different blocks for one date, also when the
  race for the ceiling row has left them with different ceilings, the latest block of
  one being earlier than that of the other. The row of a timestamp does not name a
  ceiling, and this is why it need not.
- `CeilingNeverRefuses`: the check in `Archive.at` is never what fails, which
  depends on `finalized_ceiling` refusing an end beyond the head.
- `DeployedInTime`: the code check before the cached lookup is needed, as
  `docs/verification.md` says ("Absent-contract checks run before the deployment
  lookup so offline reports retain the same reason").
- `ReplaysOffline`: "Use an explicit end date for an offline rerun".
- `SearchHalves`: both searches, including the rounding of the middle that keeps
  each of them from looping.
- `OneWriter`, `FirstWriteWins`, `ReportedIsDurable`,
  `ReplayReproduces`, `FailureHasCause`, `EveryGetReturns`:
  the cache between threads, processes and kills. `ReplayReproduces` is about
  one process: with two, the loser of a race has been told its own outcome
  and the row holds the winner's, so a failed read of one process may not be
  reproduced. The code accepts that; `ReportedIsDurable` is what is left.
  `FailureHasCause`: a stored `Unavailable` stays for good, so an action must not be
  given one for a request that failed for another action. Its own causes are any
  request it made itself, to the archive, the price API or its node.
- `GivesUpOnlyOnRisingGas`, `ImplementsGasFunding`: every way out of the probe loop.
- `ImplementsRewardSettlement`, `ExecutedAsQuoted`, `TransactionsMatch`: a conversion
  spends exactly its input and leaves nothing on the way; the probe that won is what the
  execution then does, so that only the node can fail it after it has begun to sell;
  gas, transactions and trades agree whatever probes came before, as long as the action
  is not given up for a failed request (`GivenUp`): a trade that was mined and not counted
  then remains, and nothing is reported from that fork. That wrapping joins
  consecutive hops is the guard of `WrapBetween`: a disconnected route would be a
  deadlock.
- `ImplementsSeeding`, `SlotsProven`, `UnsupportedHasCause`: seeding is atomic and hits
  the getter's own word on this very fork; a supported layout is refused only when
  a question failed. The last hazard is real: one failed question rejects the
  right word, and the row says "unsupported storage layout".
- `BridgeOutlivesAnvil`, `NothingLeftOpen`, `EveryForkEnds`: what a fork owns is
  released in order, whichever step failed.
- `ImplementsContinuousPosition`: what is carried from fork to fork, captured, restored
  and compounded, is worth what one position held on chain throughout is worth, with
  nothing lost or paid twice. `RemovedRewardsVisible`: a complete value leaves out no
  reward of a token that can no longer be claimed. `EveryMonthAttempted`, `OneRowEach`,
  `LossIsFinal`: a skipped compound or a failed exit costs its own date only, a lost
  position all later ones.
- `WalletAccounted`: the shares and proceeds a deposit or exit reports are what
  the wallet shows afterwards, token by token. The hard cases are those in which one
  balance has two uses: ether that is a coin of the pool and pays the gas, a reward
  that is the target, a kept reward that is the underlying.
- `NoFreeShares`: an accepted v2 deposit is never accounted for more than was paid.
  The expected shares and the accounting value take different free funds in version
  0.3.5, and both round down. The condition on the supply is needed: in a vault that
  has assets and no shares the first depositor owns them all.
- `DatesNeverDrift`: dates are compared with a calendar read back from the timestamps.
- `PriceFound`: 25 hourly samples with a search width of one hour leave no hole, as
  the comment in `Prices.at` claims: if anything was seen in the last 24 hours a price is
  found, although an answer after the target or before the day is rejected, and the
  last observation is missed by less than two hours.
- `TextMatchesCsv`, `BestIsHighest`: `report.py` compares once the rows of one
  date and once all of them, and prints one headline per asset from its first row.

## 4. Proofs

Eight modules, checked by `tlapm` to the last leaf. Each theorem holds for all
constants that satisfy the named assumption of the component's module, which
TLC evaluates on the instances.

`BlockResolutionProofs`, from `ChainAssumption`: timestamps increase strictly with the
block number; the dates of a scenario contain its start and none is after its end; the
contract has code from `FirstCode` on, as `HasCode` says. `IInv` is the conjunction of
the invariants the run checks, but for `RunsAgree`, and of `CeilingCovers`,
`SearchBrackets` and `ResolvesExactly`, which are proved only (lemma `Meaning`), so the
invariants are nearly their own strengthening: exact rows need the brackets of the
search, the brackets need the ceiling to reach the date, and that needs the scenario to
be ordered and the ceiling to have been checked. It is split into `Shared`, about head
and rows, and `Local(p)`, about one run. Rows are only added and the head only grows
(`Grows`), hence a step of one run keeps `Local` of the others (`OthersKeep`), and each
action is left with its own run (`StepOf`, `RunOnly`). That a binary search ends in the
right block needs no induction: the bracket is an invariant, and `IsLast` follows when
both ends meet. `RunsAgree` follows because what each run resolves is exact below its
own ceiling and there is only one last block at or before a date (`OneLast`).
`Logarithmic` proves the action property `SearchHalves` from `IInv` and the arithmetic
lemma `Halves`.

`EvidenceCacheProofs`, from `CacheAssumption`: for any number of processes, threads and
keys. `TypeOK /\ OneWriter` is inductive. `OneWriter` ties together the open
transaction, the lock of its process and the thread about to commit; without it nothing
says whose row a commit stores. `FirstWriteWins`, `ReadsSeeCommittedRows` and
`OnlyAnswersStored` (proved only, no run repeats them) follow from it, and
`ReportedIsDurable` because a caller is answered only at a hit or a commit.
`FailureHasCause` needs two more conjuncts: a frame that is waited for reads for the
action that is being fetched (`Awaited`), so a late failure of an abandoned fork can be
blamed on no other action (a failed request to the node is the main thread's own), and a
failure is blamed before it shows in a payload (`Blamed`). `ReplayReproduces`, for one
process on the file, needs that nobody stores the row of an action while it is fetched
(`Unstored`): then the payload that is returned is the row. With two processes that is
false, as section 3 says.

`FundedDepositProofs`, from `BoundsAssumption` and `BitLengthAssumption`: for every
budget, gas price and token price. `IInv` accounts for each round of the loop:
rounds left, halvings and raises add up to the bit length plus eight, and a
halved candidate has lost as many bits. `Convergence` follows: with no round
left, at least nine raises happened. `Implements` proves that each step is
a step of `GasFunding` or a stutter; the fork it leaves alone is `callersFork`, as saved
at the open snapshot, and `Break` is the only step that may change it.

`ForkProofs` proves two components whose names are disjoint. The first, from
`WordAssumption`, `LayoutAssumption` and `PlanAssumption`, is `StorageSlots`: for all
layouts, plans and numbers of words and getters. `IInv` has four parts: `Types`;
`Calling`, that the call in progress is one that seeks a word; `Clean`, that at most the
probed word is not what calls may see, with `old` its true content; and `Knowing`, what
the search knows, that is, remembered slots are right and the getter's own word is still
among the candidates unless a question failed. `TypeOK` alone is not inductive: that
`Undo` leaves no probe needs `old`, and `UnsupportedHasCause` needs the candidates.
`Implements` has one step per action; only `Seeded`, `TakeWord`, `OpenFork`, `Act`,
`Finish` and the failures are steps of `Seeding`, the rest stutter because `view` looks
through the probe.

The second, from `NothingAssumption`, is `ForkLifecycle`: for any number of processes,
ports and blocks. `Owned` ties what a fork owns to where its process is (`Owns`): the
bridge, the directory, the port, and an Anvil that may be alive only between its start
and its end. `BridgeOutlivesAnvil` and `NothingLeftOpen` say this of some places only
and are not inductive: that nothing is left at `idle` depends on every step of the
teardown having found what the step before it left. Each action changes one fork
(`OneFork`), so there is one step per action and no interference. `ForkIsPrivate`,
which does relate two forks, is false.

`RouterProofs`, from `HopAssumption`, `PriceAssumption` and `NoneAssumption`: for every
set of hops, venues, claims and prices. What these assume of the code's tables: CRV is
minted from and Uniswap trades wrapped ether, so neither starts from ether; Curve pools
take what they are asked for; a claim names each token once. The proof has three parts.

1. An execution is determined. `Follows` is the one step an execution can take when no
   request fails, from one fork and locals to the next (`OneStep`), and `Leads` says that
   such steps lead from one state to another: every set that contains the first and is
   closed under the steps contains the second. With this definition neither recursion nor
   induction is needed. `Executes` says that the execution in progress is where its start
   leads, and `Quoted` that the start of the best route leads to an end with the output
   and gas in `best`. A sale starts from the same fork as its probe, because what is
   restored is what was saved. If it were refused, or stopped, anywhere before the end, it
   would be at a state without a next step from which the end of the probe must still be
   reached (`LeadsOn`), hence at that end (`Unstuck`). `ExecutedAsQuoted` follows: only
   the node is left to fail it.
2. The wallet is accounted for. `Books` says at each request that the wallet is the one
   callers see, less the reward and the ether for gas, plus what is in hand (`Balanced`);
   after a trade, what was not taken of the input is in hand as well. `Reads` ties the
   balances that were read before a hop to the wallet after it, and says why an approval
   is enough and the gas refund of an ether output is exact. Wrapping is what makes a hop
   with equal tokens impossible: candidates lead from one canonical token to a different
   one, so they are sequences of `Crossings`. `Owed` says that later claims are still in
   the wallet while an earlier one is sold, which needs distinct tokens. The types of the
   wallet and of allowances, that is, that no step spends more than there is, follow from
   these, and so does that a sale is a step of `RewardSettlement`.
3. `Matched` says `TransactionsMatch` of the fork, unless the action is given up, and of
   what was saved, which no lost request can touch; each list of
   transactions is counted by kind and by venue, and an appended one adds one to
   exactly one count of each (`Appended`, from the theorems about cardinality).

`TransactionsMatch` would not survive a snapshot that left the list behind, and the two
properties alone are not inductive: nothing in them says what a probe has measured.

`PositionsProofs`, from `PositionAssumption` and `UnitAssumption`: for every catalog,
vault, block, price and amount, and whatever contracts pay. `IInv` balances the wallet
at every step: what it was, less the amount deposited, plus `held` in the token that is
in hand there, plus what has been settled, kept or not yet sold of the rewards, less the
gas (`Books`). `WalletAccounted` alone says nothing before the end and is not inductive.
Every step that moves tokens trades all of what is in hand for the next token
(`HandTrades`); that a redemption has burned all shares follows from the check that none
is left and from `Books` (`AllBurned`). `FreeShares` needs no state:
`FundsGrowByDeposit` bounds the funds by which shares are valued by those by which they
were issued, in every version, and `ShareBound` is the arithmetic.

`EngineProofs`, from `EngineAssumption`: for every number of strategies, assets and
dates, whatever contracts pay and whichever actions fail. `IInv` is `Places` (where the
loops of `compare` stand), `Pages` (each key has a sequence of statuses), `Counted`
(dates behind the loops have one row, those ahead none), `Finality` (whatever follows a
lost row is the same again) and `Remembered`: a loss is known to the code only as a
position that is none and a status kept for the later rows, and while the loop is at
that asset both must say what the rows say. Each step moves on without a row of a
strategy (`Moves`) or reports exactly the next date (`Reports`).

The position itself is the subject of a second invariant, `PInv`, proved on top of
`IInv`: the shape of what is carried (`Shaped`, `Underway`), the captured counters,
which never pay more than was earned, never run ahead of the contract and cover every
token listed at the entry (`Carried`), the events in order (`Logged`), one attempt to
compound for each month passed (`Attempted`), and that a value was quoted only where the
captured rewards could be restored (`Asked`). `TypeOK`, `EveryMonthAttempted` and
`RemovedRewardsVisible` follow. The last one holds under a hypothesis, `Lasting(c)` for
every comparison `c`: a token that is not listed at a date was listed at the entry, or
has paid nothing up to that date. Without it the property is false, which `engine_brief`
shows; the instance of `engine` satisfies it (`LastingComparisons`, evaluated by TLC).

`ContinuouslyHeld`, under the same hypothesis, is that `Engine` implements
`ContinuousPosition`: entering, skipping or making a compound, passing to the next date
and leaving are the steps of a position that was never taken apart, and all else
stutters. What makes it hold is that restored counters are the contract's counters of
that account (`RestoredIs`), so that a claim pays what was earned since the last one,
and that dust and gas are on both sides. The wealth in both modules is a sum over the
set of tokens, a fold; the facts about it (one element adds its term, equal functions
have equal sums, sums add) are proved for finite sets from the definition, by the
smallest set for which they fail (`Smallest`), because the library's induction theorems
cannot be used.

`BenchmarksProofs`, from `ScenarioAssumption`, `PriceAssumption` and `NoneAssumption`:
for all starts and ends up to 2037 and every market. Months are numbered from year 0, so
that the next one follows without a gap (`NextFirst`); the first of a month grows with
its number (`FirstGrows`, by the least counterexample, since the library's induction
cannot be used), hence the calendar that is read back from a timestamp finds the month
it was computed from (`CivilIs`), and a date clamped to a short month has the day it
should (`PointStep`, `PointDate`). That is `NoDrift`. For `PricesFound`: some sample is
near enough to the last observation, the one at or before it or, in the first hour, the
second one (`Covered`), and the latest of the answers is no earlier than what that
sample brings (`MaxOf`).

The report needs a second invariant. `Sheet` says which row is where: the n-th row is at
the date whose turn it was, it has proceeds exactly if it is complete, and after the
holdings there is a row of cash at each date. From it, `SameReport`: the best among all
rows is sought among those of the row's own date, which are the rows the text has, and
an asset's first record of the date carries what all of them do. `BestReported`: every
date has a complete row, that of cash, so that there is a best; that a greatest one
exists among any finite number of rows is shown again by a least counterexample.

The types of every component are proved; those of `FundedDeposit`, `BlockResolution`,
`ForkLifecycle`, `StorageSlots` and `Positions` are not repeated by a run.

Checked by TLC only: `EveryGetReturns` and `EveryForkEnds`, because liveness under
fairness is beyond the prover, and what is expected to be violated. Every other property
of a run is stated by a theorem.

## 5. Not modelled, and what could follow

- `wrapper_slots` of `staking.py`, which looks for the words of a struct by comparing their
  contents, and `shift`, which no caller passes.
- `reward_accrual` of `model.py`, a formula of reward contracts: `Engine` has the
  contract's counters instead.
- Minter periods: CRV inflation is one more reward token in `Engine`.
- The rest of the report: formatting, JSON and CSV fields are output of what
  `Records` has.
- Argument parsing, the `list` command, `Configuration`, and the catalog's address
  tables and ABI checks: data. Of a strategy that is verified, the models have only
  that.
- The hit and miss counters of `Cache`, which are incremented outside the lock and
  may lose counts: they are only printed.
- The legacy Brownie files, which `README.md` excludes from the program.

The contracts, Anvil, the archive and the price API are external: they appear as
the choices they leave the program.

What could follow: a composition of `Positions` with `FundedDeposit`, whose probes are
deposits of `Positions`, and of `Router` with `Engine`, which takes conversions as
`RewardSettlement` promises them.

## 6. Findings

`engine_brief` checks `RemovedRewardsVisible` with a reward token that the gauge
lists and removes again between two captures of the reward state. `README.md`
199-200 says "Removed reward tokens that the adapter cannot claim remain visible
as unsupported results." The code notices a removal only by comparing the
captured tokens with the listed ones (`hodl/positions.py` 395-408). A token that
was in no captured state is in neither, so the exit is reported as complete and
what the position earned in it appears nowhere. With a token that was captured
before it was removed, the statement holds (`engine`).

`router_dust` checks `RevertsAreNotDust`. `docs/verification.md` 35 says "Missing
routes and reverted calls still fail; they do not become rounding dust." `best`
raises `Unaffordable` as soon as one of the candidates rounded to zero
(`hodl/routes.py` 324), even if the others reverted, and `settle_rewards` then
keeps the reward as a residual of a row that is complete. TLC shows one route
that reverts and one that rounds to zero.

`forks_private` checks `ForkIsPrivate`. `hodl/fork.py` 1 says "Execute hypothetical
actions on a private, disposable Anvil fork only." The probe socket is closed
before Anvil binds the port (`hodl/fork.py` 160), and startup only checks that
some node on that port has the right block hash (203). Two comparisons of the
same block that are given the same port between them use one node: the Anvil of
the second ends because the port is taken, and its process goes on with the
first one's. That the fork is not the process's own child is never checked.
