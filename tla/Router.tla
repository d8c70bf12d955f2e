------------------------------- MODULE Router -------------------------------
(* Router (src/hodl/routes.py) as Simulator.settle_rewards drives it: every
   claimed reward is converted to one target token over the best route.  best()
   runs each candidate route on the local fork inside a snapshot and convert()
   then runs the winner for good.

   A contract's part is chosen at the start: how a venue treats a trade, and,
   as constants, what it pays and what gas it takes.  The local node may fail at
   any request. *)
EXTENDS Integers, Sequences, FiniteSets

CONSTANTS
  Tokens, ETH, WETH,
  Vias,          \* the intermediates of candidate_paths
  Hops,          \* records [source, target, kind, venue]
  Venues,        \* the contracts that trade
  UniswapRouter, \* the one spender all Uniswap venues share
  Targets,       \* tokens rewards may be sold for
  Claims,        \* sequences of claimed [token, amount]
  Ways,          \* functions from Venues to how a venue treats a trade
  Yield(_, _, _),\* what a hop pays for an amount after so many trades there
  Gas,           \* gas of each kind of transaction
  GasPrice,
  Worth,         \* price of a unit of each token
  Funds,         \* ether the account is given for gas
  None

Kinds == {"mint", "redeem", "curve", "uniswap"}
TxKinds == Kinds \cup {"approve", "wrap"}
Spenders == Venues \cup {UniswapRouter}

ASSUME HopAssumption ==
  /\ ETH \in Tokens /\ WETH \in Tokens /\ ETH # WETH
  /\ Vias \subseteq Tokens /\ Targets \subseteq Tokens
  /\ Hops \subseteq [source : Tokens, target : Tokens, kind : Kinds,
                     venue : Venues]
  /\ \A h \in Hops :   \* CRV is minted from, Uniswap trades wrapped ether
       h.kind \in {"mint", "uniswap"} => h.source # ETH
  /\ Claims \subseteq Seq([token : Tokens, amount : Nat])
  /\ \A c \in Claims : \A i, j \in DOMAIN c : c[i].token = c[j].token => i = j
  /\ Ways \subseteq [Venues -> {"fills", "partial", "reverts", "absent"}]
  /\ \A w \in Ways, h \in Hops :   \* Curve pools take what they are asked for
       w[h.venue] = "partial" => h.kind \in {"mint", "uniswap"}

ASSUME PriceAssumption ==
  /\ Gas \in [TxKinds -> Nat \ {0}]
  /\ GasPrice \in Nat /\ Funds \in Nat
  /\ Worth \in [Tokens -> Nat]

Forks == [bal : [Tokens -> Nat], allow : [Spenders -> [Tokens -> Nat]],
          trades : [Venues -> Nat], gas : Nat,
          txs : Seq([to : Tokens \cup Venues, kind : TxKinds])]
Routes == [route : Seq(Hops), output : Nat, gas : Nat, net : Int]
ASSUME NoneAssumption ==
  None \notin Forks /\ None \notin Routes /\ None \notin {"next", "Unavailable"}

VARIABLES
  target, way,      \* what rewards are sold for; how venues behave
  claims,           \* rewards still to settle
  proceeds, residuals, outcome,
  fork,             \* wallet, allowances, trades made, gas and transactions
  saved,            \* the fork at the open snapshot, None outside one
  entry,            \* ghost: the fork when convert() began to execute
  paths,            \* candidate routes not yet probed
  best,             \* the best route so far, with output, gas and net value
  failed,           \* classes of error the probes ended in
  run,              \* the route being executed and execute_hop's locals
  verdict,          \* how the probe ended, applied once it is undone
  pc

env == <<target, way>>
books == <<claims, proceeds, residuals, outcome>>
search == <<paths, best, failed>>
vars == <<env, books, fork, saved, entry, search, run, verdict, pc>>

Pending == [kind |-> "pending"]
NoRun == [route |-> <<>>, path |-> <<>>, held |-> None, amount |-> 0, before |-> 0,
          sourceBefore |-> 0, gasBefore |-> 0, gasStart |-> 0]
reward == Head(claims)
canonical(t) == IF t = ETH THEN WETH ELSE t

\* what a fork holds of the tokens the contracts have just paid out
Claimed(c, t) == IF \E i \in DOMAIN c : c[i].token = t
                 THEN c[CHOOSE i \in DOMAIN c : c[i].token = t].amount ELSE 0

Init == /\ target \in Targets
        /\ way \in Ways
        /\ claims \in Claims
        /\ fork = [bal |-> [t \in Tokens |-> Claimed(claims, t)
                                           + IF t = ETH THEN Funds ELSE 0],
                   allow |-> [s \in Spenders |-> [t \in Tokens |-> 0]],
                   trades |-> [v \in Venues |-> 0], gas |-> 0, txs |-> <<>>]
        /\ proceeds = 0 /\ residuals = <<>> /\ outcome = Pending
        /\ saved = None /\ entry = None
        /\ paths = {} /\ best = None /\ failed = {}
        /\ run = NoRun /\ verdict = None
        /\ pc = "reward"

\* settle_rewards: only Unaffordable keeps the reward and goes on
Handle(e) ==
  IF e = "Unaffordable"
  THEN /\ residuals' = Append(residuals, reward)
       /\ claims' = Tail(claims)
       /\ pc' = "reward"
       /\ UNCHANGED <<proceeds, outcome>>
  ELSE /\ outcome' = [kind |-> "raised", error |-> e]
       /\ pc' = "done"
       /\ UNCHANGED <<claims, proceeds, residuals>>

\* an exception of execute(): best() turns two classes into a rejected route
Throw(e) ==
  /\ run' = NoRun
  /\ entry' = None
  /\ UNCHANGED <<env, saved, paths, best>>
  /\ \/ /\ saved # None
        /\ pc' = "restore"
        /\ IF e \in {"Reverted", "Unaffordable"}
           THEN verdict' = "next" /\ failed' = failed \cup {e}
           ELSE verdict' = e /\ UNCHANGED failed
        /\ UNCHANGED books
     \/ /\ saved = None
        /\ Handle(e)
        /\ UNCHANGED <<failed, verdict>>
-----------------------------------------------------------------------------
\* settle_rewards, and best() up to its candidates

NextReward(paid) ==
  /\ claims' = Tail(claims)
  /\ proceeds' = proceeds + paid
  /\ pc' = "reward"
  /\ UNCHANGED <<residuals, outcome>>

SkipZero ==
  /\ pc = "reward" /\ claims # <<>>
  /\ reward.amount = 0
  /\ NextReward(0)
  /\ UNCHANGED <<env, fork, saved, entry, search, run, verdict>>

SameToken ==
  /\ pc = "reward" /\ claims # <<>>
  /\ reward.amount > 0 /\ reward.token = target
  /\ NextReward(reward.amount)
  /\ UNCHANGED <<env, fork, saved, entry, search, run, verdict>>

\* the steps of a path meet in distinct intermediates
At(p, a, i) == IF i = 0 THEN a ELSE canonical(p[i].target)
Connects(p, a, b) ==
  /\ At(p, a, Len(p)) = b
  /\ \A i \in 1..Len(p) : canonical(p[i].source) = At(p, a, i - 1)
IsCandidate(p, a, b) ==
  /\ Connects(p, a, b)
  /\ \A i \in 1..(Len(p) - 1) : At(p, a, i) \in Vias \ {a, b}
  /\ \A i, j \in 1..Len(p) : At(p, a, i) = At(p, a, j) => i = j

\* hops() finds a contract where code is deployed
Deployed == {h \in Hops : way[h.venue] # "absent"}
CandidatePaths(a, b) ==
  {p \in UNION {[1..n -> Deployed] : n \in 1..3} : IsCandidate(p, a, b)}

FindCandidates ==
  /\ pc = "reward" /\ claims # <<>>
  /\ reward.amount > 0 /\ reward.token # target
  /\ LET a == canonical(reward.token)
         b == canonical(target)
     IN  paths' = IF a = b THEN {<<>>} ELSE CandidatePaths(a, b)
  /\ best' = None /\ failed' = {}
  /\ pc' = "probe"
  /\ UNCHANGED <<env, books, fork, saved, entry, run, verdict>>

\* no price or gas price, an unreadable pool, an unverified mint operator
CandidatesUnknown ==
  /\ pc = "reward" /\ claims # <<>>
  /\ reward.amount > 0
  /\ \E e \in {"Unavailable", "Reverted"} : Handle(e)
  /\ UNCHANGED <<env, fork, saved, entry, search, run, verdict>>

Settle ==
  /\ pc = "reward" /\ claims = <<>>
  /\ outcome' = [kind |-> "settled", proceeds |-> proceeds,
                 residuals |-> residuals]
  /\ pc' = "done"
  /\ UNCHANGED <<env, claims, proceeds, residuals, fork, saved, entry, search,
                 run, verdict>>

Started(p) == [NoRun EXCEPT !.route = p, !.path = p, !.held = reward.token,
                            !.amount = reward.amount, !.gasStart = fork.gas]

\* with fork.snapshot(): the code's order of candidates only decides ties
Probe ==
  /\ pc = "probe" /\ paths # {}
  /\ \E p \in paths : run' = Started(p) /\ paths' = paths \ {p}
  /\ saved' = fork
  /\ pc' = "wrap"
  /\ UNCHANGED <<env, books, fork, entry, best, failed, verdict>>

SnapshotFails ==
  /\ pc = "probe" /\ paths # {}
  /\ Handle("Unavailable")
  /\ UNCHANGED <<env, fork, saved, entry, search, run, verdict>>

\* all candidates were probed: convert() executes the best one for good
Choose ==
  /\ pc = "probe" /\ paths = {} /\ best # None
  /\ run' = Started(best.route)
  /\ entry' = fork
  /\ pc' = "wrap"
  /\ UNCHANGED <<env, books, fork, saved, search, verdict>>

NoRoute ==
  /\ pc = "probe" /\ paths = {} /\ best = None
  /\ Handle(IF "Unaffordable" \in failed THEN "Unaffordable" ELSE "Unavailable")
  /\ UNCHANGED <<env, fork, saved, entry, search, run, verdict>>
-----------------------------------------------------------------------------
\* execute(): wrap_between and execute_hop, each step a request to the node;
\* f is the fork before the step, r the locals

hop(r) == Head(r.path)

(* Fork.transact: gas is paid in ether, and counted unless the receipt fails.  The
   node refuses a transaction whose ether and gas limit the account cannot pay: what
   it takes, the account affords; NodeFails is the refusal. *)
Ether(token, amount) == IF token = ETH THEN amount ELSE 0
Affords(f, value, gas) == value + gas * GasPrice <= f.bal[ETH]
Burned(f, gas) == [f EXCEPT !.bal[ETH] = @ - gas * GasPrice]
Mined(f, to, kind) == [Burned(f, Gas[kind]) EXCEPT
                         !.gas = @ + Gas[kind],
                         !.txs = Append(@, [to |-> to, kind |-> kind])]
Moved(f, from, to, amount) == [f EXCEPT !.bal[from] = @ - amount,
                                        !.bal[to] = @ + amount]

Needed(r) == IF r.path = <<>> THEN target ELSE hop(r).source
Wrapped(f, r) ==
  IF r.held = Needed(r) THEN f
  ELSE Mined(Moved(f, r.held, Needed(r), r.amount), WETH, "wrap")

\* disconnected tokens would be a ValueError: a deadlock here
WrapBetween ==
  /\ pc = "wrap" /\ canonical(run.held) = canonical(Needed(run))
  /\ \/ run.held = Needed(run)
     \/ Affords(fork, Ether(run.held, run.amount), Gas["wrap"])
  /\ fork' = Wrapped(fork, run)
  /\ pc' = IF run.path = <<>> THEN "finish" ELSE "read"
  /\ UNCHANGED <<env, books, saved, entry, search, run, verdict>>

Fill(r) == IF way[hop(r).venue] = "partial" THEN r.amount - 1 ELSE r.amount
Paid(f, r) == Yield(hop(r), Fill(r), f.trades[hop(r).venue])
QuoteFails(r) == hop(r).kind = "uniswap" /\ way[hop(r).venue] = "reverts"
QuoteZero(f, r) == hop(r).kind \in {"curve", "uniswap"} /\ Paid(f, r) = 0

QuoteReverts ==
  /\ pc = "read" /\ QuoteFails(run)
  /\ Throw("Reverted")
  /\ UNCHANGED fork

QuoteIsZero ==
  /\ pc = "read" /\ ~QuoteFails(run) /\ QuoteZero(fork, run)
  /\ Throw("Unaffordable")
  /\ UNCHANGED fork

Measured(f, r) == [r EXCEPT !.before = f.bal[hop(r).target],
                            !.sourceBefore = f.bal[hop(r).source],
                            !.gasBefore = f.gas]
ReadBalances ==
  /\ pc = "read" /\ ~QuoteFails(run) /\ ~QuoteZero(fork, run)
  /\ run' = Measured(fork, run)
  /\ pc' = "approve"
  /\ UNCHANGED <<env, books, fork, saved, entry, search, verdict>>

Spender(r) == IF hop(r).kind = "uniswap" THEN UniswapRouter ELSE hop(r).venue
Allowance(f, r) == f.allow[Spender(r)][hop(r).source]
TakesAllowance(r) == hop(r).kind # "redeem" /\ hop(r).source # ETH

\* Fork.approve: enough already, or reset what is left and set the amount
Short(f, r) == TakesAllowance(r) /\ Allowance(f, r) < r.amount
Granting(f, r, amount) == [Mined(f, hop(r).source, "approve") EXCEPT
                             !.allow[Spender(r)][hop(r).source] = amount]
Reset(f, r) == IF Short(f, r) /\ Allowance(f, r) > 0 THEN Granting(f, r, 0) ELSE f
Approved(f, r) == IF Short(f, r) THEN Granting(Reset(f, r), r, r.amount) ELSE f
Approve ==
  /\ pc = "approve"
  /\ fork' = Approved(fork, run)
  /\ Affords(fork, 0, fork'.gas - fork.gas)
  /\ pc' = "trade"
  /\ UNCHANGED <<env, books, saved, entry, search, run, verdict>>

Value(r) == Ether(hop(r).source, r.amount)
Traded(f, r) ==
  LET spent == IF TakesAllowance(r) THEN Fill(r) ELSE 0
  IN  Mined([f EXCEPT !.bal[hop(r).source] = @ - Fill(r),
                      !.bal[hop(r).target] = @ + Paid(f, r),
                      !.allow[Spender(r)][hop(r).source] = @ - spent,
                      !.trades[hop(r).venue] = @ + 1],
            hop(r).venue, hop(r).kind)
Trade ==
  /\ pc = "trade" /\ way[hop(run).venue] # "reverts"
  /\ Paid(fork, run) \in Nat   \* whatever a contract pays, it is an amount
  /\ Affords(fork, Value(run), Gas[hop(run).kind])
  /\ fork' = Traded(fork, run)
  /\ pc' = "measure"
  /\ UNCHANGED <<env, books, saved, entry, search, run, verdict>>

TradeReverts ==
  /\ pc = "trade" /\ way[hop(run).venue] = "reverts"
  /\ Affords(fork, Value(run), Gas[hop(run).kind])
  /\ fork' = Burned(fork, Gas[hop(run).kind])
  /\ Throw("Reverted")

Refund(f, r, token) ==
  IF token = ETH THEN (f.gas - r.gasBefore) * GasPrice ELSE 0
GasRefundAnyEther(f, r) ==
  Refund(f, r, IF hop(r).target = WETH THEN ETH ELSE hop(r).target)
GasRefund(f, r) == Refund(f, r, hop(r).target)
Output(f, r) == f.bal[hop(r).target] - r.before + GasRefund(f, r)

Spent(f, r) == r.sourceBefore - f.bal[hop(r).source]
PartlyMinted(f, r) == hop(r).kind = "mint" /\ Spent(f, r) # r.amount
PartlySpent(f, r) == hop(r).kind \in {"mint", "uniswap"} /\ Spent(f, r) # r.amount

PartialFill ==
  /\ pc = "measure" /\ PartlySpent(fork, run)
  /\ Throw("Reverted")
  /\ UNCHANGED fork

NoOutput ==
  /\ pc = "measure" /\ ~PartlySpent(fork, run) /\ Output(fork, run) <= 0
  /\ Throw(IF hop(run).kind = "redeem" THEN "Unaffordable" ELSE "Reverted")
  /\ UNCHANGED fork

Advanced(f, r) == [r EXCEPT !.path = Tail(@), !.amount = Output(f, r),
                            !.held = hop(r).target]
HopDone ==
  /\ pc = "measure" /\ ~PartlySpent(fork, run) /\ Output(fork, run) > 0
  /\ run' = Advanced(fork, run)
  /\ pc' = "wrap"
  /\ UNCHANGED <<env, books, fork, saved, entry, search, verdict>>

(* A request to the node fails.  What transact() sent may be mined all the same, and
   evm_mine, its receipt or its block not be had: the contracts saw a transaction
   that is not counted.  Of two approvals the first may have gone well. *)
Uncounted(f, g) == [g EXCEPT !.gas = f.gas, !.txs = f.txs]
Lost(f, value, g) == /\ Affords(f, value, g.gas - f.gas)
                     /\ fork' = Uncounted(f, g)

WrapLost == /\ pc = "wrap" /\ run.held # Needed(run)
            /\ canonical(run.held) = canonical(Needed(run))
            /\ \/ fork' = fork
               \/ Lost(fork, Ether(run.held, run.amount), Wrapped(fork, run))
ReadLost == pc \in {"read", "measure"} /\ fork' = fork
ApprovalLost ==
  /\ pc = "approve" /\ TakesAllowance(run)
  /\ LET reset == Reset(fork, run)
     IN  \/ fork' = fork
         \/ Lost(fork, 0, reset)
         \/ Affords(fork, 0, reset.gas - fork.gas) /\ fork' = reset
         \/ Lost(reset, 0, Approved(fork, run))
TradeLost ==
  /\ pc = "trade"
  /\ \/ fork' = fork
     \/ /\ Affords(fork, Value(run), Gas[hop(run).kind])
        /\ IF way[hop(run).venue] = "reverts"
           THEN fork' = Burned(fork, Gas[hop(run).kind])
           ELSE Paid(fork, run) \in Nat /\ fork' = Uncounted(fork, Traded(fork, run))

NodeFails == /\ WrapLost \/ ReadLost \/ ApprovalLost \/ TradeLost
             /\ Throw("Unavailable")
-----------------------------------------------------------------------------
\* the end of an execution

AllGas == fork.gas
GasUsed == fork.gas - run.gasStart
NetValue(output, gas) == output * Worth[target] - gas * GasPrice * Worth[ETH]
Route == [route |-> run.route, output |-> run.amount, gas |-> GasUsed,
          net |-> NetValue(run.amount, GasUsed)]

ProbeDone ==
  /\ pc = "finish" /\ saved # None
  /\ best' = IF best = None \/ Route.net > best.net THEN Route ELSE best
  /\ verdict' = "next"
  /\ pc' = "restore"
  /\ run' = NoRun
  /\ UNCHANGED <<env, books, fork, saved, entry, paths, failed>>

Sold ==
  /\ pc = "finish" /\ saved = None
  /\ NextReward(run.amount)
  /\ run' = NoRun /\ entry' = None
  /\ UNCHANGED <<env, fork, saved, search, verdict>>

RestoredButTransactions == [saved EXCEPT !.txs = fork.txs]
RestoredFork == saved

\* fork.snapshot's finally, then the probe's verdict takes effect
Restore ==
  /\ pc = "restore"
  /\ fork' = RestoredFork
  /\ saved' = None /\ verdict' = None
  /\ \/ verdict = "next" /\ pc' = "probe" /\ UNCHANGED books
     \/ verdict # "next" /\ Handle(verdict)
  /\ UNCHANGED <<env, entry, search, run>>

\* evm_revert refuses, or fails before or after it is done: its error replaces what was
\* in flight, and gas and transactions stay
RestoreFails ==
  /\ pc = "restore"
  /\ \/ Handle("RuntimeError") /\ fork' = fork
     \/ Handle("Unavailable") /\ fork' \in {fork, Uncounted(fork, saved)}
  /\ saved' = None /\ verdict' = None
  /\ UNCHANGED <<env, entry, search, run>>

Done == pc = "done" /\ UNCHANGED vars

Next == \/ SkipZero \/ SameToken \/ FindCandidates \/ CandidatesUnknown \/ Settle
        \/ Probe \/ SnapshotFails \/ Choose \/ NoRoute
        \/ WrapBetween \/ QuoteReverts \/ QuoteIsZero \/ ReadBalances \/ Approve
        \/ Trade \/ TradeReverts \/ PartialFill \/ NoOutput \/ HopDone \/ NodeFails
        \/ ProbeDone \/ Sold \/ Restore \/ RestoreFails \/ Done

Spec == Init /\ [][Next]_vars
-----------------------------------------------------------------------------
Executing == entry # None

(* Types.  No step spends or wraps more of a token than the wallet holds, nor
   more than was approved. *)
TypeOK ==
  /\ target \in Targets /\ way \in Ways
  /\ proceeds \in Nat
  /\ fork \in Forks
  /\ run.held \in Tokens \cup {None} /\ run.amount \in Nat
  /\ failed \subseteq {"Reverted", "Unaffordable"}
  /\ verdict \in {None, "next", "Unavailable"}
  /\ pc \in {"reward", "probe", "wrap", "read", "approve", "trade", "measure",
             "finish", "restore", "done"}

(* The action ends as unavailable, maybe for a request to the node that failed: it
   reports nothing, and its fork is given up. *)
GivenUp == \/ pc = "restore" /\ verdict = "Unavailable"
           \/ /\ pc = "done" /\ outcome.kind = "raised"
              /\ outcome.error \in {"Unavailable", "RuntimeError"}

(* The transactions reported, the gas charged for them and the trades the venues have
   seen agree, however many probes came before and whichever were refused or reverted.
   A lost answer may leave a trade that nobody counted, and then the action is given
   up. *)
TradesOf(v) ==
  Cardinality({i \in DOMAIN fork.txs : fork.txs[i].to = v /\ fork.txs[i].kind \in Kinds})
GasFor(kind) ==
  Gas[kind] * Cardinality({i \in DOMAIN fork.txs : fork.txs[i].kind = kind})
TransactionsMatch == ~GivenUp =>
  /\ \A v \in Venues : fork.trades[v] = TradesOf(v)
  /\ fork.gas = GasFor("approve") + GasFor("wrap") + GasFor("mint") + GasFor("redeem")
                + GasFor("curve") + GasFor("uniswap")

(* What the winning probe measured is what its execution then does: the same
   output for the same gas.  Only a failing node can end it otherwise, so no
   conversion is refused, or kept as too small, after it has begun to sell. *)
SoldAsQuoted == /\ proceeds' = proceeds + best.output
                /\ fork'.gas = entry.gas + best.gas
ExecutedAsQuoted ==
  [][Executing /\ entry' = None =>
       SoldAsQuoted \/ outcome' = [kind |-> "raised", error |-> "Unavailable"]]_vars

(* A reward that is kept in the wallet was too small for every route that was
   tried: "Missing routes and reverted calls still fail; they do not become
   rounding dust" (docs/verification.md). *)
RevertsAreNotDust == [][residuals' # residuals => "Reverted" \notin failed]_vars

(* settle_rewards sells or keeps each reward whole, once, and its probes leave
   no trace: the fork its callers see is the one before a probe or a sale. *)
callersFork == IF saved # None THEN saved ELSE IF Executing THEN entry ELSE fork
Settlement == INSTANCE RewardSettlement WITH fork <- callersFork
ImplementsRewardSettlement == Settlement!Spec
=============================================================================
