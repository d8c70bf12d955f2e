------------------------------ MODULE Positions ------------------------------
(* deposit() and withdraw() of src/hodl/positions.py, with the staking calls of
   src/hodl/staking.py: one deposit of Simulator.enter or compound, or one whole
   Simulator.exit (src/hodl/simulation.py), on a fork of its own.

   Amounts are in units of each token.  What contracts pay is chosen freely; what
   a conversion does to the wallet is the promise of module RewardSettlement. *)
EXTENDS VaultShares, MarketData

CONSTANTS
  Tokens, ETH, WETH,
  Preferred,    \* the entry coins in order of preference
  Strategies,   \* records [kind, version, underlying, coins, share]: `coins` is
                \* empty without a pool, `share` the token that is the position
  Ends,         \* what deposits come from and exits go to
  Blocks,       \* blocks as module MarketData has them
  Vaults,       \* what the getters of a vault may answer
  Amounts,      \* what is deposited or redeemed
  Claims,       \* functions from Tokens: rewards claimed and idle balances
  Pays,         \* amounts a contract may pay
  MaxTxs,       \* transactions of one conversion
  Funds,        \* ether of the account
  Worth         \* price of a unit of each token, in wei

ASSUME PositionAssumption ==
  /\ {ETH, WETH} \subseteq Tokens /\ Ends \subseteq Tokens /\ None \notin Tokens \cup Int
  /\ \A s \in Strategies : /\ {s.underlying, s.share} \subseteq Tokens \ {ETH}
                           /\ s.coins \subseteq Tokens /\ s.underlying \notin s.coins
                           /\ s.kind = "lp" <=> s.share = s.underlying
  /\ \A b \in Blocks : gas_price(b, None) \in Nat \cup {None}
  /\ Preferred \in Seq(Tokens) /\ Vaults \subseteq VaultStates
  /\ Funds \in Nat /\ Amounts \subseteq Nat \ {0} /\ Pays \subseteq Nat /\ MaxTxs \in Nat \ {0}
  /\ Claims \subseteq [Tokens -> Nat] /\ Worth \in [Tokens -> Nat \ {0}]

VARIABLES
  goal, strategy, end, amount,  \* the arguments
  block, vault,                 \* what the archive knows
  fork,                         \* wallet and gas units
  base,                         \* history: the wallet once it was seeded
  held,                         \* amount the sequence has in hand
  rewards,                      \* still to be settled
  proceeds, residuals,
  outcome, pc
task == <<goal, strategy, end, amount, block, base>>
books == <<rewards, proceeds, residuals>>
vars == <<task, vault, fork, held, books, outcome, pc>>

Pending == [kind |-> "pending"]
Nothing == [t \in Tokens |-> 0]
Staked(s) == s.kind \in {"convex", "stakedao"}
IsVaultOf(s) == s.kind \in {"v2", "v3"}
HasPool == strategy.coins # {}

deposit_coin(s, t) ==
  LET preferred == {i \in DOMAIN Preferred : Preferred[i] \in s.coins}
  IN  IF s.coins = {} THEN s.underlying
      ELSE IF t \in s.coins THEN t
      ELSE IF t = ETH /\ WETH \in s.coins THEN WETH
      ELSE IF preferred = {} THEN None
      ELSE Preferred[CHOOSE i \in preferred : \A j \in preferred : i <= j]
coin == deposit_coin(strategy, end)

GasPrice == gas_price(block, None)
Wei(n) == IF GasPrice = None THEN 0 ELSE n * GasPrice

\* the fork after n transactions that trade x of token a for y of token b
Traded(n, a, x, b, y) ==
  [bal |-> [t \in Tokens |-> fork.bal[t] + (IF t = b THEN y ELSE 0)
              - (IF t = a THEN x ELSE 0) - (IF t = ETH THEN Wei(n) ELSE 0)],
   gas |-> fork.gas + n]
Transacts(n, a, x, b, y) == /\ n > 0 => GasPrice # None
                            /\ fork' = Traded(n, a, x, b, y)

\* approve: nothing for ether or a sufficient allowance, and a reset if some is left
Approvals(t) == IF t = ETH THEN {0} ELSE 0..2
\* a contract takes x of token a, once it is approved, and gives y of token b
Deposits(a, x, b, y) == \E k \in Approvals(a) : Transacts(k + 1, a, x, b, y)
Gained(t) == fork'.bal[t] - fork.bal[t]

\* Router.convert: what is paid, for a conversion that does not fail
Converts(a, b, x, y) ==
  /\ x > 0
  /\ \/ a = b /\ y = x /\ UNCHANGED fork
     \/ a # b /\ y > 0 /\ \E n \in 1..MaxTxs : Transacts(n, a, x, b, y)

Init == /\ goal \in {"deposit", "exit"}
        /\ strategy \in Strategies /\ end \in Ends /\ amount \in Amounts
        /\ block \in Blocks /\ vault \in Vaults
        /\ rewards \in IF goal = "exit" /\ (strategy.kind = "gauge" \/ Staked(strategy))
                       THEN Claims ELSE {Nothing}
        /\ LET token == IF goal = "deposit" THEN end ELSE strategy.share
           IN  base = [t \in Tokens |-> rewards[t] + (IF t = token THEN amount ELSE 0)
                                      + IF t = ETH THEN Funds ELSE 0]
        /\ fork = [bal |-> base, gas |-> 0]
        /\ held = amount /\ proceeds = 0 /\ residuals = Nothing
        /\ outcome = Pending
        /\ pc = IF goal = "deposit" THEN "convert" ELSE "rewards"

Goto(next) == pc' = next /\ UNCHANGED <<task, books, outcome>>
Return(result) == /\ outcome' = result /\ pc' = "done" /\ UNCHANGED <<task, books>>
Raise(error) == Return([kind |-> "raised", error |-> error]) /\ UNCHANGED <<vault, fork, held>>
-----------------------------------------------------------------------------
\* deposit()

Into == IF IsVaultOf(strategy) THEN "vault"
        ELSE IF strategy.kind = "lp" THEN "deposited" ELSE "stake"

Convert ==
  /\ pc = "convert" /\ coin # None
  /\ \E y \in Pays \cup {held} : Converts(end, coin, held, y) /\ held' = y
  /\ UNCHANGED vault /\ Goto(IF HasPool THEN "pool" ELSE Into)

\* pool_deposit: the LP tokens it minted
PoolDeposit ==
  /\ pc = "pool"
  /\ \E y \in Pays : Deposits(coin, held, strategy.underlying, y)
  /\ held' = Gained(strategy.underlying) /\ held' > 0
  /\ UNCHANGED vault /\ Goto(Into)

Capacity == IF strategy.kind = "v2" THEN vault.limit - vault.total ELSE vault.limit
Shutdown == strategy.kind = "v2" /\ vault.shutdown

DepositLimit ==
  /\ pc = "vault" /\ ~Shutdown /\ held > Capacity
  /\ Return([kind |-> "limit", amount |-> held,
             capacity |-> IF Capacity > 0 THEN Capacity ELSE 0])
  /\ UNCHANGED <<vault, fork, held>>

Expected == IF strategy.kind = "v3" THEN vault.preview
            ELSE v2_deposit_shares(held, vault.supply,
                                   free_funds(vault, strategy.version, TRUE))
SharesUnchecked(shares) == shares # 0
SharesAccepted(shares) == shares = Expected /\ shares # 0

VaultDeposit ==
  /\ pc = "vault" /\ ~Shutdown /\ held <= Capacity /\ Expected # None
  /\ \E y \in Pays : Deposits(strategy.underlying, held, strategy.share, y)
  /\ SharesAccepted(Gained(strategy.share))
  /\ held' = Gained(strategy.share)
  /\ vault' = After(vault, held, held')
  /\ Goto("deposited")

\* a gauge credits what it takes; the other contracts are asked
Stake ==
  /\ pc = "stake"
  /\ \E y \in IF Staked(strategy) THEN Pays ELSE {held} :
        Deposits(strategy.underlying, held, strategy.share, y)
  /\ Gained(strategy.share) = held
  /\ UNCHANGED <<vault, held>> /\ Goto("deposited")

Deposited ==
  /\ pc = "deposited"
  /\ Return([kind |-> "deposited", shares |-> held])
  /\ UNCHANGED <<vault, fork, held>>
-----------------------------------------------------------------------------
\* exit(): rewards first, then withdraw()

\* the claim of a gauge or staking contract, whose payments `base` already holds
Claim ==
  /\ pc = "rewards"
  /\ IF strategy.kind = "gauge" \/ Staked(strategy)
     THEN \E n \in 1..MaxTxs : Transacts(n, None, 0, None, 0)
     ELSE UNCHANGED fork
  /\ UNCHANGED <<vault, held>> /\ Goto("settle")

SettleReward ==
  /\ pc = "settle"
  /\ \E t \in Tokens :
       /\ rewards[t] > 0
       /\ rewards' = [rewards EXCEPT ![t] = 0]
       /\ \/ /\ \E y \in Pays \cup {rewards[t]} : /\ Converts(t, end, rewards[t], y)
                                                  /\ proceeds' = proceeds + y
             /\ UNCHANGED residuals
          \/ /\ t # end                                 \* Unaffordable
             /\ residuals' = [residuals EXCEPT ![t] = rewards[t]]
             /\ UNCHANGED <<fork, proceeds>>
  /\ UNCHANGED <<task, vault, held, outcome, pc>>

Settled == /\ pc = "settle" /\ rewards = Nothing
           /\ UNCHANGED <<vault, fork, held>>
           /\ Goto(IF IsVaultOf(strategy) THEN "redeem"
                   ELSE IF strategy.kind = "lp" THEN "sell" ELSE "unstake")

\* the whole position, and all of the principal
Unstake ==
  /\ pc = "unstake"
  /\ \E y \in IF Staked(strategy) THEN Pays ELSE {held} :
        Transacts(1, strategy.share, held, strategy.underlying, y)
  /\ Staked(strategy) => fork'.bal[strategy.share] = 0
  /\ Gained(strategy.underlying) = held
  /\ UNCHANGED <<vault, held>> /\ Goto("sell")

\* maxWithdraw is asked in assets, maxAvailableShares in shares
Redeemable == IF strategy.kind = "v3" THEN vault.preview <= vault.available
              ELSE held <= vault.available
Redeem ==
  /\ pc = "redeem" /\ Redeemable
  /\ \E y \in Pays, burned \in 1..held :
        Transacts(1, strategy.share, burned, strategy.underlying, y)
  /\ fork'.bal[strategy.share] = 0
  /\ held' = Gained(strategy.underlying)
  /\ UNCHANGED vault /\ Goto("sell")

\* pool_withdraw: an ether balance has also paid the gas
GasForgotten == 0
GasPaid == IF coin = ETH THEN (fork'.gas - fork.gas) * GasPrice ELSE 0
PoolWithdraw ==
  /\ pc = "sell" /\ HasPool /\ coin # None
  /\ \E y \in Pays : Transacts(1, strategy.underlying, held, coin, y)
  /\ held' = Gained(coin) + GasPaid /\ held' > 0
  /\ UNCHANGED vault /\ Goto("withdrawn")

ConvertOut ==
  /\ pc = IF HasPool THEN "withdrawn" ELSE "sell"
  /\ \E y \in Pays \cup {held} : Converts(coin, end, held, y) /\ held' = y
  /\ UNCHANGED vault /\ Goto("charge")

\* gas in units of the target token, rounded up
Debit == (Wei(fork.gas) + Worth[end] - 1) \div Worth[end]
Charge ==
  /\ pc = "charge" /\ GasPrice # None /\ held + proceeds > Debit
  /\ Return([kind |-> "exited", amount |-> held + proceeds - Debit])
  /\ UNCHANGED <<vault, fork, held>>

Unaffordable ==
  /\ pc = "charge" /\ GasPrice # None /\ held + proceeds <= Debit
  /\ Raise("Unaffordable")

\* a call, transaction, route or price fails, or a check of the code
Fails == pc # "done" /\ Raise("Unavailable")

Done == pc = "done" /\ UNCHANGED vars

Next == \/ Convert \/ PoolDeposit \/ DepositLimit \/ VaultDeposit \/ Stake
        \/ Deposited \/ Claim \/ SettleReward \/ Settled \/ Unstake \/ Redeem
        \/ PoolWithdraw \/ ConvertOut \/ Charge \/ Unaffordable \/ Fails \/ Done

Spec == Init /\ [][Next]_vars
-----------------------------------------------------------------------------
(* Types; what is in hand never falls below zero. *)
TypeOK ==
  /\ fork.bal \in [Tokens -> Int] /\ fork.gas \in Nat
  /\ held \in Nat /\ proceeds \in Nat
  /\ rewards \in [Tokens -> Nat] /\ residuals \in [Tokens -> Nat]
  /\ outcome.kind \in {"pending", "deposited", "exited", "limit", "raised"}
  /\ pc \in {"convert", "pool", "vault", "stake", "deposited", "rewards", "settle",
             "unstake", "redeem", "sell", "withdrawn", "charge", "done"}

(* The amounts the program reports are what the wallet shows, whichever calls led
   there: a deposit has turned exactly its amount into exactly the reported shares,
   and after an exit there are the reported proceeds and the gas debit, the
   residual rewards, and nothing else.  Ether pays the gas and nothing more. *)
WalletAccounted ==
  LET At(t, token, x) == IF t = token THEN x ELSE 0
  IN  /\ outcome.kind = "deposited" =>
           \A t \in Tokens :
             fork.bal[t] = base[t] + At(t, strategy.share, outcome.shares)
                           - At(t, end, amount) - At(t, ETH, Wei(fork.gas))
      /\ outcome.kind = "exited" =>
           \A t \in Tokens :
             fork.bal[t] = At(t, end, outcome.amount + Debit) + residuals[t]
                           + At(t, ETH, Funds - Wei(fork.gas))

\* what reports show as the accounting value of a v2 position
accounting_assets(v, s, shares) ==
  v2_share_value(shares, v.supply, free_funds(v, s.version, FALSE))

(* A Yearn V2 deposit that passed the check of its shares is not worth more, by the
   accounting the reports show, than the assets that went in, unless nobody else
   has a share of the vault: the check and the accounting use different amounts of
   free funds, by version. *)
NoFreeShares ==
  [][LET value == accounting_assets(vault', strategy, held')
     IN  vault' # vault /\ vault.supply > 0 /\ strategy.kind = "v2" /\ value # None =>
           value <= vault'.total - vault.total]_vars
=============================================================================
