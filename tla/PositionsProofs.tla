-------------------------- MODULE PositionsProofs ---------------------------
(* Proofs about deposits, exits and vault shares, for every catalog, vault and
   amount: a vault's shares are not worth more than what they cost, and the amounts
   that are reported are what the wallet shows. *)
EXTENDS Positions, TLAPS, WellFoundedInduction

(* Rounding down: a quotient is a number and stays below every strict bound. *)
LEMMA Quotient ==
  ASSUME NEW a \in Nat, NEW b \in Nat \ {0}
  PROVE  /\ a \div b \in Nat
         /\ (a \div b) * b <= a
         /\ \A c \in Nat : a <= c * b => a \div b <= c
<1>1. /\ a \div b \in Nat
      /\ (a \div b) * b <= a
  OBVIOUS
<1>2. ASSUME NEW c \in Nat, a <= c * b PROVE a \div b <= c
  <2>1. SUFFICES ASSUME a \div b >= c + 1 PROVE FALSE
    BY <1>1
  <2>2. (a \div b) * b >= (c + 1) * b
    BY <1>1, <2>1
  <2>3. (c + 1) * b = c * b + b
    OBVIOUS
  <2> QED BY <1>1, <1>2, <2>2, <2>3
<1> QED BY <1>1, <1>2

(* Shares issued against `funds` and valued against at most `funds` and what was
   paid for them are worth no more than that. *)
LEMMA ShareBound ==
  ASSUME NEW paid \in Nat, NEW supply \in Nat \ {0}, NEW funds \in Nat \ {0},
         NEW later \in Nat, later <= funds + paid
  PROVE  LET shares == (paid * supply) \div funds
         IN  (shares * later) \div (supply + shares) <= paid
<1> DEFINE shares == (paid * supply) \div funds
<1>1. shares \in Nat /\ shares * funds <= paid * supply
  <2>1. paid * supply \in Nat
    OBVIOUS
  <2> QED BY <2>1, Quotient
<1> HIDE DEF shares
<1>2. shares * later <= shares * (funds + paid)
  BY <1>1
<1>3. shares * (funds + paid) = shares * funds + shares * paid
  BY <1>1
<1>4. paid * (supply + shares) = paid * supply + shares * paid
  BY <1>1
<1>5. shares * later <= paid * (supply + shares)
  <2>1. shares * later \in Int /\ shares * paid \in Int /\ shares * funds \in Int
        /\ paid * supply \in Int /\ paid * (supply + shares) \in Int
    BY <1>1
  <2> QED BY <1>1, <1>2, <1>3, <1>4, <2>1
<1>6. shares * later \in Nat /\ supply + shares \in Nat \ {0}
  BY <1>1
<1> QED BY <1>5, <1>6, Quotient DEF shares

(* Locked profit is never negative, and never counts as funds. *)
LEMMA LockedType ==
  ASSUME NEW v \in VaultStates, v.elapsed >= 0
  PROVE  Locked(v) \in Nat
<1>1. v.elapsed * v.degradation \in Nat /\ v.locked \in Nat
  BY DEF VaultStates
<1>2. ASSUME NEW ratio \in Nat, ratio < Unit
      PROVE  v.locked - (ratio * v.locked) \div Unit \in Nat
  <2>1. ratio * v.locked \in Nat
    BY <1>1
  <2>2. ratio * v.locked <= v.locked * Unit
    BY <1>1, <1>2, UnitAssumption
  <2> QED BY <1>1, <2>1, <2>2, Quotient, UnitAssumption
<1> QED BY <1>1, <1>2, UnitAssumption DEF Locked

(* What a deposit leaves of the vault. *)
LEMMA AfterType ==
  ASSUME NEW v \in VaultStates, NEW paid \in Nat, NEW shares \in Nat
  PROVE  /\ After(v, paid, shares) \in VaultStates
         /\ After(v, paid, shares).total = v.total + paid
         /\ After(v, paid, shares).supply = v.supply + shares
         /\ After(v, paid, shares).elapsed = v.elapsed
         /\ Locked(After(v, paid, shares)) = Locked(v)
<1> DEFINE u == [v EXCEPT !.total = v.total + paid]
           w == [u EXCEPT !.supply = v.supply + shares]
<1>1. /\ u \in VaultStates /\ u.total = v.total + paid
      /\ u.supply = v.supply /\ u.elapsed = v.elapsed
      /\ u.locked = v.locked /\ u.degradation = v.degradation
  BY DEF VaultStates
<1>2. After(v, paid, shares) = w
  BY DEF After
<1> HIDE DEF u
<1>3. /\ w \in VaultStates /\ w.total = u.total /\ w.supply = v.supply + shares
      /\ w.elapsed = u.elapsed /\ w.locked = u.locked /\ w.degradation = u.degradation
  BY <1>1 DEF VaultStates
<1> HIDE DEF w
<1> QED BY <1>1, <1>2, <1>3 DEF Locked

(* The funds that count for the value of a position exceed those its shares were
   issued against by what was paid at most, in every version. *)
LEMMA FundsGrowByDeposit ==
  ASSUME NEW v \in VaultStates, NEW version, NEW paid \in Nat, NEW shares \in Nat,
         free_funds(v, version, TRUE) # None,
         free_funds(After(v, paid, shares), version, FALSE) # None
  PROVE  LET before == free_funds(v, version, TRUE)
             later == free_funds(After(v, paid, shares), version, FALSE)
         IN  before \in Nat /\ later \in Nat /\ later <= before + paid
<1> DEFINE w == After(v, paid, shares)
           before == free_funds(v, version, TRUE)
           later == free_funds(w, version, FALSE)
<1> SUFFICES before \in Nat /\ later \in Nat /\ later <= before + paid
  OBVIOUS
<1>1. /\ w \in VaultStates /\ w.total = v.total + paid /\ w.elapsed = v.elapsed
      /\ Locked(w) = Locked(v)
  BY AfterType
<1>2. v.total \in Nat /\ v.elapsed \in Int
  BY DEF VaultStates
<1>3. before # None /\ later # None
  OBVIOUS
<1> HIDE DEF w, before, later
<1>4. CASE version = "0.3.0"
  <2>1. free_funds(w, version, FALSE) = w.total /\ free_funds(v, version, TRUE) = v.total
    BY <1>4 DEF free_funds
  <2>2. /\ before = v.total /\ later = v.total + paid
    BY <1>1, <2>1 DEF before, later
  <2> QED BY <1>2, <2>2
<1>5. CASE version # "0.3.0"
  <2>1. free_funds(w, version, FALSE) = v2_free_funds(w)
    BY <1>5 DEF free_funds
  <2>2. v2_free_funds(w) = v.total + paid - Locked(v) /\ v.elapsed >= 0
        /\ Locked(v) <= v.total + paid
    <3>1. v2_free_funds(w) # None
      BY <1>3, <2>1 DEF later
    <3>2. ~(w.elapsed < 0 \/ Locked(w) > w.total)
      BY <3>1 DEF v2_free_funds
    <3>3. v.elapsed >= 0
      BY <1>1, <1>2, <3>2
    <3>4. Locked(v) \in Nat
      BY <3>3, LockedType
    <3> QED BY <1>1, <1>2, <3>2, <3>3, <3>4 DEF v2_free_funds
  <2>3. Locked(v) \in Nat
    BY <2>2, LockedType
  <2>4. \/ before = v.total
        \/ /\ before = v.total - Locked(v)
           /\ Locked(v) <= v.total
    BY <1>2, <1>3, <2>2, <2>3 DEF before, free_funds, v2_free_funds
  <2>5. later = v.total + paid - Locked(v)
    BY <2>1, <2>2 DEF later
  <2> QED BY <1>2, <2>2, <2>3, <2>4, <2>5
<1> QED BY <1>4, <1>5

(* None is not a number. *)
LEMMA NatIsNotNone == ASSUME None \notin Int PROVE \A n \in Nat : n # None
OBVIOUS

(* The accounting value of accepted shares. *)
LEMMA AcceptedValue ==
  ASSUME NEW v \in VaultStates, NEW s, s.kind = "v2", NEW paid \in Nat, NEW shares \in Nat,
         v.supply > 0,
         shares = v2_deposit_shares(paid, v.supply, free_funds(v, s.version, TRUE)),
         None \notin Int,
         accounting_assets(After(v, paid, shares), s, shares) # None
  PROVE  accounting_assets(After(v, paid, shares), s, shares) <= paid
<1> DEFINE w == After(v, paid, shares)
           before == free_funds(v, s.version, TRUE)
           later == free_funds(w, s.version, FALSE)
<1>1. v.supply \in Nat \ {0} /\ w.supply = v.supply + shares
  <2>1. v.supply \in Nat
    BY DEF VaultStates
  <2>2. w.supply = v.supply + shares
    BY AfterType
  <2> HIDE DEF w
  <2> QED BY <2>1, <2>2
<1>2. before \notin {0, None} /\ shares = (paid * v.supply) \div before
  <2>1. shares = v2_deposit_shares(paid, v.supply, before)
    OBVIOUS
  <2> HIDE DEF before
  <2>2. v.supply # 0 /\ shares # None
    BY <1>1, NatIsNotNone
  <2>3. before # 0 /\ before # None
    BY <2>1, <2>2 DEF v2_deposit_shares
  <2> QED BY <2>1, <2>2, <2>3 DEF v2_deposit_shares
<1>3. later # None
      /\ accounting_assets(w, s, shares) = (shares * later) \div (v.supply + shares)
  BY <1>1 DEF accounting_assets, v2_share_value
<1>4. before \in Nat \ {0} /\ later \in Nat /\ later <= before + paid
  BY <1>2, <1>3, FundsGrowByDeposit
<1> HIDE DEF w, before, later
<1>5. (shares * later) \div (v.supply + shares) <= paid
  BY <1>1, <1>2, <1>4, ShareBound
<1> QED BY <1>3, <1>5 DEF w
-----------------------------------------------------------------------------
(* The inductive invariant.  Gas is kept opaque as Cost: what n transactions of a
   block burn. *)
Cost(b, n) == IF gas_price(b, None) = None THEN 0 ELSE n * gas_price(b, None)
Part(t, token, x) == IF t = token THEN x ELSE 0

\* the token of what is in hand
InHand == IF pc \in {"convert", "charge"} THEN end
          ELSE IF pc \in {"pool", "withdrawn"} THEN coin
          ELSE IF pc \in {"vault", "stake", "sell"} THEN strategy.underlying
          ELSE strategy.share

DepositSteps == {"convert", "pool", "vault", "stake", "deposited"}
ExitSteps == {"rewards", "settle", "unstake", "redeem", "sell", "withdrawn", "charge"}

Arguments ==
  /\ strategy \in Strategies /\ end \in Ends /\ amount \in Nat /\ block \in Blocks
  /\ vault \in VaultStates /\ base \in [Tokens -> Int]
Numbers == /\ fork.bal \in [Tokens -> Int] /\ fork.gas \in Nat
           /\ held \in Nat /\ proceeds \in Nat
           /\ rewards \in [Tokens -> Nat] /\ residuals \in [Tokens -> Nat]
Places ==
  /\ pc \in DepositSteps \cup ExitSteps \cup {"done"}
  /\ pc # "done" => outcome = Pending
  /\ outcome.kind \in {"pending", "deposited", "exited", "limit", "raised"}
  /\ pc \in {"pool", "withdrawn"} => HasPool /\ coin # None
  /\ pc = "vault" => IsVaultOf(strategy)
  /\ pc \in {"stake", "unstake", "redeem"} => strategy.kind # "lp"
  /\ pc = "deposited" /\ strategy.kind = "lp" => strategy.share = strategy.underlying
  /\ pc \in {"unstake", "redeem", "sell", "withdrawn", "charge"} => rewards = Nothing
  /\ \A t \in Tokens : rewards[t] > 0 => residuals[t] = 0

\* where the wallet stands, but for the gas
DepositBook(t) == base[t] - Part(t, end, amount) + Part(t, InHand, held)
ExitBook(t) == Part(t, InHand, held) + Part(t, end, proceeds) + residuals[t] + rewards[t]
               + Part(t, ETH, Funds)
Books ==
  /\ pc \in DepositSteps =>
       \A t \in Tokens : fork.bal[t] = DepositBook(t) - Part(t, ETH, Cost(block, fork.gas))
  /\ pc \in ExitSteps =>
       \A t \in Tokens : fork.bal[t] = ExitBook(t) - Part(t, ETH, Cost(block, fork.gas))

IInv == Arguments /\ Numbers /\ Places /\ Books /\ WalletAccounted

(* It contains the type invariant. *)
LEMMA Typed == IInv => TypeOK
BY DEF IInv, Numbers, Places, TypeOK, DepositSteps, ExitSteps

(* What the catalog says of a strategy's tokens, and a block of its gas price. *)
LEMMA Catalog ==
  ASSUME Arguments
  PROVE  /\ strategy.underlying \in Tokens \ {ETH} /\ strategy.share \in Tokens \ {ETH}
         /\ strategy.underlying \notin strategy.coins /\ strategy.coins \subseteq Tokens
         /\ strategy.kind = "lp" <=> strategy.share = strategy.underlying
         /\ end \in Tokens /\ ETH \in Tokens
         /\ GasPrice \in Nat \cup {None}
BY PositionAssumption DEF Arguments, GasPrice

(* Gas adds up. *)
LEMMA CostAdds ==
  ASSUME NEW b \in Blocks
  PROVE  /\ Cost(b, 0) = 0 /\ \A n \in Nat : Cost(b, n) \in Nat
         /\ \A m, n \in Nat : Cost(b, m + n) = Cost(b, m) + Cost(b, n)
<1>1. CASE gas_price(b, None) = None
  BY <1>1 DEF Cost
<1>2. CASE gas_price(b, None) # None
  <2> DEFINE g == gas_price(b, None)
  <2>1. g \in Nat
    BY <1>2, PositionAssumption
  <2>2. \A n : Cost(b, n) = n * g
    BY <1>2 DEF Cost
  <2> HIDE DEF g
  <2>3. \A m, n \in Nat : n * g \in Nat /\ 0 * g = 0 /\ (m + n) * g = m * g + n * g
    BY <2>1
  <2> QED BY <2>2, <2>3
<1> QED BY <1>1, <1>2

(* Transactions that trade x of one token for y of another, and what they burn. *)
LEMMA Trades ==
  ASSUME IInv, NEW n \in Nat, NEW a, NEW x \in Int, NEW b, NEW y \in Int,
         Transacts(n, a, x, b, y)
  PROVE  /\ fork'.gas = fork.gas + n /\ fork'.gas \in Nat
         /\ fork'.bal \in [Tokens -> Int]
         /\ Cost(block, fork'.gas) = Cost(block, fork.gas) + Cost(block, n)
         /\ Cost(block, n) \in Nat /\ Cost(block, fork.gas) \in Nat
         /\ \A t \in Tokens : fork'.bal[t] = fork.bal[t] + Part(t, b, y) - Part(t, a, x)
                                            - Part(t, ETH, Cost(block, n))
<1>1. fork.gas \in Nat /\ fork.bal \in [Tokens -> Int] /\ block \in Blocks
  BY DEF IInv, Numbers, Arguments
<1>2. fork' = [bal |-> [t \in Tokens |-> fork.bal[t] + (IF t = b THEN y ELSE 0)
                         - (IF t = a THEN x ELSE 0) - (IF t = ETH THEN Cost(block, n) ELSE 0)],
               gas |-> fork.gas + n]
  BY DEF Transacts, Traded, Wei, GasPrice, Cost
<1>3. /\ Cost(block, n) \in Nat /\ Cost(block, fork.gas) \in Nat
      /\ Cost(block, fork.gas + n) = Cost(block, fork.gas) + Cost(block, n)
  BY <1>1, CostAdds
<1>4. fork'.gas = fork.gas + n /\ fork'.gas \in Nat
  BY <1>1, <1>2
<1>5. \A t \in Tokens : fork.bal[t] + (IF t = b THEN y ELSE 0) - (IF t = a THEN x ELSE 0)
                        - (IF t = ETH THEN Cost(block, n) ELSE 0) \in Int
  BY <1>1, <1>3
<1>6. fork'.bal \in [Tokens -> Int]
  BY <1>2, <1>5
<1>7. \A t \in Tokens : fork'.bal[t] = fork.bal[t] + Part(t, b, y) - Part(t, a, x)
                                       - Part(t, ETH, Cost(block, n))
  BY <1>2 DEF Part
<1> QED BY <1>1, <1>3, <1>4, <1>6, <1>7
(* A nonempty set of natural numbers has a least element. *)
LEMMA Least ==
  ASSUME NEW S \in SUBSET Nat, S # {}
  PROVE  \E n \in S : \A m \in S : n <= m
<1> DEFINE R == OpToRel(<, Nat)
<1>1. IsWellFoundedOn(R, Nat)
  BY NatLessThanWellFounded
<1>2. \A a, b \in Nat : a < b => <<a, b>> \in R
  BY DEF OpToRel
<1> HIDE DEF R
<1>3. PICK n \in S : \A m \in S : ~(<<m, n>> \in R)
  BY <1>1, WFMin
<1>4. \A m \in S : m \in Nat /\ n \in Nat /\ ~(m < n)
  BY <1>2, <1>3
<1>5. \A m \in S : n <= m
  BY <1>4
<1> QED BY <1>5

(* The coin of a pool is one of its coins; without a pool it is the underlying. *)
LEMMA CoinType ==
  ASSUME Arguments, coin # None
  PROVE  /\ coin \in Tokens
         /\ IF HasPool THEN coin \in strategy.coins /\ coin # strategy.underlying
            ELSE coin = strategy.underlying
<1>1. CASE strategy.coins = {}
  BY <1>1, Catalog DEF coin, deposit_coin, HasPool
<1>2. CASE strategy.coins # {}
  <2> DEFINE preferred == {i \in DOMAIN Preferred : Preferred[i] \in strategy.coins}
             first == CHOOSE i \in preferred : \A j \in preferred : i <= j
  <2>1. preferred # {} => first \in preferred
    <3>1. preferred \in SUBSET Nat
      BY PositionAssumption
    <3> QED BY <3>1, Least
  <2>2. \/ coin = end /\ end \in strategy.coins
        \/ coin = WETH /\ WETH \in strategy.coins
        \/ preferred # {} /\ coin = Preferred[first]
    BY <1>2 DEF coin, deposit_coin
  <2>3. coin \in strategy.coins
    BY <2>1, <2>2
  <2> QED BY <1>2, <2>3, Catalog DEF HasPool
<1> QED BY <1>1, <1>2

(* Unless a deposit or an exit has just returned, there is nothing to account for. *)
LEMMA NothingReturned ==
  ASSUME outcome'.kind \notin {"deposited", "exited"}
  PROVE  WalletAccounted'
BY DEF WalletAccounted

(* The initial states satisfy the invariant. *)
LEMMA InitIInv == Init => IInv
<1> SUFFICES ASSUME Init PROVE IInv
  OBVIOUS
<1> USE DEF Init, Pending, Nothing
<1>1. rewards \in [Tokens -> Nat] /\ (goal = "deposit" => rewards = Nothing)
  BY PositionAssumption
<1>2. amount \in Nat /\ amount # 0 /\ Funds \in Nat
  BY PositionAssumption
<1> DEFINE token == IF goal = "deposit" THEN end ELSE strategy.share
<1>3. base = [t \in Tokens |-> rewards[t] + (IF t = token THEN amount ELSE 0)
                              + IF t = ETH THEN Funds ELSE 0]
  OBVIOUS
<1>4. \A t \in Tokens : base[t] = rewards[t] + Part(t, token, amount) + Part(t, ETH, Funds)
  BY <1>3 DEF Part
<1>5. base \in [Tokens -> Int]
  BY <1>1, <1>2, <1>3
<1>6. Arguments
  BY <1>2, <1>5, PositionAssumption DEF Arguments
<1>7. Numbers
  BY <1>1, <1>2, <1>5 DEF Numbers
<1>8. Places
  BY DEF Places, DepositSteps, ExitSteps
<1>9. Books
  <2>1. Cost(block, 0) = 0
    BY <1>6, CostAdds DEF Arguments
  <2>2. ASSUME NEW t \in Tokens
        PROVE  /\ base[t] \in Int /\ rewards[t] \in Nat
               /\ base[t] = rewards[t] + Part(t, token, amount) + Part(t, ETH, Funds)
    BY <1>1, <1>4, <1>5
  <2>3. CASE goal = "deposit"
    <3>1. pc = "convert" /\ InHand = end /\ token = end /\ held = amount
      BY <2>3 DEF InHand
    <3> QED BY <1>2, <2>1, <2>2, <3>1 DEF Books, DepositBook, DepositSteps, ExitSteps, Part
  <2>4. CASE goal = "exit"
    <3>1. pc = "rewards" /\ InHand = strategy.share /\ token = strategy.share
          /\ held = amount /\ proceeds = 0
      BY <2>4 DEF InHand
    <3>2. \A t \in Tokens : residuals[t] = 0 /\ fork.bal[t] = base[t] /\ fork.gas = 0
      OBVIOUS
    <3> QED BY <1>2, <2>1, <2>2, <3>1, <3>2
         DEF Books, ExitBook, DepositSteps, ExitSteps, Part
  <2> QED BY <2>3, <2>4
<1>10. WalletAccounted
  BY DEF WalletAccounted
<1> QED BY <1>6, <1>7, <1>8, <1>9, <1>10 DEF IInv
-----------------------------------------------------------------------------
(* A step that leaves the arguments alone and the position open keeps the
   invariant if it keeps types, places and books. *)
LEMMA Goes ==
  ASSUME IInv, task' = task, vault' \in VaultStates,
         outcome' = outcome, outcome = Pending, Numbers', Places', Books'
  PROVE  IInv'
<1>1. Arguments'
  BY DEF IInv, Arguments, task
<1>2. WalletAccounted'
  BY NothingReturned DEF Pending
<1> QED BY <1>1, <1>2 DEF IInv

(* A trade of all that is in hand moves the wallet from one token to the next. *)
LEMMA HandTrades ==
  ASSUME IInv, task' = task, UNCHANGED <<proceeds, residuals, rewards>>,
         NEW n \in Nat, Transacts(n, InHand, held, InHand', held'), held' \in Int,
         \/ pc \in DepositSteps /\ pc' \in DepositSteps
         \/ pc \in ExitSteps /\ pc' \in ExitSteps
  PROVE  Books'
<1> DEFINE a == InHand
           b == InHand'
<1>1. held \in Int
  BY DEF IInv, Numbers
<1> HIDE DEF a, b
<1>2. /\ fork'.gas \in Nat
      /\ Cost(block, fork'.gas) = Cost(block, fork.gas) + Cost(block, n)
      /\ Cost(block, n) \in Nat /\ Cost(block, fork.gas) \in Nat
      /\ \A t \in Tokens : fork'.bal[t] = fork.bal[t] + Part(t, b, held') - Part(t, a, held)
                                         - Part(t, ETH, Cost(block, n))
  BY <1>1, Trades DEF a, b
<1>3. /\ base' = base /\ end' = end /\ amount' = amount /\ block' = block
      /\ proceeds' = proceeds /\ residuals' = residuals /\ rewards' = rewards
  BY DEF task
<1>4. DepositSteps \cap ExitSteps = {}
  BY DEF DepositSteps, ExitSteps
<1>5. amount \in Nat /\ base \in [Tokens -> Int] /\ fork.bal \in [Tokens -> Int]
      /\ proceeds \in Nat /\ rewards \in [Tokens -> Nat] /\ residuals \in [Tokens -> Nat]
      /\ Funds \in Nat
  BY PositionAssumption DEF IInv, Arguments, Numbers
<1>6. ASSUME NEW t \in Tokens
      PROVE  Part(t, ETH, Cost(block, fork'.gas)) =
               Part(t, ETH, Cost(block, fork.gas)) + Part(t, ETH, Cost(block, n))
  BY <1>2 DEF Part
<1>7. ASSUME NEW t \in Tokens
      PROVE  /\ Part(t, ETH, Cost(block, n)) \in Int
             /\ Part(t, ETH, Cost(block, fork.gas)) \in Int
             /\ Part(t, a, held) \in Int /\ Part(t, b, held') \in Int
             /\ Part(t, end, amount) \in Int /\ Part(t, end, proceeds) \in Int
             /\ Part(t, ETH, Funds) \in Int
             /\ base[t] \in Int /\ fork.bal[t] \in Int /\ fork'.bal[t] \in Int
             /\ rewards[t] \in Int /\ residuals[t] \in Int
  <2>1. /\ Part(t, ETH, Cost(block, n)) \in Int
        /\ Part(t, ETH, Cost(block, fork.gas)) \in Int
        /\ Part(t, a, held) \in Int /\ Part(t, b, held') \in Int
        /\ Part(t, end, amount) \in Int /\ Part(t, end, proceeds) \in Int
        /\ Part(t, ETH, Funds) \in Int
    BY <1>1, <1>2, <1>5 DEF Part
  <2>2. base[t] \in Int /\ fork.bal[t] \in Int /\ rewards[t] \in Int /\ residuals[t] \in Int
    BY <1>5
  <2> QED BY <1>2, <2>1, <2>2
<1>8. Books /\ a = InHand /\ b = InHand'
  BY DEF IInv, a, b
<1>9. CASE pc \in DepositSteps /\ pc' \in DepositSteps
  <2>1. \A t \in Tokens : fork.bal[t] = (base[t] - Part(t, end, amount) + Part(t, a, held))
                                         - Part(t, ETH, Cost(block, fork.gas))
    BY <1>8, <1>9 DEF Books, DepositBook
  <2>2. \A t \in Tokens : fork'.bal[t] = (base[t] - Part(t, end, amount) + Part(t, b, held'))
                                          - Part(t, ETH, Cost(block, fork'.gas))
    BY <1>2, <1>6, <1>7, <2>1
  <2>3. pc' \notin ExitSteps
    BY <1>4, <1>9
  <2> QED BY <1>3, <1>8, <2>2, <2>3 DEF Books, DepositBook
<1>10. CASE pc \in ExitSteps /\ pc' \in ExitSteps
  <2>1. \A t \in Tokens :
          fork.bal[t] = (Part(t, a, held) + Part(t, end, proceeds) + residuals[t] + rewards[t]
                        + Part(t, ETH, Funds)) - Part(t, ETH, Cost(block, fork.gas))
    BY <1>8, <1>10 DEF Books, ExitBook
  <2>2. \A t \in Tokens :
          fork'.bal[t] = (Part(t, b, held') + Part(t, end, proceeds) + residuals[t] + rewards[t]
                         + Part(t, ETH, Funds)) - Part(t, ETH, Cost(block, fork'.gas))
    BY <1>2, <1>6, <1>7, <2>1
  <2>3. pc' \notin DepositSteps
    BY <1>4, <1>10
  <2> QED BY <1>3, <1>8, <2>2, <2>3 DEF Books, ExitBook
<1> QED BY <1>9, <1>10
(* A step that moves neither ether nor tokens keeps the books. *)
LEMMA HandStays ==
  ASSUME IInv, task' = task, UNCHANGED <<fork, proceeds, residuals, rewards>>,
         held' = held, InHand' = InHand,
         \/ pc \in DepositSteps /\ pc' \in DepositSteps
         \/ pc \in ExitSteps /\ pc' \in ExitSteps
  PROVE  Books'
<1>1. /\ base' = base /\ end' = end /\ amount' = amount /\ block' = block
      /\ proceeds' = proceeds /\ residuals' = residuals /\ rewards' = rewards
      /\ fork' = fork
  BY DEF task
<1>2. Books
  BY DEF IInv
<1>3. CASE pc \in DepositSteps /\ pc' \in DepositSteps
  <2>1. pc' \notin ExitSteps
    BY <1>3 DEF DepositSteps, ExitSteps
  <2> QED BY <1>1, <1>2, <1>3, <2>1 DEF Books, DepositBook
<1>4. CASE pc \in ExitSteps /\ pc' \in ExitSteps
  <2>1. pc' \notin DepositSteps
    BY <1>4 DEF DepositSteps, ExitSteps
  <2> QED BY <1>1, <1>2, <1>4, <2>1 DEF Books, ExitBook
<1> QED BY <1>3, <1>4

(* A conversion of all that is in hand is one of both. *)
LEMMA HandConverts ==
  ASSUME IInv, task' = task, UNCHANGED <<proceeds, residuals, rewards>>,
         Converts(InHand, InHand', held, held'), held' \in Nat,
         \/ pc \in DepositSteps /\ pc' \in DepositSteps
         \/ pc \in ExitSteps /\ pc' \in ExitSteps
  PROVE  Books' /\ Numbers'
<1>1. held \in Int /\ Numbers
  BY DEF IInv, Numbers
<1>2. CASE InHand = InHand' /\ held' = held /\ UNCHANGED fork
  BY <1>1, <1>2, HandStays DEF Numbers
<1>3. CASE \E n \in 1..MaxTxs : Transacts(n, InHand, held, InHand', held')
  <2>1. PICK n \in 1..MaxTxs : Transacts(n, InHand, held, InHand', held')
    BY <1>3
  <2>2. n \in Nat /\ held' \in Int
    BY PositionAssumption
  <2>3. Books'
    BY <2>1, <2>2, HandTrades
  <2>4. fork'.gas \in Nat /\ fork'.bal \in [Tokens -> Int]
    BY <1>1, <2>1, <2>2, Trades
  <2> QED BY <1>1, <2>3, <2>4 DEF Numbers
<1> QED BY <1>2, <1>3 DEF Converts

(* Of a token that is not ether and not what a contract takes, the wallet gains
   exactly what the contract pays. *)
LEMMA Gains ==
  ASSUME IInv, NEW n \in Nat, NEW a, NEW x \in Int, NEW b \in Tokens \ {ETH}, a # b,
         NEW y \in Int, Transacts(n, a, x, b, y)
  PROVE  /\ Gained(b) = y
         /\ fork'.gas \in Nat /\ fork'.bal \in [Tokens -> Int]
<1>1. fork.bal[b] \in Int
  BY DEF IInv, Numbers
<1>2. /\ fork'.gas \in Nat /\ fork'.bal \in [Tokens -> Int]
      /\ fork'.bal[b] = fork.bal[b] + Part(b, b, y) - Part(b, a, x)
                        - Part(b, ETH, Cost(block, n))
  BY Trades
<1>3. Part(b, b, y) = y /\ Part(b, a, x) = 0 /\ Part(b, ETH, Cost(block, n)) = 0
  BY DEF Part
<1> QED BY <1>1, <1>2, <1>3 DEF Gained

(* A deposit into a contract is such a trade, after some approvals. *)
LEMMA DepositTrades ==
  ASSUME NEW a, NEW x, NEW b, NEW y, Deposits(a, x, b, y)
  PROVE  \E n \in Nat : Transacts(n, a, x, b, y)
<1>1. PICK k \in Approvals(a) : Transacts(k + 1, a, x, b, y)
  BY DEF Deposits
<1>2. k + 1 \in Nat
  BY DEF Approvals
<1> QED BY <1>1, <1>2

(* The constants of a step that leaves the arguments alone. *)
LEMMA SameTask ==
  ASSUME task' = task
  PROVE  /\ strategy' = strategy /\ end' = end /\ block' = block /\ coin' = coin
         /\ HasPool' = HasPool /\ IsVaultOf(strategy)' = IsVaultOf(strategy)
BY DEF task, coin, HasPool, IsVaultOf

LEMMA ConvertIInv == IInv /\ Convert => IInv'
<1> SUFFICES ASSUME IInv, Convert PROVE IInv'
  OBVIOUS
<1>1. /\ pc = "convert" /\ coin # None /\ vault' = vault /\ task' = task
      /\ UNCHANGED <<proceeds, residuals, rewards, outcome>>
      /\ pc' = IF HasPool THEN "pool" ELSE Into
      /\ Converts(end, coin, held, held') /\ held' \in Nat
  BY PositionAssumption DEF Convert, Goto, books, IInv, Numbers
<1>2. Arguments /\ Places /\ outcome = Pending /\ vault \in VaultStates
  BY <1>1 DEF IInv, Places, Arguments
<1>3. InHand = end
  BY <1>1 DEF InHand
<1>4. /\ strategy' = strategy /\ coin' = coin /\ HasPool' = HasPool
      /\ IsVaultOf(strategy)' = IsVaultOf(strategy)
  BY <1>1, SameTask
<1>5. IF HasPool THEN coin \in strategy.coins ELSE coin = strategy.underlying
  BY <1>1, <1>2, CoinType
<1>6. strategy.kind = "lp" <=> strategy.share = strategy.underlying
  BY <1>2, Catalog
<1>7. InHand' = coin
  BY <1>1, <1>4, <1>5, <1>6 DEF InHand, Into
<1>8. pc \in DepositSteps /\ pc' \in DepositSteps
  BY <1>1 DEF DepositSteps, Into
<1>9. Books' /\ Numbers'
  BY <1>1, <1>3, <1>7, <1>8, HandConverts
<1>10. Places'
  BY <1>1, <1>2, <1>4, <1>6 DEF Places, Into, DepositSteps, ExitSteps
<1> QED BY <1>1, <1>2, <1>9, <1>10, Goes
LEMMA PoolDepositIInv == IInv /\ PoolDeposit => IInv'
<1> SUFFICES ASSUME IInv, PoolDeposit PROVE IInv'
  OBVIOUS
<1>1. /\ pc = "pool" /\ vault' = vault /\ task' = task
      /\ UNCHANGED <<proceeds, residuals, rewards, outcome>>
      /\ pc' = Into /\ held' = Gained(strategy.underlying)
  BY DEF PoolDeposit, Goto, books
<1>2. Arguments /\ Numbers /\ Places /\ outcome = Pending /\ vault \in VaultStates
      /\ HasPool /\ coin # None
  BY <1>1 DEF IInv, Places, Arguments
<1>3. /\ strategy' = strategy /\ coin' = coin /\ HasPool' = HasPool
      /\ IsVaultOf(strategy)' = IsVaultOf(strategy)
  BY <1>1, SameTask
<1>4. /\ coin # strategy.underlying /\ strategy.underlying \in Tokens \ {ETH}
      /\ strategy.kind = "lp" <=> strategy.share = strategy.underlying
  BY <1>2, CoinType, Catalog
<1>5. PICK y \in Pays, n \in Nat : Transacts(n, coin, held, strategy.underlying, y)
  BY DepositTrades DEF PoolDeposit
<1>6. y \in Nat /\ held \in Int
  BY <1>2, PositionAssumption DEF Numbers
<1>7. held' = y /\ fork'.gas \in Nat /\ fork'.bal \in [Tokens -> Int]
  BY <1>1, <1>4, <1>5, <1>6, Gains
<1>8. InHand = coin /\ InHand' = strategy.underlying
  BY <1>1, <1>3, <1>4 DEF InHand, Into
<1>9. pc \in DepositSteps /\ pc' \in DepositSteps
  BY <1>1 DEF DepositSteps, Into
<1>10. Books'
  BY <1>1, <1>5, <1>6, <1>7, <1>8, <1>9, HandTrades
<1>11. Numbers'
  BY <1>1, <1>2, <1>6, <1>7 DEF Numbers
<1>12. Places'
  BY <1>1, <1>2, <1>3, <1>4 DEF Places, Into, DepositSteps, ExitSteps
<1> QED BY <1>1, <1>2, <1>10, <1>11, <1>12, Goes

LEMMA VaultDepositIInv == IInv /\ VaultDeposit => IInv'
<1> SUFFICES ASSUME IInv, VaultDeposit PROVE IInv'
  OBVIOUS
<1>1. /\ pc = "vault" /\ vault' = After(vault, held, held') /\ task' = task
      /\ UNCHANGED <<proceeds, residuals, rewards, outcome>>
      /\ pc' = "deposited" /\ held' = Gained(strategy.share)
  BY DEF VaultDeposit, Goto, books
<1>2. Arguments /\ Numbers /\ Places /\ outcome = Pending /\ vault \in VaultStates
      /\ IsVaultOf(strategy)
  BY <1>1 DEF IInv, Places, Arguments
<1>3. /\ strategy' = strategy /\ coin' = coin /\ HasPool' = HasPool
      /\ IsVaultOf(strategy)' = IsVaultOf(strategy)
  BY <1>1, SameTask
<1>4. strategy.kind # "lp" /\ strategy.share # strategy.underlying
      /\ strategy.share \in Tokens \ {ETH}
  BY <1>2, Catalog DEF IsVaultOf
<1>5. PICK y \in Pays, n \in Nat :
        Transacts(n, strategy.underlying, held, strategy.share, y)
  BY DepositTrades DEF VaultDeposit
<1>6. y \in Nat /\ held \in Nat
  BY <1>2, PositionAssumption DEF Numbers
<1>7. held' = y /\ fork'.gas \in Nat /\ fork'.bal \in [Tokens -> Int]
  BY <1>1, <1>4, <1>5, <1>6, Gains
<1>8. InHand = strategy.underlying /\ InHand' = strategy.share
  BY <1>1, <1>3 DEF InHand
<1>9. pc \in DepositSteps /\ pc' \in DepositSteps
  BY <1>1 DEF DepositSteps
<1>10. Books'
  BY <1>1, <1>5, <1>6, <1>7, <1>8, <1>9, HandTrades
<1>11. Numbers'
  BY <1>1, <1>2, <1>6, <1>7 DEF Numbers
<1>12. Places'
  BY <1>1, <1>2, <1>3, <1>4 DEF Places, DepositSteps, ExitSteps
<1>13. vault' \in VaultStates
  BY <1>1, <1>2, <1>6, <1>7, AfterType
<1> QED BY <1>1, <1>2, <1>10, <1>11, <1>12, <1>13, Goes

LEMMA StakeIInv == IInv /\ Stake => IInv'
<1> SUFFICES ASSUME IInv, Stake PROVE IInv'
  OBVIOUS
<1>1. /\ pc = "stake" /\ vault' = vault /\ task' = task
      /\ UNCHANGED <<proceeds, residuals, rewards, outcome, held>>
      /\ pc' = "deposited" /\ Gained(strategy.share) = held
  BY DEF Stake, Goto, books
<1>2. Arguments /\ Numbers /\ Places /\ outcome = Pending /\ vault \in VaultStates
      /\ strategy.kind # "lp"
  BY <1>1 DEF IInv, Places, Arguments
<1>3. /\ strategy' = strategy /\ coin' = coin /\ HasPool' = HasPool
      /\ IsVaultOf(strategy)' = IsVaultOf(strategy)
  BY <1>1, SameTask
<1>4. strategy.share # strategy.underlying /\ strategy.share \in Tokens \ {ETH}
  BY <1>2, Catalog
<1>5. PICK y \in Pays \cup {held}, n \in Nat :
        Transacts(n, strategy.underlying, held, strategy.share, y)
  BY DepositTrades DEF Stake
<1>6. y \in Nat /\ held \in Nat
  BY <1>2, PositionAssumption DEF Numbers
<1>7. held' = y /\ fork'.gas \in Nat /\ fork'.bal \in [Tokens -> Int]
  BY <1>1, <1>4, <1>5, <1>6, Gains
<1>8. InHand = strategy.underlying /\ InHand' = strategy.share
  BY <1>1, <1>3 DEF InHand
<1>9. pc \in DepositSteps /\ pc' \in DepositSteps
  BY <1>1 DEF DepositSteps
<1>10. Books'
  BY <1>1, <1>5, <1>6, <1>7, <1>8, <1>9, HandTrades
<1>11. Numbers'
  BY <1>1, <1>2, <1>6, <1>7 DEF Numbers
<1>12. Places'
  BY <1>1, <1>2, <1>3 DEF Places, DepositSteps, ExitSteps
<1> QED BY <1>1, <1>2, <1>10, <1>11, <1>12, Goes
LEMMA ClaimIInv == IInv /\ Claim => IInv'
<1> SUFFICES ASSUME IInv, Claim PROVE IInv'
  OBVIOUS
<1>1. /\ pc = "rewards" /\ vault' = vault /\ task' = task
      /\ UNCHANGED <<proceeds, residuals, rewards, outcome, held>> /\ pc' = "settle"
  BY DEF Claim, Goto, books
<1>2. Arguments /\ Numbers /\ Places /\ outcome = Pending /\ vault \in VaultStates
  BY <1>1 DEF IInv, Places, Arguments
<1>3. /\ strategy' = strategy /\ coin' = coin /\ HasPool' = HasPool
      /\ IsVaultOf(strategy)' = IsVaultOf(strategy)
  BY <1>1, SameTask
<1>4. InHand = strategy.share /\ InHand' = strategy.share
  BY <1>1, <1>3 DEF InHand
<1>5. pc \in ExitSteps /\ pc' \in ExitSteps
  BY <1>1 DEF ExitSteps
<1>6. Places'
  BY <1>1, <1>2, <1>3 DEF Places, DepositSteps, ExitSteps
<1>7. CASE UNCHANGED fork
  <2>1. Books'
    BY <1>1, <1>4, <1>5, <1>7, HandStays
  <2>2. Numbers'
    BY <1>1, <1>2, <1>7 DEF Numbers
  <2> QED BY <1>1, <1>2, <1>6, <2>1, <2>2, Goes
<1>8. CASE \E n \in 1..MaxTxs : Transacts(n, None, 0, None, 0)
  <2>1. PICK n \in 1..MaxTxs : Transacts(n, None, 0, None, 0)
    BY <1>8
  <2>2. n \in Nat /\ held \in Nat /\ 0 \in Int
    BY <1>2, PositionAssumption DEF Numbers
  <2>3. fork'.gas \in Nat /\ fork'.bal \in [Tokens -> Int]
    BY <2>1, <2>2, Trades
  <2>4. Traded(n, None, 0, None, 0) = Traded(n, InHand, held, InHand', held')
    <3> DEFINE g == Wei(n)
    <3>1. g \in Int
      BY <1>2, <2>2, Catalog DEF Wei
    <3>2. fork.bal \in [Tokens -> Int] /\ held' = held /\ InHand' = InHand
      BY <1>1, <1>2, <1>4 DEF Numbers
    <3>3. None \notin Tokens
      BY PositionAssumption
    <3> HIDE DEF g
    <3>4. ASSUME NEW t \in Tokens
          PROVE  fork.bal[t] + (IF t = None THEN 0 ELSE 0) - (IF t = None THEN 0 ELSE 0)
                   - (IF t = ETH THEN g ELSE 0)
                 = fork.bal[t] + (IF t = InHand' THEN held' ELSE 0)
                     - (IF t = InHand THEN held ELSE 0) - (IF t = ETH THEN g ELSE 0)
      BY <2>2, <3>1, <3>2, <3>3
    <3> QED BY <3>4 DEF Traded, g
  <2>5. Transacts(n, InHand, held, InHand', held')
    BY <2>1, <2>4 DEF Transacts
  <2>6. Books'
    BY <1>1, <1>5, <2>2, <2>5, HandTrades
  <2>7. Numbers'
    BY <1>1, <1>2, <2>3 DEF Numbers
  <2> QED BY <1>1, <1>2, <1>6, <2>6, <2>7, Goes
<1> QED BY <1>7, <1>8 DEF Claim

LEMMA SettledIInv == IInv /\ Settled => IInv'
<1> SUFFICES ASSUME IInv, Settled PROVE IInv'
  OBVIOUS
<1>1. /\ pc = "settle" /\ rewards = Nothing /\ vault' = vault /\ task' = task
      /\ UNCHANGED <<fork, proceeds, residuals, rewards, outcome, held>>
      /\ pc' = IF IsVaultOf(strategy) THEN "redeem"
               ELSE IF strategy.kind = "lp" THEN "sell" ELSE "unstake"
  BY DEF Settled, Goto, books
<1>2. Arguments /\ Numbers /\ Places /\ outcome = Pending /\ vault \in VaultStates
  BY <1>1 DEF IInv, Places, Arguments
<1>3. /\ strategy' = strategy /\ coin' = coin /\ HasPool' = HasPool
      /\ IsVaultOf(strategy)' = IsVaultOf(strategy)
  BY <1>1, SameTask
<1>4. strategy.kind = "lp" <=> strategy.share = strategy.underlying
  BY <1>2, Catalog
<1>5. InHand = strategy.share /\ InHand' = strategy.share
  BY <1>1, <1>3, <1>4 DEF InHand
<1>6. pc \in ExitSteps /\ pc' \in ExitSteps
  BY <1>1 DEF ExitSteps
<1>7. Books'
  BY <1>1, <1>5, <1>6, HandStays
<1>8. Places'
  BY <1>1, <1>2, <1>3 DEF Places, DepositSteps, ExitSteps, IsVaultOf
<1>9. Numbers'
  BY <1>1, <1>2 DEF Numbers
<1> QED BY <1>1, <1>2, <1>7, <1>8, <1>9, Goes

LEMMA UnstakeIInv == IInv /\ Unstake => IInv'
<1> SUFFICES ASSUME IInv, Unstake PROVE IInv'
  OBVIOUS
<1>1. /\ pc = "unstake" /\ vault' = vault /\ task' = task
      /\ UNCHANGED <<proceeds, residuals, rewards, outcome, held>>
      /\ pc' = "sell" /\ Gained(strategy.underlying) = held
  BY DEF Unstake, Goto, books
<1>2. Arguments /\ Numbers /\ Places /\ outcome = Pending /\ vault \in VaultStates
      /\ strategy.kind # "lp"
  BY <1>1 DEF IInv, Places, Arguments
<1>3. /\ strategy' = strategy /\ coin' = coin /\ HasPool' = HasPool
      /\ IsVaultOf(strategy)' = IsVaultOf(strategy)
  BY <1>1, SameTask
<1>4. strategy.share # strategy.underlying /\ strategy.underlying \in Tokens \ {ETH}
  BY <1>2, Catalog
<1>5. PICK y \in Pays \cup {held} : Transacts(1, strategy.share, held, strategy.underlying, y)
  BY DEF Unstake
<1>6. y \in Nat /\ held \in Nat /\ 1 \in Nat
  BY <1>2, PositionAssumption DEF Numbers
<1>7. held' = y /\ fork'.gas \in Nat /\ fork'.bal \in [Tokens -> Int]
  BY <1>1, <1>4, <1>5, <1>6, Gains
<1>8. InHand = strategy.share /\ InHand' = strategy.underlying
  BY <1>1, <1>3 DEF InHand
<1>9. pc \in ExitSteps /\ pc' \in ExitSteps
  BY <1>1 DEF ExitSteps
<1>10. Books'
  BY <1>1, <1>5, <1>6, <1>7, <1>8, <1>9, HandTrades
<1>11. Numbers'
  BY <1>1, <1>2, <1>6, <1>7 DEF Numbers
<1>12. Places'
  BY <1>1, <1>2, <1>3 DEF Places, DepositSteps, ExitSteps
<1> QED BY <1>1, <1>2, <1>10, <1>11, <1>12, Goes

(* No share is left, so that all that were in hand have been burned. *)
LEMMA AllBurned ==
  ASSUME IInv, pc = "redeem", NEW burned \in 1..held, NEW y \in Int,
         strategy.share # strategy.underlying,
         Transacts(1, strategy.share, burned, strategy.underlying, y),
         fork'.bal[strategy.share] = 0
  PROVE  burned = held
<1> DEFINE t == strategy.share
<1>1. /\ t \in Tokens /\ t # ETH /\ t # strategy.underlying /\ InHand = t
      /\ burned \in Int /\ 1 \in Nat /\ held \in Nat /\ proceeds \in Nat
      /\ residuals[t] \in Nat /\ rewards[t] \in Nat /\ pc \in ExitSteps
      /\ fork.bal[t] \in Int
  BY Catalog DEF IInv, Numbers, InHand, ExitSteps
<1>2. fork'.bal[t] = fork.bal[t] + Part(t, strategy.underlying, y) - Part(t, t, burned)
                     - Part(t, ETH, Cost(block, 1))
  BY <1>1, Trades
<1>3. fork.bal[t] = ExitBook(t) - Part(t, ETH, Cost(block, fork.gas))
  BY <1>1 DEF IInv, Books
<1> HIDE DEF t
<1>4. fork'.bal[t] = fork.bal[t] - burned
  BY <1>1, <1>2 DEF Part
<1>5. fork.bal[t] >= held
  BY <1>1, <1>3 DEF ExitBook, Part
<1>6. fork'.bal[t] = 0
  BY DEF t
<1> QED BY <1>1, <1>4, <1>5, <1>6

LEMMA RedeemIInv == IInv /\ Redeem => IInv'
<1> SUFFICES ASSUME IInv, Redeem PROVE IInv'
  OBVIOUS
<1>1. /\ pc = "redeem" /\ vault' = vault /\ task' = task
      /\ UNCHANGED <<proceeds, residuals, rewards, outcome>>
      /\ pc' = "sell" /\ held' = Gained(strategy.underlying)
      /\ fork'.bal[strategy.share] = 0
  BY DEF Redeem, Goto, books
<1>2. Arguments /\ Numbers /\ Places /\ outcome = Pending /\ vault \in VaultStates
      /\ strategy.kind # "lp"
  BY <1>1 DEF IInv, Places, Arguments
<1>3. /\ strategy' = strategy /\ coin' = coin /\ HasPool' = HasPool
      /\ IsVaultOf(strategy)' = IsVaultOf(strategy)
  BY <1>1, SameTask
<1>4. strategy.share # strategy.underlying /\ strategy.underlying \in Tokens \ {ETH}
  BY <1>2, Catalog
<1>5. PICK y \in Pays, burned \in 1..held :
        Transacts(1, strategy.share, burned, strategy.underlying, y)
  BY DEF Redeem
<1>6. y \in Nat /\ held \in Nat /\ 1 \in Nat
  BY <1>2, PositionAssumption DEF Numbers
<1>7. burned = held
  BY <1>1, <1>4, <1>5, <1>6, AllBurned
<1>8. Transacts(1, strategy.share, held, strategy.underlying, y)
  BY <1>5, <1>7
<1>9. held' = y /\ fork'.gas \in Nat /\ fork'.bal \in [Tokens -> Int]
  BY <1>1, <1>4, <1>6, <1>8, Gains
<1>10. InHand = strategy.share /\ InHand' = strategy.underlying
  BY <1>1, <1>3 DEF InHand
<1>11. pc \in ExitSteps /\ pc' \in ExitSteps
  BY <1>1 DEF ExitSteps
<1>12. Books'
  BY <1>1, <1>6, <1>8, <1>9, <1>10, <1>11, HandTrades
<1>13. Numbers'
  BY <1>1, <1>2, <1>6, <1>9 DEF Numbers
<1>14. Places'
  BY <1>1, <1>2, <1>3 DEF Places, DepositSteps, ExitSteps
<1> QED BY <1>1, <1>2, <1>12, <1>13, <1>14, Goes
LEMMA PoolWithdrawIInv == IInv /\ PoolWithdraw => IInv'
<1> SUFFICES ASSUME IInv, PoolWithdraw PROVE IInv'
  OBVIOUS
<1>1. /\ pc = "sell" /\ HasPool /\ coin # None /\ vault' = vault /\ task' = task
      /\ UNCHANGED <<proceeds, residuals, rewards, outcome>>
      /\ pc' = "withdrawn" /\ held' = Gained(coin) + GasPaid
  BY DEF PoolWithdraw, Goto, books
<1>2. Arguments /\ Numbers /\ Places /\ outcome = Pending /\ vault \in VaultStates
  BY <1>1 DEF IInv, Places, Arguments
<1>3. /\ strategy' = strategy /\ coin' = coin /\ HasPool' = HasPool
      /\ IsVaultOf(strategy)' = IsVaultOf(strategy)
  BY <1>1, SameTask
<1>4. coin \in Tokens /\ coin # strategy.underlying
  BY <1>1, <1>2, CoinType
<1>5. PICK y \in Pays : Transacts(1, strategy.underlying, held, coin, y)
  BY DEF PoolWithdraw
<1>6. y \in Nat /\ held \in Nat /\ 1 \in Nat /\ fork.bal[coin] \in Int /\ fork.gas \in Nat
  BY <1>2, <1>4, PositionAssumption DEF Numbers
<1>7. /\ fork'.gas \in Nat /\ fork'.bal \in [Tokens -> Int] /\ fork'.gas = fork.gas + 1
      /\ fork'.bal[coin] = fork.bal[coin] + Part(coin, coin, y)
                           - Part(coin, strategy.underlying, held)
                           - Part(coin, ETH, Cost(block, 1))
  BY <1>4, <1>5, <1>6, Trades
<1>8. GasPrice \in Nat /\ Cost(block, 1) = GasPrice
  <2>1. GasPrice # None
    BY <1>5 DEF Transacts
  <2>2. GasPrice \in Nat
    BY <1>2, <2>1, Catalog
  <2> QED BY <2>1, <2>2 DEF Cost, GasPrice
<1>9. GasPaid = Part(coin, ETH, Cost(block, 1))
  BY <1>6, <1>7, <1>8 DEF GasPaid, Part
<1>10. held' = y
  BY <1>1, <1>4, <1>6, <1>7, <1>8, <1>9 DEF Gained, Part
<1>11. InHand = strategy.underlying /\ InHand' = coin
  BY <1>1, <1>3 DEF InHand
<1>12. pc \in ExitSteps /\ pc' \in ExitSteps
  BY <1>1 DEF ExitSteps
<1>13. Books'
  BY <1>1, <1>5, <1>6, <1>10, <1>11, <1>12, HandTrades
<1>14. Numbers'
  BY <1>1, <1>2, <1>6, <1>7, <1>10 DEF Numbers
<1>15. Places'
  BY <1>1, <1>2, <1>3 DEF Places, DepositSteps, ExitSteps
<1> QED BY <1>1, <1>2, <1>13, <1>14, <1>15, Goes

LEMMA ConvertOutIInv == IInv /\ ConvertOut => IInv'
<1> SUFFICES ASSUME IInv, ConvertOut PROVE IInv'
  OBVIOUS
<1>1. /\ pc = (IF HasPool THEN "withdrawn" ELSE "sell") /\ vault' = vault /\ task' = task
      /\ UNCHANGED <<proceeds, residuals, rewards, outcome>>
      /\ pc' = "charge" /\ Converts(coin, end, held, held') /\ held' \in Nat
  BY PositionAssumption DEF ConvertOut, Goto, books, IInv, Numbers
<1>2. Arguments /\ Numbers /\ Places /\ outcome = Pending /\ vault \in VaultStates
  BY <1>1 DEF IInv, Places, Arguments
<1>3. /\ strategy' = strategy /\ coin' = coin /\ HasPool' = HasPool
      /\ IsVaultOf(strategy)' = IsVaultOf(strategy)
  BY <1>1, SameTask
<1>4. ~HasPool => coin = strategy.underlying
  BY DEF coin, deposit_coin, HasPool
<1>5. InHand = coin /\ InHand' = end
  <2>1. CASE HasPool
    BY <1>1, <1>3, <2>1, SameTask DEF InHand
  <2>2. CASE ~HasPool
    <3>1. pc = "sell" /\ pc' = "charge" /\ coin = strategy.underlying
      BY <1>1, <1>4, <2>2
    <3> QED BY <1>1, <1>3, <3>1, SameTask DEF InHand
  <2> QED BY <2>1, <2>2
<1>6. pc \in ExitSteps /\ pc' \in ExitSteps
  BY <1>1 DEF ExitSteps
<1>7. Books' /\ Numbers'
  BY <1>1, <1>5, <1>6, HandConverts
<1>8. Places'
  BY <1>1, <1>2, <1>3 DEF Places, DepositSteps, ExitSteps
<1> QED BY <1>1, <1>2, <1>7, <1>8, Goes

(* Selling a reward, or keeping it, moves it within the books. *)
LEMMA SettleRewardIInv == IInv /\ SettleReward => IInv'
<1> SUFFICES ASSUME IInv, SettleReward PROVE IInv'
  OBVIOUS
<1>1. /\ pc = "settle" /\ pc' = "settle" /\ vault' = vault /\ task' = task
      /\ UNCHANGED <<outcome, held>>
  BY DEF SettleReward
<1>2. Arguments /\ Numbers /\ Places /\ outcome = Pending /\ vault \in VaultStates
  BY <1>1 DEF IInv, Places, Arguments
<1>3. /\ strategy' = strategy /\ coin' = coin /\ HasPool' = HasPool
      /\ IsVaultOf(strategy)' = IsVaultOf(strategy)
  BY <1>1, SameTask
<1>4. /\ rewards \in [Tokens -> Nat] /\ residuals \in [Tokens -> Nat] /\ proceeds \in Nat
      /\ held \in Nat /\ fork.gas \in Nat /\ fork.bal \in [Tokens -> Int]
      /\ block \in Blocks /\ Funds \in Nat
  BY <1>2, PositionAssumption DEF Numbers, Arguments
<1>5. PICK t \in Tokens :
        /\ rewards[t] > 0 /\ rewards' = [rewards EXCEPT ![t] = 0]
        /\ \/ /\ \E y \in Pays \cup {rewards[t]} : /\ Converts(t, end, rewards[t], y)
                                                   /\ proceeds' = proceeds + y
              /\ UNCHANGED residuals
           \/ /\ residuals' = [residuals EXCEPT ![t] = rewards[t]]
              /\ UNCHANGED <<fork, proceeds>>
  BY DEF SettleReward
<1>6. rewards[t] \in Nat /\ rewards' \in [Tokens -> Nat]
      /\ \A u \in Tokens : rewards'[u] = rewards[u] - Part(u, t, rewards[t])
  BY <1>4, <1>5 DEF Part
<1>7. residuals[t] = 0
  BY <1>2, <1>5 DEF Places
<1>8. \A u \in Tokens :
        fork.bal[u] = (Part(u, strategy.share, held) + Part(u, end, proceeds) + residuals[u]
                       + rewards[u] + Part(u, ETH, Funds)) - Part(u, ETH, Cost(block, fork.gas))
  BY <1>1 DEF IInv, Books, ExitBook, InHand, ExitSteps
<1> DEFINE Kept == /\ fork'.gas \in Nat /\ fork'.bal \in [Tokens -> Int] /\ proceeds' \in Nat
                   /\ residuals' \in [Tokens -> Nat]
                   /\ \A u \in Tokens : rewards'[u] > 0 => residuals'[u] = 0
                   /\ \A u \in Tokens :
                        fork'.bal[u] = (Part(u, strategy.share, held) + Part(u, end, proceeds')
                                        + residuals'[u] + rewards'[u] + Part(u, ETH, Funds))
                                       - Part(u, ETH, Cost(block, fork'.gas))
<1>9. SUFFICES Kept
  <2>1. Kept
    BY <1>9
  <2> HIDE DEF Kept
  <2>2. Numbers'
    BY <1>1, <1>4, <1>6, <2>1 DEF Numbers, Kept
  <2>3. Places'
    BY <1>1, <1>2, <1>3, <2>1 DEF Places, DepositSteps, ExitSteps, Kept
  <2>4. InHand' = strategy.share
    BY <1>1, <1>3 DEF InHand
  <2>5. Books'
    <3>1. pc' \notin DepositSteps /\ held' = held /\ end' = end /\ block' = block
      BY <1>1, SameTask DEF DepositSteps
    <3>2. \A u \in Tokens :
            fork'.bal[u] = (Part(u, InHand', held') + Part(u, end', proceeds')
                            + residuals'[u] + rewards'[u] + Part(u, ETH, Funds))
                           - Part(u, ETH, Cost(block', fork'.gas))
      BY <2>1, <2>4, <3>1 DEF Kept
    <3> QED BY <3>1, <3>2 DEF Books, ExitBook
  <2> QED BY <1>1, <1>2, <2>2, <2>3, <2>5, Goes
<1>10. ASSUME NEW u \in Tokens
       PROVE  /\ Part(u, strategy.share, held) \in Int /\ Part(u, ETH, Funds) \in Int
              /\ Part(u, end, proceeds) \in Int /\ Part(u, t, rewards[t]) \in Int
              /\ rewards[u] \in Int /\ residuals[u] \in Int /\ fork.bal[u] \in Int
              /\ Cost(block, fork.gas) \in Nat /\ Part(u, ETH, Cost(block, fork.gas)) \in Int
  <2>1. Cost(block, fork.gas) \in Nat
    BY <1>4, CostAdds
  <2> QED BY <1>4, <1>6, <2>1 DEF Part
<1>11. ASSUME UNCHANGED <<fork, proceeds>>, residuals' = [residuals EXCEPT ![t] = rewards[t]]
       PROVE  Kept
  <2>1. \A u \in Tokens : residuals'[u] = residuals[u] + Part(u, t, rewards[t])
    BY <1>4, <1>6, <1>7, <1>11 DEF Part
  <2>2. residuals' \in [Tokens -> Nat]
    BY <1>4, <1>6, <1>11
  <2>3. \A u \in Tokens : rewards'[u] > 0 => residuals'[u] = 0
    BY <1>2, <1>4, <1>5, <1>11 DEF Places
  <2>4. ASSUME NEW u \in Tokens
        PROVE  fork'.bal[u] = (Part(u, strategy.share, held) + Part(u, end, proceeds')
                               + residuals'[u] + rewards'[u] + Part(u, ETH, Funds))
                              - Part(u, ETH, Cost(block, fork'.gas))
    BY <1>6, <1>8, <1>10, <1>11, <2>1
  <2> QED BY <1>4, <1>11, <2>2, <2>3, <2>4
<1>12. ASSUME NEW y \in Pays \cup {rewards[t]}, Converts(t, end, rewards[t], y),
              proceeds' = proceeds + y, UNCHANGED residuals
       PROVE  Kept
  <2>1. y \in Nat
    BY <1>6, PositionAssumption
  <2>2. \A u \in Tokens : Part(u, end, proceeds') = Part(u, end, proceeds) + Part(u, end, y)
                          /\ Part(u, end, y) \in Int
    BY <1>4, <1>12, <2>1 DEF Part
  <2>3. \A u \in Tokens : rewards'[u] > 0 => residuals'[u] = 0
    BY <1>2, <1>4, <1>5, <1>12 DEF Places
  <2>4. proceeds' \in Nat /\ residuals' \in [Tokens -> Nat]
    BY <1>4, <1>12, <2>1
  <2>5. CASE t = end /\ y = rewards[t] /\ UNCHANGED fork
    <3>1. ASSUME NEW u \in Tokens
          PROVE  fork'.bal[u] = (Part(u, strategy.share, held) + Part(u, end, proceeds')
                                 + residuals'[u] + rewards'[u] + Part(u, ETH, Funds))
                                - Part(u, ETH, Cost(block, fork'.gas))
      BY <1>6, <1>8, <1>10, <1>12, <2>2, <2>5
    <3> QED BY <1>4, <2>3, <2>4, <2>5, <3>1
  <2>6. CASE \E n \in 1..MaxTxs : Transacts(n, t, rewards[t], end, y)
    <3>1. PICK n \in 1..MaxTxs : Transacts(n, t, rewards[t], end, y)
      BY <2>6
    <3>2. n \in Nat /\ rewards[t] \in Int /\ y \in Int
      BY <1>6, <2>1, PositionAssumption
    <3>3. /\ fork'.gas \in Nat /\ fork'.bal \in [Tokens -> Int]
          /\ Cost(block, fork'.gas) = Cost(block, fork.gas) + Cost(block, n)
          /\ Cost(block, n) \in Nat
          /\ \A u \in Tokens : fork'.bal[u] = fork.bal[u] + Part(u, end, y)
                                 - Part(u, t, rewards[t]) - Part(u, ETH, Cost(block, n))
      BY <3>1, <3>2, Trades
    <3>4. ASSUME NEW u \in Tokens
          PROVE  /\ Part(u, ETH, Cost(block, n)) \in Int
                 /\ Part(u, ETH, Cost(block, fork'.gas))
                      = Part(u, ETH, Cost(block, fork.gas)) + Part(u, ETH, Cost(block, n))
      BY <1>10, <3>3 DEF Part
    <3>5. ASSUME NEW u \in Tokens
          PROVE  fork'.bal[u] = (Part(u, strategy.share, held) + Part(u, end, proceeds')
                                 + residuals'[u] + rewards'[u] + Part(u, ETH, Funds))
                                - Part(u, ETH, Cost(block, fork'.gas))
      BY <1>6, <1>8, <1>10, <1>12, <2>2, <3>3, <3>4
    <3> QED BY <2>3, <2>4, <3>3, <3>5
  <2> QED BY <1>12, <2>5, <2>6 DEF Converts
<1> QED BY <1>5, <1>11, <1>12
-----------------------------------------------------------------------------
(* A step that returns keeps the invariant if what it returns is accounted for. *)
LEMMA Returned ==
  ASSUME IInv, task' = task, UNCHANGED <<books, vault, fork, held>>, pc' = "done",
         outcome'.kind \in {"pending", "deposited", "exited", "limit", "raised"},
         WalletAccounted'
  PROVE  IInv'
<1>1. Arguments /\ Numbers /\ Places
  BY DEF IInv
<1>2. UNCHANGED <<proceeds, residuals, rewards>>
  BY DEF books
<1>3. Arguments'
  BY <1>1 DEF Arguments, task
<1>4. Numbers'
  BY <1>1, <1>2 DEF Numbers
<1>5. Places'
  BY <1>1, <1>2 DEF Places
<1>6. Books'
  BY DEF Books, DepositSteps, ExitSteps
<1> QED BY <1>3, <1>4, <1>5, <1>6 DEF IInv

LEMMA FailIInv ==
  ASSUME IInv, DepositLimit \/ Unaffordable \/ Fails
  PROVE  IInv'
<1>1. /\ task' = task /\ UNCHANGED <<books, vault, fork, held>> /\ pc' = "done"
      /\ outcome'.kind \in {"limit", "raised"}
  BY DEF DepositLimit, Unaffordable, Fails, Raise, Return
<1>2. WalletAccounted'
  BY <1>1, NothingReturned
<1> QED BY <1>1, <1>2, Returned

LEMMA DepositedIInv == IInv /\ Deposited => IInv'
<1> SUFFICES ASSUME IInv, Deposited PROVE IInv'
  OBVIOUS
<1>1. /\ pc = "deposited" /\ task' = task /\ UNCHANGED <<books, vault, fork, held>>
      /\ pc' = "done" /\ outcome' = [kind |-> "deposited", shares |-> held]
  BY DEF Deposited, Return
<1>2. /\ fork.bal \in [Tokens -> Int] /\ base \in [Tokens -> Int] /\ held \in Nat
      /\ amount \in Nat /\ block \in Blocks /\ fork.gas \in Nat
  BY DEF IInv, Numbers, Arguments
<1>3. InHand = strategy.share /\ pc \in DepositSteps
  BY <1>1 DEF InHand, DepositSteps
<1>4. ASSUME NEW t \in Tokens
      PROVE  fork.bal[t] = (base[t] - Part(t, end, amount) + Part(t, strategy.share, held))
                           - Part(t, ETH, Cost(block, fork.gas))
  BY <1>3 DEF IInv, Books, DepositBook
<1>5. ASSUME NEW t \in Tokens
      PROVE  fork.bal[t] = base[t] + (Part(t, strategy.share, held) - Part(t, end, amount)
                                      - Part(t, ETH, Cost(block, fork.gas)))
  <2>1. /\ Part(t, strategy.share, held) \in Int /\ Part(t, end, amount) \in Int
        /\ Part(t, ETH, Cost(block, fork.gas)) \in Int
        /\ base[t] \in Int /\ fork.bal[t] \in Int
    BY <1>2, CostAdds DEF Part
  <2> QED BY <1>4, <2>1
<1>6. /\ strategy' = strategy /\ end' = end /\ amount' = amount /\ block' = block
      /\ base' = base /\ fork' = fork /\ GasPrice' = GasPrice
  BY <1>1 DEF task, GasPrice
<1>7. Cost(block, fork.gas) = Wei(fork.gas) /\ Wei(fork.gas)' = Wei(fork.gas)
  BY <1>6 DEF Cost, Wei, GasPrice
<1>8. outcome'.kind = "deposited" /\ outcome'.shares = held
  BY <1>1
<1>9. WalletAccounted'
  <2>1. \A t \in Tokens :
          fork'.bal[t] = base'[t] + ((IF t = strategy'.share THEN outcome'.shares ELSE 0)
                                     - (IF t = end' THEN amount' ELSE 0)
                                     - (IF t = ETH THEN (Wei(fork.gas))' ELSE 0))
    <3>1. ASSUME NEW t \in Tokens
          PROVE  fork.bal[t] = base[t] + ((IF t = strategy.share THEN held ELSE 0)
                                          - (IF t = end THEN amount ELSE 0)
                                          - (IF t = ETH THEN Wei(fork.gas) ELSE 0))
      BY <1>5, <1>7 DEF Part
    <3> QED BY <1>6, <1>7, <1>8, <3>1
  <2> QED BY <1>8, <2>1 DEF WalletAccounted
<1> QED BY <1>1, <1>8, <1>9, Returned

LEMMA ChargeIInv == IInv /\ Charge => IInv'
<1> SUFFICES ASSUME IInv, Charge PROVE IInv'
  OBVIOUS
<1>1. /\ pc = "charge" /\ task' = task /\ UNCHANGED <<books, vault, fork, held>>
      /\ pc' = "done" /\ outcome' = [kind |-> "exited", amount |-> held + proceeds - Debit]
      /\ GasPrice # None
  BY DEF Charge, Return
<1>2. /\ fork.bal \in [Tokens -> Int] /\ held \in Nat /\ proceeds \in Nat
      /\ residuals \in [Tokens -> Nat] /\ block \in Blocks /\ fork.gas \in Nat
      /\ end \in Tokens /\ Funds \in Nat /\ GasPrice \in Nat
  BY <1>1, Catalog, PositionAssumption DEF IInv, Numbers, Arguments
<1>3. InHand = end /\ pc \in ExitSteps /\ rewards = Nothing
  BY <1>1 DEF IInv, Places, InHand, ExitSteps
<1>4. Cost(block, fork.gas) = Wei(fork.gas) /\ Wei(fork.gas) \in Nat
  BY <1>2, CostAdds DEF Cost, Wei, GasPrice
<1>5. Debit \in Nat
  <2>1. Worth[end] \in Nat \ {0}
    BY <1>2, PositionAssumption
  <2>2. Wei(fork.gas) + Worth[end] - 1 \in Nat
    BY <1>4, <2>1
  <2> QED BY <2>1, <2>2, Quotient DEF Debit
<1>6. ASSUME NEW t \in Tokens
      PROVE  fork.bal[t] = (Part(t, end, held) + Part(t, end, proceeds) + residuals[t]
                            + Part(t, ETH, Funds)) - Part(t, ETH, Wei(fork.gas))
  <2>1. fork.bal[t] = (Part(t, end, held) + Part(t, end, proceeds) + residuals[t]
                       + rewards[t] + Part(t, ETH, Funds)) - Part(t, ETH, Wei(fork.gas))
    BY <1>3, <1>4 DEF IInv, Books, ExitBook
  <2>2. rewards[t] = 0 /\ Part(t, end, held) \in Int /\ Part(t, end, proceeds) \in Int
        /\ residuals[t] \in Int /\ Part(t, ETH, Funds) \in Int
        /\ Part(t, ETH, Wei(fork.gas)) \in Int
    BY <1>2, <1>3, <1>4 DEF Part, Nothing
  <2> QED BY <2>1, <2>2
<1> DEFINE paid == held + proceeds - Debit
<1>7. paid \in Int /\ paid + Debit = held + proceeds
  BY <1>2, <1>5
<1>8. ASSUME NEW t \in Tokens
      PROVE  fork.bal[t] = (Part(t, end, paid + Debit) + residuals[t])
                           + Part(t, ETH, Funds - Wei(fork.gas))
  <2>1. Part(t, end, paid + Debit) = Part(t, end, held) + Part(t, end, proceeds)
    BY <1>2, <1>7 DEF Part
  <2>2. Part(t, ETH, Funds - Wei(fork.gas)) = Part(t, ETH, Funds) - Part(t, ETH, Wei(fork.gas))
    BY <1>2, <1>4 DEF Part
  <2>3. /\ Part(t, end, held) \in Int /\ Part(t, end, proceeds) \in Int
        /\ residuals[t] \in Int /\ Part(t, ETH, Funds) \in Int
        /\ Part(t, ETH, Wei(fork.gas)) \in Int /\ fork.bal[t] \in Int
    BY <1>2, <1>4 DEF Part
  <2> HIDE DEF paid
  <2> QED BY <1>6, <2>1, <2>2, <2>3
<1>9. /\ end' = end /\ residuals' = residuals /\ fork' = fork /\ block' = block
      /\ GasPrice' = GasPrice
  BY <1>1 DEF task, books, GasPrice
<1>10. Wei(fork.gas)' = Wei(fork.gas) /\ Debit' = Debit
  BY <1>9 DEF Wei, Debit
<1>11. outcome'.kind = "exited" /\ outcome'.amount = paid
  BY <1>1
<1> HIDE DEF paid
<1>12. WalletAccounted'
  <2>1. \A t \in Tokens :
          fork'.bal[t] = (IF t = end' THEN outcome'.amount + Debit' ELSE 0) + residuals'[t]
                         + (IF t = ETH THEN Funds - (Wei(fork.gas))' ELSE 0)
    BY <1>8, <1>9, <1>10, <1>11 DEF Part
  <2> QED BY <1>11, <2>1 DEF WalletAccounted
<1> QED BY <1>1, <1>11, <1>12, Returned

LEMMA StutterIInv == IInv /\ UNCHANGED vars => IInv'
<1> SUFFICES ASSUME IInv, UNCHANGED vars PROVE IInv'
  OBVIOUS
<1>1. UNCHANGED <<goal, strategy, end, amount, block, base, vault, fork, held, rewards,
                  proceeds, residuals, outcome, pc>>
  BY DEF vars, task, books
<1>2. Arguments' /\ Numbers' /\ Places'
  BY <1>1 DEF IInv, Arguments, Numbers, Places, HasPool, IsVaultOf, coin
<1>3. InHand' = InHand /\ Debit' = Debit /\ Wei(fork.gas)' = Wei(fork.gas)
  BY <1>1 DEF InHand, coin, Debit, Wei, GasPrice
<1>4. Books'
  BY <1>1, <1>3 DEF IInv, Books, DepositBook, ExitBook
<1>5. WalletAccounted'
  BY <1>1, <1>3 DEF IInv, WalletAccounted
<1> QED BY <1>2, <1>4, <1>5 DEF IInv

(* Every step keeps the invariant. *)
LEMMA NextIInv == IInv /\ [Next]_vars => IInv'
<1> SUFFICES ASSUME IInv, [Next]_vars PROVE IInv'
  OBVIOUS
<1>1. CASE Convert
  BY <1>1, ConvertIInv
<1>2. CASE PoolDeposit
  BY <1>2, PoolDepositIInv
<1>3. CASE DepositLimit \/ Unaffordable \/ Fails
  BY <1>3, FailIInv
<1>4. CASE VaultDeposit
  BY <1>4, VaultDepositIInv
<1>5. CASE Stake
  BY <1>5, StakeIInv
<1>6. CASE Deposited
  BY <1>6, DepositedIInv
<1>7. CASE Claim
  BY <1>7, ClaimIInv
<1>8. CASE SettleReward
  BY <1>8, SettleRewardIInv
<1>9. CASE Settled
  BY <1>9, SettledIInv
<1>10. CASE Unstake
  BY <1>10, UnstakeIInv
<1>11. CASE Redeem
  BY <1>11, RedeemIInv
<1>12. CASE PoolWithdraw
  BY <1>12, PoolWithdrawIInv
<1>13. CASE ConvertOut
  BY <1>13, ConvertOutIInv
<1>14. CASE Charge
  BY <1>14, ChargeIInv
<1>15. CASE UNCHANGED vars
  BY <1>15, StutterIInv
<1> QED BY <1>1, <1>2, <1>3, <1>4, <1>5, <1>6, <1>7, <1>8, <1>9, <1>10, <1>11, <1>12, <1>13,
           <1>14, <1>15 DEF Next, Done

(* The wallet is in balance at every step of a deposit and of an exit. *)
THEOREM Inductive == Spec => []IInv
<1>1. Init => IInv
  BY InitIInv
<1>2. IInv /\ [Next]_vars => IInv'
  BY NextIInv
<1> QED BY <1>1, <1>2, PTL DEF Spec

(* Every variable keeps its type. *)
THEOREM TypeCorrect == Spec => []TypeOK
BY Inductive, Typed, PTL

(* What is reported of a deposit or an exit is what the wallet shows, for every
   strategy, block, vault, amount, reward and contract. *)
THEOREM Accounted == Spec => []WalletAccounted
<1>1. IInv => WalletAccounted
  BY DEF IInv
<1> QED BY <1>1, Inductive, PTL

(* No deposit that passed its check is accounted for more than was paid: only
   VaultDeposit changes a vault. *)
THEOREM FreeShares == Spec => NoFreeShares
<1> DEFINE value == accounting_assets(vault', strategy, held')
           Fair == vault' # vault /\ vault.supply > 0 /\ strategy.kind = "v2" /\ value # None =>
                     value <= vault'.total - vault.total
<1>1. IInv /\ [Next]_vars => [Fair]_vars
  <2> SUFFICES ASSUME IInv, Next, vault' # vault, vault.supply > 0, strategy.kind = "v2",
                      value # None
               PROVE  value <= vault'.total - vault.total
    BY DEF vars
  <2>1. VaultDeposit
    BY DEF Next, Convert, PoolDeposit, DepositLimit, Stake, Deposited, Claim, SettleReward,
           Settled, Unstake, Redeem, PoolWithdraw, ConvertOut, Charge, Unaffordable, Fails,
           Raise, Done, vars
  <2>2. /\ vault' = After(vault, held, held') /\ held' = Gained(strategy.share)
        /\ held' = v2_deposit_shares(held, vault.supply,
                                     free_funds(vault, strategy.version, TRUE))
    BY <2>1 DEF VaultDeposit, SharesAccepted, Expected
  <2>3. vault \in VaultStates /\ held \in Nat /\ held' \in Nat
    BY <2>1, VaultDepositIInv DEF IInv, Arguments, Numbers
  <2>4. value <= held
    BY <2>2, <2>3, PositionAssumption, AcceptedValue
  <2>5. vault'.total = vault.total + held
    BY <2>2, <2>3, AfterType
  <2>6. vault.total \in Nat
    BY <2>3 DEF VaultStates
  <2>7. vault'.total - vault.total = held
    BY <2>3, <2>5, <2>6
  <2> QED BY <2>4, <2>7
<1> QED BY <1>1, Inductive, PTL DEF Spec, NoFreeShares
=============================================================================
