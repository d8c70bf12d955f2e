------------------------------- MODULE Engine -------------------------------
(* compare() (src/hodl/engine.py) over the actions of the Simulator
   (src/hodl/simulation.py): holding benchmarks first, then every strategy and
   starting asset in turn, from the entry at the start block through the
   monthly dates.  A rewarded position exists only as shares, idle balances
   and a captured reward state; every compound and every quoted exit restores
   them on a fork of its own (src/hodl/positions.py, src/hodl/staking.py).

   Amounts are in one unit, prices and conversions are one to one, and the
   environment decides which actions are unavailable or unaffordable, which
   rewards convert, and how a budget is split (module GasFunding). *)
EXTENDS Integers, Sequences, FiniteSets, SequencesExt

CONSTANTS
  Comparisons,  \* records [strategies, assets, listed, integral]: what is compared,
                \* the dates at which the reward contract lists each token, and
                \* its rewards per working share up to a date
  Holdings,     \* sequence of the assets that have a holding benchmark
  Rewarded,     \* strategies with a gauge or staking contract
  Tokens, Coin, \* reward tokens, and the coin they are compounded into
  Final,        \* the number of dates; the last one is scenario.end
  EntryShares, MaxGas, MaxDust,
  None

ASSUME EngineAssumption ==
  /\ Final \in Nat \ {0} /\ MaxGas \in Nat \ {0} /\ MaxDust \in Nat
  /\ EntryShares \subseteq Nat \ {0}
  /\ Coin \in Tokens /\ IsFiniteSet(Tokens)
  /\ None \notin [shares : Nat, startDust : Nat, idle : [Tokens -> Nat]]
  /\ \A S \in SUBSET Tokens : None \notin [S -> [integral : Nat, entitled : Nat, paid : Nat]]
  /\ Holdings \in Seq(ToSet(Holdings)) /\ IsInjective(Holdings)
  /\ \A c \in Comparisons :
       /\ c.strategies \in Seq(ToSet(c.strategies)) /\ IsInjective(c.strategies)
       /\ {"hold", "cash"} \cap ToSet(c.strategies) = {}
       /\ c.assets \in Seq(ToSet(c.assets)) /\ IsInjective(c.assets)
       /\ c.assets # <<>> /\ ToSet(c.assets) \subseteq ToSet(Holdings)
       /\ c.listed \in [Tokens -> SUBSET (0..Final)]
       /\ c.integral \in [Tokens -> [0..Final -> Nat]]
       /\ \A t \in Tokens :
            /\ 0 \notin c.listed[t] => c.integral[t][0] = 0
            /\ \A d \in 1..Final :
                 /\ c.integral[t][d - 1] <= c.integral[t][d]
                 /\ d \notin c.listed[t] => c.integral[t][d - 1] = c.integral[t][d]

VARIABLES
  comparison,   \* the arguments of compare(), and what the contracts will do
  pc, s, a,     \* where the loops over strategies and assets are
  date,         \* the date being observed, 0 the start block
  verified,     \* whether the strategy was verified at the start block
  position,     \* Position: shares, start_dust, idle
  state,        \* the reward state captured by the last deposit
  failedStatus, \* status of the rows once there is no position
  events,       \* report.actions of this strategy and asset
  rows,         \* report.observations: status by strategy, asset and date
  quote         \* amounts of the row reported last, for this date
vars == <<comparison, pc, s, a, date, verified, position, state, failedStatus,
          events, rows, quote>>

Strategies == comparison.strategies
Assets == comparison.assets
Listed == comparison.listed
Integral == comparison.integral

Dates == 1..Final
Key(strategy, asset, d) == <<strategy, asset, d>>
RowKeys == ({"hold"} \X ToSet(Holdings) \X Dates)
           \cup (ToSet(Strategies) \X ToSet(Assets) \X Dates)
           \cup {Key("cash", "cash", d) : d \in Dates}
Row(d) == Key(Strategies[s], Assets[a], d)
Report(k, status) == rows' = [rows EXCEPT ![k] = Append(@, status)]

Event(kind, d, gas) == [kind |-> kind, date |-> d, gas |-> gas]

NoQuote == [amount |-> 0, gas |-> 0, unsold |-> 0, total |-> 0]
Nothing == [t \in Tokens |-> 0]
Sum(f, S) == SumFunctionOnSet(f, S)
GasIn(log, S) == Sum([i \in DOMAIN log |-> log[i].gas], S)
GasOf(log) == GasIn(log, DOMAIN log)
Costs == GasIn(events, {i \in DOMAIN events : events[i].kind # "exit"})

-----------------------------------------------------------------------------
(* The reward account of a fork: what the gauge, the minter or the staking
   contract know of an account.  `entitled` is all it ever earned and `paid`
   all it was ever paid: integrate_fraction and minted, or the two halves of a
   packed claim word.  These contracts are external. *)

WorkingBalance(shares) == (shares * 40) \div 100
NoReward == [integral |-> 0, entitled |-> 0, paid |-> 0]

Checkpoint(account, d) ==
  LET Grown(t) == LET r == account.rewards[t]
                  IN  [r EXCEPT !.integral = Integral[t][d],
                                !.entitled = r.entitled + account.working
                                               * (Integral[t][d] - r.integral)]
  IN  [account EXCEPT !.rewards =
         [t \in Tokens |-> IF d \in Listed[t] THEN Grown(t) ELSE account.rewards[t]]]

Stake(account, shares, d) ==
  LET total == account.shares + shares
  IN  [Checkpoint(account, d) EXCEPT !.shares = total,
                                     !.working = WorkingBalance(total)]

Owed(account, d) ==
  [t \in Tokens |-> IF d \in Listed[t] THEN account.rewards[t].entitled
                                            - account.rewards[t].paid ELSE 0]

Paid(account, d) ==
  LET Settled(r) == [r EXCEPT !.paid = r.entitled]
  IN  [account EXCEPT !.rewards =
         [t \in Tokens |-> IF d \in Listed[t] THEN Settled(account.rewards[t])
                           ELSE account.rewards[t]]]

\* seed_gauge and staking.restore: shares, working balance and claim counters
FreshAccount == [shares |-> 0, working |-> 0, rewards |-> [t \in Tokens |-> NoReward]]
RestorableAlways(d) == TRUE
Restorable(d) == \A t \in DOMAIN state : d \in Listed[t]
RestoredUnpaid(t) == IF t \in DOMAIN state THEN [state[t] EXCEPT !.paid = 0]
                     ELSE NoReward
RestoredReward(t) == IF t \in DOMAIN state THEN state[t] ELSE NoReward
Restored == [shares |-> position.shares,
             working |-> WorkingBalance(position.shares),
             rewards |-> [t \in Tokens |-> RestoredReward(t)]]

\* gauge_state and staking.capture: the counters of the tokens listed now
Captured(account, d) ==
  [t \in {u \in Tokens : d \in Listed[u]} |-> account.rewards[t]]

\* positions.claim and staking.claim, then the idle balances on top
Claiming(d) == Checkpoint(Restored, d)
Rewards(d) ==
  IF state = None THEN position.idle
  ELSE [t \in Tokens |-> Owed(Claiming(d), d)[t] + position.idle[t]]

\* settle_rewards: every token that converts is sold, the others are kept
Sellable(rewards) == SUBSET {t \in Tokens : rewards[t] > 0}
Residuals(rewards, sold) == [t \in Tokens |-> IF t \in sold THEN 0 ELSE rewards[t]]

-----------------------------------------------------------------------------
(* compare() *)

Init == /\ comparison \in Comparisons
        /\ pc = "benchmarks" /\ s = 1 /\ a = 1 /\ date = 0
        /\ verified = FALSE
        /\ position = None /\ state = None
        /\ failedStatus = "unavailable-entry"
        /\ events = <<>>
        /\ rows = [k \in RowKeys |-> <<>>]
        /\ quote = NoQuote

\* hold-<asset>: without a start price every date is unavailable
Hold ==
  /\ pc = "benchmarks" /\ a <= Len(Holdings)
  /\ \E started \in BOOLEAN, priced \in SUBSET Dates :
        rows' = [k \in RowKeys |->
                   IF k[1] = "hold" /\ k[2] = Holdings[a]
                   THEN Append(rows[k], IF started /\ k[3] \in priced
                                        THEN "complete" ELSE "unavailable")
                   ELSE rows[k]]
  /\ a' = a + 1
  /\ UNCHANGED <<comparison, pc, s, date, verified, position, state, failedStatus, events, quote>>

Cash ==
  /\ pc = "benchmarks" /\ a > Len(Holdings)
  /\ rows' = [k \in RowKeys |-> IF k[1] = "cash" THEN Append(rows[k], "complete")
                                ELSE rows[k]]
  /\ pc' = IF Strategies = <<>> THEN "done" ELSE "verify"
  /\ a' = 1
  /\ UNCHANGED <<comparison, s, date, verified, position, state, failedStatus, events, quote>>

Verify ==
  /\ pc = "verify"
  /\ verified' \in BOOLEAN
  /\ pc' = "enter"
  /\ UNCHANGED <<comparison, s, a, date, position, state, failedStatus, events, rows, quote>>

\* locals of the asset loop, and the entry: unverified, unpriced, or refused
EnterFails ==
  /\ pc = "enter"
  /\ position' = None /\ state' = None
  /\ failedStatus' = "unavailable-entry"
  /\ events' = <<>>
  /\ date' = 0
  /\ quote' = NoQuote
  /\ pc' = "date"
  /\ UNCHANGED <<comparison, s, a, verified, rows>>

EntryStateOfAny(shares) == Captured(Stake(FreshAccount, shares, 0), 0)
EntryState(shares) ==
  IF Strategies[s] \in Rewarded
  THEN Captured(Stake(FreshAccount, shares, 0), 0) ELSE None

Enter ==
  /\ pc = "enter" /\ verified
  /\ \E shares \in EntryShares, dust \in 0..MaxDust, gas \in 1..MaxGas :
        /\ position' = [shares |-> shares, startDust |-> dust, idle |-> Nothing]
        /\ state' = EntryState(shares)
        /\ events' = <<Event("entry", 0, gas)>>
  /\ failedStatus' = "unavailable-entry"
  /\ date' = 0
  /\ quote' = NoQuote
  /\ pc' = "date"
  /\ UNCHANGED <<comparison, s, a, verified, rows>>

\* for date in dates: a position that was lost keeps its status to the end
LostDateUnreported ==
  /\ pc = "date" /\ date < Final /\ position = None
  /\ date' = date + 1
  /\ UNCHANGED <<comparison, pc, s, a, verified, position, state, failedStatus, events, rows,
                 quote>>
LostDate ==
  /\ pc = "date" /\ date < Final /\ position = None
  /\ date' = date + 1
  /\ Report(Row(date'), failedStatus)
  /\ UNCHANGED <<comparison, pc, s, a, verified, position, state, failedStatus, events, quote>>

CompoundsAtEnd(d) == state # None
Compounds(d) == state # None /\ d # Final

NextDate ==
  /\ pc = "date" /\ date < Final /\ position # None
  /\ date' = date + 1
  /\ pc' = IF Compounds(date') THEN "compound" ELSE "exit"
  /\ quote' = NoQuote
  /\ UNCHANGED <<comparison, s, a, verified, position, state, failedStatus, events, rows>>

\* position.idle after a compound: the coin's dust, and the residuals
IdleAfter(dust, residuals) ==
  [t \in Tokens |-> residuals[t] + IF t = Coin THEN dust ELSE 0]

Compound ==
  /\ pc = "compound" /\ Restorable(date)
  /\ \E sold \in Sellable(Rewards(date)), gas \in 1..MaxGas, dust \in 0..MaxDust :
       /\ Coin \in sold \/ Rewards(date)[Coin] = 0    \* the coin needs no route
       /\ LET proceeds == Sum(Rewards(date), sold)
              deposit  == proceeds - gas - dust
              kept     == Residuals(Rewards(date), sold)
              account  == Stake(Paid(Claiming(date), date), deposit, date)
          IN  /\ deposit > 0
              /\ position' = [position EXCEPT !.shares = @ + deposit,
                                             !.idle = IdleAfter(dust, kept)]
              /\ state' = Captured(account, date)
              /\ events' = Append(events, Event("compound", date, gas))
  /\ pc' = "exit"
  /\ UNCHANGED <<comparison, s, a, date, verified, failedStatus, rows, quote>>

\* Unaffordable: nothing to sell, or it does not pay for the gas
SkipCompound ==
  /\ pc = "compound" /\ Restorable(date)
  /\ events' = Append(events, Event("skipped-compound", date, 0))
  /\ pc' = "exit"
  /\ UNCHANGED <<comparison, s, a, date, verified, position, state, failedStatus, rows, quote>>

\* any other Unavailable: this row and all later ones are incomplete
LoseOneDate ==
  /\ pc = "compound"
  /\ Report(Row(date), "incomplete")
  /\ pc' = "date"
  /\ UNCHANGED <<comparison, s, a, date, verified, position, state, failedStatus, events, quote>>
LosePosition ==
  /\ pc = "compound"
  /\ failedStatus' = "incomplete"
  /\ Report(Row(date), "incomplete")
  /\ position' = None
  /\ pc' = "date"
  /\ quote' = NoQuote
  /\ UNCHANGED <<comparison, s, a, date, verified, state, events>>

\* a hypothetical exit: only the last one is an event
Exit ==
  /\ pc = "exit"
  /\ state # None => Restorable(date)
  /\ \E sold \in Sellable(Rewards(date)), gas \in 1..MaxGas :
       LET output   == position.shares + Sum(Rewards(date), sold)
           residual == Residuals(Rewards(date), sold)
       IN  /\ output > gas
           /\ quote' = [amount |-> output - gas + position.startDust, gas |-> gas,
                        unsold |-> Sum(residual, Tokens),
                        total |-> GasOf(events) + gas]
           /\ events' = IF date = Final
                        THEN Append(events, Event("exit", date, gas))
                        ELSE events
  /\ Report(Row(date), "complete")
  /\ pc' = "date"
  /\ UNCHANGED <<comparison, s, a, date, verified, position, state, failedStatus>>

ExitUnavailable ==
  /\ pc = "exit"
  /\ Report(Row(date), "unavailable-exit")
  /\ pc' = "date"
  /\ UNCHANGED <<comparison, s, a, date, verified, position, state, failedStatus, events, quote>>

NextAsset ==
  /\ pc = "date" /\ date = Final
  /\ IF a < Len(Assets) THEN a' = a + 1 /\ s' = s /\ pc' = "enter"
     ELSE /\ a' = 1 /\ s' = s + 1
          /\ pc' = IF s < Len(Strategies) THEN "verify" ELSE "done"
  /\ UNCHANGED <<comparison, date, verified, position, state, failedStatus, events, rows, quote>>

Done == pc = "done" /\ UNCHANGED vars

Next == \/ Hold \/ Cash \/ Verify \/ EnterFails \/ Enter \/ LostDate \/ NextDate
        \/ Compound \/ SkipCompound \/ LosePosition \/ Exit \/ ExitUnavailable
        \/ NextAsset \/ Done

Spec == Init /\ [][Next]_vars
-----------------------------------------------------------------------------
\* the position seen as one that was never taken apart
Held == pc \in {"date", "compound", "exit"} /\ position # None
Unclaimed ==
  [t \in Tokens |->
     IF ~Held \/ state = None THEN 0
     ELSE LET r == RestoredReward(t)
          IN  r.entitled - r.paid
              + WorkingBalance(position.shares) * (Integral[t][date] - r.integral)]

OnChain == INSTANCE ContinuousPosition WITH
  integral <- Integral, held <- Held, rewarded <- Held /\ state # None,
  date <- IF Held THEN date ELSE 0,
  shares <- IF Held THEN position.shares ELSE 0,
  dust <- IF Held THEN position.startDust ELSE 0,
  unclaimed <- Unclaimed,
  idle <- IF Held THEN position.idle ELSE Nothing,
  gas <- IF Held THEN Costs ELSE 0, quote <- IF Held THEN quote ELSE NoQuote

Statuses == {"complete", "unavailable", "unavailable-entry", "unavailable-exit",
             "incomplete"}

(* Types; only a rewarded strategy has a reward state, and its captured
   counters never say that more was paid than was earned. *)
TypeOK ==
  /\ pc \in {"benchmarks", "verify", "enter", "date", "compound", "exit", "done"}
  /\ date \in 0..Final
  /\ rows \in [RowKeys -> Seq(Statuses)]
  /\ failedStatus \in Statuses
  /\ position # None => /\ position.shares \in Nat \ {0}
                        /\ position.startDust \in Nat
                        /\ position.idle \in [Tokens -> Nat]
  /\ state # None /\ Held =>
       /\ Strategies[s] \in Rewarded
       /\ \A t \in DOMAIN state : state[t].paid \in 0..state[t].entitled

(* Every strategy, asset and date gets one row, whatever failed on the way. *)
OneRowEach == \A k \in RowKeys : /\ Len(rows[k]) <= 1
                                 /\ pc = "done" => Len(rows[k]) = 1

(* Once a position could not be entered, or a compound's data were missing, no
   later date of it is reported as anything else: a later value would rest on
   rewards nobody accounted for. *)
LossIsFinal ==
  \A k \in RowKeys, l \in RowKeys :
     /\ k[1] = l[1] /\ k[2] = l[2] /\ k[3] < l[3]
     /\ rows[k] # <<>> /\ rows[l] # <<>>
     /\ rows[k][1] \in {"unavailable-entry", "incomplete"}
     => rows[l] = rows[k]

(* A rewarded position tries to compound at every date but the end, once. *)
EveryMonthAttempted ==
  Held /\ pc = "date" /\ state # None =>
    LET attempts == {i \in DOMAIN events :
                       events[i].kind \in {"compound", "skipped-compound"}}
    IN  /\ {events[i].date : i \in attempts}
             = 1..(IF date = Final THEN Final - 1 ELSE date)
        /\ \A i, j \in attempts : i < j => events[i].date < events[j].date

(* Capturing the reward state after a deposit and restoring it on every later
   fork amounts to holding the position on chain: skipped compounds, residuals,
   hypothetical exits and reward tokens listed later neither lose a reward nor
   pay it twice, and the gas reported is each cost once. *)
ImplementsContinuousPosition == OnChain!Spec

\* the reward contract drops no token that it listed only after the entry
Lasting(c) == \A t \in Tokens, d \in 0..Final :
                d \in c.listed[t] \/ c.integral[t][d] = 0 \/ 0 \in c.listed[t]

(* A complete value leaves out no reward of a token the contract has removed. *)
RemovedRewardsVisible ==
  Held /\ quote # NoQuote =>
    \A t \in Tokens : date \in Listed[t] \/ Unclaimed[t] = 0
=============================================================================
