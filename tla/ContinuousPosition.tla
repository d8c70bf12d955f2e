------------------------- MODULE ContinuousPosition -------------------------
(* A position as it would live on chain: shares bought once, rewards accruing
   on them from date to date, compounds that reinvest what accrued, and quotes
   of what an exit would pay.  No state is captured, carried to another fork
   or restored here.  Engine, which does that at every date, is shown to
   implement this module: every reward is paid once, and none is lost. *)
EXTENDS Integers, Functions

CONSTANTS Tokens,       \* reward tokens and the coin they are compounded into
          Coin          \* that coin

VARIABLES integral,     \* rewards per working share of a token up to a date
          held,         \* whether there is a position
          rewarded,     \* whether it is staked where rewards accrue
          date, shares,
          dust,         \* of the starting token, left over by the entry
          unclaimed,    \* rewards accrued and not yet claimed
          idle,         \* rewards and coins in the wallet
          gas,          \* gas paid so far
          quote         \* the last exit quoted at this date
vars == <<integral, held, rewarded, date, shares, dust, unclaimed, idle, gas, quote>>

NoQuote == [amount |-> 0, gas |-> 0, unsold |-> 0, total |-> 0]
Nothing == [t \in Tokens |-> 0]
Wealth == [t \in Tokens |-> unclaimed[t] + idle[t]]

\* an account without a boost works with 40% of its shares
Earned(t) == ((shares * 40) \div 100) * (integral[t][date + 1] - integral[t][date])

Init == /\ ~held /\ ~rewarded
        /\ date = 0 /\ shares = 0 /\ dust = 0 /\ gas = 0
        /\ unclaimed = Nothing /\ idle = Nothing
        /\ quote = NoQuote

Enter == /\ ~held /\ held'
         /\ date' = 0
         /\ shares' > 0 /\ dust' >= 0 /\ gas' > 0
         /\ unclaimed' = Nothing /\ idle' = Nothing
         /\ quote' = NoQuote
         /\ UNCHANGED integral

\* time passes: rewards accrue on the shares, and nothing else happens
Advance == /\ held
           /\ date' = date + 1
           /\ unclaimed' = IF rewarded THEN [t \in Tokens |-> unclaimed[t] + Earned(t)]
                           ELSE unclaimed
           /\ quote' = NoQuote
           /\ UNCHANGED <<integral, held, rewarded, shares, dust, idle, gas>>

(* Rewards are claimed; those that are sold buy shares and gas, the change and
   what cannot be sold stay in the wallet. *)
Compound ==
  /\ held /\ rewarded
  /\ \E sold \in SUBSET Tokens :
       LET Kept(t) == IF t \in sold THEN 0 ELSE Wealth[t]
           change  == idle'[Coin] - Kept(Coin)
       IN  /\ shares' > shares /\ gas' > gas /\ change >= 0
           /\ SumFunctionOnSet(Wealth, sold)
                = (shares' - shares) + (gas' - gas) + change
           /\ \A t \in Tokens \ {Coin} : idle'[t] = Kept(t)
  /\ unclaimed' = Nothing
  /\ UNCHANGED <<integral, held, rewarded, date, dust, quote>>

(* The value of leaving now: all the wealth but what cannot be sold, less gas.
   Asking changes nothing. *)
Quote ==
  /\ held
  /\ quote'.amount > 0 /\ quote'.gas > 0
  /\ quote'.amount + quote'.gas + quote'.unsold
       = shares + dust + SumFunctionOnSet(Wealth, Tokens)
  /\ quote'.total = gas + quote'.gas
  /\ UNCHANGED <<integral, held, rewarded, date, shares, dust, unclaimed, idle, gas>>

\* data are missing, or the comparison of this position is over
Drop == /\ held /\ ~held' /\ ~rewarded'
        /\ date' = 0 /\ shares' = 0 /\ dust' = 0 /\ gas' = 0
        /\ unclaimed' = Nothing /\ idle' = Nothing
        /\ quote' = NoQuote
        /\ UNCHANGED integral

Next == Enter \/ Advance \/ Compound \/ Quote \/ Drop

Spec == Init /\ [][Next]_vars
=============================================================================
