-------------------------- MODULE RewardSettlement --------------------------
(* What Simulator.settle_rewards promises `exit` and `compound`, with one step
   per claimed reward: it is sold for the target token, or kept untouched
   because it is too small to sell, or the whole action fails.  Router is shown
   to implement this module. *)
EXTENDS Integers, Sequences

CONSTANTS Tokens, ETH, GasPrice

VARIABLES target, claims, fork, proceeds, residuals, outcome
vars == <<target, claims, fork, proceeds, residuals, outcome>>

Pending == [kind |-> "pending"]

Init == /\ target \in Tokens
        /\ proceeds = 0
        /\ residuals = <<>>
        /\ outcome = Pending

reward == Head(claims)

(* From wallet f to wallet g: the whole reward is gone, the output has arrived,
   gas was paid in ether, and no token was left behind on the way. *)
Exchanged(f, g, output) ==
  \A t \in Tokens :
    g.bal[t] - f.bal[t] = (IF t = target THEN output ELSE 0)
                        - (IF t = reward.token THEN reward.amount ELSE 0)
                        - (IF t = ETH THEN (g.gas - f.gas) * GasPrice ELSE 0)

Advance == outcome = Pending /\ claims # <<>> /\ claims' = Tail(claims)

Sell == /\ Advance
        /\ reward.token # target
        /\ proceeds' > proceeds
        /\ Exchanged(fork, fork', proceeds' - proceeds)
        /\ UNCHANGED <<target, residuals, outcome>>

\* the reward already is the target token
Take == /\ Advance
        /\ reward.token = target
        /\ proceeds' = proceeds + reward.amount
        /\ UNCHANGED <<target, fork, residuals, outcome>>

Keep == /\ Advance
        /\ residuals' = Append(residuals, reward)
        /\ UNCHANGED <<target, fork, proceeds, outcome>>

Skip == /\ Advance
        /\ reward.amount = 0
        /\ UNCHANGED <<target, fork, proceeds, residuals, outcome>>

Settle == /\ outcome = Pending /\ claims = <<>>
          /\ outcome' = [kind |-> "settled", proceeds |-> proceeds,
                         residuals |-> residuals]
          /\ UNCHANGED <<target, claims, fork, proceeds, residuals>>

\* an error ends the action: its fork is thrown away, whatever is on it
Raise == /\ outcome = Pending
         /\ outcome'.kind = "raised"
         /\ UNCHANGED <<target, claims, proceeds, residuals>>

Next == Sell \/ Take \/ Keep \/ Skip \/ Settle \/ Raise

Spec == Init /\ [][Next]_vars
=============================================================================
