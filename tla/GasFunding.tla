----------------------------- MODULE GasFunding -----------------------------
(* What Simulator.funded_deposit promises its callers `enter` and `compound`,
   as one step: a budget of the source token is split into a deposit, the gas
   of everything done on the fork and the dust left in the wallet, or nothing
   is done at all.  Either way the caller's fork is as it was, unless the node
   failed to go back to its snapshot.  FundedDeposit is shown to implement this
   module. *)
EXTENDS Integers

CONSTANTS Budgets,      \* amounts of the source token a caller may bring
          Forks,        \* states of a fork: [gas, txs, held]
          GasPrice,     \* price of a unit of gas
          TokenPrice    \* price of a unit of the source token

VARIABLES budget, fork, outcome
vars == <<budget, fork, outcome>>

Pending == [kind |-> "pending"]

Init == /\ budget \in Budgets
        /\ fork \in Forks
        /\ outcome = Pending

(* An Execution e shares the budget out exactly, pays with its debit for the
   gas of the whole fork, and carries the reward state of the deposit made. *)
Settles(e) == /\ e.deposited > 0
              /\ e.dust >= 0
              /\ e.deposited + e.debit + e.dust = budget
              /\ e.gas > fork.gas
              /\ e.debit * TokenPrice >= e.gas * GasPrice
              /\ e.captured = e.deposited

Fund == /\ outcome = Pending
        /\ outcome'.kind = "funded"
        /\ Settles(outcome')
        /\ UNCHANGED <<budget, fork>>

Refuse == /\ outcome = Pending
          /\ outcome'.kind = "raised"
          /\ UNCHANGED <<budget, fork>>

(* The node refused to go back to its snapshot, which ends the command, or the
   request was lost, which the caller records as unavailable data.  Nothing is
   known of the fork: no caller catches either error before it closes it. *)
Break == /\ outcome = Pending
         /\ outcome'.kind = "broken"
         /\ outcome'.error \in {"RuntimeError", "Unavailable"}
         /\ fork' \in Forks
         /\ UNCHANGED budget

Next == Fund \/ Refuse \/ Break

Spec == Init /\ [][Next]_vars
=============================================================================
