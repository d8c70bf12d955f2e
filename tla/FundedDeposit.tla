---------------------------- MODULE FundedDeposit ----------------------------
(* Simulator.funded_deposit (src/hodl/simulation.py): find, by probing the
   deposit inside snapshots of a local fork, a split of the budget into a
   deposit and the gas that is paid out of the same budget.

   The environment chooses what the probe does: the contract's deposit limit,
   a revert or a failed read, and the gas a successful deposit uses. *)
EXTENDS Integers

CONSTANTS
  MaxBudget,    \* bound on the budget
  MaxGas,       \* bound on the gas of one deposit
  PrefixGas,    \* gas the caller has used on the fork before the call
  MaxTxs,       \* bound on the transactions of one probe
  GasPrice,     \* price of a unit of gas
  TokenPrice,   \* price of a unit of the source token
  BitLength     \* Python's int.bit_length on 0..MaxBudget

ASSUME BoundsAssumption ==
  /\ MaxBudget \in Nat /\ MaxGas \in Nat /\ MaxTxs \in Nat
  /\ PrefixGas \subseteq Nat
  /\ GasPrice \in Nat /\ TokenPrice \in Nat \ {0}

ASSUME BitLengthAssumption ==
  /\ BitLength \in [0..MaxBudget -> Nat]
  /\ BitLength[0] = 0
  /\ \A n \in 1..MaxBudget : BitLength[n] = 1 + BitLength[n \div 2]

VARIABLES
  budget,      \* amount of the source token the caller may use
  candidate,   \* amount the next probe deposits
  reserve,     \* amount kept for gas, None until a probe was priced
  left,        \* iterations the for loop has left
  fork,        \* gas and transactions counted, and what is deposited on it
  saved,       \* the fork at the open snapshot, None outside one
  verdict,     \* what the with-block ends in, applied once it is left
  pc,          \* where the loop is
  outcome,     \* what the caller gets
  halvings,    \* ghost: how often a deposit limit halved the candidate
  raises       \* ghost: how often a priced probe raised the reserve

vars == <<budget, candidate, reserve, left, fork, saved, verdict, pc, outcome,
          halvings, raises>>

None == -1
NoFork == [gas |-> None, txs |-> None, held |-> None]
Pending == [kind |-> "pending"]
Errors == {"Unavailable", "Reverted", "Unaffordable", "DepositLimit"}
Forks == [gas : Nat, txs : Nat, held : Nat]

\* an exception the caller sees, and one that comes of a failed rollback: the
\* caller cannot tell the two Unavailable apart
Raised(e) == [kind |-> "raised", error |-> e]
Broken(e) == [kind |-> "broken", error |-> e]

\* costs() and Token.units(..., round_up=True): gas in units of the source token
Debit(gas) == (gas * GasPrice + TokenPrice - 1) \div TokenPrice

RoundsShort(b) == BitLength[b] + 7
Rounds(b) == BitLength[b] + 8
RoundLeft == left > 0

Init == /\ budget \in 0..MaxBudget
        /\ candidate = budget
        /\ reserve = None
        /\ left = Rounds(budget)
        /\ fork \in [gas : PrefixGas, txs : {0}, held : {0}]
        /\ saved = NoFork
        /\ verdict = Pending
        /\ pc = "price"
        /\ outcome = Pending
        /\ halvings = 0
        /\ raises = 0

Finish(result) == /\ outcome' = result
                  /\ pc' = "done"

\* prices.at(source): no price for the source token ends the call at once
ReadPrice ==
  /\ pc = "price"
  /\ \/ pc' = "loop" /\ UNCHANGED outcome
     \/ Finish(Raised("Unavailable"))
  /\ UNCHANGED <<budget, candidate, reserve, left, fork, saved, verdict,
                 halvings, raises>>

\* the for loop ran out: the route's gas never settled
GiveUp ==
  /\ pc = "loop" /\ left = 0
  /\ Finish(Raised("Unavailable"))
  /\ UNCHANGED <<budget, candidate, reserve, left, fork, saved, verdict,
                 halvings, raises>>

\* candidate <= 0: nothing is left to deposit
CannotAfford ==
  /\ pc = "loop" /\ RoundLeft /\ candidate <= 0
  /\ left' = left - 1
  /\ Finish(Raised("Unaffordable"))
  /\ UNCHANGED <<budget, candidate, reserve, fork, saved, verdict,
                 halvings, raises>>

\* with fork.snapshot(): evm_snapshot may fail, before anything needs undoing
OpenSnapshot ==
  /\ pc = "loop" /\ RoundLeft /\ candidate > 0
  /\ left' = left - 1
  /\ \/ /\ saved' = fork
        /\ pc' = "probe"
        /\ UNCHANGED outcome
     \/ /\ Finish(Raised("Unavailable"))
        /\ UNCHANGED saved
  /\ UNCHANGED <<budget, candidate, reserve, fork, verdict, halvings, raises>>

\* what transact leaves on the fork, whether or not the last step succeeds
Transacted(gas, txs, held) ==
  fork' = [gas |-> fork.gas + gas, txs |-> fork.txs + txs, held |-> held]

Leave(v) == /\ verdict' = v
            /\ pc' = "restore"

\* deposit() succeeds: conversions and the final call are mined
DepositMined ==
  /\ pc = "probe"
  /\ \E gas \in 1..MaxGas, txs \in 1..MaxTxs : Transacted(gas, txs, candidate)
  /\ pc' = "priced"
  /\ UNCHANGED <<budget, candidate, reserve, left, saved, verdict, outcome,
                 halvings, raises>>

LimitIsFinal(capacity) == reserve # None \/ capacity = 0

\* except DepositLimit: re-raised once gas was measured or with no capacity,
\* else the candidate is halved and the next iteration tries again.  The
\* conversions before the limit check are already mined.
DepositHitsLimit ==
  /\ pc = "probe"
  /\ \E gas \in {0, MaxGas}, txs \in {0, MaxTxs} : Transacted(gas, txs, 0)
  /\ \E capacity \in {0, 1} :
        IF LimitIsFinal(capacity)
        THEN Leave(Raised("DepositLimit")) /\ UNCHANGED <<candidate, halvings>>
        ELSE /\ candidate' = candidate \div 2
             /\ halvings' = halvings + 1
             /\ Leave([kind |-> "continue"])
  /\ UNCHANGED <<budget, reserve, left, saved, outcome, raises>>

\* any other exception of deposit(): a revert, an unaffordable conversion, an
\* accounting mismatch after the deposit was mined
DepositFails ==
  /\ pc = "probe"
  /\ \E e \in Errors \ {"DepositLimit"} : Leave(Raised(e))
  /\ \E gas \in {0, MaxGas}, held \in {0, candidate} : Transacted(gas, 1, held)
  /\ UNCHANGED <<budget, candidate, reserve, left, saved, outcome,
                 halvings, raises>>

\* gas price, token price or reward state cannot be read after the deposit
ReadFails ==
  /\ pc = "priced"
  /\ \E e \in {"Unavailable", "Reverted"} : Leave(Raised(e))
  /\ UNCHANGED <<budget, candidate, reserve, left, fork, saved, outcome,
                 halvings, raises>>

Enough(debit) == reserve # None /\ debit <= reserve

\* the return inside the with-block: everything is read before the rollback
Execution(debit) == [kind |-> "funded", deposited |-> candidate,
                     debit |-> debit, dust |-> reserve - debit,
                     gas |-> fork.gas, captured |-> fork.held]

\* the probe is priced: the reserve covers it, or the loop raises the reserve
PriceProbe ==
  /\ pc = "priced"
  /\ LET debit == Debit(fork.gas)
     IN  Leave(IF Enough(debit) THEN Execution(debit)
               ELSE [kind |-> "raise", debit |-> debit])
  /\ UNCHANGED <<budget, candidate, reserve, left, fork, saved, outcome,
                 halvings, raises>>

RaiseReserve(debit) ==
  LET known == IF reserve = None THEN 0 ELSE reserve
  IN  /\ reserve' = IF debit > known THEN debit ELSE known
      /\ candidate' = budget - reserve'
      /\ raises' = raises + IF reserve' # reserve THEN 1 ELSE 0

RestoredButGas == [saved EXCEPT !.gas = fork.gas]
RestoredFork == saved

\* fork.snapshot's finally: evm_revert, gas_units and transactions restored,
\* then the with-block's verdict takes effect
Restore ==
  /\ pc = "restore"
  /\ fork' = RestoredFork
  /\ saved' = NoFork
  /\ verdict' = Pending
  /\ CASE verdict.kind = "raise" ->
            RaiseReserve(verdict.debit) /\ pc' = "loop" /\ UNCHANGED outcome
       [] verdict.kind = "continue" ->
            pc' = "loop" /\ UNCHANGED <<outcome, candidate, reserve, raises>>
       [] OTHER ->
            Finish(verdict) /\ UNCHANGED <<candidate, reserve, raises>>
  /\ UNCHANGED <<budget, left, halvings>>

\* the chain is back at the snapshot, but the counters were not restored
Uncounted == [saved EXCEPT !.gas = fork.gas, !.txs = fork.txs]

\* evm_revert fails, and its error replaces whatever was in flight: the node
\* refuses (RuntimeError), or the request is lost (Unavailable), in which case
\* the node may have gone back all the same
RestoreFails ==
  /\ pc = "restore"
  /\ \/ Finish(Broken("RuntimeError")) /\ UNCHANGED fork
     \/ Finish(Broken("Unavailable")) /\ fork' \in {fork, Uncounted}
  /\ saved' = NoFork
  /\ verdict' = Pending
  /\ UNCHANGED <<budget, candidate, reserve, left, halvings, raises>>

Done == pc = "done" /\ UNCHANGED vars

Next == \/ ReadPrice \/ GiveUp \/ CannotAfford \/ OpenSnapshot \/ DepositMined
        \/ DepositHitsLimit \/ DepositFails \/ ReadFails \/ PriceProbe
        \/ Restore \/ RestoreFails \/ Done

Spec == Init /\ [][Next]_vars
-----------------------------------------------------------------------------
\* the fork as the caller left it, and the abstract specification seen from there
callersFork == IF saved = NoFork THEN fork ELSE saved
Funding == INSTANCE GasFunding WITH Budgets <- 0..MaxBudget, fork <- callersFork

(* Types: the rounds left never fall below zero, whatever the probes do. *)
TypeOK ==
  /\ budget \in 0..MaxBudget
  /\ candidate \in Int
  /\ reserve \in Nat \cup {None}
  /\ left \in Nat /\ halvings \in Nat /\ raises \in Nat
  /\ fork \in Forks
  /\ saved \in Forks \cup {NoFork}
  /\ pc \in {"price", "loop", "probe", "priced", "restore", "done"}

(* The loop gives up with "gas funding did not converge" only after nine probes
   each of which needed more gas than every probe before it: neither halving
   under a deposit limit nor a gas need that repeats uses up its rounds. *)
GivesUpOnlyOnRisingGas == (pc = "loop" /\ left = 0) => raises >= 9

(* Every round used has halved the candidate or raised the reserve; before the
   first price the candidate is the budget halved, and an amount that could be
   priced was not halved to nothing. *)
Unresolved == \/ pc \in {"probe", "priced"}
              \/ pc = "restore" /\ verdict.kind # "continue"
RoundsAccounted ==
  /\ pc # "done" => left + halvings + raises + (IF Unresolved THEN 1 ELSE 0)
                      = Rounds(budget)
  /\ reserve = None =>
       /\ raises = 0
       /\ candidate \in 0..MaxBudget
       /\ halvings + BitLength[candidate] = BitLength[budget]
  /\ reserve # None => /\ halvings < BitLength[budget]
                       /\ candidate = budget - reserve

(* A snapshot is open exactly while a with-block runs; what the block has done
   so far is on top of the caller's fork. *)
SnapshotOpen ==
  /\ pc \in {"probe", "priced", "restore"} <=> saved # NoFork
  /\ pc = "probe" => fork = saved
  /\ pc \in {"probe", "priced"} => candidate > 0
  /\ pc = "priced" => fork.held = candidate /\ fork.gas > saved.gas

(* The verdict of a with-block, computed before the rollback, is what holds
   after it. *)
VerdictSound ==
  /\ pc # "restore" => verdict = Pending
  /\ pc = "restore" =>
       verdict.kind \in {"raised", "continue", "raise", "funded"}
  /\ verdict.kind = "continue" => reserve = None
  /\ verdict.kind = "raise" => /\ verdict.debit \in Nat
                               /\ ~Enough(verdict.debit)
                               /\ candidate > 0
  /\ verdict.kind = "funded" => Funding!Settles(verdict)
  /\ pc # "done" <=> outcome = Pending

(* The inductive invariant behind the theorems of FundedDepositProofs. *)
IInv == TypeOK /\ RoundsAccounted /\ SnapshotOpen /\ VerdictSound

(* funded_deposit does what its callers rely on: it shares out exactly the
   budget, pays for its gas, and leaves the fork as it found it, whichever
   probe it returns from and whatever a probe raised, unless evm_revert itself
   failed; a result is then never returned. *)
ImplementsGasFunding == Funding!Spec
=============================================================================
