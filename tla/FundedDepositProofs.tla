------------------------ MODULE FundedDepositProofs ------------------------
(* Proofs about funded_deposit, for every budget, gas cost, price and bound.
   IInv is inductive; the bound on the rounds and the refinement of GasFunding
   follow from it. *)
EXTENDS FundedDeposit, TLAPS

(* A debit is an amount of the source token. *)
LEMMA DebitType == ASSUME NEW gas \in Nat PROVE Debit(gas) \in Nat
BY BoundsAssumption DEF Debit

(* Rounding up, the debit is worth at least the gas it stands for. *)
LEMMA DebitPays ==
  ASSUME NEW gas \in Nat
  PROVE  Debit(gas) * TokenPrice >= gas * GasPrice
<1>1. gas * GasPrice \in Nat
  BY BoundsAssumption
<1>2. ASSUME NEW a \in Nat, NEW b \in Nat \ {0}
      PROVE  ((a + b - 1) \div b) * b >= a
  OBVIOUS
<1> QED BY <1>1, <1>2, BoundsAssumption DEF Debit

(* Halving an amount drops exactly one bit of it. *)
LEMMA HalvingDropsABit ==
  ASSUME NEW n \in 1..MaxBudget
  PROVE  /\ n \div 2 \in 0..MaxBudget
         /\ BitLength[n] = 1 + BitLength[n \div 2]
         /\ BitLength[n \div 2] \in Nat
<1>1. n \div 2 \in 0..MaxBudget
  BY BoundsAssumption
<1> QED BY <1>1, BitLengthAssumption

(* The initial states satisfy the invariant. *)
LEMMA InitIInv == Init => IInv
<1> SUFFICES ASSUME Init PROVE IInv
  OBVIOUS
<1> USE DEF Init, Pending, None, NoFork
<1>1. BitLength[budget] \in Nat
  BY BitLengthAssumption
<1>2. TypeOK
  <2>1. fork \in Forks
    <3>1. PICK g \in PrefixGas : fork = [gas |-> g, txs |-> 0, held |-> 0]
      OBVIOUS
    <3> QED BY <3>1, BoundsAssumption DEF Forks
  <2>2. candidate \in Int /\ left \in Nat
    BY <1>1, BoundsAssumption DEF Rounds
  <2> QED BY <2>1, <2>2 DEF TypeOK
<1>3. RoundsAccounted
  <2>1. ~Unresolved
    BY DEF Unresolved
  <2> QED BY <1>1, <2>1 DEF RoundsAccounted, Rounds
<1>4. SnapshotOpen
  BY DEF SnapshotOpen
<1>5. VerdictSound
  BY DEF VerdictSound
<1> QED BY <1>2, <1>3, <1>4, <1>5 DEF IInv

(* Every step of the loop preserves the invariant. *)
LEMMA NextIInv == IInv /\ [Next]_vars => IInv'
<1> SUFFICES ASSUME IInv, [Next]_vars PROVE IInv'
  OBVIOUS
<1> USE DEF IInv, Pending, None, NoFork
<1>0. BitLength[budget] \in Nat /\ Rounds(budget) \in Nat
  BY BitLengthAssumption DEF TypeOK, Rounds
<1>1. CASE ReadPrice
  <2> USE <1>1 DEF ReadPrice, Finish, Raised
  <2>1. TypeOK'
    BY DEF TypeOK
  <2>2. RoundsAccounted'
    BY DEF RoundsAccounted, Unresolved, Rounds, TypeOK
  <2>3. SnapshotOpen'
    BY DEF SnapshotOpen
  <2>4. VerdictSound'
    BY DEF VerdictSound
  <2> QED BY <2>1, <2>2, <2>3, <2>4
<1>2. CASE GiveUp
  <2> USE <1>2 DEF GiveUp, Finish, Raised
  <2>1. TypeOK'
    BY DEF TypeOK
  <2>2. RoundsAccounted'
    BY DEF RoundsAccounted
  <2>3. SnapshotOpen'
    BY DEF SnapshotOpen
  <2>4. VerdictSound'
    BY DEF VerdictSound
  <2> QED BY <2>1, <2>2, <2>3, <2>4
<1>3. CASE CannotAfford
  <2> USE <1>3 DEF CannotAfford, Finish, Raised, RoundLeft
  <2>1. TypeOK'
    BY DEF TypeOK
  <2>2. RoundsAccounted'
    BY DEF RoundsAccounted
  <2>3. SnapshotOpen'
    BY DEF SnapshotOpen
  <2>4. VerdictSound'
    BY DEF VerdictSound
  <2> QED BY <2>1, <2>2, <2>3, <2>4
<1>4. CASE OpenSnapshot
  <2> USE <1>4 DEF OpenSnapshot, Finish, Raised, RoundLeft
  <2>0. fork \in Forks /\ fork # NoFork
    BY DEF TypeOK, Forks
  <2>1. TypeOK'
    BY DEF TypeOK
  <2>2. RoundsAccounted'
    BY <1>0 DEF RoundsAccounted, Unresolved, Rounds, TypeOK, VerdictSound
  <2>3. SnapshotOpen'
    BY <2>0 DEF SnapshotOpen
  <2>4. VerdictSound'
    BY DEF VerdictSound
  <2> QED BY <2>1, <2>2, <2>3, <2>4
<1>5. CASE DepositMined
  <2> USE <1>5 DEF DepositMined, Transacted
  <2>1. PICK gas \in 1..MaxGas, txs \in 1..MaxTxs : Transacted(gas, txs, candidate)
    OBVIOUS
  <2>2. candidate \in Nat
    BY DEF TypeOK, SnapshotOpen
  <2>3. TypeOK'
    BY <2>1, <2>2, BoundsAssumption DEF TypeOK, Forks
  <2>4. RoundsAccounted'
    BY DEF RoundsAccounted, Unresolved, Rounds
  <2>5. SnapshotOpen'
    BY <2>1, BoundsAssumption DEF SnapshotOpen, TypeOK, Forks
  <2>6. VerdictSound'
    BY DEF VerdictSound
  <2> QED BY <2>3, <2>4, <2>5, <2>6
<1>6. CASE DepositHitsLimit
  <2>1. PICK gas \in {0, MaxGas}, txs \in {0, MaxTxs} : Transacted(gas, txs, 0)
    BY <1>6 DEF DepositHitsLimit
  <2>2. PICK capacity \in {0, 1} :
          IF LimitIsFinal(capacity)
          THEN Leave(Raised("DepositLimit")) /\ UNCHANGED <<candidate, halvings>>
          ELSE /\ candidate' = candidate \div 2
               /\ halvings' = halvings + 1
               /\ Leave([kind |-> "continue"])
    BY <1>6 DEF DepositHitsLimit
  <2>3. UNCHANGED <<budget, reserve, left, saved, outcome, raises>> /\ pc = "probe"
    BY <1>6 DEF DepositHitsLimit
  <2>4. fork' \in Forks
    BY <2>1, BoundsAssumption DEF Transacted, TypeOK, Forks
  <2>5. CASE LimitIsFinal(capacity)
    <3> USE <2>2, <2>3, <2>5 DEF Leave, Raised
    <3>1. TypeOK'
      BY <2>4 DEF TypeOK
    <3>2. RoundsAccounted'
      BY DEF RoundsAccounted, Unresolved, Rounds
    <3>3. SnapshotOpen'
      BY DEF SnapshotOpen
    <3>4. VerdictSound'
      BY DEF VerdictSound
    <3> QED BY <3>1, <3>2, <3>3, <3>4
  <2>6. CASE ~LimitIsFinal(capacity)
    <3> USE <2>2, <2>3, <2>6 DEF Leave
    <3>1. reserve = None /\ candidate \in 1..MaxBudget
      BY BoundsAssumption DEF LimitIsFinal, RoundsAccounted, SnapshotOpen, TypeOK
    <3>2. TypeOK'
      BY <2>4, <3>1, HalvingDropsABit DEF TypeOK
    <3>3. RoundsAccounted'
      BY <1>0, <3>1, HalvingDropsABit DEF RoundsAccounted, Unresolved, Rounds, TypeOK
    <3>4. SnapshotOpen'
      BY DEF SnapshotOpen
    <3>5. VerdictSound'
      BY <3>1 DEF VerdictSound
    <3> QED BY <3>2, <3>3, <3>4, <3>5
  <2> QED BY <2>5, <2>6
<1>7. CASE DepositFails
  <2>1. PICK e \in Errors : Leave(Raised(e))
    BY <1>7 DEF DepositFails
  <2>2. PICK gas \in {0, MaxGas}, held \in {0, candidate} : Transacted(gas, 1, held)
    BY <1>7 DEF DepositFails
  <2> USE <1>7, <2>1 DEF DepositFails, Leave, Raised
  <2>3. fork' \in Forks
    BY <2>2, BoundsAssumption DEF Transacted, TypeOK, Forks, SnapshotOpen
  <2>4. TypeOK'
    BY <2>3 DEF TypeOK
  <2>5. RoundsAccounted'
    BY DEF RoundsAccounted, Unresolved, Rounds
  <2>6. SnapshotOpen'
    BY DEF SnapshotOpen
  <2>7. VerdictSound'
    BY DEF VerdictSound
  <2> QED BY <2>4, <2>5, <2>6, <2>7
<1>8. CASE ReadFails
  <2> USE <1>8 DEF ReadFails, Leave, Raised
  <2>1. TypeOK'
    BY DEF TypeOK
  <2>2. RoundsAccounted'
    BY DEF RoundsAccounted, Unresolved, Rounds
  <2>3. SnapshotOpen'
    BY DEF SnapshotOpen
  <2>4. VerdictSound'
    BY DEF VerdictSound
  <2> QED BY <2>1, <2>2, <2>3, <2>4
<1>9. CASE PriceProbe
  <2>1. fork.gas \in Nat /\ saved \in Forks /\ fork.gas > saved.gas
    BY <1>9 DEF PriceProbe, TypeOK, SnapshotOpen, Forks
  <2>2. PICK debit \in Nat : /\ debit = Debit(fork.gas)
                             /\ debit * TokenPrice >= fork.gas * GasPrice
    BY <2>1, DebitType, DebitPays
  <2>3. /\ verdict' = IF Enough(debit) THEN Execution(debit)
                      ELSE [kind |-> "raise", debit |-> debit]
        /\ pc = "priced" /\ pc' = "restore"
        /\ UNCHANGED <<budget, candidate, reserve, left, fork, saved, outcome,
                       halvings, raises>>
    BY <1>9, <2>2 DEF PriceProbe, Leave
  <2>4. TypeOK'
    BY <2>3 DEF TypeOK
  <2>5. RoundsAccounted'
    BY <2>3 DEF RoundsAccounted, Unresolved, Rounds, Execution
  <2>6. SnapshotOpen'
    BY <2>3 DEF SnapshotOpen
  <2>7. VerdictSound'
    <3>1. CASE Enough(debit)
      <4>1. verdict' = Execution(debit)
        BY <2>3, <3>1
      <4>2. Funding!Settles(verdict)'
        BY <2>1, <2>2, <2>3, <3>1, <4>1
           DEF Funding!Settles, Execution, Enough, callersFork, SnapshotOpen,
               RoundsAccounted, TypeOK
      <4> QED BY <2>3, <4>1, <4>2 DEF VerdictSound, Execution
    <3>2. CASE ~Enough(debit)
      <4>1. verdict' = [kind |-> "raise", debit |-> debit]
        BY <2>3, <3>2
      <4>2. ~Enough(debit)'
        BY <2>3, <3>2 DEF Enough
      <4> QED BY <2>2, <2>3, <4>1, <4>2 DEF VerdictSound, SnapshotOpen, Enough
    <3> QED BY <3>1, <3>2
  <2> QED BY <2>4, <2>5, <2>6, <2>7
<1>10. CASE Restore
  <2>0. /\ pc = "restore" /\ fork' = saved /\ saved' = NoFork /\ verdict' = Pending
        /\ UNCHANGED <<budget, left, halvings>>
        /\ saved \in Forks
    BY <1>10 DEF Restore, RestoredFork, SnapshotOpen, TypeOK
  <2>1. CASE verdict.kind = "raise"
    <3>1. RaiseReserve(verdict.debit) /\ pc' = "loop" /\ UNCHANGED outcome
      BY <1>10, <2>1 DEF Restore
    <3>2. verdict.debit \in Nat /\ ~Enough(verdict.debit) /\ candidate > 0
      BY <2>1 DEF VerdictSound
    <3>3. /\ reserve' = verdict.debit \/ (reserve = None /\ reserve' = 0)
          /\ reserve' \in Nat /\ reserve' # reserve
          /\ candidate' = budget - reserve'
          /\ raises' = raises + 1
      BY <3>1, <3>2 DEF RaiseReserve, Enough, TypeOK
    <3>4. TypeOK'
      BY <2>0, <3>1, <3>3 DEF TypeOK
    <3>5. halvings < BitLength[budget]
      <4>1. CASE reserve = None
        <5>1. candidate \in 1..MaxBudget
          BY <3>2, <4>1, BoundsAssumption DEF RoundsAccounted
        <5> QED BY <1>0, <4>1, <5>1, HalvingDropsABit DEF RoundsAccounted, TypeOK
      <4> QED BY <4>1 DEF RoundsAccounted
    <3>6. RoundsAccounted'
      <4>1. Unresolved /\ ~Unresolved'
        BY <2>0, <2>1, <3>1 DEF Unresolved
      <4>2. reserve' # None
        BY <3>3
      <4>3. left + halvings + raises + 1 = Rounds(budget)
        BY <2>0, <4>1 DEF RoundsAccounted
      <4>4. left' + halvings' + raises' + 0 = Rounds(budget)'
        BY <1>0, <2>0, <3>3, <4>3 DEF Rounds, TypeOK
      <4> QED BY <2>0, <3>3, <3>5, <4>1, <4>2, <4>4 DEF RoundsAccounted
    <3>7. SnapshotOpen'
      BY <2>0, <3>1 DEF SnapshotOpen
    <3>8. VerdictSound'
      BY <2>0, <3>1 DEF VerdictSound
    <3> QED BY <3>4, <3>6, <3>7, <3>8
  <2>2. CASE verdict.kind = "continue"
    <3> USE <2>0, <2>2
    <3>1. pc' = "loop" /\ UNCHANGED <<outcome, candidate, reserve, raises>>
      BY <1>10 DEF Restore
    <3>2. TypeOK'
      BY <3>1 DEF TypeOK
    <3>3. RoundsAccounted'
      BY <3>1 DEF RoundsAccounted, Unresolved, Rounds
    <3>4. SnapshotOpen'
      BY <3>1 DEF SnapshotOpen
    <3>5. VerdictSound'
      BY <3>1 DEF VerdictSound
    <3> QED BY <3>2, <3>3, <3>4, <3>5
  <2>3. CASE verdict.kind \notin {"raise", "continue"}
    <3> USE <2>0, <2>3
    <3>1. Finish(verdict) /\ UNCHANGED <<candidate, reserve, raises>>
      BY <1>10 DEF Restore
    <3>2. outcome' = verdict /\ pc' = "done"
      BY <3>1 DEF Finish
    <3>3. TypeOK'
      BY <3>1, <3>2 DEF TypeOK
    <3>4. RoundsAccounted'
      BY <3>1, <3>2 DEF RoundsAccounted
    <3>5. SnapshotOpen'
      BY <3>2 DEF SnapshotOpen
    <3>6. VerdictSound'
      BY <3>2 DEF VerdictSound
    <3> QED BY <3>3, <3>4, <3>5, <3>6
  <2> QED BY <2>1, <2>2, <2>3
<1>11. CASE RestoreFails
  <2> USE <1>11 DEF RestoreFails, Finish, Broken
  <2>0. fork' \in Forks
    BY DEF Uncounted, SnapshotOpen, TypeOK, Forks
  <2>1. TypeOK'
    BY <2>0 DEF TypeOK
  <2>2. RoundsAccounted'
    BY DEF RoundsAccounted
  <2>3. SnapshotOpen'
    BY DEF SnapshotOpen
  <2>4. VerdictSound'
    BY DEF VerdictSound
  <2> QED BY <2>1, <2>2, <2>3, <2>4
<1>12. CASE UNCHANGED vars
  BY <1>12 DEF vars, TypeOK, RoundsAccounted, Unresolved, Rounds, SnapshotOpen,
               VerdictSound, Enough, Funding!Settles, callersFork
<1>13. CASE Done
  BY <1>12, <1>13 DEF Done
<1> QED
  BY <1>1, <1>2, <1>3, <1>4, <1>5, <1>6, <1>7, <1>8, <1>9, <1>10, <1>11, <1>12,
     <1>13 DEF Next

(* funded_deposit keeps its bookkeeping right: the types, the rounds used, the
   open snapshot and the verdict carried out of it. *)
THEOREM Inductive == Spec => []IInv
<1>1. Init => IInv
  BY InitIInv
<1>2. IInv /\ [Next]_vars => IInv'
  BY NextIInv
<1> QED BY <1>1, <1>2, PTL DEF Spec

(* The variables of funded_deposit keep their types; in particular the loop
   never runs more rounds than its range. *)
THEOREM TypeCorrect == Spec => []TypeOK
<1>1. IInv => TypeOK
  BY DEF IInv
<1> QED BY <1>1, Inductive, PTL

(* "gas funding did not converge" is raised only when at least nine probes in a
   row needed more gas than all before them, for every budget: a budget of n
   bits can be halved fewer than n times by a deposit limit and still be
   priced, which leaves nine of the n + 8 rounds. *)
THEOREM Convergence == Spec => []GivesUpOnlyOnRisingGas
<1>1. IInv => GivesUpOnlyOnRisingGas
  <2> SUFFICES ASSUME IInv, pc = "loop", left = 0 PROVE raises >= 9
    BY DEF GivesUpOnlyOnRisingGas
  <2>1. BitLength[budget] \in Nat
    BY BitLengthAssumption DEF IInv, TypeOK
  <2>2. ~Unresolved /\ halvings + raises = BitLength[budget] + 8
    BY DEF IInv, TypeOK, RoundsAccounted, Unresolved, Rounds
  <2>3. CASE reserve = None
    <3>1. raises = 0 /\ BitLength[candidate] \in Nat
      BY <2>3, BitLengthAssumption DEF IInv, RoundsAccounted
    <3>2. halvings <= BitLength[budget]
      BY <2>1, <2>3, <3>1 DEF IInv, RoundsAccounted, TypeOK
    <3> QED BY <2>1, <2>2, <3>1, <3>2 DEF IInv, TypeOK
  <2>4. CASE reserve # None
    BY <2>1, <2>2, <2>4 DEF IInv, RoundsAccounted, TypeOK
  <2> QED BY <2>3, <2>4
<1> QED BY <1>1, Inductive, PTL

(* funded_deposit implements GasFunding: seen from its caller's fork it either
   shares out exactly the budget, paying for all the gas, or changes nothing,
   unless evm_revert was refused or lost: then it reports no result, and only
   then may the fork differ. *)
THEOREM Implements == Spec => ImplementsGasFunding
<1>1. Init => Funding!Init
  <2> SUFFICES ASSUME Init PROVE Funding!Init
    OBVIOUS
  <2>1. callersFork = fork /\ fork \in Forks
    BY InitIInv DEF Init, callersFork, IInv, TypeOK
  <2> QED BY <2>1 DEF Init, Funding!Init, Pending, Funding!Pending, Forks
<1>2. IInv /\ [Next]_vars => [Funding!Next]_(Funding!vars)
  <2> SUFFICES ASSUME IInv, [Next]_vars
               PROVE  Funding!Next \/ UNCHANGED Funding!vars
    OBVIOUS
  <2> USE DEF Funding!vars, Funding!Next, Pending, Funding!Pending, IInv
  <2>1. CASE ReadPrice
    BY <2>1 DEF ReadPrice, Finish, Raised, callersFork, Funding!Refuse, VerdictSound
  <2>2. CASE GiveUp
    BY <2>2 DEF GiveUp, Finish, Raised, callersFork, Funding!Refuse, VerdictSound
  <2>3. CASE CannotAfford
    BY <2>3 DEF CannotAfford, Finish, Raised, callersFork, Funding!Refuse,
                VerdictSound
  <2>4. CASE OpenSnapshot
    <3>1. saved = NoFork /\ fork # NoFork
      BY <2>4 DEF OpenSnapshot, SnapshotOpen, TypeOK, Forks, NoFork, None
    <3> QED BY <2>4, <3>1 DEF OpenSnapshot, Finish, Raised, callersFork,
                              Funding!Refuse, VerdictSound
  <2>5. CASE DepositMined \/ DepositHitsLimit \/ DepositFails \/ ReadFails
             \/ PriceProbe
    <3>1. saved # NoFork /\ UNCHANGED <<budget, saved, outcome>>
      BY <2>5 DEF DepositMined, DepositHitsLimit, DepositFails, ReadFails,
                  PriceProbe, SnapshotOpen
    <3> QED BY <3>1 DEF callersFork
  <2>6. CASE Restore
    <3>1. /\ saved # NoFork /\ saved \in Forks /\ outcome = Pending
          /\ callersFork' = callersFork /\ budget' = budget
      BY <2>6 DEF Restore, RestoredFork, SnapshotOpen, TypeOK, VerdictSound,
                  callersFork
    <3>2. CASE verdict.kind \in {"raise", "continue"}
      <4>1. UNCHANGED outcome
        BY <2>6, <3>2 DEF Restore
      <4> QED BY <3>1, <4>1
    <3>3. CASE verdict.kind \in {"raised", "funded"}
      <4>1. outcome' = verdict
        BY <2>6, <3>3 DEF Restore, Finish
      <4>2. CASE verdict.kind = "raised"
        BY <3>1, <4>1, <4>2 DEF Funding!Refuse
      <4>3. CASE verdict.kind = "funded"
        <5>1. Funding!Settles(outcome')
          BY <4>1, <4>3 DEF VerdictSound
        <5> QED BY <3>1, <4>1, <4>3, <5>1 DEF Funding!Fund
      <4> QED BY <3>3, <4>2, <4>3
    <3> QED BY <2>6, <3>2, <3>3 DEF Restore, VerdictSound
  <2>7. CASE RestoreFails
    <3>1. callersFork' = fork' /\ fork' \in Forks
      BY <2>7, NextIInv DEF RestoreFails, callersFork, TypeOK
    <3>2. /\ outcome'.kind = "broken" /\ outcome = Pending /\ budget' = budget
          /\ outcome'.error \in {"RuntimeError", "Unavailable"}
      BY <2>7 DEF RestoreFails, Finish, Broken, VerdictSound
    <3> QED BY <3>1, <3>2 DEF Funding!Break, Forks
  <2>8. CASE UNCHANGED vars \/ Done
    BY <2>8 DEF vars, Done, callersFork
  <2> QED BY <2>1, <2>2, <2>3, <2>4, <2>5, <2>6, <2>7, <2>8 DEF Next
<1> QED BY <1>1, <1>2, Inductive, PTL DEF Spec, ImplementsGasFunding, Funding!Spec
=============================================================================
