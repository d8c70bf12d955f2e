-------------------------- MODULE MCFundedDeposit --------------------------
(* A small instance of FundedDeposit: budgets large enough for nine rising
   gas costs after one halving, and a token worth half a unit of gas. *)
EXTENDS FundedDeposit

MCBitLength[n \in 0..MaxBudget] ==
  IF n = 0 THEN 0 ELSE 1 + MCBitLength[n \div 2]
=============================================================================
