----------------------------- MODULE VaultShares -----------------------------
(* The share accounting of Yearn V2 vaults (src/hodl/model.py, and free_funds and
   accounting_assets of src/hodl/positions.py).  A vault is a record of what its
   getters answer; None is an accounting that is rejected as Unavailable. *)
EXTENDS Integers

CONSTANTS Unit,   \* 10^18, at which locked profit is all released
          None
ASSUME UnitAssumption == Unit \in Nat \ {0}

VaultStates == [total : Nat, supply : Nat, locked : Nat, elapsed : Int, degradation : Nat,
                limit : Nat, shutdown : BOOLEAN, available : Nat, preview : Nat]

\* totalAssets less the profit of the last report that is still locked
Locked(v) == LET ratio == v.elapsed * v.degradation
             IN  IF ratio >= Unit THEN 0
                 ELSE v.locked - (ratio * v.locked) \div Unit
v2_free_funds(v) == IF v.elapsed < 0 \/ Locked(v) > v.total THEN None
                    ELSE v.total - Locked(v)

\* 0.3.0 locks no profit; 0.3.5 issues shares against all assets
free_funds(v, version, deposit) ==
  IF version = "0.3.0" \/ (version = "0.3.5" /\ deposit) THEN v.total
  ELSE v2_free_funds(v)

v2_deposit_shares(assets, supply, funds) ==
  IF supply = 0 THEN assets
  ELSE IF funds \in {0, None} THEN None
  ELSE (assets * supply) \div funds

v2_share_value(shares, supply, funds) ==
  IF supply = 0 \/ funds = None THEN None ELSE (shares * funds) \div supply

\* the vault once a deposit has been taken
After(v, assets, shares) == [v EXCEPT !.total = v.total + assets, !.supply = v.supply + shares]
=============================================================================
