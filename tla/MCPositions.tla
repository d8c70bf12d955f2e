---------------------------- MODULE MCPositions ----------------------------
(* An instance of Positions: the kinds of the catalog on pools with ether, wrapped
   ether and neither, vaults with and without locked profit, and blocks before
   and after London. *)
EXTENDS Positions, TLC

Of(kind, version, underlying, coins, share) ==
  [kind |-> kind, version |-> version, underlying |-> underlying, coins |-> coins,
   share |-> share]

Coins == <<"USDC", "USDT", "ETH", "CRV">>
Catalog == {Of("lp", "", "steCRV", {"ETH", "STETH"}, "steCRV"),
            Of("gauge", "", "tri", {"USDT", "WETH"}, "staked"),
            Of("v2", "0.3.0", "steCRV", {"ETH", "STETH"}, "yv"),
            Of("v2", "0.3.5", "WETH", {}, "yv"),
            Of("v2", "0.4.3", "USDC", {}, "yv"),
            Of("v3", "3.0.4", "USDC", {}, "yv"),
            Of("stakedao", "", "SDCRV", {}, "staked")}
AllTokens == {"ETH", "WETH", "USDC", "USDT", "CRV", "STETH", "SDCRV", "steCRV", "tri",
              "yv", "staked"}

Dynamic(max, tip) == [kind |-> "dynamic", max |-> max, tip |-> tip]
Legacy(price) == [kind |-> "legacy", price |-> price]
SomeBlocks == {[london |-> TRUE, base |-> 1,
                txs |-> <<Dynamic(3, 1), Legacy(1), Dynamic(1, 2), Legacy(3)>>],
               [london |-> FALSE, base |-> 0, txs |-> <<Legacy(2), Legacy(5), Legacy(1)>>],
               [london |-> TRUE, base |-> 1, txs |-> <<>>]}

Vault(total, supply, locked, elapsed) ==
  [total |-> total, supply |-> supply, locked |-> locked, elapsed |-> elapsed,
   degradation |-> 1, limit |-> 9, shutdown |-> FALSE, available |-> 4, preview |-> 2]
\* empty, without shares; in profit; with profit that is locked, in part, or released
SomeVaults == {Vault(0, 0, 0, 0), Vault(3, 0, 0, 0), Vault(5, 4, 0, 0), Vault(6, 4, 3, 0), Vault(6, 4, 2, 1),
               Vault(6, 4, 3, 2), Vault(2, 3, 4, 0), Vault(1, 1, 0, -1), Vault(0, 2, 0, 0),
               [Vault(5, 4, 0, 0) EXCEPT !.shutdown = TRUE],
               [Vault(5, 4, 0, 0) EXCEPT !.limit = 6, !.available = 2],
               [Vault(5, 4, 0, 0) EXCEPT !.limit = 4, !.preview = 3]}

\* nothing, and rewards and idle balances in the target, the coin or neither
SomeClaims == {Nothing, [Nothing EXCEPT !["CRV"] = 2],
               [Nothing EXCEPT !["CRV"] = 1, !["ETH"] = 2]}
UnitWorth == [t \in AllTokens |-> IF t \in {"ETH", "WETH"} THEN 1 ELSE 3]
=============================================================================
