------------------------------ MODULE MCRouter ------------------------------
(* Instances of Router: a Uniswap pair with two fee tiers, a Curve pool with
   ether, a Curve pool and a mint for the same token, and a redeemable LP. *)
EXTENDS Router, TLC

Hop(s, t, k, v) == [source |-> s, target |-> t, kind |-> k, venue |-> v]
Reward(t, n) == [token |-> t, amount |-> n]

AllTokens == {"ETH", "WETH", "CRV", "STETH", "yCRV", "LP"}
AllHops == {Hop("CRV", "WETH", "uniswap", "v3low"),
            Hop("CRV", "WETH", "uniswap", "v3high"),
            Hop("WETH", "CRV", "uniswap", "v3low"),
            Hop("WETH", "CRV", "uniswap", "v3high"),
            Hop("STETH", "ETH", "curve", "steth"),
            Hop("LP", "ETH", "redeem", "steth"),
            Hop("CRV", "yCRV", "curve", "ycrv"),
            Hop("CRV", "yCRV", "mint", "locker")}
AllVenues == {h.venue : h \in AllHops}

\* rewards that compete for the same venues, and two too small to sell
SomeClaims == {<<Reward("CRV", 3), Reward("LP", 3)>>,
               <<Reward("STETH", 4), Reward("CRV", 3), Reward("yCRV", 1)>>,
               <<Reward("CRV", 1), Reward("WETH", 0), Reward("LP", 1)>>}

SomeWays == {w \in [AllVenues -> {"fills", "partial", "reverts", "absent"}] :
              /\ w["steth"] \in {"fills", "reverts", "absent"}
              /\ w["ycrv"] \in {"fills", "reverts"}
              /\ w["locker"] \in {"fills", "partial", "absent"}
              /\ w["v3low"] \in {"fills", "partial", "reverts"}
              /\ w["v3high"] \in {"fills", "reverts"}}

\* each trade moves the price of its venue against the next one
Rate == [v3low |-> 3, v3high |-> 4, steth |-> 4, ycrv |-> 5, locker |-> 2]
Impact == [v3low |-> 4, v3high |-> 3, steth |-> 2, ycrv |-> 3, locker |-> 2]
Pays(h, amount, trades) ==
  IF h.kind = "redeem" THEN amount \div (2 + trades)
  ELSE (amount * Rate[h.venue]) \div (Impact[h.venue] + trades)

GasUse == [approve |-> 1, wrap |-> 1, uniswap |-> 2, curve |-> 2, mint |-> 1,
           redeem |-> 1]
UnitWorth == [t \in AllTokens |-> IF t \in {"ETH", "WETH"} THEN 1 ELSE 3]
=============================================================================
