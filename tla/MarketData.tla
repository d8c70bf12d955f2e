----------------------------- MODULE MarketData ------------------------------
(* Historical prices and gas prices (src/hodl/data.py).  Times are in seconds.  The
   price API is external: for every sample time it answers the observation
   nearest to it, if there is one within the search width. *)
EXTENDS Integers, Sequences, FiniteSetsExt

Hour == 3600
Window == 24 * Hour

SearchHalfHour == Hour \div 2
SearchWidth == Hour
Span == 25
Samples(t) == {t - Window + k * Hour : k \in 0..(Span - 1)}
Distance(a, b) == IF a < b THEN b - a ELSE a - b

\* of two observations equally near, either may be answered
Nearest(seen, s) == {o \in seen : /\ Distance(o, s) <= SearchWidth
                                  /\ \A p \in seen : Distance(o, s) <= Distance(p, s)}
Charts(seen, t, late) ==
  LET Pick(S) == IF late THEN Max(S) ELSE Min(S)
  IN  {Pick(Nearest(seen, s)) : s \in {r \in Samples(t) : Nearest(seen, r) # {}}}

Eligible(points, t) == {o \in points : t - Window <= o /\ o <= t}
\* select_price, as the time of the point it selects
select_price(points, t, none) ==
  IF Eligible(points, t) = {} THEN none ELSE Max(Eligible(points, t))

(* gas_price: the base fee and the median of what transactions paid above it *)
Effective(tx, base) ==
  IF tx.kind = "dynamic" THEN Min({tx.max, base + tx.tip}) ELSE tx.price
Priority(tx, block) ==
  IF block.london THEN Max({0, Effective(tx, block.base) - block.base})
  ELSE Effective(tx, 0)
\* prices[k] of the sorted list
Ranked(prices, k) ==
  CHOOSE p \in {prices[i] : i \in DOMAIN prices} :
    /\ Cardinality({i \in DOMAIN prices : prices[i] < p}) <= k
    /\ Cardinality({i \in DOMAIN prices : prices[i] <= p}) > k
Median(prices) ==
  LET middle == Len(prices) \div 2
  IN  IF Len(prices) % 2 = 1 THEN Ranked(prices, middle)
      ELSE (Ranked(prices, middle - 1) + Ranked(prices, middle) + 1) \div 2
gas_price(block, none) ==
  IF block.txs = <<>> THEN none
  ELSE (IF block.london THEN block.base ELSE 0)
       + Median([i \in DOMAIN block.txs |-> Priority(block.txs[i], block)])
=============================================================================
