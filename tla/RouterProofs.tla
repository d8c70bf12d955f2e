---------------------------- MODULE RouterProofs ----------------------------
(* Proofs about settling rewards, for all routes, amounts, venues and prices, in three
   parts: an execution is determined by its route and fork, so a sale repeats its probe;
   the wallet is accounted for at each of its requests; and the snapshot takes everything
   back, the list of transactions included. *)
EXTENDS Router, TLAPS, FiniteSetTheorems

Phases == {"wrap", "read", "approve", "trade", "measure", "finish"}
Crossings == {h \in Hops : h.source # h.target}
Runs == [route : Seq(Crossings), path : Seq(Crossings), held : Tokens \cup {None}, amount : Nat,
         before : Nat, sourceBefore : Nat, gasBefore : Nat, gasStart : Nat]
States == [fork : Forks, run : Runs, pc : Phases]

(* The step of an execution, from one fork and locals to the next, when no request
   fails. *)
Follows(s, u) ==
  \/ /\ s.pc = "wrap" /\ canonical(s.run.held) = canonical(Needed(s.run))
     /\ u = [fork |-> Wrapped(s.fork, s.run), run |-> s.run,
             pc |-> IF s.run.path = <<>> THEN "finish" ELSE "read"]
  \/ /\ s.pc = "read" /\ ~QuoteFails(s.run) /\ ~QuoteZero(s.fork, s.run)
     /\ u = [fork |-> s.fork, run |-> Measured(s.fork, s.run), pc |-> "approve"]
  \/ /\ s.pc = "approve"
     /\ u = [fork |-> Approved(s.fork, s.run), run |-> s.run, pc |-> "trade"]
  \/ /\ s.pc = "trade" /\ way[hop(s.run).venue] # "reverts"
     /\ u = [fork |-> Traded(s.fork, s.run), run |-> s.run, pc |-> "measure"]
  \/ /\ s.pc = "measure" /\ ~PartlySpent(s.fork, s.run) /\ Output(s.fork, s.run) > 0
     /\ u = [fork |-> s.fork, run |-> Advanced(s.fork, s.run), pc |-> "wrap"]

Steps == {e \in States \X States : Follows(e[1], e[2])}

\* u is reached from s by the steps R
Closed(R, P) == \A e \in R : e[1] \in P => e[2] \in P
Leads(R, s, u) == \A P \in SUBSET States : s \in P /\ Closed(R, P) => u \in P

\* An execution without failures goes one way.
LEMMA OneStep ==
  ASSUME NEW s, NEW u, NEW v, Follows(s, u), Follows(s, v)
  PROVE  u = v
<1> DEFINE a == Wrapped(s.fork, s.run)
           b == Measured(s.fork, s.run)
           c == Approved(s.fork, s.run)
           d == Traded(s.fork, s.run)
           e == Advanced(s.fork, s.run)
<1>1. \/ /\ s.pc = "wrap"
         /\ u = [fork |-> a, run |-> s.run, pc |-> IF s.run.path = <<>> THEN "finish" ELSE "read"]
      \/ s.pc = "read" /\ u = [fork |-> s.fork, run |-> b, pc |-> "approve"]
      \/ s.pc = "approve" /\ u = [fork |-> c, run |-> s.run, pc |-> "trade"]
      \/ s.pc = "trade" /\ u = [fork |-> d, run |-> s.run, pc |-> "measure"]
      \/ s.pc = "measure" /\ u = [fork |-> s.fork, run |-> e, pc |-> "wrap"]
  BY DEF Follows
<1>2. \/ /\ s.pc = "wrap"
         /\ v = [fork |-> a, run |-> s.run, pc |-> IF s.run.path = <<>> THEN "finish" ELSE "read"]
      \/ s.pc = "read" /\ v = [fork |-> s.fork, run |-> b, pc |-> "approve"]
      \/ s.pc = "approve" /\ v = [fork |-> c, run |-> s.run, pc |-> "trade"]
      \/ s.pc = "trade" /\ v = [fork |-> d, run |-> s.run, pc |-> "measure"]
      \/ s.pc = "measure" /\ v = [fork |-> s.fork, run |-> e, pc |-> "wrap"]
  BY DEF Follows
<1> HIDE DEF a, b, c, d, e
<1> QED BY <1>1, <1>2

\* finish is its end.
LEMMA LastStep ==
  ASSUME NEW s, s.pc = "finish", NEW u
  PROVE  ~Follows(s, u)
BY DEF Follows

\* The same, for the set of steps.
LEMMA StepsIs ==
  /\ Steps \subseteq States \X States
  /\ \A e, d \in Steps : e[1] = d[1] => e[2] = d[2]
  /\ \A e \in Steps : e[1].pc # "finish"
  /\ \A s, u \in States : Follows(s, u) <=> <<s, u>> \in Steps
<1>1. \A e \in Steps : e \in States \X States /\ Follows(e[1], e[2])
  BY DEF Steps
<1>2. \A e, d \in Steps : e[1] = d[1] => e[2] = d[2]
  BY <1>1, OneStep
<1>3. \A e \in Steps : e[1].pc # "finish"
  BY <1>1, LastStep
<1>4. \A s, u \in States : Follows(s, u) <=> <<s, u>> \in Steps
  BY DEF Steps
<1> QED BY <1>1, <1>2, <1>3, <1>4

LEMMA LeadsNext ==
  ASSUME NEW R, NEW s \in States, NEW u \in States, NEW v \in States,
         Leads(R, s, u), <<u, v>> \in R
  PROVE  Leads(R, s, v)
BY DEF Leads, Closed

(* Where one execution comes to its end, any other from the same start passes by. *)
LEMMA LeadsOn ==
  ASSUME NEW R \in SUBSET (States \X States), \A e, d \in R : e[1] = d[1] => e[2] = d[2],
         NEW a \in States, NEW s \in States, NEW f \in States,
         Leads(R, a, s), Leads(R, a, f), \A e \in R : e[1] # f
  PROVE  Leads(R, s, f)
<1> DEFINE P == {u \in States : Leads(R, u, f)}
<1>1. ASSUME NEW e \in R, e[1] \in P
      PROVE  e[2] \in P
  <2>1. e[1] \in States /\ e[2] \in States /\ e = <<e[1], e[2]>> /\ Leads(R, e[1], f)
    BY <1>1
  <2> SUFFICES ASSUME NEW Q \in SUBSET States, e[2] \in Q, Closed(R, Q)
               PROVE  f \in Q
    BY <2>1 DEF Leads
  <2>2. ASSUME NEW d \in R, d[1] \in Q \cup {e[1]}
        PROVE  d[2] \in Q \cup {e[1]}
    <3>1. CASE d[1] = e[1]
      BY <3>1
    <3>2. CASE d[1] \in Q
      BY <3>2 DEF Closed
    <3> QED BY <2>2, <3>1, <3>2
  <2>3. Closed(R, Q \cup {e[1]}) /\ Q \cup {e[1]} \in SUBSET States
    BY <2>1, <2>2 DEF Closed
  <2>4. f \in Q \cup {e[1]}
    BY <2>1, <2>3 DEF Leads
  <2> QED BY <2>4
<1>2. Closed(R, P) /\ P \in SUBSET States /\ a \in P
  BY <1>1 DEF Closed
<1>3. s \in P
  BY <1>2 DEF Leads
<1> QED BY <1>3

\* nothing is reached from where no step is possible
LEMMA LeadsNowhere ==
  ASSUME NEW R, NEW s \in States, NEW f, Leads(R, s, f), \A e \in R : e[1] # s
  PROVE  f = s
<1>1. Closed(R, {s}) /\ {s} \in SUBSET States
  BY DEF Closed
<1> QED BY <1>1 DEF Leads

LEMMA LeadsSelf == ASSUME NEW R, NEW s PROVE Leads(R, s, s)
BY DEF Leads

\* Venues and target do not change, so neither do the steps.
LEMMA StepsKept == UNCHANGED env => Steps' = Steps
BY DEF env, Steps, Follows, Needed, Wrapped, QuoteFails, QuoteZero, Paid, Fill, Measured,
       Approved, Reset, Short, Granting, Allowance, Spender, TakesAllowance, Traded, PartlySpent,
       Spent, Output, GasRefund, Refund, Advanced, hop, canonical, Mined, Burned, Moved

-----------------------------------------------------------------------------
\* forks

\* forks whose balances and allowances may be below zero
Loose == [bal : [Tokens -> Int], allow : [Spenders -> [Tokens -> Int]],
          trades : [Venues -> Nat], gas : Nat,
          txs : Seq([to : Tokens \cup Venues, kind : TxKinds])]

\* A fork whose balances and allowances are not negative is a possible one.
LEMMA Settled ==
  ASSUME NEW f \in Loose, \A t \in Tokens : f.bal[t] >= 0,
         \A s \in Spenders, t \in Tokens : f.allow[s][t] >= 0
  PROVE  f \in Forks
<1>1. /\ f.bal \in [Tokens -> Int] /\ f.allow \in [Spenders -> [Tokens -> Int]]
      /\ f.trades \in [Venues -> Nat] /\ f.gas \in Nat
      /\ f.txs \in Seq([to : Tokens \cup Venues, kind : TxKinds])
      /\ f = [bal |-> f.bal, allow |-> f.allow, trades |-> f.trades, gas |-> f.gas, txs |-> f.txs]
  BY DEF Loose
<1>2. f.bal \in [Tokens -> Nat]
  BY <1>1
<1>3. f.allow \in [Spenders -> [Tokens -> Nat]]
  <2>1. \A s \in Spenders : f.allow[s] \in [Tokens -> Nat]
    BY <1>1
  <2> QED BY <1>1, <2>1
<1> QED BY <1>1, <1>2, <1>3 DEF Forks

\* The converse.
LEMMA Loosened ==
  ASSUME NEW f \in Forks
  PROVE  /\ f \in Loose
         /\ \A t \in Tokens : f.bal[t] >= 0
         /\ \A s \in Spenders, t \in Tokens : f.allow[s][t] >= 0
<1>1. /\ f.bal \in [Tokens -> Nat] /\ f.allow \in [Spenders -> [Tokens -> Nat]]
      /\ f.trades \in [Venues -> Nat] /\ f.gas \in Nat
      /\ f.txs \in Seq([to : Tokens \cup Venues, kind : TxKinds])
      /\ f = [bal |-> f.bal, allow |-> f.allow, trades |-> f.trades, gas |-> f.gas, txs |-> f.txs]
  BY DEF Forks
<1>2. f.bal \in [Tokens -> Int] /\ \A t \in Tokens : f.bal[t] >= 0
  BY <1>1
<1>3. f.allow \in [Spenders -> [Tokens -> Int]]
  <2>1. \A s \in Spenders : f.allow[s] \in [Tokens -> Int]
    BY <1>1
  <2> QED BY <1>1, <2>1
<1>4. \A s \in Spenders, t \in Tokens : f.allow[s][t] >= 0
  BY <1>1
<1> QED BY <1>1, <1>2, <1>3, <1>4 DEF Loose

\* Gas and its price are natural numbers.
LEMMA Cost ==
  ASSUME NEW kind \in TxKinds
  PROVE  Gas[kind] \in Nat /\ Gas[kind] > 0 /\ Gas[kind] * GasPrice \in Nat
<1>1. Gas[kind] \in Nat /\ Gas[kind] > 0 /\ GasPrice \in Nat
  BY PriceAssumption
<1>2. \A a, b \in Nat : a * b \in Nat
  OBVIOUS
<1> QED BY <1>1, <1>2

\* ether spent for gas, in any token
Fee(t, gas) == IF t = ETH THEN gas * GasPrice ELSE 0

\* Gas paid: only ether is less.
LEMMA BurnedIs ==
  ASSUME NEW f \in Loose, NEW gas \in Nat
  PROVE  /\ Burned(f, gas) \in Loose
         /\ \A t \in Tokens : Burned(f, gas).bal[t] = f.bal[t] - Fee(t, gas)
         /\ Burned(f, gas).allow = f.allow /\ Burned(f, gas).trades = f.trades
         /\ Burned(f, gas).gas = f.gas /\ Burned(f, gas).txs = f.txs
<1>1. /\ f.bal \in [Tokens -> Int] /\ f.allow \in [Spenders -> [Tokens -> Int]]
      /\ f.trades \in [Venues -> Nat] /\ f.gas \in Nat
      /\ f.txs \in Seq([to : Tokens \cup Venues, kind : TxKinds])
      /\ f = [bal |-> f.bal, allow |-> f.allow, trades |-> f.trades, gas |-> f.gas, txs |-> f.txs]
  BY DEF Loose
<1> DEFINE b == [f.bal EXCEPT ![ETH] = @ - gas * GasPrice]
<1>2. gas * GasPrice \in Nat
  <2>1. \A x, y \in Nat : x * y \in Nat
    OBVIOUS
  <2> QED BY <2>1, PriceAssumption
<1>3. b \in [Tokens -> Int] /\ \A t \in Tokens : b[t] = f.bal[t] - Fee(t, gas)
  BY <1>1, <1>2, HopAssumption DEF Fee
<1>4. Burned(f, gas) = [bal |-> b, allow |-> f.allow, trades |-> f.trades, gas |-> f.gas,
                        txs |-> f.txs]
  <2>1. Burned(f, gas) = [f EXCEPT !.bal = b]
    BY <1>1 DEF Burned
  <2> HIDE DEF b
  <2> QED BY <1>1, <2>1
<1> HIDE DEF b
<1> QED BY <1>1, <1>3, <1>4 DEF Loose

\* A transaction: gas paid and counted, and one more in the list.
LEMMA MinedIs ==
  ASSUME NEW f \in Loose, NEW to \in Tokens \cup Venues, NEW kind \in TxKinds
  PROVE  LET g == Mined(f, to, kind)
         IN  /\ g \in Loose
             /\ \A t \in Tokens : g.bal[t] = f.bal[t] - Fee(t, Gas[kind])
             /\ g.allow = f.allow /\ g.trades = f.trades
             /\ g.gas = f.gas + Gas[kind]
             /\ g.txs = Append(f.txs, [to |-> to, kind |-> kind])
<1> DEFINE b == Burned(f, Gas[kind])
           tx == [to |-> to, kind |-> kind]
<1>0. Gas[kind] \in Nat
  BY Cost
<1>1. /\ b \in Loose /\ \A t \in Tokens : b.bal[t] = f.bal[t] - Fee(t, Gas[kind])
      /\ b.allow = f.allow /\ b.trades = f.trades /\ b.gas = f.gas /\ b.txs = f.txs
  BY <1>0, BurnedIs
<1> HIDE DEF b
<1>2. /\ b.bal \in [Tokens -> Int] /\ b.allow \in [Spenders -> [Tokens -> Int]]
      /\ b.trades \in [Venues -> Nat] /\ b.gas \in Nat
      /\ b.txs \in Seq([to : Tokens \cup Venues, kind : TxKinds])
      /\ b = [bal |-> b.bal, allow |-> b.allow, trades |-> b.trades, gas |-> b.gas, txs |-> b.txs]
  BY <1>1 DEF Loose
<1>3. Mined(f, to, kind) = [b EXCEPT !.gas = @ + Gas[kind], !.txs = Append(@, tx)]
  BY DEF Mined, b
<1>4. Mined(f, to, kind) = [bal |-> b.bal, allow |-> b.allow, trades |-> b.trades,
                            gas |-> b.gas + Gas[kind], txs |-> Append(b.txs, tx)]
  <2> HIDE DEF tx
  <2> QED BY <1>2, <1>3
<1>5. tx \in [to : Tokens \cup Venues, kind : TxKinds]
  OBVIOUS
<1>6. Append(b.txs, tx) \in Seq([to : Tokens \cup Venues, kind : TxKinds])
  BY <1>2, <1>5
<1>7. b.gas + Gas[kind] \in Nat
  BY <1>0, <1>2
<1> HIDE DEF tx
<1>8. Mined(f, to, kind) \in Loose
  BY <1>2, <1>4, <1>6, <1>7 DEF Loose
<1> QED BY <1>1, <1>4, <1>8 DEF tx

\* Wrapping: as much of one token gone as has arrived of the other.
LEMMA MovedIs ==
  ASSUME NEW f \in Loose, NEW from \in Tokens, NEW to \in Tokens, from # to, NEW n \in Int
  PROVE  LET g == Moved(f, from, to, n)
         IN  /\ g \in Loose
             /\ \A t \in Tokens : g.bal[t] = f.bal[t] - (IF t = from THEN n ELSE 0)
                                                      + (IF t = to THEN n ELSE 0)
             /\ g.allow = f.allow /\ g.trades = f.trades /\ g.gas = f.gas /\ g.txs = f.txs
<1>1. /\ f.bal \in [Tokens -> Int] /\ f.allow \in [Spenders -> [Tokens -> Int]]
      /\ f.trades \in [Venues -> Nat] /\ f.gas \in Nat
      /\ f.txs \in Seq([to : Tokens \cup Venues, kind : TxKinds])
      /\ f = [bal |-> f.bal, allow |-> f.allow, trades |-> f.trades, gas |-> f.gas, txs |-> f.txs]
  BY DEF Loose
<1> DEFINE b == [f.bal EXCEPT ![from] = @ - n, ![to] = @ + n]
<1>2. b \in [Tokens -> Int]
      /\ \A t \in Tokens : b[t] = f.bal[t] - (IF t = from THEN n ELSE 0) + (IF t = to THEN n ELSE 0)
  BY <1>1
<1>3. Moved(f, from, to, n) = [bal |-> b, allow |-> f.allow, trades |-> f.trades,
                               gas |-> f.gas, txs |-> f.txs]
  <2>1. Moved(f, from, to, n) = [f EXCEPT !.bal = b]
    BY <1>1 DEF Moved
  <2> HIDE DEF b
  <2> QED BY <1>1, <2>1
<1> HIDE DEF b
<1> QED BY <1>1, <1>2, <1>3 DEF Loose

\* A transaction nobody counted has its effect all the same.
LEMMA UncountedIs ==
  ASSUME NEW f \in Loose, NEW g \in Forks
  PROVE  Uncounted(f, g) \in Forks
<1>1. /\ f.gas \in Nat /\ f.txs \in Seq([to : Tokens \cup Venues, kind : TxKinds])
      /\ g.bal \in [Tokens -> Nat] /\ g.allow \in [Spenders -> [Tokens -> Nat]]
      /\ g.trades \in [Venues -> Nat]
      /\ g = [bal |-> g.bal, allow |-> g.allow, trades |-> g.trades, gas |-> g.gas, txs |-> g.txs]
  BY DEF Forks, Loose
<1>2. Uncounted(f, g) = [bal |-> g.bal, allow |-> g.allow, trades |-> g.trades,
                         gas |-> f.gas, txs |-> f.txs]
  <2> DEFINE gas == f.gas
             txs == f.txs
  <2>1. Uncounted(f, g) = [g EXCEPT !.gas = gas, !.txs = txs]
    BY DEF Uncounted
  <2> HIDE DEF gas, txs
  <2>2. Uncounted(f, g) = [bal |-> g.bal, allow |-> g.allow, trades |-> g.trades,
                           gas |-> gas, txs |-> txs]
    BY <1>1, <2>1
  <2> QED BY <2>2 DEF gas, txs
<1>3. [bal |-> g.bal, allow |-> g.allow, trades |-> g.trades, gas |-> f.gas, txs |-> f.txs]
        \in Forks
  BY <1>1 DEF Forks
<1> QED BY <1>2, <1>3

-----------------------------------------------------------------------------
\* transactions, gas and trades

Txs == [to : Tokens \cup Venues, kind : TxKinds]
KindIn(txs, kind) == {i \in DOMAIN txs : txs[i].kind = kind}
TradeIn(txs, v) == {i \in DOMAIN txs : txs[i].to = v /\ txs[i].kind \in Kinds}
Matches(f) ==
  /\ \A v \in Venues : f.trades[v] = Cardinality(TradeIn(f.txs, v))
  /\ f.gas = Gas["approve"] * Cardinality(KindIn(f.txs, "approve"))
             + Gas["wrap"] * Cardinality(KindIn(f.txs, "wrap"))
             + Gas["mint"] * Cardinality(KindIn(f.txs, "mint"))
             + Gas["redeem"] * Cardinality(KindIn(f.txs, "redeem"))
             + Gas["curve"] * Cardinality(KindIn(f.txs, "curve"))
             + Gas["uniswap"] * Cardinality(KindIn(f.txs, "uniswap"))

\* Places of a list, and the next one.
LEMMA Places ==
  ASSUME NEW txs \in Seq(Txs), NEW S \in SUBSET (DOMAIN txs)
  PROVE  /\ IsFiniteSet(S) /\ Cardinality(S) \in Nat
         /\ Cardinality(S \cup {Len(txs) + 1}) = Cardinality(S) + 1
<1>1. Len(txs) \in Nat /\ DOMAIN txs = 1..Len(txs)
  OBVIOUS
<1>2. IsFiniteSet(1..Len(txs))
  BY <1>1, FS_Interval
<1>3. IsFiniteSet(S)
  BY <1>1, <1>2, FS_Subset
<1>4. Cardinality(S) \in Nat
  BY <1>3, FS_CardinalityType
<1>5. Len(txs) + 1 \notin S
  BY <1>1
<1> QED BY <1>3, <1>4, <1>5, FS_AddElement

\* One more transaction in the counts by kind and by venue.
LEMMA Appended ==
  ASSUME NEW txs \in Seq(Txs), NEW tx \in Txs
  PROVE  /\ \A k \in TxKinds :
              Cardinality(KindIn(Append(txs, tx), k)) =
                Cardinality(KindIn(txs, k)) + (IF tx.kind = k THEN 1 ELSE 0)
         /\ \A v \in Venues :
              Cardinality(TradeIn(Append(txs, tx), v)) =
                Cardinality(TradeIn(txs, v))
                  + (IF tx.to = v /\ tx.kind \in Kinds THEN 1 ELSE 0)
         /\ \A k \in TxKinds : Cardinality(KindIn(txs, k)) \in Nat
         /\ \A v \in Venues : Cardinality(TradeIn(txs, v)) \in Nat
<1> DEFINE more == Append(txs, tx)
<1>1. /\ Len(txs) \in Nat /\ DOMAIN txs = 1..Len(txs) /\ DOMAIN more = 1..(Len(txs) + 1)
      /\ more[Len(txs) + 1] = tx /\ \A i \in DOMAIN txs : more[i] = txs[i]
  OBVIOUS
<1>2. DOMAIN more = DOMAIN txs \cup {Len(txs) + 1}
  BY <1>1
<1> HIDE DEF more
<1>3. ASSUME NEW k \in TxKinds
      PROVE  Cardinality(KindIn(more, k)) =
               Cardinality(KindIn(txs, k)) + (IF tx.kind = k THEN 1 ELSE 0)
  <2>1. KindIn(txs, k) \in SUBSET (DOMAIN txs)
    BY DEF KindIn
  <2>2. CASE tx.kind = k
    <3>1. KindIn(more, k) = KindIn(txs, k) \cup {Len(txs) + 1}
      BY <1>1, <1>2, <2>2 DEF KindIn
    <3>2. Cardinality(KindIn(txs, k) \cup {Len(txs) + 1}) = Cardinality(KindIn(txs, k)) + 1
      BY <2>1, Places
    <3> QED BY <2>2, <3>1, <3>2
  <2>3. CASE tx.kind # k
    <3>1. KindIn(more, k) = KindIn(txs, k)
      BY <1>1, <1>2, <2>3 DEF KindIn
    <3>2. Cardinality(KindIn(txs, k)) \in Nat
      BY <2>1, Places
    <3> QED BY <2>3, <3>1, <3>2
  <2> QED BY <2>2, <2>3
<1>4. ASSUME NEW v \in Venues
      PROVE  Cardinality(TradeIn(more, v)) =
               Cardinality(TradeIn(txs, v)) + (IF tx.to = v /\ tx.kind \in Kinds THEN 1 ELSE 0)
  <2>1. TradeIn(txs, v) \in SUBSET (DOMAIN txs)
    BY DEF TradeIn
  <2>2. CASE tx.to = v /\ tx.kind \in Kinds
    <3>1. TradeIn(more, v) = TradeIn(txs, v) \cup {Len(txs) + 1}
      BY <1>1, <1>2, <2>2 DEF TradeIn
    <3>2. Cardinality(TradeIn(txs, v) \cup {Len(txs) + 1}) = Cardinality(TradeIn(txs, v)) + 1
      BY <2>1, Places
    <3> QED BY <2>2, <3>1, <3>2
  <2>3. CASE ~(tx.to = v /\ tx.kind \in Kinds)
    <3>1. TradeIn(more, v) = TradeIn(txs, v)
      BY <1>1, <1>2, <2>3 DEF TradeIn
    <3>2. Cardinality(TradeIn(txs, v)) \in Nat
      BY <2>1, Places
    <3> QED BY <2>3, <3>1, <3>2
  <2> QED BY <2>2, <2>3
<1>5. \A k \in TxKinds : Cardinality(KindIn(txs, k)) \in Nat
  BY Places DEF KindIn
<1>6. \A v \in Venues : Cardinality(TradeIn(txs, v)) \in Nat
  BY Places DEF TradeIn
<1> QED BY <1>3, <1>4, <1>5, <1>6 DEF more

\* The counts still agree after a transaction that is counted everywhere.
LEMMA MatchesMore ==
  ASSUME NEW f \in Loose, Matches(f), NEW g \in Loose,
         NEW to \in Tokens \cup Venues, NEW kind \in TxKinds,
         g.txs = Append(f.txs, [to |-> to, kind |-> kind]),
         g.gas = f.gas + Gas[kind],
         \A v \in Venues :
           g.trades[v] = f.trades[v] + (IF to = v /\ kind \in Kinds THEN 1 ELSE 0)
  PROVE  Matches(g)
<1> DEFINE tx == [to |-> to, kind |-> kind]
           N(k) == Cardinality(KindIn(f.txs, k))
           M(k) == Cardinality(KindIn(g.txs, k))
<1>1. f.txs \in Seq(Txs) /\ tx \in Txs /\ tx.kind = kind /\ tx.to = to
  BY DEF Loose, Txs
<1>2. \A k \in TxKinds : N(k) \in Nat /\ M(k) = N(k) + (IF kind = k THEN 1 ELSE 0)
  <2> HIDE DEF tx
  <2> QED BY <1>1, Appended DEF tx
<1>3. \A v \in Venues : Cardinality(TradeIn(g.txs, v)) =
        Cardinality(TradeIn(f.txs, v)) + (IF to = v /\ kind \in Kinds THEN 1 ELSE 0)
  <2> HIDE DEF tx
  <2> QED BY <1>1, Appended DEF tx
<1> HIDE DEF N, M
<1>4. \A a, n \in Nat : a * (n + 1) = a * n + a /\ a * n \in Nat
  OBVIOUS
<1>5. \A k \in TxKinds : /\ Gas[k] \in Nat /\ Gas[k] * N(k) \in Nat
                         /\ Gas[k] * M(k) = Gas[k] * N(k) + (IF kind = k THEN Gas[k] ELSE 0)
  <2> TAKE k \in TxKinds
  <2>1. Gas[k] \in Nat /\ N(k) \in Nat
    BY <1>2, Cost
  <2>2. Gas[k] * (N(k) + 1) = Gas[k] * N(k) + Gas[k] /\ Gas[k] * N(k) \in Nat
    BY <1>4, <2>1
  <2>3. CASE kind = k
    <3>1. M(k) = N(k) + 1
      BY <1>2, <2>3
    <3> QED BY <2>1, <2>2, <2>3, <3>1
  <2>4. CASE kind # k
    <3>1. M(k) = N(k)
      BY <1>2, <2>1, <2>4
    <3> QED BY <2>1, <2>2, <2>4, <3>1
  <2> QED BY <2>3, <2>4
<1>6. f.gas = Gas["approve"] * N("approve") + Gas["wrap"] * N("wrap")
              + Gas["mint"] * N("mint") + Gas["redeem"] * N("redeem")
              + Gas["curve"] * N("curve") + Gas["uniswap"] * N("uniswap")
  BY DEF Matches, N
<1> DEFINE S(k) == Gas[k] * N(k)
           T(k) == Gas[k] * M(k)
<1>7. \A k \in TxKinds : /\ Gas[k] \in Nat /\ S(k) \in Nat
                         /\ T(k) = S(k) + (IF kind = k THEN Gas[k] ELSE 0)
  BY <1>5
<1>8. f.gas = S("approve") + S("wrap") + S("mint") + S("redeem") + S("curve") + S("uniswap")
  BY <1>6
<1> HIDE DEF S, T
<1>9. g.gas = T("approve") + T("wrap") + T("mint") + T("redeem") + T("curve") + T("uniswap")
  <2>1. TxKinds = {"approve", "wrap", "mint", "redeem", "curve", "uniswap"}
    BY DEF TxKinds, Kinds
  <2>2. /\ Gas[kind] \in Nat
        /\ S("approve") \in Nat
        /\ T("approve") = S("approve") + (IF kind = "approve" THEN Gas[kind] ELSE 0)
        /\ S("wrap") \in Nat
        /\ T("wrap") = S("wrap") + (IF kind = "wrap" THEN Gas[kind] ELSE 0)
        /\ S("mint") \in Nat
        /\ T("mint") = S("mint") + (IF kind = "mint" THEN Gas[kind] ELSE 0)
        /\ S("redeem") \in Nat
        /\ T("redeem") = S("redeem") + (IF kind = "redeem" THEN Gas[kind] ELSE 0)
        /\ S("curve") \in Nat
        /\ T("curve") = S("curve") + (IF kind = "curve" THEN Gas[kind] ELSE 0)
        /\ S("uniswap") \in Nat
        /\ T("uniswap") = S("uniswap") + (IF kind = "uniswap" THEN Gas[kind] ELSE 0)
    BY <1>7, <2>1
  <2>3. g.gas = f.gas + Gas[kind]
    OBVIOUS
  <2>4. kind \in {"approve", "wrap", "mint", "redeem", "curve", "uniswap"}
    BY <2>1
  <2>5. CASE kind = "approve"
    BY <1>8, <2>2, <2>3, <2>5
  <2>6. CASE kind = "wrap"
    BY <1>8, <2>2, <2>3, <2>6
  <2>7. CASE kind = "mint"
    BY <1>8, <2>2, <2>3, <2>7
  <2>8. CASE kind = "redeem"
    BY <1>8, <2>2, <2>3, <2>8
  <2>9. CASE kind = "curve"
    BY <1>8, <2>2, <2>3, <2>9
  <2>10. CASE kind = "uniswap"
    BY <1>8, <2>2, <2>3, <2>10
  <2> QED BY <2>4, <2>5, <2>6, <2>7, <2>8, <2>9, <2>10
<1>10. \A v \in Venues : g.trades[v] = Cardinality(TradeIn(g.txs, v))
  BY <1>3 DEF Matches
<1> QED BY <1>9, <1>10 DEF Matches, T, M

\* balances and allowances do not matter
LEMMA MatchesSame ==
  ASSUME NEW f, Matches(f), NEW g, g.txs = f.txs, g.gas = f.gas, g.trades = f.trades
  PROVE  Matches(g)
BY DEF Matches

LEMMA MatchesFork == TransactionsMatch <=> (GivenUp \/ Matches(fork))
BY DEF TransactionsMatch, TradesOf, GasFor, Matches, KindIn, TradeIn

\* ... and after one that is no trade.
LEMMA MinedMatches ==
  ASSUME NEW f \in Loose, Matches(f), NEW to \in Tokens \cup Venues,
         NEW kind \in TxKinds \ Kinds
  PROVE  Matches(Mined(f, to, kind))
<1>1. /\ Mined(f, to, kind) \in Loose /\ Mined(f, to, kind).trades = f.trades
      /\ Mined(f, to, kind).gas = f.gas + Gas[kind]
      /\ Mined(f, to, kind).txs = Append(f.txs, [to |-> to, kind |-> kind])
  BY MinedIs
<1>2. f.trades \in [Venues -> Nat]
  BY DEF Loose
<1>3. \A v \in Venues : f.trades[v] + (IF to = v /\ kind \in Kinds THEN 1 ELSE 0) = f.trades[v]
  BY <1>2
<1> QED BY <1>1, <1>3, MatchesMore

-----------------------------------------------------------------------------
\* the steps of an execution

\* The hop of a run whose path is not at its end.
LEMMA HopIs ==
  ASSUME way \in Ways, NEW r \in Runs, r.path # <<>>
  PROVE  /\ hop(r) \in Crossings /\ Tail(r.path) \in Seq(Crossings)
         /\ hop(r).source \in Tokens /\ hop(r).target \in Tokens
         /\ hop(r).source # hop(r).target
         /\ hop(r).kind \in Kinds /\ hop(r).venue \in Venues
         /\ Spender(r) \in Spenders
         /\ hop(r).kind \in {"mint", "uniswap"} => hop(r).source # ETH
         /\ way[hop(r).venue] = "partial" => hop(r).kind \in {"mint", "uniswap"}
<1>1. r.path \in Seq(Crossings)
  BY DEF Runs
<1>2. hop(r) \in Crossings /\ Tail(r.path) \in Seq(Crossings)
  <2> HIDE DEF Crossings
  <2> QED BY <1>1 DEF hop
<1>3. hop(r) \in Hops /\ hop(r).source # hop(r).target
  BY <1>2 DEF Crossings
<1>4. hop(r) \in [source : Tokens, target : Tokens, kind : Kinds, venue : Venues]
  BY <1>3, HopAssumption
<1>5. /\ hop(r).kind \in {"mint", "uniswap"} => hop(r).source # ETH
      /\ way[hop(r).venue] = "partial" => hop(r).kind \in {"mint", "uniswap"}
  BY <1>3, HopAssumption
<1>6. Spender(r) \in Spenders
  BY <1>4 DEF Spender, Spenders
<1> QED BY <1>2, <1>3, <1>4, <1>5, <1>6

\* Fees add up.
LEMMA FeeIs ==
  /\ \A t \in Tokens, a \in Nat : Fee(t, a) \in Nat
  /\ \A t \in Tokens, a, b \in Nat : Fee(t, a + b) = Fee(t, a) + Fee(t, b)
  /\ \A t \in Tokens : Fee(t, 0) = 0
  /\ \A t \in Tokens, a \in Nat : t # ETH => Fee(t, a) = 0
  /\ \A a \in Nat : Fee(ETH, a) = a * GasPrice
<1>1. \A a, b, c \in Nat : a * c \in Nat /\ (a + b) * c = a * c + b * c /\ 0 * c = 0
  OBVIOUS
<1>2. GasPrice \in Nat /\ ETH \in Tokens
  BY PriceAssumption, HopAssumption
<1>3. \A a, b \in Nat : /\ a * GasPrice \in Nat /\ 0 * GasPrice = 0
                        /\ (a + b) * GasPrice = a * GasPrice + b * GasPrice
  BY <1>1, <1>2
<1> QED BY <1>2, <1>3 DEF Fee

\* n of a token
In(t, token, n) == IF t = token THEN n ELSE 0

\* wrap_between: the held token becomes the needed one, less gas if they differ.
LEMMA WrappedIs ==
  ASSUME NEW f \in Loose, NEW r \in Runs, r.held \in Tokens, Needed(r) \in Tokens
  PROVE  LET g == Wrapped(f, r)
         IN  /\ g \in Loose /\ g.allow = f.allow /\ g.trades = f.trades
             /\ \E n \in Nat :
                  /\ g.gas = f.gas + n
                  /\ r.held # Needed(r) => n = Gas["wrap"]
                  /\ r.held = Needed(r) => n = 0
                  /\ \A t \in Tokens :
                       g.bal[t] = f.bal[t] - In(t, r.held, r.amount)
                                  + In(t, Needed(r), r.amount) - Fee(t, n)
             /\ Matches(f) => Matches(g)
<1> DEFINE g == Wrapped(f, r)
           n == Gas["wrap"]
           to == Needed(r)
           k == r.amount
           h == r.held
<1>0. f.bal \in [Tokens -> Int] /\ f.gas \in Nat /\ k \in Nat
  BY DEF Loose, Runs
<1> HIDE DEF to, k, h
<1>1. CASE h = to
  <2>1. g = f
    BY <1>1 DEF Wrapped, to, h
  <2>2. /\ f.gas = f.gas + 0
        /\ \A t \in Tokens : f.bal[t] = f.bal[t] - In(t, h, k) + In(t, to, k) - Fee(t, 0)
    <3>1. \A t \in Tokens : f.bal[t] \in Int /\ Fee(t, 0) = 0
      BY <1>0, FeeIs
    <3> QED BY <1>0, <1>1, <3>1 DEF In
  <2>3. 0 \in Nat /\ ~(h # to)
    BY <1>1
  <2> HIDE DEF g
  <2> QED BY <2>1, <2>2, <2>3 DEF g, to, k, h
<1>2. CASE h # to
  <2> DEFINE d == Moved(f, h, to, k)
  <2>1. h \in Tokens /\ to \in Tokens /\ k \in Int
    BY <1>0 DEF h, to
  <2>2. /\ d \in Loose
        /\ \A t \in Tokens : d.bal[t] = f.bal[t] - (IF t = h THEN k ELSE 0)
                                                 + (IF t = to THEN k ELSE 0)
        /\ d.allow = f.allow /\ d.trades = f.trades /\ d.gas = f.gas /\ d.txs = f.txs
    BY <1>2, <2>1, MovedIs
  <2>3. g = Mined(d, WETH, "wrap")
    BY <1>2 DEF Wrapped, to, h, k
  <2> HIDE DEF d
  <2>4. WETH \in Tokens \cup Venues /\ "wrap" \in TxKinds \ Kinds
    BY HopAssumption DEF TxKinds, Kinds
  <2>5. /\ g \in Loose /\ \A t \in Tokens : g.bal[t] = d.bal[t] - Fee(t, n)
        /\ g.allow = d.allow /\ g.trades = d.trades /\ g.gas = d.gas + n
    <3> HIDE DEF g
    <3> QED BY <2>2, <2>3, <2>4, MinedIs
  <2>6. Matches(f) => Matches(g)
    BY <2>2, <2>3, <2>4, MinedMatches, MatchesSame
  <2>7. n \in Nat
    BY Cost DEF TxKinds
  <2> HIDE DEF g, n
  <2>8. \A t \in Tokens : g.bal[t] = f.bal[t] - In(t, h, k) + In(t, to, k) - Fee(t, n)
    <3>1. \A t \in Tokens : f.bal[t] \in Int /\ Fee(t, n) \in Nat
      BY <1>0, <2>7, FeeIs
    <3> QED BY <1>0, <2>2, <2>5, <3>1 DEF In
  <2> QED BY <1>2, <2>2, <2>5, <2>6, <2>7, <2>8 DEF g, n, h, to, k
<1> QED BY <1>1, <1>2

\* execute_hop notes the balances before the trade.
LEMMA MeasuredIs ==
  ASSUME way \in Ways, NEW f \in Forks, NEW r \in Runs, r.path # <<>>
  PROVE  LET u == Measured(f, r)
         IN  /\ u \in Runs
             /\ u.route = r.route /\ u.path = r.path /\ u.held = r.held /\ u.amount = r.amount
             /\ u.gasStart = r.gasStart
             /\ u.before = f.bal[hop(r).target] /\ u.sourceBefore = f.bal[hop(r).source]
             /\ u.gasBefore = f.gas
<1>1. hop(r).source \in Tokens /\ hop(r).target \in Tokens
  BY HopIs
<1>2. f.bal \in [Tokens -> Nat] /\ f.gas \in Nat
  BY DEF Forks
<1> DEFINE b == f.bal[hop(r).target]
           c == f.bal[hop(r).source]
<1>3. b \in Nat /\ c \in Nat
  BY <1>1, <1>2
<1>4. Measured(f, r) = [r EXCEPT !.before = b, !.sourceBefore = c, !.gasBefore = f.gas]
  BY DEF Measured
<1> HIDE DEF b, c, Crossings
<1>5. Measured(f, r) = [route |-> r.route, path |-> r.path, held |-> r.held, amount |-> r.amount,
                        before |-> b, sourceBefore |-> c, gasBefore |-> f.gas,
                        gasStart |-> r.gasStart]
  BY <1>4 DEF Runs
<1>6. Measured(f, r) \in Runs
  BY <1>2, <1>3, <1>5 DEF Runs
<1> QED BY <1>5, <1>6 DEF b, c

\* execute goes on with what a hop paid.
LEMMA AdvancedIs ==
  ASSUME way \in Ways, NEW f \in Forks, NEW r \in Runs, r.path # <<>>, Output(f, r) \in Nat
  PROVE  LET u == Advanced(f, r)
         IN  /\ u \in Runs
             /\ u.route = r.route /\ u.path = Tail(r.path) /\ u.held = hop(r).target
             /\ u.amount = Output(f, r) /\ u.gasStart = r.gasStart
<1>1. hop(r).target \in Tokens /\ Tail(r.path) \in Seq(Crossings)
  BY HopIs
<1> DEFINE b == Output(f, r)
           c == hop(r).target
           p == Tail(r.path)
<1>2. Advanced(f, r) = [r EXCEPT !.path = p, !.amount = b, !.held = c]
  BY DEF Advanced
<1>3. b \in Nat /\ c \in Tokens /\ p \in Seq(Crossings)
  BY <1>1
<1> HIDE DEF b, c, p, Crossings
<1>4. Advanced(f, r) = [route |-> r.route, path |-> p, held |-> c, amount |-> b,
                        before |-> r.before, sourceBefore |-> r.sourceBefore,
                        gasBefore |-> r.gasBefore, gasStart |-> r.gasStart]
  BY <1>2 DEF Runs
<1>5. Advanced(f, r) \in Runs
  BY <1>3, <1>4 DEF Runs
<1> QED BY <1>4, <1>5 DEF b, c, p

\* no allowance below zero
Granted(f) == \A s \in Spenders, t \in Tokens : f.allow[s][t] >= 0

Allowed(f, s, token, n) == [f EXCEPT !.allow[s][token] = n]

\* Fork.approve's last line: one allowance is set.
LEMMA AllowIs ==
  ASSUME NEW f \in Loose, NEW s \in Spenders, NEW token \in Tokens, NEW n \in Nat
  PROVE  LET g == Allowed(f, s, token, n)
         IN  /\ g \in Loose /\ g.bal = f.bal /\ g.trades = f.trades /\ g.gas = f.gas
             /\ g.txs = f.txs
             /\ g.allow[s][token] = n
             /\ Granted(f) => Granted(g)
<1>1. /\ f.bal \in [Tokens -> Int] /\ f.allow \in [Spenders -> [Tokens -> Int]]
      /\ f.trades \in [Venues -> Nat] /\ f.gas \in Nat
      /\ f.txs \in Seq([to : Tokens \cup Venues, kind : TxKinds])
      /\ f = [bal |-> f.bal, allow |-> f.allow, trades |-> f.trades, gas |-> f.gas, txs |-> f.txs]
  BY DEF Loose
<1> DEFINE a == [f.allow EXCEPT ![s][token] = n]
           g == Allowed(f, s, token, n)
<1>2. /\ a \in [Spenders -> [Tokens -> Int]] /\ a[s][token] = n
      /\ \A x \in Spenders, y \in Tokens : a[x][y] = IF x = s /\ y = token THEN n ELSE f.allow[x][y]
  BY <1>1
<1>3. g = [bal |-> f.bal, allow |-> a, trades |-> f.trades, gas |-> f.gas, txs |-> f.txs]
  <2>1. g = [f EXCEPT !.allow = a]
    BY <1>1 DEF Allowed
  <2> HIDE DEF a, g
  <2> QED BY <1>1, <2>1
<1> HIDE DEF a, g
<1>4. g \in Loose
  BY <1>1, <1>2, <1>3 DEF Loose
<1>5. ASSUME Granted(f)
      PROVE  Granted(g)
  <2> SUFFICES ASSUME NEW x \in Spenders, NEW y \in Tokens
               PROVE  g.allow[x][y] >= 0
    BY DEF Granted
  <2>1. f.allow[x][y] >= 0
    BY <1>5 DEF Granted
  <2> QED BY <1>2, <1>3, <2>1
<1>6. /\ g.bal = f.bal /\ g.trades = f.trades /\ g.gas = f.gas /\ g.txs = f.txs
      /\ g.allow[s][token] = n
  BY <1>2, <1>3
<1> QED BY <1>4, <1>5, <1>6 DEF g

\* One approval: gas is gone, and the allowance is set.
LEMMA GrantingIs ==
  ASSUME way \in Ways, NEW f \in Loose, NEW r \in Runs, r.path # <<>>, NEW k \in Nat
  PROVE  LET g == Granting(f, r, k)
             n == Gas["approve"]
         IN  /\ g \in Loose /\ g.trades = f.trades /\ n \in Nat
             /\ g.gas = f.gas + n /\ \A t \in Tokens : g.bal[t] = f.bal[t] - Fee(t, n)
             /\ Allowance(g, r) = k
             /\ Granted(f) => Granted(g)
             /\ Matches(f) => Matches(g)
<1> DEFINE g == Granting(f, r, k)
           s == Spender(r)
           token == hop(r).source
           n == Gas["approve"]
           e == Mined(f, token, "approve")
<1>1. s \in Spenders /\ token \in Tokens
  BY HopIs
<1>2. n \in Nat /\ "approve" \in TxKinds \ Kinds /\ token \in Tokens \cup Venues
  BY <1>1, Cost DEF TxKinds, Kinds
<1>3. g = Allowed(e, s, token, k)
  BY DEF Granting, Allowed
<1>4. /\ e \in Loose /\ e.allow = f.allow /\ e.trades = f.trades
      /\ e.gas = f.gas + n /\ \A t \in Tokens : e.bal[t] = f.bal[t] - Fee(t, n)
      /\ Matches(f) => Matches(e)
  <2> HIDE DEF e, token, n
  <2>1. e = Mined(f, token, "approve")
    BY DEF e
  <2> QED BY <1>2, <2>1, MinedIs, MinedMatches DEF n
<1> HIDE DEF e, g, s, token, n
<1>5. /\ g \in Loose /\ g.bal = e.bal /\ g.trades = e.trades /\ g.gas = e.gas
      /\ g.txs = e.txs /\ g.allow[s][token] = k
      /\ Granted(e) => Granted(g)
  BY <1>1, <1>3, <1>4, AllowIs
<1>6. Granted(f) => Granted(e)
  BY <1>4 DEF Granted
<1>7. Matches(f) => Matches(g)
  <2>1. g.txs = e.txs /\ g.gas = e.gas /\ g.trades = e.trades
    BY <1>5
  <2> QED BY <1>4, <2>1, MatchesSame
<1>8. Allowance(g, r) = k
  <2>1. g.allow[s][token] = k
    BY <1>5
  <2> QED BY <2>1 DEF Allowance, s, token
<1> QED BY <1>2, <1>4, <1>5, <1>6, <1>7, <1>8 DEF g, n

\* what approvals cost, and that they cost nothing else
Charged(f, g) == \E n \in Nat : /\ g.gas = f.gas + n
                                /\ \A t \in Tokens : g.bal[t] = f.bal[t] - Fee(t, n)

\* Gas adds up.
LEMMA ChargedOn ==
  ASSUME NEW f \in Loose, NEW d \in Loose, NEW g \in Loose, Charged(f, d), Charged(d, g)
  PROVE  Charged(f, g)
<1>1. PICK i \in Nat : d.gas = f.gas + i /\ \A t \in Tokens : d.bal[t] = f.bal[t] - Fee(t, i)
  BY DEF Charged
<1>2. PICK n \in Nat : g.gas = d.gas + n /\ \A t \in Tokens : g.bal[t] = d.bal[t] - Fee(t, n)
  BY DEF Charged
<1>3. f.gas \in Nat /\ f.bal \in [Tokens -> Int]
  BY DEF Loose
<1>4. i + n \in Nat /\ g.gas = f.gas + (i + n)
  BY <1>1, <1>2, <1>3
<1>5. \A t \in Tokens : g.bal[t] = f.bal[t] - Fee(t, i + n)
  <2> TAKE t \in Tokens
  <2>1. Fee(t, i + n) = Fee(t, i) + Fee(t, n)
    BY FeeIs
  <2>2. f.bal[t] \in Int /\ Fee(t, i) \in Nat /\ Fee(t, n) \in Nat
    BY <1>3, FeeIs
  <2>3. g.bal[t] = f.bal[t] - Fee(t, i) - Fee(t, n)
    BY <1>1, <1>2
  <2> QED BY <2>1, <2>2, <2>3
<1> QED BY <1>4, <1>5 DEF Charged

\* Gas that could be paid leaves a possible fork.
LEMMA ChargedFork ==
  ASSUME NEW f \in Loose, NEW g \in Loose, Charged(f, g), Granted(g),
         Affords(f, 0, g.gas - f.gas), \A t \in Tokens : t # ETH => f.bal[t] >= 0
  PROVE  g \in Forks
<1>1. PICK n \in Nat : g.gas = f.gas + n /\ \A t \in Tokens : g.bal[t] = f.bal[t] - Fee(t, n)
  BY DEF Charged
<1>2. f.gas \in Nat /\ \A t \in Tokens : f.bal[t] \in Int /\ Fee(t, n) \in Nat
  BY FeeIs DEF Loose
<1>3. \A t \in Tokens : g.bal[t] >= 0
  <2> TAKE t \in Tokens
  <2>1. CASE t = ETH
    <3>1. g.gas - f.gas = n
      BY <1>1, <1>2
    <3>2. 0 + n * GasPrice <= f.bal[ETH]
      BY <3>1 DEF Affords
    <3>3. Fee(t, n) = n * GasPrice
      BY <2>1, FeeIs
    <3> DEFINE p == n * GasPrice
    <3>4. p \in Nat /\ 0 + p <= f.bal[t] /\ g.bal[t] = f.bal[t] - p
      BY <1>1, <1>2, <2>1, <3>2, <3>3
    <3> HIDE DEF p
    <3> QED BY <1>2, <3>4
  <2>2. CASE t # ETH
    <3>1. Fee(t, n) = 0
      BY <2>2, FeeIs
    <3> QED BY <1>1, <1>2, <2>2, <3>1
  <2> QED BY <2>1, <2>2
<1> QED BY <1>3, Settled DEF Granted

LEMMA ChargedSelf ==
  ASSUME NEW f \in Loose
  PROVE  Charged(f, f)
<1>1. f.gas \in Nat /\ f.bal \in [Tokens -> Int]
  BY DEF Loose
<1>2. \A t \in Tokens : f.bal[t] \in Int /\ Fee(t, 0) = 0
  BY <1>1, FeeIs
<1>3. f.gas = f.gas + 0 /\ \A t \in Tokens : f.bal[t] = f.bal[t] - Fee(t, 0)
  BY <1>1, <1>2
<1> QED BY <1>3 DEF Charged

\* Fork.approve, reset or not, costs gas and nothing else, at both of its transactions; at
\* its end the allowance is enough.
LEMMA ApprovedIs ==
  ASSUME way \in Ways, NEW f \in Loose, NEW r \in Runs, r.path # <<>>, Granted(f)
  PROVE  LET d == Reset(f, r)
             g == Approved(f, r)
         IN  /\ d \in Loose /\ Granted(d) /\ Charged(f, d)
             /\ g \in Loose /\ Granted(g) /\ Charged(d, g) /\ Charged(f, g)
             /\ d.trades = f.trades /\ g.trades = f.trades
             /\ TakesAllowance(r) => Allowance(g, r) >= r.amount
             /\ Matches(f) => Matches(d) /\ Matches(g)
<1> DEFINE d == Reset(f, r)
           g == Approved(f, r)
<1>1. r.amount \in Nat /\ 0 \in Nat /\ Allowance(f, r) \in Int
  <2>1. f.allow \in [Spenders -> [Tokens -> Int]]
    BY DEF Loose
  <2>2. Spender(r) \in Spenders /\ hop(r).source \in Tokens
    BY HopIs
  <2> QED BY <2>1, <2>2 DEF Runs, Allowance
<1>2. /\ d \in Loose /\ Granted(d) /\ Charged(f, d) /\ d.trades = f.trades
      /\ Matches(f) => Matches(d)
  <2>1. CASE Short(f, r) /\ Allowance(f, r) > 0
    <3>1. d = Granting(f, r, 0)
      BY <2>1 DEF Reset
    <3> HIDE DEF d
    <3> QED BY <1>1, <3>1, GrantingIs DEF Charged
  <2>2. CASE ~(Short(f, r) /\ Allowance(f, r) > 0)
    <3>1. d = f
      BY <2>2 DEF Reset
    <3> HIDE DEF d
    <3> QED BY <3>1, ChargedSelf
  <2> QED BY <2>1, <2>2
<1> HIDE DEF d
<1>3. /\ g \in Loose /\ Granted(g) /\ Charged(d, g) /\ g.trades = f.trades
      /\ TakesAllowance(r) => Allowance(g, r) >= r.amount
      /\ Matches(f) => Matches(g)
  <2>1. CASE Short(f, r)
    <3>1. g = Granting(d, r, r.amount)
      BY <2>1 DEF Approved, d
    <3> HIDE DEF g
    <3>2. /\ g \in Loose /\ Granted(g) /\ Charged(d, g) /\ g.trades = d.trades
          /\ Allowance(g, r) = r.amount
          /\ Matches(d) => Matches(g)
      BY <1>1, <1>2, <3>1, GrantingIs DEF Charged
    <3> QED BY <1>1, <1>2, <3>2
  <2>2. CASE ~Short(f, r)
    <3>1. g = f /\ d = f
      BY <2>2 DEF Approved, Reset, d
    <3> HIDE DEF g
    <3>2. TakesAllowance(r) => Allowance(f, r) >= r.amount
      BY <1>1, <2>2 DEF Short
    <3> QED BY <1>2, <3>1, <3>2
  <2> QED BY <2>1, <2>2
<1> HIDE DEF g
<1>4. Charged(f, g)
  BY <1>2, <1>3, ChargedOn
<1> QED BY <1>2, <1>3, <1>4 DEF d, g

\* A venue fills no more than it was given.
LEMMA FillIs ==
  ASSUME NEW r \in Runs, r.amount > 0
  PROVE  Fill(r) \in Nat /\ Fill(r) <= r.amount
BY DEF Fill, Runs

\* A trade: what was filled is gone, what was paid has arrived, gas was counted.
LEMMA TradedIs ==
  ASSUME way \in Ways, NEW f \in Loose, NEW r \in Runs, r.path # <<>>, r.amount > 0,
         Paid(f, r) \in Nat, Granted(f), TakesAllowance(r) => Allowance(f, r) >= r.amount
  PROVE  LET g == Traded(f, r)
         IN  /\ g \in Loose /\ Granted(g)
             /\ g.gas = f.gas + Gas[hop(r).kind]
             /\ \A t \in Tokens :
                  g.bal[t] = f.bal[t] - In(t, hop(r).source, Fill(r))
                             + In(t, hop(r).target, Paid(f, r)) - Fee(t, Gas[hop(r).kind])
             /\ Matches(f) => Matches(g)
<1> DEFINE g == Traded(f, r)
           s == Spender(r)
           from == hop(r).source
           to == hop(r).target
           v == hop(r).venue
           kind == hop(r).kind
           fill == Fill(r)
           paid == Paid(f, r)
           spent == IF TakesAllowance(r) THEN fill ELSE 0
<1>1. /\ s \in Spenders /\ from \in Tokens /\ to \in Tokens /\ from # to
      /\ v \in Venues /\ kind \in Kinds
  BY HopIs
<1>2. fill \in Nat /\ fill <= r.amount /\ paid \in Nat /\ r.amount \in Nat
  BY FillIs DEF Runs
<1>3. /\ f.bal \in [Tokens -> Int] /\ f.allow \in [Spenders -> [Tokens -> Int]]
      /\ f.trades \in [Venues -> Nat] /\ f.gas \in Nat
      /\ f.txs \in Seq([to : Tokens \cup Venues, kind : TxKinds])
      /\ f = [bal |-> f.bal, allow |-> f.allow, trades |-> f.trades, gas |-> f.gas, txs |-> f.txs]
  BY DEF Loose
<1>4. spent \in Nat /\ f.allow[s][from] - spent >= 0
  <2>1. f.allow[s][from] \in Int /\ f.allow[s][from] >= 0
    BY <1>1, <1>3 DEF Granted
  <2>2. CASE TakesAllowance(r)
    <3>1. f.allow[s][from] >= r.amount
      BY <2>2 DEF Allowance
    <3> HIDE DEF from, s, fill
    <3> QED BY <1>2, <2>1, <2>2, <3>1
  <2>3. CASE ~TakesAllowance(r)
    BY <2>1, <2>3
  <2> QED BY <2>2, <2>3
<1> DEFINE b == [f.bal EXCEPT ![from] = @ - fill, ![to] = @ + paid]
           a == [f.allow EXCEPT ![s][from] = @ - spent]
           c == [f.trades EXCEPT ![v] = @ + 1]
           d == [f EXCEPT !.bal[from] = @ - fill, !.bal[to] = @ + paid,
                          !.allow[s][from] = @ - spent, !.trades[v] = @ + 1]
<1>5. g = Mined(d, v, kind)
  BY DEF Traded
<1> HIDE DEF s, from, to, v, kind, fill, paid, spent, g
<1>6. d = [bal |-> b, allow |-> a, trades |-> c, gas |-> f.gas, txs |-> f.txs]
  <2>1. d = [f EXCEPT !.bal = b, !.allow = a, !.trades = c]
    BY <1>3
  <2> HIDE DEF a, b, c, d
  <2> QED BY <1>3, <2>1
<1>7. /\ b \in [Tokens -> Int]
      /\ \A t \in Tokens : b[t] = f.bal[t] - In(t, from, fill) + In(t, to, paid)
  BY <1>1, <1>2, <1>3 DEF In
<1>8. /\ a \in [Spenders -> [Tokens -> Int]]
      /\ \A x \in Spenders, y \in Tokens :
           a[x][y] = IF x = s /\ y = from THEN f.allow[s][from] - spent ELSE f.allow[x][y]
  BY <1>1, <1>3, <1>4
<1>9. /\ c \in [Venues -> Nat]
      /\ \A u \in Venues : c[u] = f.trades[u] + (IF v = u /\ kind \in Kinds THEN 1 ELSE 0)
  BY <1>1, <1>3
<1> HIDE DEF a, b, c, d
<1>10. d \in Loose
  BY <1>3, <1>6, <1>7, <1>8, <1>9 DEF Loose
<1>11. v \in Tokens \cup Venues /\ kind \in TxKinds
  BY <1>1 DEF TxKinds
<1>12. /\ g \in Loose /\ \A t \in Tokens : g.bal[t] = d.bal[t] - Fee(t, Gas[kind])
       /\ g.allow = d.allow /\ g.trades = d.trades /\ g.gas = d.gas + Gas[kind]
       /\ g.txs = Append(d.txs, [to |-> v, kind |-> kind])
  BY <1>5, <1>10, <1>11, MinedIs
<1>13. Granted(g)
  <2> SUFFICES ASSUME NEW x \in Spenders, NEW y \in Tokens
               PROVE  g.allow[x][y] >= 0
    BY DEF Granted
  <2>1. f.allow[x][y] >= 0
    BY DEF Granted
  <2> QED BY <1>4, <1>6, <1>8, <1>12, <2>1
<1>14. \A t \in Tokens : g.bal[t] = f.bal[t] - In(t, from, fill) + In(t, to, paid)
                                    - Fee(t, Gas[kind])
  <2>1. d.bal = b
    BY <1>6
  <2>2. \A t \in Tokens :
          /\ f.bal[t] \in Int /\ Fee(t, Gas[kind]) \in Nat
          /\ In(t, from, fill) \in Nat /\ In(t, to, paid) \in Nat
    BY <1>2, <1>3, <1>11, Cost, FeeIs DEF In
  <2> QED BY <1>7, <1>12, <2>1, <2>2
<1>15. ASSUME Matches(f)
       PROVE  Matches(g)
  <2>1. g.txs = Append(f.txs, [to |-> v, kind |-> kind]) /\ g.gas = f.gas + Gas[kind]
    BY <1>6, <1>12
  <2>2. \A u \in Venues : g.trades[u] = f.trades[u] + (IF v = u /\ kind \in Kinds THEN 1 ELSE 0)
    BY <1>6, <1>9, <1>12
  <2> QED BY <1>11, <1>12, <1>15, <2>1, <2>2, MatchesMore
<1>16. g.gas = f.gas + Gas[kind]
  BY <1>6, <1>12
<1> QED BY <1>12, <1>13, <1>14, <1>15, <1>16 DEF g, from, to, fill, paid, kind

-----------------------------------------------------------------------------
\* the inductive invariant

Working == pc \in Phases
Here == [fork |-> fork, run |-> run, pc |-> pc]
Start(w, o, p) ==
  [fork |-> o, pc |-> "wrap",
   run |-> [route |-> p, path |-> p, held |-> w.token, amount |-> w.amount, before |-> 0,
            sourceBefore |-> 0, gasBefore |-> 0, gasStart |-> o.gas]]

Rewards == [token : Tokens, amount : Nat]
Bests == [route : Seq(Crossings), output : Nat, gas : Nat, net : Int]

Types ==
  /\ target \in Targets /\ way \in Ways /\ proceeds \in Nat
  /\ claims \in Seq(Rewards)
  /\ \A i, j \in DOMAIN claims : claims[i].token = claims[j].token => i = j
  /\ fork \in Forks /\ saved \in Forks \cup {None} /\ entry \in Forks \cup {None}
  /\ paths \subseteq Seq(Crossings) /\ best \in Bests \cup {None}
  /\ failed \subseteq {"Reverted", "Unaffordable"}
  /\ run \in Runs
  /\ verdict \in {None, "next", "Unavailable"}
  /\ pc \in Phases \cup {"reward", "probe", "restore", "done"}

Searching == pc \notin {"reward", "done"}
Stage ==
  /\ pc # "done" => outcome = Pending
  /\ Working => (saved = None <=> entry # None)
  /\ pc = "restore" => saved # None /\ entry = None /\ verdict # None
  /\ pc \in {"reward", "probe", "done"} => saved = None /\ entry = None
  /\ Searching => claims # <<>> /\ reward.amount > 0 /\ reward.token # target
  /\ Working => run.amount > 0 /\ run.held \in Tokens /\ run.gasStart = callersFork.gas
  /\ pc \in {"read", "approve", "trade", "measure"} => run.path # <<>>
  /\ pc = "finish" => run.path = <<>>
  /\ entry # None => best # None /\ run.route = best.route

(* Wallet f is wallet o less the reward w and the ether for gas, with n of a token and m
   of another. *)
Balanced(w, o, f, token, n, other, m) ==
  /\ f.gas >= o.gas
  /\ \A t \in Tokens :
       f.bal[t] = o.bal[t] - In(t, w.token, w.amount) + In(t, token, n) + In(t, other, m)
                  - Fee(t, f.gas - o.gas)
Holding == IF pc = "wrap" THEN run.held ELSE Needed(run)
Books ==
  /\ Working /\ pc # "measure" =>
       Balanced(reward, callersFork, fork, Holding, run.amount, Holding, 0)
  /\ pc = "measure" =>
       Balanced(reward, callersFork, fork, hop(run).target, Output(fork, run),
                hop(run).source, run.amount - Fill(run))

Reads ==
  /\ pc \in {"approve", "trade", "measure"} => run.gasBefore <= fork.gas
  /\ pc \in {"approve", "trade"} =>
       /\ Output(fork, run) = 0
       /\ hop(run).source # ETH => Spent(fork, run) = 0
  /\ pc = "trade" /\ TakesAllowance(run) => Allowance(fork, run) >= run.amount
  /\ pc = "measure" => /\ Output(fork, run) \in Nat
                       /\ hop(run).source # ETH => Spent(fork, run) = Fill(run)

Owed == pc # "done" =>
  \A i \in DOMAIN claims :
    claims[i].token # ETH => callersFork.bal[claims[i].token] >= claims[i].amount

Matched == /\ GivenUp \/ Matches(fork)
           /\ saved # None => Matches(saved)

Executes == Working => Leads(Steps, Start(reward, callersFork, run.route), Here)
Quoted == best # None /\ Searching =>
  \E z \in States : /\ z.pc = "finish"
                    /\ Leads(Steps, Start(reward, callersFork, best.route), z)
                    /\ z.run.amount = best.output
                    /\ z.fork.gas = callersFork.gas + best.gas

IInv == Types /\ Stage /\ Books /\ Reads /\ Owed /\ Matched /\ Executes /\ Quoted

-----------------------------------------------------------------------------
\* between executions

LEMMA NoRunIs == NoRun \in Runs /\ NoRun.held = None /\ NoRun.amount = 0
BY DEF NoRun, Runs

\* a step that ends with no reward in hand
LEMMA Idle ==
  ASSUME IInv, UNCHANGED env, proceeds' \in Nat,
         claims' = claims \/ (claims # <<>> /\ claims' = Tail(claims)),
         fork' \in Forks, GivenUp' \/ Matches(fork'), saved' = None, entry' = None,
         paths' \subseteq Seq(Crossings), best' \in Bests \cup {None},
         failed' \subseteq {"Reverted", "Unaffordable"}, run' \in Runs,
         verdict' \in {None, "next", "Unavailable"}, pc' \in {"reward", "done"},
         pc' # "done" =>
           /\ outcome' = Pending
           /\ \A i \in DOMAIN claims' :
                claims'[i].token # ETH => fork'.bal[claims'[i].token] >= claims'[i].amount
  PROVE  IInv'
<1>1. /\ claims' \in Seq(Rewards)
      /\ \A i, j \in DOMAIN claims' : claims'[i].token = claims'[j].token => i = j
  <2>1. /\ claims \in Seq(Rewards)
        /\ \A i, j \in DOMAIN claims : claims[i].token = claims[j].token => i = j
    BY DEF IInv, Types
  <2>2. CASE claims' = claims
    BY <2>1, <2>2
  <2>3. CASE claims # <<>> /\ claims' = Tail(claims)
    <3> HIDE DEF Rewards
    <3>1. claims' \in Seq(Rewards) /\ Len(claims) \in Nat /\ DOMAIN claims = 1..Len(claims)
          /\ DOMAIN claims' = 1..(Len(claims) - 1)
          /\ \A i \in DOMAIN claims' : claims'[i] = claims[i + 1]
      BY <2>1, <2>3
    <3> QED BY <2>1, <3>1
  <2> QED BY <2>2, <2>3
<1>2. Types'
  BY <1>1 DEF IInv, Types, env
<1>3. callersFork' = fork'
  BY DEF callersFork, Executing
<1>4. Stage'
  BY DEF Stage, Working, Phases, Searching
<1>5. Books' /\ Reads' /\ Executes' /\ Quoted'
  BY DEF Books, Reads, Executes, Quoted, Working, Phases, Searching
<1>6. Owed'
  BY <1>3 DEF Owed
<1>7. Matched'
  <2>1. GivenUp' \/ Matches(fork)'
    BY DEF Matches, KindIn, TradeIn
  <2> QED BY <2>1 DEF Matched
<1> QED BY <1>2, <1>4, <1>5, <1>6, <1>7 DEF IInv

\* What is owed after the first claim is settled: another fork may be left if it has as much of
\* every other token.
LEMMA OwedNext ==
  ASSUME IInv, claims # <<>>, pc # "done", NEW f,
         \A t \in Tokens : t # ETH /\ t # reward.token => f.bal[t] >= callersFork.bal[t],
         callersFork.bal \in [Tokens -> Nat], f.bal \in [Tokens -> Nat]
  PROVE  \A i \in DOMAIN Tail(claims) :
           Tail(claims)[i].token # ETH => f.bal[Tail(claims)[i].token] >= Tail(claims)[i].amount
<1> SUFFICES ASSUME NEW i \in DOMAIN Tail(claims), Tail(claims)[i].token # ETH
             PROVE  f.bal[Tail(claims)[i].token] >= Tail(claims)[i].amount
  OBVIOUS
<1>1. /\ claims \in Seq(Rewards)
      /\ \A j, k \in DOMAIN claims : claims[j].token = claims[k].token => j = k
  BY DEF IInv, Types
<1>2. /\ i \in Nat /\ i + 1 \in DOMAIN claims /\ 1 \in DOMAIN claims /\ i + 1 # 1
      /\ Tail(claims)[i] = claims[i + 1] /\ reward = claims[1]
      /\ claims[i + 1] \in Rewards
  <2> HIDE DEF Rewards
  <2> QED BY <1>1 DEF reward
<1> DEFINE c == claims[i + 1]
<1>3. c.token \in Tokens /\ c.amount \in Nat /\ c.token # reward.token /\ c.token # ETH
  BY <1>1, <1>2 DEF Rewards
<1>4. callersFork.bal[c.token] >= c.amount
  BY <1>2, <1>3 DEF IInv, Owed
<1>5. f.bal[c.token] >= callersFork.bal[c.token]
  BY <1>3
<1>6. f.bal[c.token] \in Nat /\ callersFork.bal[c.token] \in Nat
  BY <1>3
<1> HIDE DEF c
<1>7. f.bal[c.token] >= c.amount
  BY <1>3, <1>4, <1>5, <1>6
<1> QED BY <1>2, <1>7 DEF c

\* The fork settle_rewards sees, and the reward it settles.
LEMMA Caller ==
  ASSUME IInv
  PROVE  /\ callersFork \in Forks /\ callersFork.bal \in [Tokens -> Nat]
         /\ fork.bal \in [Tokens -> Nat]
         /\ claims # <<>> => reward \in Rewards
<1>1. callersFork \in Forks /\ fork \in Forks
  BY DEF callersFork, Executing, IInv, Types
<1>2. claims # <<>> => reward \in Rewards
  <2>1. claims \in Seq(Rewards)
    BY DEF IInv, Types
  <2> HIDE DEF Rewards
  <2> QED BY <2>1 DEF reward
<1> QED BY <1>1, <1>2 DEF Forks

\* An error that reaches settle_rewards.
LEMMA Handled ==
  ASSUME IInv, claims # <<>>, pc # "done", NEW e, Handle(e), UNCHANGED env,
         e = "Unaffordable" => fork' = callersFork,
         fork' \in Forks, e \in {"Unavailable", "RuntimeError"} \/ Matches(fork'),
         saved' = None, entry' = None,
         paths' \subseteq Seq(Crossings), best' \in Bests \cup {None},
         failed' \subseteq {"Reverted", "Unaffordable"}, run' \in Runs,
         verdict' \in {None, "next", "Unavailable"}
  PROVE  IInv'
<1>1. proceeds' \in Nat
  BY DEF Handle, IInv, Types
<1>2. CASE e = "Unaffordable"
  <2>1. /\ claims' = Tail(claims) /\ pc' = "reward" /\ outcome' = Pending
    BY <1>2 DEF Handle, IInv, Stage
  <2>2. \A i \in DOMAIN Tail(claims) :
          Tail(claims)[i].token # ETH =>
            callersFork.bal[Tail(claims)[i].token] >= Tail(claims)[i].amount
    <3>1. \A t \in Tokens : callersFork.bal[t] >= callersFork.bal[t]
      BY Caller
    <3> QED BY <3>1, Caller, OwedNext
  <2>3. fork' = callersFork
    BY <1>2
  <2>4. \A i \in DOMAIN claims' :
          claims'[i].token # ETH => fork'.bal[claims'[i].token] >= claims'[i].amount
    BY <2>1, <2>2, <2>3
  <2>5. Matches(fork')
    BY <1>2
  <2> QED BY <1>1, <2>1, <2>4, <2>5, Idle
<1>3. CASE e # "Unaffordable"
  <2>1. claims' = claims /\ pc' = "done" /\ outcome' = [kind |-> "raised", error |-> e]
    BY <1>3 DEF Handle
  <2>2. GivenUp' \/ Matches(fork')
    BY <2>1 DEF GivenUp
  <2> QED BY <1>1, <2>1, <2>2, Idle
<1> QED BY <1>2, <1>3

\* No action in the middle of an execution is given up.
LEMMA WorkMatches ==
  ASSUME IInv, Working
  PROVE  Matches(fork)
BY DEF IInv, Matched, GivenUp, Working, Phases

\* The best route's execution stays the same while its fork, reward and venues do.
LEMMA QuotedKept ==
  ASSUME IInv, UNCHANGED <<env, claims, best, callersFork>>, Searching
  PROVE  Quoted'
<1>1. Steps' = Steps
  BY StepsKept
<1> QED BY <1>1 DEF IInv, Quoted, reward

\* a probe ends, and its fork is about to be restored
LEMMA Undone ==
  ASSUME IInv, Working, saved # None, UNCHANGED <<env, books, saved, paths>>, entry' = None,
         fork' \in Forks, verdict' = "Unavailable" \/ Matches(fork'), run' = NoRun,
         best' \in Bests \cup {None}, Quoted',
         failed' \subseteq {"Reverted", "Unaffordable"},
         verdict' \in {"next", "Unavailable"}, pc' = "restore"
  PROVE  IInv'
<1>1. Types'
  BY NoRunIs DEF IInv, Types, env, books
<1>2. callersFork' = saved /\ callersFork = saved
  BY DEF callersFork
<1>3. Stage'
  <2>1. Searching
    BY DEF Searching, Working, Phases
  <2>2. reward' = reward
    BY DEF books, reward
  <2>3. outcome' = Pending
    BY DEF IInv, Stage, books, Working, Phases
  <2>4. verdict' # None
    BY NoneAssumption
  <2>5. claims' # <<>> /\ reward'.amount > 0 /\ reward'.token # target'
    <3>1. claims # <<>> /\ reward.amount > 0 /\ reward.token # target
      BY <2>1 DEF IInv, Stage
    <3> QED BY <2>2, <3>1 DEF books, env
  <2>6. ~Working'
    BY DEF Working, Phases
  <2> QED BY <2>3, <2>4, <2>5, <2>6 DEF Stage
<1>4. Books' /\ Reads' /\ Executes'
  BY DEF Books, Reads, Executes, Working, Phases
<1>5. Owed'
  BY <1>2 DEF IInv, Owed, books, Working, Phases
<1>6. Matched'
  <2>1. GivenUp' \/ Matches(fork)'
    BY DEF GivenUp, Matches, KindIn, TradeIn
  <2>2. Matches(saved)'
    BY DEF IInv, Matched, Matches, KindIn, TradeIn
  <2> QED BY <2>1, <2>2 DEF Matched
<1> QED BY <1>1, <1>3, <1>4, <1>5, <1>6 DEF IInv

\* one step of an execution: what every one of them keeps
LEMMA Advances ==
  ASSUME IInv, Working, UNCHANGED <<env, books, saved, entry, search, verdict>>,
         Follows(Here, Here'), fork' \in Forks, run' \in Runs, pc' \in Phases,
         run'.route = run.route, Matches(fork')
  PROVE  /\ UNCHANGED <<callersFork, reward>>
         /\ Types' /\ Owed' /\ Matched' /\ Executes' /\ Quoted'
<1>1. UNCHANGED <<callersFork, reward>>
  BY DEF callersFork, Executing, reward, IInv, Stage, books
<1>2. Types'
  BY DEF IInv, Types, env, books, search, Phases
<1>3. Owed'
  BY <1>1 DEF IInv, Owed, books, Working, Phases
<1>4. Matched'
  <2>1. Matches(fork)' /\ (saved # None => Matches(saved)')
    BY DEF IInv, Matched, Matches, KindIn, TradeIn
  <2> QED BY <2>1 DEF Matched
<1>5. Searching
  BY DEF Searching, Working, Phases
<1>6. Quoted'
  BY <1>1, <1>5, QuotedKept DEF books, search
<1>7. Executes'
  <2> DEFINE a == Start(reward, callersFork, run.route)
  <2>1. Here \in States /\ Here' \in States
    BY DEF Here, States, IInv, Types, Working
  <2>2. <<Here, Here'>> \in Steps
    BY <2>1, StepsIs
  <2>3. Leads(Steps, a, Here)
    BY DEF IInv, Executes
  <2>4. a \in States
    BY Caller, <1>5 DEF IInv, Stage, Types, Start, States, Runs, Rewards, Forks, Phases
  <2> HIDE DEF a
  <2>5. Leads(Steps, a, Here')
    BY <2>1, <2>2, <2>3, <2>4, LeadsNext
  <2>6. Steps' = Steps
    BY StepsKept
  <2>7. a' = a
    BY <1>1 DEF a
  <2> QED BY <2>5, <2>6, <2>7 DEF Executes, a
<1> QED BY <1>1, <1>2, <1>3, <1>4, <1>6, <1>7

-----------------------------------------------------------------------------
\* each step of an execution

LEMMA InIs == \A t, token : \A n \in Int : In(t, token, n) \in Int
BY DEF In

\* The balance after a step that took d of each token and gas k.
LEMMA BalancedOn ==
  ASSUME NEW w \in Rewards, NEW o \in Forks, NEW f \in Loose, NEW g \in Loose,
         NEW token, NEW n \in Int, NEW other, NEW m \in Int,
         NEW token2, NEW n2 \in Int, NEW other2, NEW m2 \in Int,
         Balanced(w, o, f, token, n, other, m),
         NEW k \in Nat, g.gas = f.gas + k, NEW d \in [Tokens -> Int],
         \A t \in Tokens : g.bal[t] = f.bal[t] + d[t] - Fee(t, k),
         \A t \in Tokens : In(t, token2, n2) + In(t, other2, m2) =
                             In(t, token, n) + In(t, other, m) + d[t]
  PROVE  Balanced(w, o, g, token2, n2, other2, m2)
<1>1. /\ o.gas \in Nat /\ o.bal \in [Tokens -> Nat] /\ f.gas \in Nat /\ f.bal \in [Tokens -> Int]
      /\ w.amount \in Nat
  BY DEF Forks, Loose, Rewards
<1>2. f.gas >= o.gas
  BY DEF Balanced
<1>3. g.gas >= o.gas /\ f.gas - o.gas \in Nat /\ g.gas - o.gas = (f.gas - o.gas) + k
  BY <1>1, <1>2
<1>4. ASSUME NEW t \in Tokens
      PROVE  g.bal[t] = o.bal[t] - In(t, w.token, w.amount) + In(t, token2, n2)
                        + In(t, other2, m2) - Fee(t, g.gas - o.gas)
  <2>1. Fee(t, g.gas - o.gas) = Fee(t, f.gas - o.gas) + Fee(t, k)
    BY <1>3, FeeIs
  <2>2. /\ In(t, w.token, w.amount) \in Int /\ In(t, token, n) \in Int /\ In(t, other, m) \in Int
        /\ In(t, token2, n2) \in Int /\ In(t, other2, m2) \in Int /\ d[t] \in Int
        /\ o.bal[t] \in Int /\ f.bal[t] \in Int
        /\ Fee(t, f.gas - o.gas) \in Int /\ Fee(t, k) \in Int
    <3>1. Fee(t, f.gas - o.gas) \in Nat /\ Fee(t, k) \in Nat
      BY <1>3, FeeIs
    <3> QED BY <1>1, <3>1, InIs
  <2>3. f.bal[t] = o.bal[t] - In(t, w.token, w.amount) + In(t, token, n) + In(t, other, m)
                   - Fee(t, f.gas - o.gas)
    BY DEF Balanced
  <2>4. /\ g.bal[t] = f.bal[t] + d[t] - Fee(t, k)
        /\ In(t, token2, n2) + In(t, other2, m2) = In(t, token, n) + In(t, other, m) + d[t]
    OBVIOUS
  <2> QED BY <2>1, <2>2, <2>3, <2>4
<1> QED BY <1>3, <1>4 DEF Balanced

\* The token in hand is in the wallet: so much of the claim was there and nothing else was spent.
LEMMA Held ==
  ASSUME IInv, Working
  PROVE  /\ claims # <<>> /\ reward \in Rewards /\ reward.amount > 0
         /\ reward.token # ETH => callersFork.bal[reward.token] >= reward.amount
         /\ pc # "measure" =>
              /\ Holding \in Tokens
              /\ Balanced(reward, callersFork, fork, Holding, run.amount, Holding, 0)
              /\ Holding # ETH => fork.bal[Holding] >= run.amount
<1>1. Searching
  BY DEF Searching, Working, Phases
<1>2. claims # <<>> /\ reward \in Rewards /\ reward.amount > 0
  BY <1>1, Caller DEF IInv, Stage
<1>3. ASSUME reward.token # ETH
      PROVE  callersFork.bal[reward.token] >= reward.amount
  <2>1. claims \in Seq(Rewards)
    BY DEF IInv, Types
  <2>2. 1 \in DOMAIN claims /\ reward = claims[1]
    <3> HIDE DEF Rewards
    <3> QED BY <1>2, <2>1 DEF reward
  <2> QED BY <1>1, <1>3, <2>2 DEF IInv, Owed, Searching
<1>4. ASSUME pc # "measure"
      PROVE  /\ Holding \in Tokens
             /\ Balanced(reward, callersFork, fork, Holding, run.amount, Holding, 0)
             /\ Holding # ETH => fork.bal[Holding] >= run.amount
  <2>1. Holding \in Tokens
    <3>1. CASE pc = "wrap"
      BY <3>1 DEF Holding, IInv, Stage
    <3>2. CASE pc # "wrap" /\ run.path = <<>>
      BY <3>2, HopAssumption DEF Holding, Needed, IInv, Types
    <3>3. CASE pc # "wrap" /\ run.path # <<>>
      BY <3>3, HopIs DEF Holding, Needed, IInv, Types
    <3> QED BY <3>1, <3>2, <3>3
  <2>2. Balanced(reward, callersFork, fork, Holding, run.amount, Holding, 0)
    BY <1>4 DEF IInv, Books
  <2>3. ASSUME Holding # ETH
        PROVE  fork.bal[Holding] >= run.amount
    <3> DEFINE h == Holding
               o == callersFork
               n == run.amount
    <3>1. fork.gas - o.gas \in Nat
      BY <2>2, Caller DEF Balanced, IInv, Types, Forks
    <3>2. h \in Tokens /\ h # ETH /\ o.bal[h] \in Nat /\ fork.bal[h] \in Nat /\ n \in Nat
      BY <2>1, <2>3, Caller DEF IInv, Types, Runs
    <3>3. fork.bal[h] = o.bal[h] - In(h, reward.token, reward.amount) + In(h, h, n) + In(h, h, 0)
                        - Fee(h, fork.gas - o.gas)
      BY <2>1, <2>2 DEF Balanced
    <3>4. Fee(h, fork.gas - o.gas) = 0
      BY <3>1, <3>2, FeeIs
    <3>5. In(h, h, n) = n /\ In(h, h, 0) = 0
      BY DEF In
    <3>6. /\ In(h, reward.token, reward.amount) \in Nat
          /\ In(h, reward.token, reward.amount) <= o.bal[h]
      BY <1>2, <1>3, <3>2 DEF In, Rewards
    <3> HIDE DEF h, o, n
    <3>7. fork.bal[h] >= n
      BY <3>2, <3>3, <3>4, <3>5, <3>6
    <3> QED BY <3>7 DEF h, n
  <2> QED BY <2>1, <2>2, <2>3
<1> QED BY <1>2, <1>3, <1>4

\* No wrap takes more than is held.
LEMMA WrappedFork ==
  ASSUME IInv, pc = "wrap",
         \/ run.held = Needed(run)
         \/ Affords(fork, Ether(run.held, run.amount), Gas["wrap"])
  PROVE  Needed(run) \in Tokens /\ Wrapped(fork, run) \in Forks
<1> DEFINE h == run.held
           to == Needed(run)
           k == run.amount
           o == callersFork
           f == Wrapped(fork, run)
<1>1. pc = "wrap" /\ Working /\ (h = to \/ Affords(fork, Ether(h, k), Gas["wrap"]))
  BY DEF Working, Phases
<1>2. fork \in Forks /\ run \in Runs /\ h \in Tokens /\ k \in Nat /\ fork \in Loose /\ Granted(fork)
  BY <1>1, Loosened DEF IInv, Types, Stage, Runs, Granted
<1>3. to \in Tokens
  <2>1. CASE run.path = <<>>
    BY <2>1, HopAssumption DEF Needed, IInv, Types
  <2>2. CASE run.path # <<>>
    BY <2>2, HopIs DEF Needed, IInv, Types
  <2> QED BY <2>1, <2>2
<1>4. /\ f \in Loose /\ f.allow = fork.allow
      /\ \E n \in Nat : /\ f.gas = fork.gas + n
                        /\ h # to => n = Gas["wrap"]
                        /\ h = to => n = 0
                        /\ \A t \in Tokens : f.bal[t] = fork.bal[t] - In(t, h, k)
                                                        + In(t, to, k) - Fee(t, n)
  BY <1>2, <1>3, WrappedIs
<1> HIDE DEF f
<1>5. PICK n \in Nat : /\ f.gas = fork.gas + n
                       /\ h # to => n = Gas["wrap"]
                       /\ h = to => n = 0
                       /\ \A t \in Tokens : f.bal[t] = fork.bal[t] - In(t, h, k)
                                                       + In(t, to, k) - Fee(t, n)
  BY <1>4
<1>6. Holding = h
  BY <1>1 DEF Holding
<1>7. Balanced(reward, o, fork, h, k, h, 0) /\ (h # ETH => fork.bal[h] >= k)
  BY <1>1, <1>6, Held
<1>8. \A t \in Tokens : f.bal[t] >= 0
  <2> TAKE t \in Tokens
  <2> DEFINE b == fork.bal[t]
             x == In(t, h, k)
             y == In(t, to, k)
             z == Fee(t, n)
  <2>1. b \in Nat /\ x \in Nat /\ y \in Nat /\ z \in Nat
    BY <1>2, FeeIs DEF Forks, In
  <2>2. b - x + y - z >= 0
    <3>1. CASE h = to
      <4>1. x = y /\ z = 0
        BY <1>5, <3>1, FeeIs DEF In
      <4> HIDE DEF b, x, y, z
      <4> QED BY <2>1, <4>1
    <3>2. CASE h # to /\ t = ETH
      <4>1. Ether(h, k) + n * GasPrice <= fork.bal[ETH] /\ z = n * GasPrice
        BY <1>1, <1>5, <3>2, FeeIs DEF Affords
      <4>2. x = Ether(h, k)
        BY <3>2 DEF In, Ether
      <4> DEFINE p == n * GasPrice
      <4>3. x + p <= b /\ z = p /\ p \in Nat
        BY <2>1, <3>2, <4>1, <4>2
      <4> HIDE DEF b, x, y, z, p
      <4> QED BY <2>1, <4>3
    <3>3. CASE h # to /\ t # ETH
      <4>1. z = 0
        BY <3>3, FeeIs
      <4>2. x <= b
        BY <1>7, <2>1, <3>3 DEF In
      <4> HIDE DEF b, x, y, z
      <4> QED BY <2>1, <4>1, <4>2
    <3> QED BY <3>1, <3>2, <3>3
  <2> QED BY <1>5, <2>2
<1>9. f \in Forks
  <2>1. \A s \in Spenders, t \in Tokens : f.allow[s][t] >= 0
    BY <1>2, <1>4 DEF Granted
  <2> QED BY <1>4, <1>8, <2>1, Settled
<1> QED BY <1>3, <1>9 DEF f

\* The wallet is in balance after a wrap.
LEMMA WrapStep ==
  ASSUME IInv, WrapBetween
  PROVE  IInv'
<1> DEFINE h == run.held
           to == Needed(run)
           k == run.amount
           o == callersFork
<1>1. /\ pc = "wrap" /\ Working /\ canonical(h) = canonical(to)
      /\ (h = to \/ Affords(fork, Ether(h, k), Gas["wrap"]))
      /\ fork' = Wrapped(fork, run)
      /\ pc' = (IF run.path = <<>> THEN "finish" ELSE "read")
      /\ UNCHANGED <<env, books, saved, entry, search, run, verdict>>
  BY DEF WrapBetween, Working, Phases
<1>2. fork \in Forks /\ run \in Runs /\ h \in Tokens /\ k \in Nat /\ fork \in Loose /\ Granted(fork)
  BY <1>1, Loosened DEF IInv, Types, Stage, Runs, Granted
<1>3. to \in Tokens
  BY <1>1, WrappedFork
<1>4. /\ fork' \in Loose /\ fork'.allow = fork.allow
      /\ \E n \in Nat : /\ fork'.gas = fork.gas + n
                        /\ h # to => n = Gas["wrap"]
                        /\ h = to => n = 0
                        /\ \A t \in Tokens : fork'.bal[t] = fork.bal[t] - In(t, h, k)
                                                            + In(t, to, k) - Fee(t, n)
      /\ Matches(fork')
  BY <1>1, <1>2, <1>3, WrappedIs, WorkMatches
<1>5. PICK n \in Nat : /\ fork'.gas = fork.gas + n
                       /\ h # to => n = Gas["wrap"]
                       /\ h = to => n = 0
                       /\ \A t \in Tokens : fork'.bal[t] = fork.bal[t] - In(t, h, k)
                                                           + In(t, to, k) - Fee(t, n)
  BY <1>4
<1>6. Holding = h
  BY <1>1 DEF Holding
<1>7. Balanced(reward, o, fork, h, k, h, 0) /\ (h # ETH => fork.bal[h] >= k)
  BY <1>1, <1>6, Held
<1>9. fork' \in Forks
  BY <1>1, WrappedFork
<1>10. Follows(Here, Here')
  BY <1>1 DEF Follows, Here
<1>11. pc' \in Phases /\ run' = run
  BY <1>1 DEF Phases
<1>12. /\ UNCHANGED <<callersFork, reward>>
       /\ Types' /\ Owed' /\ Matched' /\ Executes' /\ Quoted'
  BY <1>1, <1>2, <1>4, <1>9, <1>10, <1>11, Advances
<1>13. Stage'
  <2>1. claims' # <<>> /\ reward'.amount > 0 /\ reward'.token # target' /\ outcome' = Pending
    <3>1. claims # <<>> /\ reward.amount > 0 /\ reward.token # target /\ outcome = Pending
      BY <1>1 DEF IInv, Stage, Searching
    <3> QED BY <1>1, <1>12, <3>1 DEF books, env
  <2> QED BY <1>1, <1>11, <1>12, <2>1 DEF IInv, Stage, search, Working, Phases
<1>14. Books'
  <2>1. Holding' = to /\ run'.amount = k
    BY <1>1, <1>11 DEF Holding, Needed, hop, env
  <2> DEFINE d == [t \in Tokens |-> In(t, to, k) - In(t, h, k)]
  <2>2. /\ d \in [Tokens -> Int]
        /\ \A t \in Tokens : In(t, to, k) + In(t, to, 0) = In(t, h, k) + In(t, h, 0) + d[t]
    BY <1>2 DEF In
  <2>3. \A t \in Tokens : fork'.bal[t] = fork.bal[t] + d[t] - Fee(t, n)
    <3>1. \A t \in Tokens : /\ fork.bal[t] \in Int /\ Fee(t, n) \in Int
                            /\ In(t, h, k) \in Int /\ In(t, to, k) \in Int
      <4>1. \A t \in Tokens : Fee(t, n) \in Nat
        BY FeeIs
      <4>2. fork.bal \in [Tokens -> Nat] /\ k \in Int
        BY <1>2, Caller
      <4> HIDE DEF k, h, to
      <4> QED BY <4>1, <4>2, InIs
    <3> QED BY <1>5, <3>1
  <2>4. reward \in Rewards /\ o \in Forks
    BY <1>1, Held, Caller
  <2> HIDE DEF d, to, k, h, o
  <2>5. Balanced(reward, o, fork', to, k, to, 0)
    BY <1>2, <1>4, <1>5, <1>7, <2>2, <2>3, <2>4, BalancedOn
  <2>6. Balanced(reward', callersFork', fork', Holding', run'.amount, Holding', 0)
    BY <1>12, <2>1, <2>5 DEF o
  <2>7. pc' # "measure"
    BY <1>1
  <2> QED BY <2>6, <2>7 DEF Books
<1>15. Reads'
  BY <1>1 DEF Reads
<1> QED BY <1>12, <1>13, <1>14, <1>15 DEF IInv

\* Output adds back the gas since the balances were read, if ether was bought.
LEMMA OutputIs ==
  ASSUME NEW f, NEW r
  PROVE  Output(f, r) = f.bal[hop(r).target] - r.before + Fee(hop(r).target, f.gas - r.gasBefore)
BY DEF Output, GasRefund, Refund, Fee

LEMMA StageNext ==
  ASSUME IInv, Working, UNCHANGED <<env, books, saved, entry, search, callersFork, reward>>,
         pc' \in Phases, run'.amount > 0, run'.held \in Tokens, run'.route = run.route,
         run'.gasStart = run.gasStart,
         pc' \in {"read", "approve", "trade", "measure"} => run'.path # <<>>,
         pc' = "finish" => run'.path = <<>>
  PROVE  Stage'
<1>1. claims' # <<>> /\ reward'.amount > 0 /\ reward'.token # target' /\ outcome' = Pending
  <2>1. claims # <<>> /\ reward.amount > 0 /\ reward.token # target /\ outcome = Pending
    BY DEF IInv, Stage, Searching, Working, Phases
  <2> QED BY <2>1 DEF books, env
<1>2. Working'
  BY DEF Working
<1> QED BY <1>1, <1>2 DEF IInv, Stage, search, Working, Phases

\* Nothing was paid or spent when the balances are read.
LEMMA ReadStep ==
  ASSUME IInv, ReadBalances
  PROVE  IInv'
<1> DEFINE o == callersFork
<1>1. /\ pc = "read" /\ Working /\ fork' = fork /\ run' = Measured(fork, run) /\ pc' = "approve"
      /\ UNCHANGED <<env, books, saved, entry, search, verdict>>
  BY DEF ReadBalances, Working, Phases
<1>2. fork \in Forks /\ run \in Runs /\ run.path # <<>> /\ way \in Ways
  BY <1>1 DEF IInv, Types, Stage
<1>3. /\ run' \in Runs /\ run'.route = run.route /\ run'.path = run.path /\ run'.held = run.held
      /\ run'.amount = run.amount /\ run'.gasStart = run.gasStart
      /\ run'.before = fork.bal[hop(run).target] /\ run'.sourceBefore = fork.bal[hop(run).source]
      /\ run'.gasBefore = fork.gas
  BY <1>1, <1>2, MeasuredIs
<1>4. Follows(Here, Here')
  BY <1>1 DEF ReadBalances, Follows, Here
<1>5. pc' \in Phases /\ Matches(fork')
  BY <1>1, WorkMatches DEF Phases
<1>6. /\ UNCHANGED <<callersFork, reward>>
      /\ Types' /\ Owed' /\ Matched' /\ Executes' /\ Quoted'
  BY <1>1, <1>2, <1>3, <1>4, <1>5, Advances
<1>7. Stage'
  <2>1. run.amount > 0 /\ run.held \in Tokens
    BY <1>1 DEF IInv, Stage
  <2> QED BY <1>1, <1>2, <1>3, <1>5, <1>6, <2>1, StageNext
<1>8. Books'
  <2>1. Holding' = Holding /\ run'.amount = run.amount
    BY <1>1, <1>2, <1>3 DEF Holding, Needed, hop
  <2>2. Balanced(reward, o, fork, Holding, run.amount, Holding, 0)
    BY <1>1, Held
  <2>3. Balanced(reward', callersFork', fork', Holding', run'.amount, Holding', 0)
    BY <1>1, <1>6, <2>1, <2>2
  <2> QED BY <1>1, <2>3 DEF Books
<1>9. Reads'
  <2>1. hop(run') = hop(run)
    BY <1>3 DEF hop
  <2>2. /\ fork.gas \in Nat /\ fork.bal[hop(run).target] \in Nat
        /\ fork.bal[hop(run).source] \in Nat
    BY <1>2, HopIs DEF Forks
  <2>3. Fee(hop(run).target, 0) = 0
    BY <1>2, HopIs, FeeIs
  <2>4. Output(fork', run') = 0
    <3>1. fork'.gas - run'.gasBefore = 0
      BY <1>1, <1>3, <2>2
    <3>2. fork'.bal[hop(run).target] - run'.before = 0
      BY <1>1, <1>3, <2>2
    <3>3. Output(fork', run') = fork'.bal[hop(run).target] - run'.before
                                + Fee(hop(run).target, fork'.gas - run'.gasBefore)
      BY <2>1, OutputIs
    <3> QED BY <2>3, <3>1, <3>2, <3>3
  <2>5. Spent(fork', run') = 0
    BY <1>1, <1>3, <2>1, <2>2 DEF Spent
  <2>6. Output(fork, run)' = 0 /\ Spent(fork, run)' = 0
    BY <2>4, <2>5
  <2> QED BY <1>1, <1>3, <2>2, <2>6 DEF Reads
<1> QED BY <1>6, <1>7, <1>8, <1>9 DEF IInv

\* The fee of an approval is no output and no spending.
LEMMA ApproveStep ==
  ASSUME IInv, Approve
  PROVE  IInv'
<1> DEFINE o == callersFork
           k == run.amount
           h == Holding
<1>1. /\ pc = "approve" /\ Working /\ fork' = Approved(fork, run) /\ pc' = "trade"
      /\ Affords(fork, 0, fork'.gas - fork.gas)
      /\ UNCHANGED <<env, books, saved, entry, search, run, verdict>>
  BY DEF Approve, Working, Phases
<1>2. /\ fork \in Forks /\ run \in Runs /\ run.path # <<>> /\ way \in Ways
      /\ fork \in Loose /\ Granted(fork) /\ k \in Nat /\ fork.gas \in Nat
  BY <1>1, Loosened DEF IInv, Types, Stage, Granted, Runs, Forks
<1>3. /\ fork' \in Loose /\ Granted(fork') /\ Charged(fork, fork')
      /\ TakesAllowance(run) => Allowance(fork', run) >= run.amount
      /\ Matches(fork')
  BY <1>1, <1>2, ApprovedIs, WorkMatches
<1>4. PICK n \in Nat : /\ fork'.gas = fork.gas + n
                       /\ \A t \in Tokens : fork'.bal[t] = fork.bal[t] - Fee(t, n)
  BY <1>3 DEF Charged
<1>5. \A t \in Tokens : fork.bal[t] \in Nat /\ Fee(t, n) \in Nat
  BY Caller, FeeIs
<1>6. \A t \in Tokens : t # ETH => fork.bal[t] >= 0
  BY <1>5
<1>7. fork' \in Forks
  BY <1>1, <1>2, <1>3, <1>6, ChargedFork
<1>8. Follows(Here, Here')
  BY <1>1 DEF Follows, Here
<1>9. pc' \in Phases /\ run' = run
  BY <1>1 DEF Phases
<1>10. /\ UNCHANGED <<callersFork, reward>>
       /\ Types' /\ Owed' /\ Matched' /\ Executes' /\ Quoted'
  BY <1>1, <1>2, <1>3, <1>7, <1>8, <1>9, Advances
<1>11. Stage'
  <2>1. run.amount > 0 /\ run.held \in Tokens
    BY <1>1 DEF IInv, Stage
  <2> QED BY <1>1, <1>2, <1>9, <1>10, <2>1, StageNext
<1>12. Books'
  <2>1. Holding' = h /\ run'.amount = k
    BY <1>1, <1>2, <1>9 DEF Holding, Needed, hop
  <2>2. Balanced(reward, o, fork, h, k, h, 0) /\ reward \in Rewards /\ o \in Forks
    BY <1>1, Held, Caller
  <2> DEFINE d == [t \in Tokens |-> 0]
  <2>3. d \in [Tokens -> Int] /\ \A t \in Tokens : fork'.bal[t] = fork.bal[t] + d[t] - Fee(t, n)
    BY <1>4, <1>5
  <2>4. \A t \in Tokens : In(t, h, k) + In(t, h, 0) = In(t, h, k) + In(t, h, 0) + d[t]
    <3>1. \A t \in Tokens : In(t, h, k) \in Int /\ In(t, h, 0) \in Int
      BY <1>2, InIs
    <3> QED BY <3>1
  <2> HIDE DEF d, k, h, o
  <2>5. Balanced(reward, o, fork', h, k, h, 0)
    BY <1>2, <1>3, <1>4, <2>2, <2>3, <2>4, BalancedOn
  <2>6. Balanced(reward', callersFork', fork', Holding', run'.amount, Holding', 0)
    BY <1>10, <2>1, <2>5 DEF o
  <2> QED BY <1>1, <2>6 DEF Books
<1>13. Reads'
  <2> DEFINE a == hop(run).source
             b == hop(run).target
             g == run.gasBefore
  <2>1. /\ g \in Nat /\ g <= fork.gas /\ Output(fork, run) = 0
        /\ a # ETH => Spent(fork, run) = 0
    BY <1>1, <1>2 DEF IInv, Reads, Runs
  <2>2. run.before \in Nat /\ run.sourceBefore \in Nat /\ a \in Tokens /\ b \in Tokens
    BY <1>2, HopIs DEF Runs
  <2>3. Output(fork', run') = 0
    <3>1. /\ fork'.gas - g = (fork.gas - g) + n /\ fork.gas - g \in Nat
      <4>1. /\ g \in Nat /\ g <= fork.gas /\ fork.gas \in Nat
            /\ fork'.gas = fork.gas + n
        BY <1>2, <1>4, <2>1
      <4> HIDE DEF g
      <4> QED BY <4>1
    <3>2. Fee(b, fork'.gas - g) = Fee(b, fork.gas - g) + Fee(b, n)
      BY <2>2, <3>1, FeeIs
    <3>3. Output(fork', run') = fork'.bal[b] - run.before + Fee(b, fork'.gas - g)
      BY <1>9, OutputIs
    <3>4. Output(fork, run) = fork.bal[b] - run.before + Fee(b, fork.gas - g)
      BY OutputIs
    <3>5. Fee(b, fork.gas - g) \in Nat /\ Fee(b, n) \in Nat /\ fork.bal[b] \in Nat
      BY <1>5, <2>2, <3>1, FeeIs
    <3>6. fork'.bal[b] = fork.bal[b] - Fee(b, n)
      BY <1>4, <2>2
    <3> HIDE DEF b, g
    <3> QED BY <2>1, <2>2, <3>2, <3>3, <3>4, <3>5, <3>6
  <2>4. ASSUME a # ETH
        PROVE  Spent(fork', run') = 0
    <3>1. fork'.bal[a] = fork.bal[a]
      <4>1. Fee(a, n) = 0
        BY <2>2, <2>4, FeeIs
      <4> HIDE DEF a
      <4> QED BY <1>4, <1>5, <2>2, <4>1
    <3> QED BY <1>9, <2>1, <2>4, <3>1 DEF Spent
  <2>5. g <= fork'.gas
    BY <1>2, <1>4, <2>1
  <2>6. /\ Output(fork, run)' = 0 /\ Spent(fork, run)' = Spent(fork', run')
        /\ hop(run)' = hop(run) /\ Allowance(fork, run)' = Allowance(fork', run)
        /\ TakesAllowance(run)' = TakesAllowance(run)
    BY <1>9, <2>3 DEF Spent, hop, Allowance, TakesAllowance, Spender
  <2> QED BY <1>1, <1>3, <1>9, <2>4, <2>5, <2>6 DEF Reads
<1> QED BY <1>10, <1>11, <1>12, <1>13 DEF IInv

\* No trade takes more than is held or approved.
LEMMA TradedFork ==
  ASSUME IInv, pc = "trade", Paid(fork, run) \in Nat,
         Affords(fork, Value(run), Gas[hop(run).kind])
  PROVE  Traded(fork, run) \in Forks
<1> DEFINE o == callersFork
           k == run.amount
           from == hop(run).source
           to == hop(run).target
           fill == Fill(run)
           paid == Paid(fork, run)
           n == Gas[hop(run).kind]
           f == Traded(fork, run)
<1>1. pc = "trade" /\ Working /\ Affords(fork, Value(run), n) /\ paid \in Nat
  BY DEF Working, Phases
<1>2. /\ fork \in Forks /\ run \in Runs /\ run.path # <<>> /\ way \in Ways
      /\ fork \in Loose /\ Granted(fork) /\ k \in Nat /\ k > 0 /\ fork.gas \in Nat
  BY <1>1, Loosened DEF IInv, Types, Stage, Granted, Runs, Forks
<1>3. TakesAllowance(run) => Allowance(fork, run) >= k
  BY <1>1 DEF IInv, Reads
<1>4. /\ f \in Loose /\ Granted(f)
      /\ f.gas = fork.gas + n
      /\ \A t \in Tokens : f.bal[t] = fork.bal[t] - In(t, from, fill) + In(t, to, paid)
                                      - Fee(t, n)
  BY <1>1, <1>2, <1>3, TradedIs
<1> HIDE DEF f
<1>5. fill \in Nat /\ fill <= k
  BY <1>2, FillIs
<1>6. from \in Tokens /\ to \in Tokens /\ from # to
  BY <1>2, HopIs
<1>7. n \in Nat
  BY <1>2, HopIs, Cost DEF TxKinds
<1>8. \A t \in Tokens : fork.bal[t] \in Nat /\ Fee(t, n) \in Nat
  BY <1>7, Caller, FeeIs
<1>9. Holding = from
  BY <1>1, <1>2 DEF Holding, Needed
<1>10. /\ Balanced(reward, o, fork, from, k, from, 0) /\ (from # ETH => fork.bal[from] >= k)
       /\ reward \in Rewards /\ o \in Forks
  BY <1>1, <1>9, Held, Caller
<1>11. \A t \in Tokens : f.bal[t] >= 0
  <2> TAKE t \in Tokens
  <2>1. CASE t = ETH
    <3>1. Ether(from, k) + n * GasPrice <= fork.bal[t] /\ Fee(t, n) = n * GasPrice
      BY <1>1, <1>7, <2>1, FeeIs DEF Affords, Value
    <3>2. In(t, from, fill) <= Ether(from, k) /\ In(t, from, fill) \in Nat /\ Ether(from, k) \in Nat
      BY <1>2, <1>5, <2>1 DEF In, Ether
    <3>3. In(t, to, paid) \in Nat
      BY <1>1 DEF In
    <3> DEFINE p == n * GasPrice
               x == Ether(from, k)
               y == In(t, from, fill)
               z == In(t, to, paid)
    <3>4. p \in Nat /\ x + p <= fork.bal[t] /\ f.bal[t] = fork.bal[t] - y + z - p
      BY <1>4, <1>8, <3>1
    <3> HIDE DEF p, x, y, z
    <3> QED BY <1>8, <3>2, <3>3, <3>4 DEF x, y, z
  <2>2. CASE t # ETH
    <3>1. Fee(t, n) = 0
      BY <1>7, <2>2, FeeIs
    <3>2. In(t, from, fill) <= fork.bal[t] /\ In(t, from, fill) \in Nat
      <4> HIDE DEF from, fill, k
      <4> QED BY <1>2, <1>5, <1>8, <1>10, <2>2 DEF In
    <3>3. In(t, to, paid) \in Nat
      BY <1>1 DEF In
    <3> HIDE DEF from, fill, k, to, paid, n
    <3> QED BY <1>4, <1>8, <3>1, <3>2, <3>3
  <2> QED BY <2>1, <2>2
<1>12. f \in Forks
  BY <1>4, <1>11, Settled DEF Granted
<1> QED BY <1>12 DEF f

\* Output is what the venue paid, whatever token and gas; what was spent is what it filled.
LEMMA TradeStep ==
  ASSUME IInv, Trade
  PROVE  IInv'
<1> DEFINE o == callersFork
           k == run.amount
           from == hop(run).source
           to == hop(run).target
           fill == Fill(run)
           paid == Paid(fork, run)
           n == Gas[hop(run).kind]
<1>1. /\ pc = "trade" /\ Working /\ fork' = Traded(fork, run) /\ pc' = "measure"
      /\ way[hop(run).venue] # "reverts"
      /\ Affords(fork, Value(run), n) /\ paid \in Nat
      /\ UNCHANGED <<env, books, saved, entry, search, run, verdict>>
  BY DEF Trade, Working, Phases
<1>2. /\ fork \in Forks /\ run \in Runs /\ run.path # <<>> /\ way \in Ways
      /\ fork \in Loose /\ Granted(fork) /\ k \in Nat /\ k > 0 /\ fork.gas \in Nat
  BY <1>1, Loosened DEF IInv, Types, Stage, Granted, Runs, Forks
<1>3. TakesAllowance(run) => Allowance(fork, run) >= k
  BY <1>1 DEF IInv, Reads
<1>4. /\ fork' \in Loose /\ Granted(fork')
      /\ fork'.gas = fork.gas + n
      /\ \A t \in Tokens : fork'.bal[t] = fork.bal[t] - In(t, from, fill) + In(t, to, paid)
                                          - Fee(t, n)
      /\ Matches(fork')
  BY <1>1, <1>2, <1>3, TradedIs, WorkMatches
<1>5. fill \in Nat /\ fill <= k
  BY <1>2, FillIs
<1>6. from \in Tokens /\ to \in Tokens /\ from # to
  BY <1>2, HopIs
<1>7. n \in Nat
  BY <1>2, HopIs, Cost DEF TxKinds
<1>8. \A t \in Tokens : fork.bal[t] \in Nat /\ Fee(t, n) \in Nat
  BY <1>7, Caller, FeeIs
<1>9. Holding = from
  BY <1>1, <1>2 DEF Holding, Needed
<1>10. /\ Balanced(reward, o, fork, from, k, from, 0) /\ (from # ETH => fork.bal[from] >= k)
       /\ reward \in Rewards /\ o \in Forks
  BY <1>1, <1>9, Held, Caller
<1>12. fork' \in Forks
  BY <1>1, TradedFork
<1>13. Follows(Here, Here')
  BY <1>1 DEF Follows, Here
<1>14. pc' \in Phases /\ run' = run
  BY <1>1 DEF Phases
<1>15. /\ UNCHANGED <<callersFork, reward>>
       /\ Types' /\ Owed' /\ Matched' /\ Executes' /\ Quoted'
  BY <1>1, <1>2, <1>4, <1>12, <1>13, <1>14, Advances
<1>16. Stage'
  <2>1. run.amount > 0 /\ run.held \in Tokens
    BY <1>1 DEF IInv, Stage
  <2> QED BY <1>1, <1>2, <1>14, <1>15, <2>1, StageNext
<1>17. Output(fork', run) = paid
  <2> DEFINE g == run.gasBefore
             f == fork'
  <2>1. /\ g \in Nat /\ g <= fork.gas /\ Output(fork, run) = 0 /\ run.before \in Nat
    BY <1>1, <1>2 DEF IInv, Reads, Runs
  <2>2. f.gas - g = (fork.gas - g) + n /\ fork.gas - g \in Nat
    <3>1. /\ g \in Nat /\ g <= fork.gas /\ fork.gas \in Nat /\ f.gas = fork.gas + n
      BY <1>2, <1>4, <2>1
    <3> HIDE DEF g, f, n
    <3> QED BY <1>7, <3>1
  <2>3. Fee(to, f.gas - g) = Fee(to, fork.gas - g) + Fee(to, n)
    <3>1. Fee(to, (fork.gas - g) + n) = Fee(to, fork.gas - g) + Fee(to, n)
      BY <1>6, <1>7, <2>2, FeeIs
    <3> HIDE DEF g, f, n, to
    <3> QED BY <2>2, <3>1
  <2>4. /\ Output(f, run) = f.bal[to] - run.before + Fee(to, f.gas - g)
        /\ Output(fork, run) = fork.bal[to] - run.before + Fee(to, fork.gas - g)
    BY OutputIs
  <2>5. f.bal[to] = fork.bal[to] + paid - Fee(to, n)
    <3>1. In(to, from, fill) = 0 /\ In(to, to, paid) = paid
      BY <1>6 DEF In
    <3>2. f.bal[to] = fork.bal[to] - In(to, from, fill) + In(to, to, paid) - Fee(to, n)
      BY <1>4, <1>6
    <3> HIDE DEF f, n, to, paid, from, fill
    <3> QED BY <1>1, <1>6, <1>8, <3>1, <3>2
  <2>6. Fee(to, fork.gas - g) \in Nat /\ Fee(to, n) \in Nat /\ fork.bal[to] \in Nat
    <3> HIDE DEF g, f, n, to
    <3> QED BY <1>6, <1>8, <2>2, FeeIs
  <2> DEFINE x == Output(f, run)
             y == Output(fork, run)
  <2> HIDE DEF f, g, n, to, paid, x, y
  <2>7. /\ x = f.bal[to] - run.before + Fee(to, f.gas - g)
        /\ y = fork.bal[to] - run.before + Fee(to, fork.gas - g)
        /\ y = 0
    BY <2>1, <2>4 DEF x, y
  <2>8. x = paid
    BY <1>1, <2>1, <2>3, <2>5, <2>6, <2>7
  <2> QED BY <2>8 DEF x, f
<1>18. ASSUME from # ETH
       PROVE  Spent(fork', run) = fill
  <2>1. run.sourceBefore - fork.bal[from] = 0
    BY <1>1, <1>18 DEF IInv, Reads, Spent
  <2>2. fork'.bal[from] = fork.bal[from] - In(from, from, fill) + In(from, to, paid) - Fee(from, n)
    BY <1>4, <1>6
  <2>3. In(from, from, fill) = fill /\ In(from, to, paid) = 0 /\ Fee(from, n) = 0
    BY <1>6, <1>7, <1>18, FeeIs DEF In
  <2>4. run.sourceBefore \in Nat /\ fork.bal[from] \in Nat
    BY <1>2, <1>6, <1>8 DEF Runs
  <2>5. Spent(fork', run) = run.sourceBefore - fork'.bal[from]
    BY DEF Spent
  <2> HIDE DEF from, fill, n
  <2> QED BY <1>5, <2>1, <2>2, <2>3, <2>4, <2>5
<1>19. /\ Output(fork, run)' = paid /\ Fill(run)' = fill /\ run'.amount = k
       /\ hop(run)' = hop(run) /\ Spent(fork, run)' = Spent(fork', run)
  <2>1. Fill(run)' = Fill(run)
    BY <1>1, <1>14 DEF Fill, hop, env
  <2> QED BY <1>14, <1>17, <2>1
<1>20. Books'
  <2> DEFINE d == [t \in Tokens |-> In(t, to, paid) - In(t, from, fill)]
  <2>1. \A t \in Tokens : /\ In(t, to, paid) \in Int /\ In(t, from, fill) \in Int
                          /\ In(t, from, k) \in Int /\ In(t, from, k - fill) \in Int
    <3> HIDE DEF to, paid, from, fill, k
    <3> QED BY <1>1, <1>2, <1>5, InIs
  <2>2. d \in [Tokens -> Int]
    BY <2>1
  <2>3. \A t \in Tokens : fork'.bal[t] = fork.bal[t] + d[t] - Fee(t, n)
    <3> HIDE DEF to, paid, from, fill, k, n
    <3> QED BY <1>4, <1>8, <2>1
  <2>4. \A t \in Tokens : In(t, to, paid) + In(t, from, k - fill)
                           = In(t, from, k) + In(t, from, 0) + d[t]
    <3> HIDE DEF to, paid, from, fill, k, n
    <3> QED BY <1>1, <1>2, <1>5, <2>1 DEF In
  <2>5. k - fill \in Int
    BY <1>2, <1>5
  <2> HIDE DEF d, k, o, from, to, fill, paid, n
  <2>6. Balanced(reward, o, fork', to, paid, from, k - fill)
    BY <1>1, <1>2, <1>4, <1>7, <1>10, <2>2, <2>3, <2>4, <2>5, BalancedOn
  <2>7. Balanced(reward', callersFork', fork', hop(run).target, Output(fork, run)',
                 hop(run).source, run'.amount - Fill(run)')
    BY <1>15, <1>19, <2>6 DEF o, to, from, fill, k, paid
  <2> QED BY <1>1, <1>19, <2>7 DEF Books
<1>21. Reads'
  <2>1. run.gasBefore \in Nat /\ run.gasBefore <= fork'.gas
    <3>1. run.gasBefore \in Nat /\ run.gasBefore <= fork.gas
      BY <1>1, <1>2 DEF IInv, Reads, Runs
    <3> HIDE DEF n
    <3> QED BY <1>2, <1>4, <1>7, <3>1
  <2> QED BY <1>1, <1>14, <1>18, <1>19, <2>1 DEF Reads
<1> QED BY <1>15, <1>16, <1>20, <1>21 DEF IInv

\* Nothing of the source is left when a hop is done: a partial fill was refused.
LEMMA HopStep ==
  ASSUME IInv, HopDone
  PROVE  IInv'
<1> DEFINE o == callersFork
           from == hop(run).source
           to == hop(run).target
           out == Output(fork, run)
<1>1. /\ pc = "measure" /\ Working /\ fork' = fork /\ run' = Advanced(fork, run) /\ pc' = "wrap"
      /\ ~PartlySpent(fork, run) /\ out > 0
      /\ UNCHANGED <<env, books, saved, entry, search, verdict>>
  BY DEF HopDone, Working, Phases
<1>2. /\ fork \in Forks /\ run \in Runs /\ run.path # <<>> /\ way \in Ways /\ out \in Nat
      /\ run.amount > 0
  BY <1>1 DEF IInv, Types, Stage, Reads
<1>3. /\ run' \in Runs /\ run'.route = run.route /\ run'.held = to /\ run'.amount = out
      /\ run'.gasStart = run.gasStart
  BY <1>1, <1>2, AdvancedIs
<1>4. Follows(Here, Here')
  BY <1>1 DEF Follows, Here
<1>5. pc' \in Phases /\ Matches(fork')
  BY <1>1, WorkMatches DEF Phases
<1>6. /\ UNCHANGED <<callersFork, reward>>
      /\ Types' /\ Owed' /\ Matched' /\ Executes' /\ Quoted'
  BY <1>1, <1>2, <1>3, <1>4, <1>5, Advances
<1>7. from \in Tokens /\ to \in Tokens
  BY <1>2, HopIs
<1>8. Stage'
  BY <1>1, <1>3, <1>5, <1>6, <1>7, StageNext
<1>9. Fill(run) = run.amount
  <2>1. CASE hop(run).kind \in {"mint", "uniswap"}
    <3>1. Spent(fork, run) = run.amount
      BY <1>1, <2>1 DEF PartlySpent
    <3>2. from # ETH
      BY <1>2, <2>1, HopIs
    <3> QED BY <1>1, <3>1, <3>2 DEF IInv, Reads
  <2>2. CASE hop(run).kind \notin {"mint", "uniswap"}
    BY <1>2, <2>2, HopIs DEF Fill
  <2> QED BY <2>1, <2>2
<1>10. Books'
  <2>1. Balanced(reward, o, fork, to, out, from, run.amount - Fill(run))
    BY <1>1 DEF IInv, Books
  <2>2. run.amount - Fill(run) = 0
    BY <1>2, <1>9 DEF Runs
  <2>3. \A t : In(t, from, 0) = 0 /\ In(t, to, 0) = 0
    BY DEF In
  <2> HIDE DEF o, to, out, from
  <2>4. Balanced(reward, o, fork, to, out, to, 0)
    BY <2>1, <2>2, <2>3 DEF Balanced
  <2>5. Holding' = to
    BY <1>1, <1>3 DEF Holding
  <2>6. Balanced(reward', callersFork', fork', Holding', run'.amount, Holding', 0)
    BY <1>1, <1>3, <1>6, <2>4, <2>5 DEF o
  <2> QED BY <1>1, <2>6 DEF Books
<1>11. Reads'
  BY <1>1 DEF Reads
<1> QED BY <1>6, <1>8, <1>10, <1>11 DEF IInv

-----------------------------------------------------------------------------
\* Init, and the steps between executions

\* A fork without transactions.
LEMMA Fresh ==
  ASSUME NEW f, f.txs = <<>>, f.gas = 0, \A v \in Venues : f.trades[v] = 0
  PROVE  Matches(f)
<1>1. \A k : KindIn(f.txs, k) = {}
  BY DEF KindIn
<1>2. \A v : TradeIn(f.txs, v) = {}
  BY DEF TradeIn
<1>3. Cardinality({}) = 0
  BY FS_EmptySet
<1>4. \A k \in TxKinds : Gas[k] * 0 = 0
  BY Cost
<1>5. \A k \in TxKinds : Gas[k] * Cardinality(KindIn(f.txs, k)) = 0
  BY <1>1, <1>3, <1>4
<1> DEFINE S(k) == Gas[k] * Cardinality(KindIn(f.txs, k))
<1>6. /\ S("approve") = 0 /\ S("wrap") = 0 /\ S("mint") = 0 /\ S("redeem") = 0
      /\ S("curve") = 0 /\ S("uniswap") = 0
  BY <1>5 DEF TxKinds, Kinds
<1> HIDE DEF S
<1>7. f.gas = S("approve") + S("wrap") + S("mint") + S("redeem") + S("curve") + S("uniswap")
  BY <1>6
<1>8. \A v \in Venues : f.trades[v] = Cardinality(TradeIn(f.txs, v))
  BY <1>2, <1>3
<1> QED BY <1>7, <1>8 DEF Matches, S

\* The contracts have paid what is claimed.
LEMMA Starts == Init => IInv
<1> SUFFICES ASSUME Init PROVE IInv
  OBVIOUS
<1> USE DEF Init
<1>1. /\ claims \in Seq(Rewards)
      /\ \A i, j \in DOMAIN claims : claims[i].token = claims[j].token => i = j
  BY HopAssumption DEF Rewards
<1>2. \A t \in Tokens : Claimed(claims, t) \in Nat
  <2> TAKE t \in Tokens
  <2>1. CASE \E i \in DOMAIN claims : claims[i].token = t
    <3>1. (CHOOSE i \in DOMAIN claims : claims[i].token = t) \in DOMAIN claims
      BY <2>1
    <3>2. \A i \in DOMAIN claims : claims[i].amount \in Nat
      <4>1. \A i \in DOMAIN claims : claims[i] \in Rewards
        <5> HIDE DEF Rewards, Init
        <5> QED BY <1>1
      <4> QED BY <4>1 DEF Rewards
    <3> QED BY <2>1, <3>1, <3>2 DEF Claimed
  <2>2. CASE ~\E i \in DOMAIN claims : claims[i].token = t
    BY <2>2 DEF Claimed
  <2> QED BY <2>1, <2>2
<1>3. \A i \in DOMAIN claims : Claimed(claims, claims[i].token) = claims[i].amount
  <2> TAKE i \in DOMAIN claims
  <2>1. (CHOOSE j \in DOMAIN claims : claims[j].token = claims[i].token) = i
    BY <1>1
  <2> QED BY <2>1 DEF Claimed
<1> DEFINE b == [t \in Tokens |-> Claimed(claims, t) + IF t = ETH THEN Funds ELSE 0]
           a == [s \in Spenders |-> [t \in Tokens |-> 0]]
           c == [v \in Venues |-> 0]
<1>4. b \in [Tokens -> Nat] /\ a \in [Spenders -> [Tokens -> Nat]] /\ c \in [Venues -> Nat]
  BY <1>2, PriceAssumption
<1>5. fork = [bal |-> b, allow |-> a, trades |-> c, gas |-> 0, txs |-> <<>>]
  OBVIOUS
<1>6. fork \in Forks
  <2> HIDE DEF a, b, c, Init
  <2>1. <<>> \in Seq([to : Tokens \cup Venues, kind : TxKinds])
    OBVIOUS
  <2> QED BY <1>4, <1>5, <2>1 DEF Forks
<1>7. Types
  BY <1>1, <1>6, NoRunIs DEF Types
<1>8. callersFork = fork
  BY DEF callersFork, Executing
<1>9. Owed
  <2> SUFFICES ASSUME NEW i \in DOMAIN claims, claims[i].token # ETH
               PROVE  fork.bal[claims[i].token] >= claims[i].amount
    BY <1>8 DEF Owed
  <2>1. claims[i] \in Rewards
    <3> HIDE DEF Rewards, Init
    <3> QED BY <1>1
  <2>2. claims[i].token \in Tokens /\ claims[i].amount \in Nat
    BY <2>1 DEF Rewards
  <2>3. fork.bal[claims[i].token] = claims[i].amount + 0
    BY <1>3, <2>2
  <2> HIDE DEF Init
  <2> QED BY <2>2, <2>3
<1>10. Matched
  <2>1. Matches(fork)
    BY Fresh
  <2> QED BY <2>1 DEF Matched
<1>11. Stage
  BY DEF Stage, Working, Phases, Searching
<1>12. Books /\ Reads /\ Executes /\ Quoted
  BY DEF Books, Reads, Executes, Quoted, Working, Phases, Searching
<1> QED BY <1>7, <1>9, <1>10, <1>11, <1>12 DEF IInv

\* what holds between two rewards, and between two probes
LEMMA Waiting ==
  ASSUME IInv, pc \in {"reward", "probe"}
  PROVE  /\ saved = None /\ entry = None /\ callersFork = fork /\ outcome = Pending
         /\ fork \in Forks /\ Matches(fork) /\ fork.bal \in [Tokens -> Nat]
         /\ paths \subseteq Seq(Crossings) /\ best \in Bests \cup {None}
         /\ failed \subseteq {"Reverted", "Unaffordable"} /\ run \in Runs
         /\ verdict \in {None, "next", "Unavailable"} /\ proceeds \in Nat
BY DEF IInv, Types, Stage, Matched, GivenUp, callersFork, Executing, Forks

LEMMA SkipStep ==
  ASSUME IInv, SkipZero \/ SameToken
  PROVE  IInv'
<1>1. /\ pc = "reward" /\ claims # <<>> /\ claims' = Tail(claims) /\ pc' = "reward"
      /\ UNCHANGED <<env, fork, saved, entry, search, run, verdict, outcome>>
      /\ proceeds' = proceeds + 0 \/ proceeds' = proceeds + reward.amount
  BY DEF SkipZero, SameToken, NextReward
<1>2. proceeds' \in Nat
  BY <1>1, Waiting, Caller DEF Rewards
<1>3. \A t \in Tokens : fork.bal[t] >= callersFork.bal[t]
  BY <1>1, Waiting
<1>4. \A i \in DOMAIN Tail(claims) :
        Tail(claims)[i].token # ETH => fork.bal[Tail(claims)[i].token] >= Tail(claims)[i].amount
  BY <1>1, <1>3, Caller, OwedNext
<1>5. \A i \in DOMAIN claims' :
        claims'[i].token # ETH => fork'.bal[claims'[i].token] >= claims'[i].amount
  BY <1>1, <1>4
<1> QED BY <1>1, <1>2, <1>5, Waiting, Idle DEF search

LEMMA FailStep ==
  ASSUME IInv, CandidatesUnknown \/ SnapshotFails \/ NoRoute
  PROVE  IInv'
<1>1. /\ pc \in {"reward", "probe"}
      /\ \E e : Handle(e)
      /\ UNCHANGED <<env, fork, saved, entry, search, run, verdict>>
  BY DEF CandidatesUnknown, SnapshotFails, NoRoute
<1>2. claims # <<>>
  BY DEF CandidatesUnknown, SnapshotFails, NoRoute, IInv, Stage, Searching
<1> QED BY <1>1, <1>2, Waiting, Handled DEF search

LEMMA SettleStep ==
  ASSUME IInv, Settle
  PROVE  IInv'
BY Waiting, Idle DEF Settle, search

\* A candidate's hops lead from token to token, never back: its intermediates differ.
LEMMA Crosses ==
  ASSUME NEW a, NEW b, a # b, NEW p \in CandidatePaths(a, b)
  PROVE  p \in Seq(Crossings)
<1>1. PICK n \in 1..3 : p \in [1..n -> Deployed]
  BY DEF CandidatePaths
<1>2. IsCandidate(p, a, b)
  BY DEF CandidatePaths
<1>3. Deployed \subseteq Hops
  BY DEF Deployed
<1>4. n \in Nat /\ p \in [1..n -> Hops] /\ Len(p) = n
  BY <1>1, <1>3
<1>5. \A i \in 1..n : p[i] \in Crossings
  <2> SUFFICES ASSUME NEW i \in 1..n, p[i].source = p[i].target
               PROVE  FALSE
    BY <1>4 DEF Crossings
  <2>1. At(p, a, i) = canonical(p[i].target) /\ canonical(p[i].source) = At(p, a, i - 1)
    BY <1>2, <1>4 DEF IsCandidate, Connects, At
  <2>2. At(p, a, i) = At(p, a, i - 1)
    BY <2>1
  <2>3. At(p, a, n) = b /\ At(p, a, 0) = a
    BY <1>2, <1>4 DEF IsCandidate, Connects, At
  <2>4. CASE i = 1 /\ n = 1
    <3>1. At(p, a, 1) = At(p, a, 0)
      BY <2>2, <2>4
    <3> QED BY <2>3, <2>4, <3>1
  <2>5. CASE i = 1 /\ n # 1
    <3>1. At(p, a, 1) \in Vias \ {a, b}
      BY <1>2, <1>4, <2>5 DEF IsCandidate
    <3>2. At(p, a, 1) = At(p, a, 0)
      BY <2>2, <2>5
    <3> QED BY <2>3, <3>1, <3>2
  <2>6. CASE i # 1
    <3>1. i - 1 \in 1..n /\ i - 1 # i
      BY <2>6
    <3> QED BY <1>2, <1>4, <2>2, <3>1 DEF IsCandidate
  <2> QED BY <2>4, <2>5, <2>6
<1>6. p \in [1..n -> Crossings]
  BY <1>4, <1>5
<1> HIDE DEF Crossings
<1> QED BY <1>4, <1>6

LEMMA FindStep ==
  ASSUME IInv, FindCandidates
  PROVE  IInv'
<1>1. /\ pc = "reward" /\ claims # <<>> /\ reward.amount > 0 /\ reward.token # target
      /\ best' = None /\ failed' = {} /\ pc' = "probe"
      /\ UNCHANGED <<env, books, fork, saved, entry, run, verdict>>
  BY DEF FindCandidates
<1>2. paths' \subseteq Seq(Crossings)
  <2> DEFINE a == canonical(reward.token)
             b == canonical(target)
  <2>1. paths' = IF a = b THEN {<<>>} ELSE CandidatePaths(a, b)
    BY DEF FindCandidates
  <2>2. <<>> \in Seq(Crossings)
    OBVIOUS
  <2> HIDE DEF a, b, Crossings
  <2> QED BY <2>1, <2>2, Crosses
<1>3. Types'
  BY <1>1, <1>2 DEF IInv, Types, env, books
<1>4. reward' = reward /\ callersFork' = callersFork
  BY <1>1, Waiting DEF reward, books, callersFork, Executing
<1>5. Stage'
  BY <1>1, <1>4, Waiting DEF Stage, Working, Phases, Searching, books, env
<1>6. Books' /\ Reads' /\ Executes' /\ Quoted'
  BY <1>1 DEF Books, Reads, Executes, Quoted, Working, Phases
<1>7. Owed'
  BY <1>1, <1>4 DEF IInv, Owed, books
<1>8. Matched'
  BY <1>1, Waiting DEF Matched, Matches, KindIn, TradeIn
<1> QED BY <1>3, <1>5, <1>6, <1>7, <1>8 DEF IInv

\* execute() begins, in a snapshot or for good
LEMMA Begins ==
  ASSUME IInv, pc = "probe", NEW p \in Seq(Crossings), run' = Started(p), pc' = "wrap",
         UNCHANGED <<env, books, fork, best, failed, verdict>>, paths' \subseteq paths,
         \/ saved' = fork /\ entry' = entry
         \/ saved' = saved /\ entry' = fork /\ best # None /\ p = best.route
  PROVE  IInv'
<1> DEFINE w == reward
           o == fork
<1>1. /\ Searching /\ claims # <<>> /\ w.amount > 0 /\ w.token # target /\ w \in Rewards
      /\ w.token \in Tokens /\ w.amount \in Nat
  BY Caller DEF Searching, IInv, Stage, Rewards
<1>2. /\ o # None /\ callersFork = o /\ callersFork' = o /\ reward' = w
      /\ o \in Forks /\ o.gas \in Nat /\ o.bal \in [Tokens -> Nat]
  BY Waiting, NoneAssumption DEF callersFork, Executing, reward, books, Forks
<1>3. run' = [route |-> p, path |-> p, held |-> w.token, amount |-> w.amount, before |-> 0,
              sourceBefore |-> 0, gasBefore |-> 0, gasStart |-> o.gas]
  BY DEF Started, NoRun
<1>4. run' \in Runs
  <2> HIDE DEF w, o, Crossings
  <2> QED BY <1>1, <1>2, <1>3 DEF Runs
<1>5. Types'
  BY <1>2, <1>4, Waiting DEF IInv, Types, env, books, Phases
<1>6. Stage'
  <2>1. claims' # <<>> /\ reward'.amount > 0 /\ reward'.token # target' /\ outcome' = Pending
    BY <1>1, <1>2, Waiting DEF books, env
  <2>2. /\ run'.amount > 0 /\ run'.held \in Tokens
        /\ run'.gasStart = callersFork'.gas /\ run'.route = p
    BY <1>1, <1>2, <1>3
  <2>3. Working' /\ (saved' = None <=> entry' # None)
    BY <1>2, Waiting DEF Working, Phases
  <2>4. entry' # None => best' # None /\ run'.route = best'.route
    BY <2>2, Waiting
  <2> QED BY <2>1, <2>2, <2>3, <2>4 DEF Stage
<1>7. Books'
  <2>1. \A t \in Tokens : o.bal[t] = o.bal[t] - In(t, w.token, w.amount) + In(t, w.token, w.amount)
                                     + In(t, w.token, 0) - Fee(t, o.gas - o.gas)
    <3> TAKE t \in Tokens
    <3>1. o.gas - o.gas = 0
      BY <1>2
    <3>2. Fee(t, o.gas - o.gas) = 0
      BY <3>1, FeeIs
    <3>3. In(t, w.token, w.amount) \in Int /\ In(t, w.token, 0) = 0 /\ o.bal[t] \in Int
      BY <1>1, <1>2 DEF In
    <3> HIDE DEF w, o
    <3> QED BY <3>2, <3>3
  <2>2. Balanced(w, o, o, w.token, w.amount, w.token, 0)
    BY <1>2, <2>1 DEF Balanced
  <2>3. Holding' = w.token /\ run'.amount = w.amount /\ fork' = o
    BY <1>3 DEF Holding
  <2>4. Balanced(reward', callersFork', fork', Holding', run'.amount, Holding', 0)
    BY <1>2, <2>2, <2>3
  <2> QED BY <2>4 DEF Books
<1>8. Reads'
  BY DEF Reads
<1>9. Owed'
  BY <1>2 DEF IInv, Owed, books
<1>10. Matched'
  <2>1. Matches(fork)' /\ (saved' # None => Matches(saved)')
    BY Waiting DEF Matches, KindIn, TradeIn
  <2> QED BY <2>1 DEF Matched
<1>11. Executes'
  <2>1. Start(reward', callersFork', run'.route) = Here'
    BY <1>2, <1>3 DEF Start, Here
  <2> QED BY <2>1, LeadsSelf DEF Executes
<1>12. Quoted'
  BY <1>1, <1>2, QuotedKept DEF books
<1> QED BY <1>5, <1>6, <1>7, <1>8, <1>9, <1>10, <1>11, <1>12 DEF IInv

LEMMA BeginStep ==
  ASSUME IInv, Probe \/ Choose
  PROVE  IInv'
<1>1. CASE Probe
  <2>1. PICK p \in paths : run' = Started(p) /\ paths' = paths \ {p}
    BY <1>1 DEF Probe
  <2>2. p \in Seq(Crossings)
    BY <1>1, <2>1, Waiting DEF Probe
  <2> QED BY <1>1, <2>1, <2>2, Begins DEF Probe
<1>2. CASE Choose
  <2>1. best.route \in Seq(Crossings)
    BY <1>2, Waiting DEF Choose, Bests
  <2> QED BY <1>2, <2>1, Begins DEF Choose, search
<1> QED BY <1>1, <1>2

-----------------------------------------------------------------------------
\* the end of an execution

\* an execution for good only stops where the probe before it stopped
LEMMA Unstuck ==
  ASSUME IInv, Working, saved = None
  PROVE  /\ best # None
         /\ pc # "finish" => \E u \in States : Follows(Here, u)
         /\ pc = "finish" => /\ run.amount = best.output
                             /\ fork.gas = callersFork.gas + best.gas
<1>1. entry # None /\ best # None /\ run.route = best.route
  BY DEF IInv, Stage
<1>2. Searching
  BY DEF Searching, Working, Phases
<1> DEFINE a == Start(reward, callersFork, run.route)
<1>3. PICK z \in States : /\ z.pc = "finish" /\ Leads(Steps, a, z)
                          /\ z.run.amount = best.output
                          /\ z.fork.gas = callersFork.gas + best.gas
  BY <1>1, <1>2 DEF IInv, Quoted
<1>4. Here \in States
  BY DEF Here, States, IInv, Types, Working
<1>5. Leads(Steps, a, Here)
  BY DEF IInv, Executes
<1>6. a \in States
  BY Caller, <1>2 DEF IInv, Stage, Types, Start, States, Runs, Rewards, Forks, Phases
<1>7. \A e \in Steps : e[1] # z
  BY <1>3, StepsIs
<1>8. Steps \in SUBSET (States \X States) /\ \A e, d \in Steps : e[1] = d[1] => e[2] = d[2]
  BY StepsIs
<1> HIDE DEF a
<1>9. Leads(Steps, Here, z)
  BY <1>3, <1>4, <1>5, <1>6, <1>7, <1>8, LeadsOn
<1>10. CASE \E e \in Steps : e[1] = Here
  <2>1. PICK e \in Steps : e[1] = Here
    BY <1>10
  <2>2. e \in States \X States /\ e = <<Here, e[2]>>
    BY <1>8, <2>1
  <2>3. Follows(Here, e[2]) /\ e[2] \in States
    BY <1>4, <2>2, StepsIs
  <2>4. Here.pc # "finish"
    BY <2>1, StepsIs
  <2> QED BY <1>1, <2>3, <2>4 DEF Here
<1>11. CASE \A e \in Steps : e[1] # Here
  <2>1. z = Here
    BY <1>4, <1>9, <1>11, LeadsNowhere
  <2> QED BY <1>1, <1>3, <2>1 DEF Here
<1> QED BY <1>10, <1>11

\* A probe's error is kept for later; outside a probe only the node may fail.
LEMMA Thrown ==
  ASSUME IInv, Working, NEW e \in {"Reverted", "Unaffordable", "Unavailable"}, Throw(e),
         fork' \in Forks, e = "Unavailable" \/ Matches(fork'), saved # None \/ e = "Unavailable"
  PROVE  IInv'
<1>1. claims # <<>> /\ pc # "done" /\ Searching
  BY Held DEF Working, Phases, Searching
<1>2. run' = NoRun /\ entry' = None /\ UNCHANGED <<env, saved, paths, best>>
  BY DEF Throw
<1>3. CASE saved # None
  <2>1. /\ pc' = "restore" /\ UNCHANGED books
        /\ \/ e \in {"Reverted", "Unaffordable"} /\ verdict' = "next" /\ failed' = failed \cup {e}
           \/ e = "Unavailable" /\ verdict' = e /\ UNCHANGED failed
    BY <1>3 DEF Throw
  <2>2. callersFork' = callersFork /\ claims' = claims
    BY <1>2, <1>3, <2>1 DEF callersFork, books
  <2>3. Quoted'
    BY <1>1, <1>2, <2>2, QuotedKept
  <2>4. failed' \subseteq {"Reverted", "Unaffordable"} /\ verdict' \in {"next", "Unavailable"}
    BY <2>1 DEF IInv, Types
  <2>5. best' \in Bests \cup {None}
    BY <1>2 DEF IInv, Types
  <2> QED BY <1>2, <1>3, <2>1, <2>3, <2>4, <2>5, Undone
<1>4. CASE saved = None
  <2>1. Handle("Unavailable") /\ UNCHANGED <<failed, verdict>>
    BY <1>4 DEF Throw
  <2>2. /\ paths' \subseteq Seq(Crossings) /\ best' \in Bests \cup {None}
        /\ failed' \subseteq {"Reverted", "Unaffordable"} /\ run' \in Runs
        /\ verdict' \in {None, "next", "Unavailable"}
    BY <1>2, <2>1, NoRunIs DEF IInv, Types
  <2> QED BY <1>1, <1>2, <1>4, <2>1, <2>2, Handled
<1> QED BY <1>3, <1>4

\* Gas that could be paid leaves a possible fork.
LEMMA BurnedFork ==
  ASSUME NEW f \in Forks, NEW gas \in Nat, NEW v \in Nat, Affords(f, v, gas)
  PROVE  Burned(f, gas) \in Forks /\ (Matches(f) => Matches(Burned(f, gas)))
<1> DEFINE g == Burned(f, gas)
<1>1. f \in Loose /\ f.bal \in [Tokens -> Nat] /\ Granted(f)
  BY Loosened DEF Granted, Forks
<1>2. /\ g \in Loose /\ \A t \in Tokens : g.bal[t] = f.bal[t] - Fee(t, gas)
      /\ g.allow = f.allow /\ g.trades = f.trades /\ g.gas = f.gas /\ g.txs = f.txs
  BY <1>1, BurnedIs
<1> HIDE DEF g
<1>3. \A t \in Tokens : g.bal[t] >= 0
  <2> TAKE t \in Tokens
  <2>1. f.bal[t] \in Nat /\ Fee(t, gas) \in Nat
    BY <1>1, FeeIs
  <2>2. CASE t = ETH
    <3>1. v + gas * GasPrice <= f.bal[t] /\ Fee(t, gas) = gas * GasPrice
      BY <2>2, FeeIs DEF Affords
    <3> DEFINE p == gas * GasPrice
    <3>2. p \in Nat /\ v + p <= f.bal[t] /\ g.bal[t] = f.bal[t] - p
      BY <1>2, <2>1, <3>1
    <3> HIDE DEF p
    <3> QED BY <2>1, <3>2
  <2>3. CASE t # ETH
    <3>1. Fee(t, gas) = 0
      BY <2>3, FeeIs
    <3> QED BY <1>2, <2>1, <3>1
  <2> QED BY <2>2, <2>3
<1>4. g \in Forks
  BY <1>1, <1>2, <1>3, Settled DEF Granted
<1>5. Matches(f) => Matches(g)
  BY <1>2, MatchesSame
<1> QED BY <1>4, <1>5 DEF g

\* No venue or quote refuses an execution that its probe came through.
LEMMA RefusedStep ==
  ASSUME IInv, QuoteReverts \/ QuoteIsZero \/ TradeReverts \/ PartialFill \/ NoOutput
  PROVE  IInv' /\ saved # None
<1>1. Working /\ fork \in Forks /\ Matches(fork) /\ run \in Runs /\ way \in Ways
  BY WorkMatches DEF QuoteReverts, QuoteIsZero, TradeReverts, PartialFill, NoOutput, Working,
         Phases, IInv, Types
<1>2. saved # None
  <2> SUFFICES ASSUME saved = None PROVE FALSE
    OBVIOUS
  <2>1. pc # "finish"
    BY DEF QuoteReverts, QuoteIsZero, TradeReverts, PartialFill, NoOutput
  <2>2. PICK u \in States : Follows(Here, u)
    BY <1>1, <2>1, Unstuck
  <2>3. /\ Here.pc = pc /\ Here.run = run /\ Here.fork = fork
    BY DEF Here
  <2>4. \/ pc = "read" /\ (QuoteFails(run) \/ QuoteZero(fork, run))
        \/ pc = "trade" /\ way[hop(run).venue] = "reverts"
        \/ pc = "measure" /\ (PartlySpent(fork, run) \/ Output(fork, run) <= 0)
    BY DEF QuoteReverts, QuoteIsZero, TradeReverts, PartialFill, NoOutput
  <2>5. ~(pc = "measure" /\ Output(fork, run) <= 0 /\ Output(fork, run) > 0)
    BY DEF IInv, Reads
  <2> QED BY <2>2, <2>3, <2>4, <2>5 DEF Follows
<1>3. fork' \in Forks /\ Matches(fork')
  <2>1. CASE TradeReverts
    <3>1. /\ fork' = Burned(fork, Gas[hop(run).kind])
          /\ Affords(fork, Value(run), Gas[hop(run).kind])
      BY <2>1 DEF TradeReverts
    <3>2. run.path # <<>>
      BY <2>1 DEF TradeReverts, IInv, Stage
    <3>3. Gas[hop(run).kind] \in Nat
      BY <1>1, <3>2, HopIs, Cost DEF TxKinds
    <3>4. Value(run) \in Nat
      BY <1>1 DEF Value, Ether, Runs
    <3> QED BY <1>1, <3>1, <3>3, <3>4, BurnedFork
  <2>2. CASE ~TradeReverts
    BY <1>1, <2>2 DEF QuoteReverts, QuoteIsZero, PartialFill, NoOutput
  <2> QED BY <2>1, <2>2
<1>4. \E e \in {"Reverted", "Unaffordable", "Unavailable"} : Throw(e)
  BY DEF QuoteReverts, QuoteIsZero, TradeReverts, PartialFill, NoOutput
<1> QED BY <1>1, <1>2, <1>3, <1>4, Thrown

LEMMA NodeStep ==
  ASSUME IInv, NodeFails
  PROVE  IInv'
<1>1. /\ Working /\ Throw("Unavailable") /\ fork \in Forks /\ fork \in Loose /\ Granted(fork)
      /\ run \in Runs /\ way \in Ways
      /\ pc \in {"approve", "trade"} => run.path # <<>>
  BY Loosened DEF NodeFails, WrapLost, ReadLost, ApprovalLost, TradeLost, Working, Phases, IInv,
     Types, Stage, Granted
<1> SUFFICES fork' \in Forks
  BY <1>1, Thrown
<1>2. CASE WrapLost
  <2>1. CASE fork' = fork
    BY <1>1, <2>1
  <2>2. CASE Lost(fork, Ether(run.held, run.amount), Wrapped(fork, run))
    <3> DEFINE g == Wrapped(fork, run)
               v == Ether(run.held, run.amount)
    <3>1. pc = "wrap" /\ run.held # Needed(run) /\ run.held \in Tokens
      BY <1>1, <1>2 DEF WrapLost, IInv, Stage
    <3>2. Needed(run) \in Tokens
      BY <3>1, HopIs, HopAssumption DEF Needed, IInv, Types
    <3>3. g.gas - fork.gas = Gas["wrap"]
      <4>1. \E n \in Nat : /\ g.gas = fork.gas + n
                           /\ run.held # Needed(run) => n = Gas["wrap"]
        BY <1>1, <3>1, <3>2, WrappedIs
      <4>2. fork.gas \in Nat
        BY <1>1 DEF Forks
      <4> HIDE DEF g
      <4>3. g.gas = fork.gas + Gas["wrap"]
        BY <3>1, <4>1
      <4>4. Gas["wrap"] \in Nat
        BY Cost DEF TxKinds
      <4> QED BY <4>2, <4>3, <4>4
    <3>4. Affords(fork, v, Gas["wrap"]) /\ fork' = Uncounted(fork, g)
      BY <2>2, <3>3 DEF Lost
    <3>5. g \in Forks
      BY <3>1, <3>4, WrappedFork
    <3> HIDE DEF g
    <3> QED BY <1>1, <3>4, <3>5, UncountedIs
  <2> QED BY <1>2, <2>1, <2>2 DEF WrapLost
<1>3. CASE ReadLost
  BY <1>1, <1>3 DEF ReadLost
<1>4. CASE ApprovalLost
  <2> DEFINE d == Reset(fork, run)
             g == Approved(fork, run)
  <2>1. run.path # <<>>
    BY <1>1, <1>4 DEF ApprovalLost
  <2>2. /\ d \in Loose /\ Granted(d) /\ Charged(fork, d)
        /\ g \in Loose /\ Granted(g) /\ Charged(d, g)
    BY <1>1, <2>1, ApprovedIs
  <2>3. \/ fork' = fork
        \/ Lost(fork, 0, d)
        \/ Affords(fork, 0, d.gas - fork.gas) /\ fork' = d
        \/ Lost(d, 0, g)
    BY <1>4 DEF ApprovalLost
  <2> HIDE DEF d, g
  <2>4. \A t \in Tokens : fork.bal[t] >= 0
    BY <1>1, Loosened
  <2>5. ASSUME Affords(fork, 0, d.gas - fork.gas)
        PROVE  d \in Forks
    BY <1>1, <2>2, <2>4, <2>5, ChargedFork
  <2>6. ASSUME Affords(d, 0, g.gas - d.gas)
        PROVE  g \in Forks
    <3>1. PICK n \in Nat : \A t \in Tokens : d.bal[t] = fork.bal[t] - Fee(t, n)
      BY <2>2 DEF Charged
    <3>2. \A t \in Tokens : t # ETH => d.bal[t] >= 0
      <4> SUFFICES ASSUME NEW t \in Tokens, t # ETH PROVE d.bal[t] >= 0
        OBVIOUS
      <4>1. Fee(t, n) = 0 /\ fork.bal[t] \in Nat
        BY Caller, FeeIs
      <4> QED BY <3>1, <4>1
    <3> QED BY <2>2, <2>6, <3>2, ChargedFork
  <2> QED BY <1>1, <2>2, <2>3, <2>5, <2>6, UncountedIs DEF Lost
<1>5. CASE TradeLost
  <2>1. CASE fork' = fork
    BY <1>1, <2>1
  <2>2. CASE fork' = Burned(fork, Gas[hop(run).kind])
    <3>1. Affords(fork, Value(run), Gas[hop(run).kind]) \/ fork' = fork
      BY <1>5 DEF TradeLost
    <3>2. Gas[hop(run).kind] \in Nat
      BY <1>1, <1>5, HopIs, Cost DEF TxKinds, TradeLost
    <3>3. Value(run) \in Nat
      BY <1>1 DEF Value, Ether, Runs
    <3> QED BY <1>1, <2>2, <3>1, <3>2, <3>3, BurnedFork
  <2>3. CASE /\ Affords(fork, Value(run), Gas[hop(run).kind]) /\ Paid(fork, run) \in Nat
             /\ fork' = Uncounted(fork, Traded(fork, run))
    <3>1. Traded(fork, run) \in Forks
      BY <1>5, <2>3, TradedFork DEF TradeLost
    <3> QED BY <1>1, <2>3, <3>1, UncountedIs
  <2> QED BY <1>5, <2>1, <2>2, <2>3 DEF TradeLost
<1> QED BY <1>2, <1>3, <1>4, <1>5 DEF NodeFails

\* The best route is remembered with what its probe came to.
LEMMA ProbedStep ==
  ASSUME IInv, ProbeDone
  PROVE  IInv'
<1>1. /\ pc = "finish" /\ saved # None /\ Working /\ verdict' = "next" /\ pc' = "restore"
      /\ best' = Route \/ (best # None /\ best' = best)
      /\ run' = NoRun /\ UNCHANGED <<env, books, fork, saved, entry, paths, failed>>
  BY DEF ProbeDone, Working, Phases
<1>2. entry' = None /\ Searching
  BY <1>1 DEF IInv, Stage, Searching, Working
<1>3. /\ fork \in Forks /\ Matches(fork) /\ run \in Runs /\ target \in Tokens
      /\ failed \subseteq {"Reverted", "Unaffordable"} /\ best \in Bests \cup {None}
  BY <1>1, HopAssumption, WorkMatches DEF IInv, Types
<1>4. /\ GasUsed \in Nat /\ fork.gas = callersFork.gas + GasUsed
  <2>1. /\ fork.gas >= callersFork.gas /\ run.gasStart = callersFork.gas
    BY <1>1, Held DEF Balanced, IInv, Stage
  <2>2. fork.gas \in Nat /\ callersFork.gas \in Nat
    BY <1>3, Caller DEF Forks
  <2> QED BY <2>1, <2>2 DEF GasUsed
<1>5. Route \in Bests
  <2>1. \A i, j, k, l, m \in Nat : i * j - k * l * m \in Int
    <3>1. \A i, j \in Nat : i * j \in Nat
      OBVIOUS
    <3>2. \A i, j \in Nat : i - j \in Int
      OBVIOUS
    <3> QED BY <3>1, <3>2
  <2>2. run.amount \in Nat /\ Worth[target] \in Nat /\ GasPrice \in Nat /\ Worth[ETH] \in Nat
    BY <1>3, PriceAssumption, HopAssumption DEF Runs
  <2>3. NetValue(run.amount, GasUsed) \in Int
    BY <1>4, <2>1, <2>2 DEF NetValue
  <2>4. run.route \in Seq(Crossings)
    BY <1>3 DEF Runs
  <2> HIDE DEF Crossings
  <2> QED BY <1>4, <2>2, <2>3, <2>4 DEF Route, Bests
<1>6. callersFork' = callersFork /\ reward' = reward
  BY <1>1 DEF callersFork, books, reward
<1>7. Quoted'
  <2>1. CASE best' = best
    BY <1>1, <1>2, <1>6, <2>1, QuotedKept DEF books
  <2>2. CASE best' = Route
    <3>1. Here \in States /\ Here.pc = "finish" /\ Here.run.amount = run.amount
          /\ Here.fork.gas = callersFork.gas + GasUsed
      BY <1>1, <1>4 DEF Here, States, IInv, Types, Phases
    <3>2. Leads(Steps, Start(reward, callersFork, run.route), Here)
      BY <1>1 DEF IInv, Executes
    <3>3. Steps' = Steps
      BY <1>1, StepsKept
    <3>4. best'.route = run.route /\ best'.output = run.amount /\ best'.gas = GasUsed
      BY <2>2 DEF Route
    <3>5. \E z \in States : /\ z.pc = "finish"
                            /\ Leads(Steps', Start(reward', callersFork', best'.route), z)
                            /\ z.run.amount = best'.output
                            /\ z.fork.gas = callersFork'.gas + best'.gas
      BY <1>6, <3>1, <3>2, <3>3, <3>4
    <3> QED BY <3>5 DEF Quoted
  <2> QED BY <1>1, <2>1, <2>2
<1>8. best' \in Bests \cup {None}
  BY <1>1, <1>3, <1>5
<1> QED BY <1>1, <1>2, <1>3, <1>7, <1>8, Undone

\* A sale takes nothing that the claims still to settle have paid.
LEMMA SoldStep ==
  ASSUME IInv, Sold
  PROVE  IInv'
<1>1. /\ pc = "finish" /\ saved = None /\ Working
      /\ claims' = Tail(claims) /\ proceeds' = proceeds + run.amount /\ pc' = "reward"
      /\ run' = NoRun /\ entry' = None
      /\ UNCHANGED <<env, fork, saved, search, verdict, residuals, outcome>>
  BY DEF Sold, NextReward, Working, Phases
<1>2. claims # <<>> /\ Balanced(reward, callersFork, fork, Holding, run.amount, Holding, 0)
      /\ reward \in Rewards /\ outcome = Pending
  BY <1>1, Held DEF IInv, Stage
<1>3. ASSUME NEW t \in Tokens, t # ETH, t # reward.token
      PROVE  fork.bal[t] >= callersFork.bal[t]
  <2> DEFINE o == callersFork
             x == In(t, Holding, run.amount)
  <2>1. fork.gas - o.gas \in Nat
    BY <1>2, Caller DEF Balanced, IInv, Types, Forks
  <2>2. Fee(t, fork.gas - o.gas) = 0
    BY <1>3, <2>1, FeeIs
  <2>3. In(t, reward.token, reward.amount) = 0 /\ In(t, Holding, 0) = 0
    BY <1>3 DEF In
  <2>4. x \in Nat /\ o.bal[t] \in Nat /\ fork.bal[t] \in Nat
    BY Caller DEF In, IInv, Types, Runs
  <2>5. fork.bal[t] = o.bal[t] - In(t, reward.token, reward.amount) + x + In(t, Holding, 0)
                      - Fee(t, fork.gas - o.gas)
    BY <1>2 DEF Balanced
  <2> HIDE DEF o, x
  <2>6. fork.bal[t] >= o.bal[t]
    BY <2>2, <2>3, <2>4, <2>5
  <2> QED BY <2>6 DEF o
<1>4. \A i \in DOMAIN Tail(claims) :
        Tail(claims)[i].token # ETH => fork.bal[Tail(claims)[i].token] >= Tail(claims)[i].amount
  BY <1>1, <1>2, <1>3, Caller, OwedNext
<1>5. \A i \in DOMAIN claims' :
        claims'[i].token # ETH => fork'.bal[claims'[i].token] >= claims'[i].amount
  BY <1>1, <1>4
<1>6. proceeds' \in Nat /\ fork' \in Forks /\ Matches(fork')
  BY <1>1, WorkMatches DEF IInv, Types, Runs
<1>7. /\ paths' \subseteq Seq(Crossings) /\ best' \in Bests \cup {None}
      /\ failed' \subseteq {"Reverted", "Unaffordable"} /\ run' \in Runs
      /\ verdict' \in {None, "next", "Unavailable"}
  BY <1>1, NoRunIs DEF IInv, Types, search
<1> QED BY <1>1, <1>2, <1>5, <1>6, <1>7, Idle

\* What the snapshot brings back is what callers see already.
LEMMA RestoreStep ==
  ASSUME IInv, Restore \/ RestoreFails
  PROVE  IInv'
<1>1. /\ pc = "restore" /\ saved' = None /\ verdict' = None
      /\ saved # None /\ entry = None /\ verdict \in {"next", "Unavailable"}
      /\ UNCHANGED <<env, entry, search, run>>
      /\ claims # <<>> /\ Searching /\ callersFork = saved
  BY DEF Restore, RestoreFails, IInv, Types, Stage, Searching, callersFork
<1>2. /\ saved \in Forks /\ Matches(saved) /\ fork \in Forks
      /\ paths' \subseteq Seq(Crossings) /\ best' \in Bests \cup {None}
      /\ failed' \subseteq {"Reverted", "Unaffordable"} /\ run' \in Runs
  BY <1>1 DEF IInv, Types, Matched, search
<1>3. CASE Restore /\ pc' = "probe" /\ UNCHANGED books
  <2>1. fork' = saved /\ callersFork' = saved /\ reward' = reward
    BY <1>1, <1>3 DEF Restore, RestoredFork, callersFork, Executing, reward, books
  <2>2. Types'
    BY <1>1, <1>2, <1>3, <2>1 DEF IInv, Types, env, books
  <2>3. Stage'
    <3>1. claims' # <<>> /\ reward'.amount > 0 /\ reward'.token # target' /\ outcome' = Pending
      <4>1. claims # <<>> /\ reward.amount > 0 /\ reward.token # target /\ outcome = Pending
        BY <1>1 DEF IInv, Stage
      <4> QED BY <1>1, <1>3, <2>1, <4>1 DEF books, env
    <3> QED BY <1>1, <1>3, <3>1 DEF Stage, Working, Phases
  <2>4. Books' /\ Reads' /\ Executes'
    BY <1>3 DEF Books, Reads, Executes, Working, Phases
  <2>5. Owed'
    BY <1>1, <1>3, <2>1 DEF IInv, Owed, books
  <2>6. Matched'
    <3>1. Matches(fork)' /\ saved' = None
      BY <1>1, <1>2, <2>1 DEF Matches, KindIn, TradeIn
    <3> QED BY <3>1 DEF Matched
  <2>7. Quoted'
    BY <1>1, <1>3, <2>1, QuotedKept DEF books, search
  <2> QED BY <2>2, <2>3, <2>4, <2>5, <2>6, <2>7 DEF IInv
<1>4. CASE Restore /\ verdict # "next" /\ Handle(verdict)
  <2>1. fork' = saved
    BY <1>4 DEF Restore, RestoredFork
  <2> QED BY <1>1, <1>2, <1>4, <2>1, Handled
<1>5. CASE RestoreFails
  <2>1. \E e \in {"Unavailable", "RuntimeError"} : Handle(e)
    BY <1>5 DEF RestoreFails
  <2>2. fork' \in Forks
    BY <1>2, <1>5, Loosened, UncountedIs DEF RestoreFails
  <2> QED BY <1>1, <1>2, <2>1, <2>2, Handled
<1> QED BY <1>3, <1>4, <1>5 DEF Restore

-----------------------------------------------------------------------------
\* theorems

\* One step of any action.
LEMMA Step == IInv /\ [Next]_vars => IInv'
<1> SUFFICES ASSUME IInv, [Next]_vars PROVE IInv'
  OBVIOUS
<1>1. CASE SkipZero \/ SameToken
  BY <1>1, SkipStep
<1>2. CASE FindCandidates
  BY <1>2, FindStep
<1>3. CASE CandidatesUnknown \/ SnapshotFails \/ NoRoute
  BY <1>3, FailStep
<1>4. CASE Settle
  BY <1>4, SettleStep
<1>5. CASE Probe \/ Choose
  BY <1>5, BeginStep
<1>6. CASE WrapBetween
  BY <1>6, WrapStep
<1>7. CASE QuoteReverts \/ QuoteIsZero \/ TradeReverts \/ PartialFill \/ NoOutput
  BY <1>7, RefusedStep
<1>8. CASE ReadBalances
  BY <1>8, ReadStep
<1>9. CASE Approve
  BY <1>9, ApproveStep
<1>10. CASE Trade
  BY <1>10, TradeStep
<1>11. CASE HopDone
  BY <1>11, HopStep
<1>12. CASE NodeFails
  BY <1>12, NodeStep
<1>13. CASE ProbeDone
  BY <1>13, ProbedStep
<1>14. CASE Sold
  BY <1>14, SoldStep
<1>15. CASE Restore \/ RestoreFails
  BY <1>15, RestoreStep
<1>16. CASE UNCHANGED vars
  <2>1. Steps' = Steps
    BY <1>16, StepsKept DEF vars
  <2>2. UNCHANGED <<target, way, claims, proceeds, outcome, fork, saved, entry, paths, best,
                    failed, run, verdict, pc>>
    BY <1>16 DEF vars, env, books, search
  <2>3. callersFork' = callersFork /\ reward' = reward /\ Here' = Here /\ Holding' = Holding
    BY <2>2 DEF callersFork, Executing, reward, Here, Holding, Needed, hop
  <2>4. /\ Fill(run)' = Fill(run) /\ Output(fork, run)' = Output(fork, run)
        /\ Spent(fork, run)' = Spent(fork, run) /\ hop(run)' = hop(run)
        /\ Allowance(fork, run)' = Allowance(fork, run)
        /\ TakesAllowance(run)' = TakesAllowance(run)
    BY <2>2 DEF Fill, hop, Output, GasRefund, Refund, Spent, Allowance, Spender, TakesAllowance
  <2>5. Types' /\ Stage'
    BY <2>2, <2>3 DEF IInv, Types, Stage, Working, Searching
  <2>6. Books' /\ Reads'
    BY <2>2, <2>3, <2>4 DEF IInv, Books, Reads, Working
  <2>7. Owed' /\ Matched'
    BY <2>2, <2>3 DEF IInv, Owed, Matched, GivenUp, Matches, KindIn, TradeIn
  <2>8. Executes' /\ Quoted'
    BY <2>1, <2>2, <2>3 DEF IInv, Executes, Quoted, Working, Searching
  <2> QED BY <2>5, <2>6, <2>7, <2>8 DEF IInv
<1>17. CASE Done
  BY <1>16, <1>17 DEF Done
<1> QED BY <1>1, <1>2, <1>3, <1>4, <1>5, <1>6, <1>7, <1>8, <1>9, <1>10, <1>11, <1>12, <1>13,
           <1>14, <1>15, <1>16, <1>17 DEF Next

(* At every request of every probe and sale the wallet is what it was before, less the
   reward and gas, plus what is in hand; the list of transactions agrees with gas and trades
   until the action is given up; and the execution is the one its route determines
   (settle_rewards, Router.best, convert, execute). *)
THEOREM Inductive == Spec => []IInv
BY Starts, Step, PTL DEF Spec

(* No balance, allowance or amount falls below zero on any route, for all hops and prices. *)
THEOREM TypeCorrect == Spec => []TypeOK
<1>1. IInv => TypeOK
  BY DEF IInv, Types, TypeOK, Runs, Phases
<1> QED BY <1>1, Inductive, PTL

(* Reported transactions, charged gas and the trades venues saw agree after any number of
   probes, whichever were refused or reverted, until the action is given up as unavailable:
   only then may a transaction be mined that nobody counted (Fork.snapshot, Fork.transact). *)
THEOREM Matching == Spec => []TransactionsMatch
<1>1. IInv => TransactionsMatch
  BY MatchesFork DEF IInv, Matched
<1> QED BY <1>1, Inductive, PTL

(* convert() gets what best() measured, for the same gas, unless the node fails: a probe and
   a sale are the same execution from the same fork. *)
THEOREM AsQuoted == Spec => ExecutedAsQuoted
<1> DEFINE Kept == Executing /\ entry' = None =>
                     SoldAsQuoted \/ outcome' = [kind |-> "raised", error |-> "Unavailable"]
<1>1. IInv /\ [Next]_vars => [Kept]_vars
  <2> SUFFICES ASSUME IInv, Next, Executing, entry' = None
               PROVE  SoldAsQuoted \/ outcome' = [kind |-> "raised", error |-> "Unavailable"]
    OBVIOUS
  <2>1. entry # None /\ Working /\ saved = None
    BY DEF Executing, IInv, Stage, Types, Working
  <2>2. pc \in Phases
    BY <2>1 DEF Working
  <2>3. CASE QuoteReverts \/ QuoteIsZero \/ TradeReverts \/ PartialFill \/ NoOutput
    BY <2>1, <2>3, RefusedStep
  <2>4. CASE NodeFails
    BY <2>1, <2>4 DEF NodeFails, Throw, Handle
  <2>5. CASE Sold
    <3>1. run.amount = best.output /\ fork.gas = callersFork.gas + best.gas
      BY <2>1, <2>5, Unstuck DEF Sold
    <3>2. callersFork = entry
      BY <2>1 DEF callersFork, Executing
    <3> QED BY <2>5, <3>1, <3>2 DEF Sold, NextReward, SoldAsQuoted
  <2>6. CASE WrapBetween \/ ReadBalances \/ Approve \/ Trade \/ HopDone
    BY <2>1, <2>6 DEF WrapBetween, ReadBalances, Approve, Trade, HopDone
  <2>7. CASE SkipZero \/ SameToken \/ FindCandidates \/ CandidatesUnknown \/ Settle
    BY <2>2, <2>7 DEF SkipZero, SameToken, FindCandidates, CandidatesUnknown, Settle, Phases
  <2>8. CASE Probe \/ SnapshotFails \/ Choose \/ NoRoute \/ ProbeDone \/ Restore
             \/ RestoreFails \/ Done
    BY <2>1, <2>2, <2>8 DEF Probe, SnapshotFails, Choose, NoRoute, ProbeDone, Restore,
       RestoreFails, Done, Phases
  <2> QED BY <2>3, <2>4, <2>5, <2>6, <2>7, <2>8 DEF Next
<1> QED BY <1>1, Inductive, PTL DEF Spec, ExecutedAsQuoted

LEMMA Unmoved ==
  ASSUME IInv, Working, UNCHANGED <<env, books, saved, entry>>
  PROVE  UNCHANGED Settlement!vars
BY DEF Settlement!vars, callersFork, Executing, IInv, Stage, env, books

LEMMA Raised ==
  ASSUME IInv, pc # "done", NEW e, e # "Unaffordable", Handle(e), UNCHANGED env
  PROVE  Settlement!Next
<1>1. Settlement!Raise
  BY DEF Settlement!Raise, Settlement!Pending, Pending, Handle, IInv, Stage, env
<1> QED BY <1>1 DEF Settlement!Next

\* A sale as settle_rewards promises it.
LEMMA Sells ==
  ASSUME IInv, Sold
  PROVE  Settlement!Next
<1> DEFINE o == callersFork
           k == run.amount
<1>1. /\ pc = "finish" /\ saved = None /\ Working
      /\ claims' = Tail(claims) /\ proceeds' = proceeds + k
      /\ UNCHANGED <<env, fork, saved, residuals, outcome>> /\ entry' = None
  BY DEF Sold, NextReward, Working, Phases
<1>2. /\ claims # <<>> /\ reward \in Rewards /\ reward.token # target /\ outcome = Pending
      /\ Balanced(reward, o, fork, Holding, k, Holding, 0)
      /\ k \in Nat /\ k > 0 /\ proceeds \in Nat
  BY <1>1, Held DEF IInv, Stage, Searching, Types, Runs
<1>3. Holding = target
  BY <1>1 DEF Holding, Needed, IInv, Stage
<1>4. callersFork' = fork
  BY <1>1 DEF callersFork, Executing
<1>5. proceeds' > proceeds /\ proceeds' - proceeds = k
  BY <1>1, <1>2
<1>6. Settlement!Exchanged(o, fork, k)
  <2> SUFFICES ASSUME NEW t \in Tokens
               PROVE  fork.bal[t] - o.bal[t] = (IF t = target THEN k ELSE 0)
                        - (IF t = reward.token THEN reward.amount ELSE 0)
                        - (IF t = ETH THEN (fork.gas - o.gas) * GasPrice ELSE 0)
    BY DEF Settlement!Exchanged, Settlement!reward, reward
  <2>1. fork.bal[t] = o.bal[t] - In(t, reward.token, reward.amount) + In(t, target, k)
                      + In(t, target, 0) - Fee(t, fork.gas - o.gas)
    BY <1>2, <1>3 DEF Balanced
  <2>2. fork.gas - o.gas \in Nat
    BY <1>2, Caller DEF Balanced, IInv, Types, Forks
  <2>3. Fee(t, fork.gas - o.gas) \in Nat
    BY <2>2, FeeIs
  <2>4. /\ In(t, target, 0) = 0 /\ In(t, target, k) \in Nat
        /\ In(t, reward.token, reward.amount) \in Nat
    BY <1>2 DEF In, Rewards
  <2>5. o.bal[t] \in Nat /\ fork.bal[t] \in Nat
    BY Caller
  <2> DEFINE x == In(t, target, k)
             y == In(t, reward.token, reward.amount)
             z == Fee(t, fork.gas - o.gas)
  <2>6. fork.bal[t] - o.bal[t] = x - y - z
    <3> HIDE DEF o, x, y, z
    <3> QED BY <2>1, <2>3, <2>4, <2>5 DEF x, y, z
  <2>7. /\ x = (IF t = target THEN k ELSE 0)
        /\ y = (IF t = reward.token THEN reward.amount ELSE 0)
        /\ z = (IF t = ETH THEN (fork.gas - o.gas) * GasPrice ELSE 0)
    BY DEF In, Fee
  <2> HIDE DEF x, y, z, o, k
  <2> QED BY <2>6, <2>7
<1> HIDE DEF o, k
<1>7. Settlement!Advance
  BY <1>1, <1>2 DEF Settlement!Advance, Settlement!Pending, Pending
<1>8. Settlement!Exchanged(callersFork, callersFork', proceeds' - proceeds)
  BY <1>4, <1>5, <1>6 DEF o
<1>9. Settlement!Sell
  BY <1>1, <1>2, <1>5, <1>7, <1>8 DEF Settlement!Sell, Settlement!reward, reward, env
<1> QED BY <1>9 DEF Settlement!Next

LEMMA Promised ==
  ASSUME IInv, [Next]_vars
  PROVE  [Settlement!Next]_(Settlement!vars)
<1>1. CASE SkipZero
  <2>1. Settlement!Skip
    BY <1>1, Waiting DEF SkipZero, NextReward, Settlement!Skip, Settlement!Advance,
       Settlement!Pending, Pending, Settlement!reward, reward, callersFork, Executing, env, IInv,
       Types
  <2> QED BY <2>1 DEF Settlement!Next
<1>2. CASE SameToken
  <2>1. Settlement!Take
    BY <1>2, Waiting DEF SameToken, NextReward, Settlement!Take, Settlement!Advance,
       Settlement!Pending, Pending, Settlement!reward, reward, callersFork, Executing, env
  <2> QED BY <2>1 DEF Settlement!Next
<1>3. CASE FindCandidates
  BY <1>3 DEF FindCandidates, Settlement!vars, callersFork, Executing, env, books
<1>4. CASE CandidatesUnknown \/ SnapshotFails
  BY <1>4, Raised DEF CandidatesUnknown, SnapshotFails
<1>5. CASE NoRoute
  <2>1. CASE "Unaffordable" \in failed
    <3>1. Handle("Unaffordable")
      BY <1>5, <2>1 DEF NoRoute
    <3>2. claims # <<>>
      BY <1>5 DEF NoRoute, IInv, Stage, Searching
    <3>3. Settlement!Keep
      BY <1>5, <3>1, <3>2, Waiting DEF NoRoute, Handle, Settlement!Keep, Settlement!Advance,
         Settlement!Pending, Pending, Settlement!reward, reward, callersFork, Executing, env
    <3> QED BY <3>3 DEF Settlement!Next
  <2>2. CASE "Unaffordable" \notin failed
    BY <1>5, <2>2, Raised DEF NoRoute
  <2> QED BY <2>1, <2>2
<1>6. CASE Settle
  <2>1. Settlement!Settle
    BY <1>6, Waiting DEF Settle, Settlement!Settle, Settlement!Pending, Pending, callersFork,
       Executing, env
  <2> QED BY <2>1 DEF Settlement!Next
<1>7. CASE Probe \/ Choose
  BY <1>7, Waiting, NoneAssumption DEF Probe, Choose, Settlement!vars, callersFork, Executing,
     env, books, search
<1>8. CASE WrapBetween \/ ReadBalances \/ Approve \/ Trade \/ HopDone \/ ProbeDone
  <2>1. Working /\ UNCHANGED <<env, books, saved, entry>>
    BY <1>8 DEF WrapBetween, ReadBalances, Approve, Trade, HopDone, ProbeDone, Working, Phases
  <2> QED BY <2>1, Unmoved
<1>9. CASE QuoteReverts \/ QuoteIsZero \/ TradeReverts \/ PartialFill \/ NoOutput \/ NodeFails
  <2>1. \E e : Throw(e) /\ (saved = None => e = "Unavailable")
    BY <1>9, RefusedStep DEF QuoteReverts, QuoteIsZero, TradeReverts, PartialFill, NoOutput,
       NodeFails
  <2>2. pc # "done"
    BY <1>9 DEF QuoteReverts, QuoteIsZero, TradeReverts, PartialFill, NoOutput, NodeFails,
       WrapLost, ReadLost, ApprovalLost, TradeLost
  <2>3. CASE saved = None
    <3>1. Handle("Unavailable") /\ UNCHANGED env
      BY <2>1, <2>3 DEF Throw
    <3> QED BY <2>2, <3>1, Raised
  <2>4. CASE saved # None
    BY <2>1, <2>4 DEF Throw, Settlement!vars, callersFork, env, books
  <2> QED BY <2>3, <2>4
<1>10. CASE Sold
  BY <1>10, Sells
<1>11. CASE Restore
  <2>1. saved # None /\ entry = None /\ pc = "restore" /\ verdict \in {"next", "Unavailable"}
    BY <1>11 DEF Restore, IInv, Stage, Types
  <2>2. CASE UNCHANGED books
    BY <1>11, <2>1, <2>2 DEF Restore, RestoredFork, Settlement!vars, callersFork, Executing, env,
       books
  <2>3. CASE verdict # "next" /\ Handle(verdict)
    BY <1>11, <2>1, <2>3, Raised DEF Restore
  <2> QED BY <1>11, <2>2, <2>3 DEF Restore
<1>12. CASE RestoreFails
  BY <1>12, Raised DEF RestoreFails
<1>13. CASE Done \/ UNCHANGED vars
  BY <1>13 DEF Done, vars, Settlement!vars, callersFork, Executing, env, books
<1> QED BY <1>1, <1>2, <1>3, <1>4, <1>5, <1>6, <1>7, <1>8, <1>9, <1>10, <1>11, <1>12, <1>13 DEF Next

(* settle_rewards, with its snapshots, approvals, wraps and hops, implements the step per
   reward that RewardSettlement states. *)
THEOREM Implements == Spec => ImplementsRewardSettlement
<1>1. Init => Settlement!Init
  BY HopAssumption DEF Init, Settlement!Init, Settlement!Pending, Pending
<1>2. IInv /\ [Next]_vars => [Settlement!Next]_(Settlement!vars)
  BY Promised
<1> QED BY <1>1, <1>2, Inductive, PTL DEF Spec, ImplementsRewardSettlement, Settlement!Spec
=============================================================================
