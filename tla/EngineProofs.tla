---------------------------- MODULE EngineProofs ----------------------------
(* Proofs about a comparison, for every number of strategies, assets and dates.
   First its rows: each gets one, whatever failed on the way, and what was lost
   stays lost, whatever the contracts pay.  Then the position between two forks:
   that what is captured after a deposit and restored later is what it would have
   been on chain. *)
EXTENDS Engine, FiniteSetTheorems, WellFoundedInduction, TLAPS

HoldKey(i, d) == <<"hold", Holdings[i], d>>
CashKey(d) == Key("cash", "cash", d)
RowKey(i, j, d) == Key(Strategies[i], Assets[j], d)

Working == {"verify", "enter", "date", "compound", "exit"}
\* dates of the current strategy and asset that have a row
Reach == IF pc = "date" THEN date ELSE IF pc \in {"compound", "exit"} THEN date - 1 ELSE 0
Past(i, j, d) == \/ i < s
                 \/ i = s /\ j < a
                 \/ i = s /\ j = a /\ d <= Reach
Lost(reported) == reported # <<>> /\ reported[1] \in {"unavailable-entry", "incomplete"}

Places ==
  /\ comparison \in Comparisons
  /\ pc \in Working \cup {"benchmarks", "done"}
  /\ date \in 0..Final /\ s \in Nat \ {0} /\ a \in Nat \ {0}
  /\ pc = "benchmarks" => s = 1 /\ a <= Len(Holdings) + 1
  /\ pc \in Working => s \in DOMAIN Strategies /\ a \in DOMAIN Assets
  /\ pc = "verify" => a = 1
  /\ pc \in {"compound", "exit"} => date # 0
  /\ pc = "done" => s = Len(Strategies) + 1
  /\ failedStatus \in {"unavailable-entry", "incomplete"}
Pages == rows \in [RowKeys -> Seq(Statuses)]

Counted ==
  /\ \A i \in DOMAIN Holdings, d \in Dates :
       Len(rows[HoldKey(i, d)]) = IF pc = "benchmarks" /\ a <= i THEN 0 ELSE 1
  /\ \A d \in Dates : Len(rows[CashKey(d)]) = IF pc = "benchmarks" THEN 0 ELSE 1
  /\ \A i \in DOMAIN Strategies, j \in DOMAIN Assets, d \in Dates :
       Len(rows[RowKey(i, j, d)]) = IF pc # "benchmarks" /\ Past(i, j, d) THEN 1 ELSE 0

\* benchmarks are never lost, and a lost row is followed by its like
Finality ==
  /\ \A i \in DOMAIN Holdings, d \in Dates : ~Lost(rows[HoldKey(i, d)])
  /\ \A d \in Dates : ~Lost(rows[CashKey(d)])
  /\ \A i \in DOMAIN Strategies, j \in DOMAIN Assets, d, e \in Dates :
       d < e /\ Lost(rows[RowKey(i, j, d)]) /\ rows[RowKey(i, j, e)] # <<>> =>
         rows[RowKey(i, j, e)] = rows[RowKey(i, j, d)]
\* what the code remembers of the rows it has lost
Remembered ==
  pc \in {"date", "compound", "exit"} =>
    \A d \in Dates : d <= Reach /\ Lost(rows[RowKey(s, a, d)]) =>
      pc = "date" /\ position = None /\ rows[RowKey(s, a, d)] = <<failedStatus>>

IInv == Places /\ Pages /\ Counted /\ Finality /\ Remembered

(* Every key is that of a benchmark, of cash, or of a strategy and an asset, and of
   only one of them. *)
LEMMA Keys ==
  ASSUME comparison \in Comparisons
  PROVE  /\ \A i \in DOMAIN Holdings, d \in Dates : HoldKey(i, d) \in RowKeys
         /\ \A d \in Dates : CashKey(d) \in RowKeys
         /\ \A i \in DOMAIN Strategies, j \in DOMAIN Assets, d \in Dates :
              RowKey(i, j, d) \in RowKeys
         /\ \A k \in RowKeys :
              \/ \E i \in DOMAIN Holdings, d \in Dates : k = HoldKey(i, d)
              \/ \E d \in Dates : k = CashKey(d)
              \/ \E i \in DOMAIN Strategies, j \in DOMAIN Assets, d \in Dates :
                   k = RowKey(i, j, d)
<1>1. \A i \in DOMAIN Holdings : Holdings[i] \in ToSet(Holdings)
  BY DEF ToSet
<1>2. \A i \in DOMAIN Strategies : Strategies[i] \in ToSet(Strategies)
  BY DEF ToSet
<1>3. \A j \in DOMAIN Assets : Assets[j] \in ToSet(Assets)
  BY DEF ToSet
<1>4. \A i \in DOMAIN Holdings, d \in Dates : HoldKey(i, d) \in RowKeys
  BY <1>1 DEF HoldKey, RowKeys
<1>5. \A d \in Dates : CashKey(d) \in RowKeys
  BY DEF CashKey, RowKeys
<1>6. \A i \in DOMAIN Strategies, j \in DOMAIN Assets, d \in Dates : RowKey(i, j, d) \in RowKeys
  BY <1>2, <1>3 DEF RowKey, RowKeys, Key
<1>7. ASSUME NEW k \in RowKeys
      PROVE  \/ \E i \in DOMAIN Holdings, d \in Dates : k = HoldKey(i, d)
             \/ \E d \in Dates : k = CashKey(d)
             \/ \E i \in DOMAIN Strategies, j \in DOMAIN Assets, d \in Dates :
                  k = RowKey(i, j, d)
  <2>1. CASE k \in {"hold"} \X ToSet(Holdings) \X Dates
    <3>1. PICK h \in ToSet(Holdings), d \in Dates : k = <<"hold", h, d>>
      BY <2>1
    <3>2. PICK i \in DOMAIN Holdings : h = Holdings[i]
      BY DEF ToSet
    <3> QED BY <3>1, <3>2 DEF HoldKey
  <2>2. CASE k \in ToSet(Strategies) \X ToSet(Assets) \X Dates
    <3>1. PICK n \in ToSet(Strategies), m \in ToSet(Assets), d \in Dates : k = <<n, m, d>>
      BY <2>2
    <3>2. PICK i \in DOMAIN Strategies : n = Strategies[i]
      BY DEF ToSet
    <3>3. PICK j \in DOMAIN Assets : m = Assets[j]
      BY DEF ToSet
    <3> QED BY <3>1, <3>2, <3>3 DEF RowKey, Key
  <2>3. CASE k \in {Key("cash", "cash", d) : d \in Dates}
    BY <2>3 DEF CashKey
  <2> QED BY <2>1, <2>2, <2>3 DEF RowKeys
<1> QED BY <1>4, <1>5, <1>6, <1>7

LEMMA KeysDiffer ==
  ASSUME comparison \in Comparisons
  PROVE  /\ \A i, j \in DOMAIN Holdings, d, e \in Dates :
              HoldKey(i, d) = HoldKey(j, e) => i = j /\ d = e
         /\ \A i \in DOMAIN Holdings, d, e \in Dates : HoldKey(i, d) # CashKey(e)
         /\ \A i \in DOMAIN Strategies, j \in DOMAIN Assets, d, e \in Dates :
              /\ RowKey(i, j, d) # CashKey(e) /\ RowKey(i, j, d)[1] \notin {"hold", "cash"}
              /\ \A h \in DOMAIN Holdings : RowKey(i, j, d) # HoldKey(h, e)
<1>1. \A i, j \in DOMAIN Holdings : Holdings[i] = Holdings[j] => i = j
  BY EngineAssumption DEF IsInjective
<1>2. {"hold", "cash"} \cap ToSet(Strategies) = {}
  BY EngineAssumption DEF Strategies
<1>3. \A i \in DOMAIN Strategies : Strategies[i] \notin {"hold", "cash"}
  BY <1>2 DEF ToSet
<1> QED BY <1>1, <1>3 DEF HoldKey, CashKey, RowKey, Key

(* A key tells its strategy, asset and date. *)
LEMMA SameRow ==
  ASSUME comparison \in Comparisons,
         NEW i \in DOMAIN Strategies, NEW m \in DOMAIN Strategies,
         NEW j \in DOMAIN Assets, NEW n \in DOMAIN Assets, NEW d, NEW e,
         RowKey(i, j, d) = RowKey(m, n, e)
  PROVE  i = m /\ j = n /\ d = e
<1>1. Strategies[i] = Strategies[m] /\ Assets[j] = Assets[n] /\ d = e
  BY DEF RowKey, Key
<1>2. IsInjective(Strategies) /\ IsInjective(Assets)
  BY EngineAssumption DEF Strategies, Assets
<1> QED BY <1>1, <1>2 DEF IsInjective

(* The constants of a step. *)
LEMMA SameKeys ==
  ASSUME comparison' = comparison
  PROVE  /\ Strategies' = Strategies /\ Assets' = Assets /\ RowKeys' = RowKeys
         /\ \A i, j, d : RowKey(i, j, d)' = RowKey(i, j, d)
BY DEF Strategies, Assets, RowKeys, RowKey, Key
-----------------------------------------------------------------------------
(* A step that reports nothing and moves on to where the same rows are due. *)
LEMMA Moves ==
  ASSUME IInv, comparison' = comparison, rows' = rows, Places',
         pc # "benchmarks", pc' # "benchmarks",
         \A i \in DOMAIN Strategies, j \in DOMAIN Assets, d \in Dates :
           Past(i, j, d)' <=> Past(i, j, d),
         Remembered'
  PROVE  IInv'
<1>1. /\ Strategies' = Strategies /\ Assets' = Assets /\ RowKeys' = RowKeys
      /\ \A i, j, d : RowKey(i, j, d)' = RowKey(i, j, d)
  BY SameKeys
<1>2. Pages'
  BY <1>1 DEF IInv, Pages
<1>3. Counted'
  BY <1>1 DEF IInv, Counted, HoldKey, CashKey, Key
<1>4. Finality'
  BY <1>1 DEF IInv, Finality, Lost, HoldKey, CashKey, Key
<1> QED BY <1>2, <1>3, <1>4 DEF IInv

(* A step that reports the next date of the current strategy and asset. *)
LEMMA Reports ==
  ASSUME IInv, comparison' = comparison, s' = s, a' = a,
         pc \in {"date", "compound", "exit"}, pc' = "date",
         date' \in Dates, date' = Reach + 1,
         NEW status \in Statuses, Report(Row(date'), status),
         failedStatus' \in {"unavailable-entry", "incomplete"},
         \A d \in Dates : d <= Reach /\ Lost(rows[RowKey(s, a, d)]) =>
           status = failedStatus /\ failedStatus' = failedStatus /\ position' = None,
         status \in {"unavailable-entry", "incomplete"} =>
           position' = None /\ failedStatus' = status
  PROVE  IInv'
<1> DEFINE new == RowKey(s, a, date')
<1>1. /\ Strategies' = Strategies /\ Assets' = Assets /\ RowKeys' = RowKeys
      /\ \A i, j, d : RowKey(i, j, d)' = RowKey(i, j, d)
  BY SameKeys
<1>2. /\ comparison \in Comparisons /\ s \in DOMAIN Strategies /\ a \in DOMAIN Assets
      /\ Places /\ Pages /\ Counted /\ Finality /\ Remembered
      /\ s \in Nat /\ a \in Nat /\ date \in Nat /\ Reach \in Nat /\ date' \in Nat
  BY EngineAssumption DEF IInv, Places, Working, Reach, Dates
<1>3. new \in RowKeys
  BY <1>2, Keys
<1>4. Len(rows[new]) = 0
  <2>1. ~Past(s, a, date')
    BY <1>2 DEF Past
  <2> QED BY <1>2, <2>1 DEF Counted
<1>5. rows[new] = <<>>
  BY <1>2, <1>3, <1>4 DEF Pages
<1>6. /\ rows' = [rows EXCEPT ![new] = Append(@, status)]
      /\ rows'[new] = <<status>> /\ \A k \in RowKeys : k # new => rows'[k] = rows[k]
  <2>1. rows' = [rows EXCEPT ![new] = Append(rows[new], status)]
    BY DEF Report, Row, RowKey
  <2>2. Append(rows[new], status) = <<status>>
    BY <1>5
  <2> HIDE DEF new
  <2> QED BY <1>2, <1>3, <2>1, <2>2 DEF Pages
<1> HIDE DEF new
<1>7. Pages'
  <2>1. <<status>> \in Seq(Statuses)
    OBVIOUS
  <2>2. \A k \in RowKeys : rows'[k] \in Seq(Statuses)
    BY <1>2, <1>6, <2>1 DEF Pages
  <2>3. rows' = [k \in RowKeys |-> rows'[k]]
    BY <1>2, <1>6 DEF Pages
  <2> QED BY <1>1, <2>2, <2>3 DEF Pages, Statuses
<1>8. /\ \A i \in DOMAIN Holdings, d \in Dates :
           HoldKey(i, d) \in RowKeys /\ rows'[HoldKey(i, d)] = rows[HoldKey(i, d)]
      /\ \A d \in Dates : CashKey(d) \in RowKeys /\ rows'[CashKey(d)] = rows[CashKey(d)]
      /\ \A i \in DOMAIN Strategies, j \in DOMAIN Assets, d \in Dates :
           /\ RowKey(i, j, d) \in RowKeys
           /\ rows'[RowKey(i, j, d)] = IF i = s /\ j = a /\ d = date' THEN <<status>>
                                       ELSE rows[RowKey(i, j, d)]
  <2>1. ASSUME NEW i \in DOMAIN Holdings, NEW d \in Dates
        PROVE  HoldKey(i, d) \in RowKeys /\ HoldKey(i, d) # new
    <3>1. HoldKey(i, d) \in RowKeys
      BY <1>2, Keys
    <3>2. \A e \in Dates, h \in DOMAIN Holdings : RowKey(s, a, date') # HoldKey(h, e)
      BY <1>2, KeysDiffer
    <3> QED BY <3>1, <3>2 DEF new
  <2>2. ASSUME NEW d \in Dates PROVE CashKey(d) \in RowKeys /\ CashKey(d) # new
    <3>1. CashKey(d) \in RowKeys
      BY <1>2, Keys
    <3>2. \A e \in Dates : RowKey(s, a, date') # CashKey(e)
      BY <1>2, KeysDiffer
    <3> QED BY <3>1, <3>2 DEF new
  <2>3. ASSUME NEW i \in DOMAIN Strategies, NEW j \in DOMAIN Assets, NEW d \in Dates
        PROVE  /\ RowKey(i, j, d) \in RowKeys
               /\ RowKey(i, j, d) = new <=> i = s /\ j = a /\ d = date'
    <3>1. RowKey(i, j, d) \in RowKeys
      BY <1>2, Keys
    <3>2. RowKey(i, j, d) = RowKey(s, a, date') => i = s /\ j = a /\ d = date'
      BY <1>2, SameRow
    <3> QED BY <3>1, <3>2 DEF new
  <2> QED BY <1>6, <2>1, <2>2, <2>3
<1>9. Reach' = date' /\ Reach' = Reach + 1
  BY DEF Reach
<1>10. Places'
  BY <1>1, <1>2 DEF Places, Working, Dates
<1>11. Counted'
  <2>1. \A i \in DOMAIN Strategies, j \in DOMAIN Assets, d \in Dates :
          Past(i, j, d)' <=> Past(i, j, d) \/ (i = s /\ j = a /\ d = date')
    BY <1>2, <1>9 DEF Past, Dates
  <2>2. \A i \in DOMAIN Strategies, j \in DOMAIN Assets, d \in Dates :
          Len(rows'[RowKey(i, j, d)]) = IF Past(i, j, d)' THEN 1 ELSE 0
    <3> SUFFICES ASSUME NEW i \in DOMAIN Strategies, NEW j \in DOMAIN Assets, NEW d \in Dates
                 PROVE  Len(rows'[RowKey(i, j, d)]) = IF Past(i, j, d)' THEN 1 ELSE 0
      OBVIOUS
    <3>1. Len(<<status>>) = 1
      OBVIOUS
    <3>2. Len(rows[RowKey(i, j, d)]) = IF Past(i, j, d) THEN 1 ELSE 0
      BY <1>2 DEF Counted
    <3>3. Past(i, j, d)' <=> Past(i, j, d) \/ (i = s /\ j = a /\ d = date')
      BY <2>1
    <3>4. CASE i = s /\ j = a /\ d = date'
      BY <1>8, <3>1, <3>3, <3>4
    <3>5. CASE ~(i = s /\ j = a /\ d = date')
      BY <1>8, <3>2, <3>3, <3>5
    <3> QED BY <3>4, <3>5
  <2>3. \A i \in DOMAIN Holdings, d \in Dates : Len(rows'[HoldKey(i, d)]) = 1
    BY <1>2, <1>8 DEF Counted
  <2>4. \A d \in Dates : Len(rows'[CashKey(d)]) = 1
    BY <1>2, <1>8 DEF Counted
  <2> QED BY <1>1, <2>2, <2>3, <2>4 DEF Counted, HoldKey, CashKey, Key
<1>12. Finality'
  <2>1. ASSUME NEW i \in DOMAIN Strategies, NEW j \in DOMAIN Assets,
               NEW d \in Dates, NEW e \in Dates, d < e,
               Lost(rows'[RowKey(i, j, d)]), rows'[RowKey(i, j, e)] # <<>>
        PROVE  rows'[RowKey(i, j, e)] = rows'[RowKey(i, j, d)]
    <3>1. CASE ~(i = s /\ j = a /\ (d = date' \/ e = date'))
      <4>1. /\ rows'[RowKey(i, j, d)] = rows[RowKey(i, j, d)]
            /\ rows'[RowKey(i, j, e)] = rows[RowKey(i, j, e)]
        BY <1>8, <3>1
      <4>2. Lost(rows[RowKey(i, j, d)]) /\ rows[RowKey(i, j, e)] # <<>>
        BY <2>1, <4>1
      <4>3. rows[RowKey(i, j, e)] = rows[RowKey(i, j, d)]
        BY <1>2, <2>1, <4>2 DEF Finality
      <4> QED BY <4>1, <4>3
    <3>2. CASE i = s /\ j = a /\ d = date'
      <4>1. e # date' /\ ~Past(s, a, e)
        BY <1>2, <2>1, <3>2 DEF Past, Dates
      <4>2. Len(rows[RowKey(s, a, e)]) = 0 /\ rows[RowKey(s, a, e)] \in Seq(Statuses)
        BY <1>2, <1>8, <4>1 DEF Counted, Pages
      <4>3. rows'[RowKey(s, a, e)] = <<>>
        BY <1>2, <1>8, <4>1, <4>2
      <4> QED BY <2>1, <3>2, <4>3
    <3>3. CASE i = s /\ j = a /\ e = date'
      <4>1. d # date' /\ d <= Reach
        BY <1>2, <2>1, <3>3 DEF Dates
      <4>2. Lost(rows[RowKey(s, a, d)])
        BY <1>2, <1>8, <2>1, <3>3, <4>1
      <4>3. rows[RowKey(s, a, d)] = <<failedStatus>> /\ status = failedStatus
        BY <1>2, <4>1, <4>2 DEF Remembered
      <4> QED BY <1>2, <1>8, <3>3, <4>1, <4>3
    <3> QED BY <3>1, <3>2, <3>3
  <2>2. /\ \A i \in DOMAIN Holdings, d \in Dates : ~Lost(rows'[HoldKey(i, d)])
        /\ \A d \in Dates : ~Lost(rows'[CashKey(d)])
    BY <1>2, <1>8 DEF Finality
  <2> QED BY <1>1, <2>1, <2>2 DEF Finality, Lost, HoldKey, CashKey, Key
<1>13. Remembered'
  <2>1. ASSUME NEW d \in Dates, d <= Reach', Lost(rows'[RowKey(s, a, d)])
        PROVE  position' = None /\ rows'[RowKey(s, a, d)] = <<failedStatus'>>
    <3>1. CASE d = date'
      <4>1. rows'[RowKey(s, a, d)] = <<status>>
        BY <1>2, <1>8, <3>1
      <4>2. status \in {"unavailable-entry", "incomplete"}
        BY <2>1, <4>1 DEF Lost
      <4> QED BY <4>1, <4>2
    <3>2. CASE d # date'
      <4>1. d <= Reach /\ rows'[RowKey(s, a, d)] = rows[RowKey(s, a, d)]
        BY <1>2, <1>8, <1>9, <2>1, <3>2 DEF Dates
      <4>2. rows[RowKey(s, a, d)] = <<failedStatus>>
        BY <1>2, <2>1, <4>1 DEF Remembered
      <4> QED BY <2>1, <4>1, <4>2
    <3> QED BY <3>1, <3>2
  <2> QED BY <1>1, <2>1 DEF Remembered, Lost
<1> QED BY <1>7, <1>10, <1>11, <1>12, <1>13 DEF IInv
-----------------------------------------------------------------------------
LEMMA InitIInv == Init => IInv
<1> SUFFICES ASSUME Init PROVE IInv
  OBVIOUS
<1> USE DEF Init
<1>1. comparison \in Comparisons /\ Final \in Nat /\ Len(Holdings) \in Nat
  BY EngineAssumption
<1>2. Places
  BY <1>1 DEF Places, Working
<1>3. Pages
  BY DEF Pages
<1>4. \A k \in RowKeys : rows[k] = <<>> /\ Len(rows[k]) = 0 /\ ~Lost(rows[k])
  BY DEF Lost
<1>5. /\ \A i \in DOMAIN Holdings, d \in Dates : HoldKey(i, d) \in RowKeys
      /\ \A d \in Dates : CashKey(d) \in RowKeys
      /\ \A i \in DOMAIN Strategies, j \in DOMAIN Assets, d \in Dates :
           RowKey(i, j, d) \in RowKeys
  BY <1>1, Keys
<1>6. \A i \in DOMAIN Holdings : i >= 1
  BY EngineAssumption
<1>7. Counted
  BY <1>4, <1>5, <1>6 DEF Counted
<1>8. Finality
  BY <1>4, <1>5 DEF Finality
<1>9. Remembered
  BY DEF Remembered
<1> QED BY <1>2, <1>3, <1>7, <1>8, <1>9 DEF IInv

(* A benchmark's rows are there at all dates at once. *)
LEMMA HoldIInv == IInv /\ Hold => IInv'
<1> SUFFICES ASSUME IInv, Hold PROVE IInv'
  OBVIOUS
<1>1. /\ pc = "benchmarks" /\ pc' = pc /\ a <= Len(Holdings) /\ a' = a + 1 /\ s' = s
      /\ comparison' = comparison /\ date' = date /\ failedStatus' = failedStatus
  BY DEF Hold
<1>2. /\ Strategies' = Strategies /\ Assets' = Assets /\ RowKeys' = RowKeys
      /\ \A i, j, d : RowKey(i, j, d)' = RowKey(i, j, d)
  BY <1>1, SameKeys
<1>3. /\ comparison \in Comparisons /\ Places /\ Pages /\ Counted /\ Finality
      /\ a \in Nat \ {0} /\ Len(Holdings) \in Nat /\ DOMAIN Holdings = 1..Len(Holdings)
  BY EngineAssumption DEF IInv, Places
<1>4. a \in DOMAIN Holdings
  BY <1>1, <1>3
<1>5. PICK started \in BOOLEAN, priced \in SUBSET Dates :
        rows' = [k \in RowKeys |->
                   IF k[1] = "hold" /\ k[2] = Holdings[a]
                   THEN Append(rows[k], IF started /\ k[3] \in priced
                                        THEN "complete" ELSE "unavailable")
                   ELSE rows[k]]
  BY DEF Hold
<1>6. \A i \in DOMAIN Holdings, d \in Dates :
        /\ HoldKey(i, d) \in RowKeys
        /\ HoldKey(i, d)[1] = "hold"
        /\ HoldKey(i, d)[2] = Holdings[a] <=> i = a
  <2>1. \A i \in DOMAIN Holdings : Holdings[i] = Holdings[a] => i = a
    BY <1>4, EngineAssumption DEF IsInjective
  <2> QED BY <1>3, <2>1, Keys DEF HoldKey
<1>7. \A d \in Dates : CashKey(d) \in RowKeys /\ CashKey(d)[1] # "hold"
  BY <1>3, Keys DEF CashKey, Key
<1>8. \A i \in DOMAIN Strategies, j \in DOMAIN Assets, d \in Dates :
        RowKey(i, j, d) \in RowKeys /\ RowKey(i, j, d)[1] # "hold"
  BY <1>3, Keys, KeysDiffer
<1>9. /\ \A d \in Dates : rows'[CashKey(d)] = rows[CashKey(d)]
      /\ \A i \in DOMAIN Strategies, j \in DOMAIN Assets, d \in Dates :
           rows'[RowKey(i, j, d)] = rows[RowKey(i, j, d)]
      /\ \A i \in DOMAIN Holdings, d \in Dates :
           i # a => rows'[HoldKey(i, d)] = rows[HoldKey(i, d)]
  BY <1>5, <1>6, <1>7, <1>8
<1>10. \A d \in Dates : \E status \in {"complete", "unavailable"} :
         rows'[HoldKey(a, d)] = <<status>>
  <2> SUFFICES ASSUME NEW d \in Dates
               PROVE  \E status \in {"complete", "unavailable"} : rows'[HoldKey(a, d)] = <<status>>
    OBVIOUS
  <2>1. Len(rows[HoldKey(a, d)]) = 0
    BY <1>1, <1>3, <1>4 DEF Counted
  <2>2. rows[HoldKey(a, d)] = <<>>
    BY <1>3, <1>4, <1>6, <2>1 DEF Pages
  <2>3. \A status : Append(rows[HoldKey(a, d)], status) = <<status>>
    BY <2>2
  <2> QED BY <1>4, <1>5, <1>6, <2>3
<1>11. Places'
  BY <1>1, <1>2, <1>3 DEF Places, Working
<1>12. Pages'
  <2>1. \A k \in RowKeys : rows'[k] \in Seq(Statuses)
    BY <1>3, <1>5 DEF Pages, Statuses
  <2>2. rows' = [k \in RowKeys |-> rows'[k]]
    BY <1>5
  <2> QED BY <1>2, <2>1, <2>2 DEF Pages, Statuses
<1>13. Counted'
  <2>1. ASSUME NEW i \in DOMAIN Holdings, NEW d \in Dates
        PROVE  Len(rows'[HoldKey(i, d)]) = IF a + 1 <= i THEN 0 ELSE 1
    <3>1. CASE i = a
      <4>1. PICK status : rows'[HoldKey(a, d)] = <<status>>
        BY <1>10
      <4> QED BY <1>3, <3>1, <4>1
    <3>2. CASE i # a
      BY <1>1, <1>3, <1>9, <3>2 DEF Counted
    <3> QED BY <3>1, <3>2
  <2>2. /\ \A d \in Dates : Len(rows'[CashKey(d)]) = 0
        /\ \A i \in DOMAIN Strategies, j \in DOMAIN Assets, d \in Dates :
             Len(rows'[RowKey(i, j, d)]) = 0
    BY <1>1, <1>3, <1>9 DEF Counted
  <2> QED BY <1>1, <1>2, <2>1, <2>2 DEF Counted, HoldKey, CashKey, Key
<1>14. Finality'
  <2>1. ASSUME NEW i \in DOMAIN Holdings, NEW d \in Dates PROVE ~Lost(rows'[HoldKey(i, d)])
    <3>1. CASE i = a
      <4>1. PICK status \in {"complete", "unavailable"} : rows'[HoldKey(a, d)] = <<status>>
        BY <1>10
      <4> QED BY <3>1, <4>1 DEF Lost
    <3>2. CASE i # a
      BY <1>3, <1>9, <3>2 DEF Finality
    <3> QED BY <3>1, <3>2
  <2>2. \A d \in Dates : ~Lost(rows'[CashKey(d)])
    BY <1>3, <1>9 DEF Finality
  <2>3. ASSUME NEW i \in DOMAIN Strategies, NEW j \in DOMAIN Assets,
               NEW d \in Dates, NEW e \in Dates, d < e,
               Lost(rows'[RowKey(i, j, d)]), rows'[RowKey(i, j, e)] # <<>>
        PROVE  rows'[RowKey(i, j, e)] = rows'[RowKey(i, j, d)]
    BY <1>3, <1>9, <2>3 DEF Finality
  <2> QED BY <1>2, <2>1, <2>2, <2>3 DEF Finality, Lost, HoldKey, CashKey, Key
<1>15. Remembered'
  BY <1>1 DEF Remembered
<1> QED BY <1>11, <1>12, <1>13, <1>14, <1>15 DEF IInv

LEMMA CashIInv == IInv /\ Cash => IInv'
<1> SUFFICES ASSUME IInv, Cash PROVE IInv'
  OBVIOUS
<1>1. /\ pc = "benchmarks" /\ pc' = (IF Strategies = <<>> THEN "done" ELSE "verify")
      /\ a > Len(Holdings) /\ a' = 1 /\ s' = s
      /\ comparison' = comparison /\ date' = date /\ failedStatus' = failedStatus
      /\ rows' = [k \in RowKeys |-> IF k[1] = "cash" THEN Append(rows[k], "complete")
                                    ELSE rows[k]]
  BY DEF Cash
<1>2. /\ Strategies' = Strategies /\ Assets' = Assets /\ RowKeys' = RowKeys
      /\ \A i, j, d : RowKey(i, j, d)' = RowKey(i, j, d)
  BY <1>1, SameKeys
<1>3. /\ comparison \in Comparisons /\ Places /\ Pages /\ Counted /\ Finality
      /\ Len(Holdings) \in Nat /\ DOMAIN Holdings = 1..Len(Holdings) /\ s = 1
      /\ a \in Nat \ {0}
  BY <1>1, EngineAssumption DEF IInv, Places
<1>4. /\ Len(Strategies) \in Nat /\ DOMAIN Strategies = 1..Len(Strategies)
      /\ Strategies = <<>> <=> Len(Strategies) = 0
      /\ Len(Assets) \in Nat \ {0} /\ DOMAIN Assets = 1..Len(Assets)
  <2>1. Strategies \in Seq(ToSet(Strategies)) /\ Assets \in Seq(ToSet(Assets))
        /\ Assets # <<>>
    BY <1>3, EngineAssumption DEF Strategies, Assets
  <2> QED BY <2>1
<1>5. \A d \in Dates : CashKey(d) \in RowKeys /\ CashKey(d)[1] = "cash"
  BY <1>3, Keys DEF CashKey, Key
<1>6. \A i \in DOMAIN Strategies, j \in DOMAIN Assets, d \in Dates :
        RowKey(i, j, d) \in RowKeys /\ RowKey(i, j, d)[1] # "cash"
  BY <1>3, Keys, KeysDiffer
<1>7. \A i \in DOMAIN Holdings, d \in Dates :
        HoldKey(i, d) \in RowKeys /\ HoldKey(i, d)[1] # "cash"
  BY <1>3, Keys DEF HoldKey
<1>8. /\ \A i \in DOMAIN Holdings, d \in Dates : rows'[HoldKey(i, d)] = rows[HoldKey(i, d)]
      /\ \A i \in DOMAIN Strategies, j \in DOMAIN Assets, d \in Dates :
           rows'[RowKey(i, j, d)] = rows[RowKey(i, j, d)]
  BY <1>1, <1>6, <1>7
<1>9. \A d \in Dates : rows'[CashKey(d)] = <<"complete">>
  <2> SUFFICES ASSUME NEW d \in Dates PROVE rows'[CashKey(d)] = <<"complete">>
    OBVIOUS
  <2>1. Len(rows[CashKey(d)]) = 0 /\ rows[CashKey(d)] \in Seq(Statuses)
    BY <1>1, <1>3, <1>5 DEF Counted, Pages
  <2>2. rows[CashKey(d)] = <<>>
    BY <2>1
  <2>3. Append(rows[CashKey(d)], "complete") = <<"complete">>
    BY <2>2
  <2> QED BY <1>1, <1>5, <2>3
<1>10. Places'
  <2>1. 1 \in DOMAIN Assets /\ (Strategies # <<>> => 1 \in DOMAIN Strategies)
    BY <1>4
  <2> QED BY <1>1, <1>2, <1>3, <1>4, <2>1 DEF Places, Working
<1>11. Pages'
  <2>1. \A k \in RowKeys : rows'[k] \in Seq(Statuses)
    BY <1>1, <1>3 DEF Pages, Statuses
  <2>2. rows' = [k \in RowKeys |-> rows'[k]]
    BY <1>1
  <2> QED BY <1>2, <2>1, <2>2 DEF Pages, Statuses
<1>12. Counted'
  <2>1. \A d \in Dates : Len(rows'[CashKey(d)]) = 1
    BY <1>9
  <2>2. ASSUME NEW i \in DOMAIN Holdings, NEW d \in Dates
        PROVE  Len(rows'[HoldKey(i, d)]) = 1
    <3>1. i \in Nat /\ ~(a <= i)
      BY <1>1, <1>3
    <3>2. Len(rows[HoldKey(i, d)]) = 1
      BY <1>1, <1>3, <3>1 DEF Counted
    <3> QED BY <1>8, <3>2
  <2>3. ASSUME NEW i \in DOMAIN Strategies, NEW j \in DOMAIN Assets, NEW d \in Dates
        PROVE  Len(rows'[RowKey(i, j, d)]) = 0 /\ ~Past(i, j, d)'
    <3>0. Len(rows[RowKey(i, j, d)]) = 0
      BY <1>1, <1>3 DEF Counted
    <3>1. Len(rows'[RowKey(i, j, d)]) = 0
      BY <1>8, <3>0
    <3>2. i >= 1 /\ j >= 1 /\ d >= 1 /\ i \in Nat /\ j \in Nat /\ d \in Nat
      BY <1>4 DEF Dates
    <3>3. (pc' = "verify" \/ Strategies = <<>>) /\ s' = 1 /\ a' = 1
      BY <1>1, <1>3
    <3>4. pc' = "verify"
      BY <1>4, <3>3
    <3>5. ~Past(i, j, d)'
      BY <3>2, <3>3, <3>4 DEF Past, Reach
    <3> QED BY <3>1, <3>5
  <2>4. pc' # "benchmarks"
    BY <1>1
  <2> QED BY <1>2, <2>1, <2>2, <2>3, <2>4 DEF Counted, HoldKey, CashKey, Key
<1>13. Finality'
  <2>1. \A d \in Dates : ~Lost(rows'[CashKey(d)])
    BY <1>9 DEF Lost
  <2>2. \A i \in DOMAIN Holdings, d \in Dates : ~Lost(rows'[HoldKey(i, d)])
    BY <1>3, <1>8 DEF Finality
  <2>3. ASSUME NEW i \in DOMAIN Strategies, NEW j \in DOMAIN Assets,
               NEW d \in Dates, NEW e \in Dates, d < e,
               Lost(rows'[RowKey(i, j, d)]), rows'[RowKey(i, j, e)] # <<>>
        PROVE  rows'[RowKey(i, j, e)] = rows'[RowKey(i, j, d)]
    BY <1>3, <1>8, <2>3 DEF Finality
  <2> QED BY <1>2, <2>1, <2>2, <2>3 DEF Finality, Lost, HoldKey, CashKey, Key
<1>14. Remembered'
  BY <1>1 DEF Remembered
<1> QED BY <1>10, <1>11, <1>12, <1>13, <1>14 DEF IInv
-----------------------------------------------------------------------------
(* The steps of the loops over dates, assets and strategies. *)
LEMMA Shape ==
  ASSUME IInv
  PROVE  /\ Len(Strategies) \in Nat /\ DOMAIN Strategies = 1..Len(Strategies)
         /\ Len(Assets) \in Nat \ {0} /\ DOMAIN Assets = 1..Len(Assets)
         /\ Final \in Nat \ {0} /\ date \in Nat /\ s \in Nat \ {0} /\ a \in Nat \ {0}
         /\ Dates \subseteq Nat \ {0}
<1>1. Strategies \in Seq(ToSet(Strategies)) /\ Assets \in Seq(ToSet(Assets)) /\ Assets # <<>>
  BY EngineAssumption DEF IInv, Places, Strategies, Assets
<1>2. Len(Assets) \in Nat \ {0}
  BY <1>1
<1> QED BY <1>1, <1>2, EngineAssumption DEF IInv, Places, Dates

\* the entry of a strategy and asset: none of its dates has a row yet
LEMMA EntersIInv ==
  ASSUME IInv, pc \in {"verify", "enter"}, comparison' = comparison, rows' = rows,
         s' = s, a' = a,
         \/ pc' = "enter" /\ date' = date /\ failedStatus' = failedStatus
         \/ pc' = "date" /\ date' = 0 /\ failedStatus' = "unavailable-entry"
  PROVE  IInv'
<1>1. Strategies' = Strategies /\ Assets' = Assets
  BY SameKeys
<1>2. Places'
  BY <1>1, Shape DEF IInv, Places, Working
<1>3. Reach = 0 /\ Reach' = 0
  BY DEF Reach
<1>4. \A i \in DOMAIN Strategies, j \in DOMAIN Assets, d \in Dates :
        Past(i, j, d)' <=> Past(i, j, d)
  BY <1>3 DEF Past
<1>5. Remembered'
  BY <1>3, Shape DEF Remembered, Dates
<1> QED BY <1>2, <1>4, <1>5, Moves

LEMMA VerifyIInv == IInv /\ Verify => IInv'
BY EntersIInv DEF Verify

LEMMA EnterFailsIInv == IInv /\ EnterFails => IInv'
BY EntersIInv DEF EnterFails

LEMMA EnterIInv == IInv /\ Enter => IInv'
BY EntersIInv DEF Enter

\* a date is taken up, and a compound leads to its exit
LEMMA StaysIInv ==
  ASSUME IInv, pc \in {"date", "compound", "exit"}, pc' \in {"compound", "exit"},
         comparison' = comparison, rows' = rows, s' = s, a' = a,
         failedStatus' = failedStatus, date' \in Dates, Reach' = Reach,
         pc = "date" => position # None
  PROVE  IInv'
<1>1. /\ Strategies' = Strategies /\ Assets' = Assets
      /\ RowKey(s, a, 0)' = RowKey(s, a, 0)
      /\ \A d : RowKey(s, a, d)' = RowKey(s, a, d)
  BY SameKeys
<1>2. Places'
  BY <1>1, Shape DEF IInv, Places, Working, Dates
<1>3. \A i \in DOMAIN Strategies, j \in DOMAIN Assets, d \in Dates :
        Past(i, j, d)' <=> Past(i, j, d)
  BY DEF Past
<1>4. \A d \in Dates : ~(d <= Reach /\ Lost(rows[RowKey(s, a, d)]))
  BY DEF IInv, Remembered
<1>5. Remembered'
  BY <1>1, <1>4 DEF Remembered, Lost, Dates
<1> QED BY <1>2, <1>3, <1>5, Moves

LEMMA NextDateIInv == IInv /\ NextDate => IInv'
<1> SUFFICES ASSUME IInv, NextDate PROVE IInv'
  OBVIOUS
<1>1. pc = "date" /\ position # None /\ date' = date + 1 /\ date < Final
      /\ pc' \in {"compound", "exit"}
  BY DEF NextDate
<1>2. date' \in Dates
  BY <1>1, Shape DEF Dates
<1>3. Reach' = Reach
  BY <1>1, Shape DEF Reach
<1> QED BY <1>1, <1>2, <1>3, StaysIInv DEF NextDate

LEMMA CompoundedIInv ==
  ASSUME IInv, pc = "compound", pc' = "exit", comparison' = comparison, rows' = rows,
         s' = s, a' = a, date' = date, failedStatus' = failedStatus
  PROVE  IInv'
<1>1. date' \in Dates
  BY Shape DEF IInv, Places, Dates
<1>2. Reach' = Reach
  BY DEF Reach
<1> QED BY <1>1, <1>2, StaysIInv

LEMMA CompoundIInv == IInv /\ Compound => IInv'
BY CompoundedIInv DEF Compound

LEMMA SkipCompoundIInv == IInv /\ SkipCompound => IInv'
BY CompoundedIInv DEF SkipCompound

LEMMA NextAssetIInv == IInv /\ NextAsset => IInv'
<1> SUFFICES ASSUME IInv, NextAsset PROVE IInv'
  OBVIOUS
<1>1. /\ pc = "date" /\ date = Final /\ comparison' = comparison /\ rows' = rows
      /\ date' = date /\ failedStatus' = failedStatus
      /\ IF a < Len(Assets) THEN a' = a + 1 /\ s' = s /\ pc' = "enter"
         ELSE /\ a' = 1 /\ s' = s + 1
              /\ pc' = IF s < Len(Strategies) THEN "verify" ELSE "done"
  BY DEF NextAsset
<1>2. Strategies' = Strategies /\ Assets' = Assets
  BY <1>1, SameKeys
<1>3. s \in DOMAIN Strategies /\ a \in DOMAIN Assets
  BY <1>1 DEF IInv, Places, Working
<1>4. Places'
  <2>1. CASE a < Len(Assets)
    BY <1>1, <1>2, <1>3, <2>1, Shape DEF IInv, Places, Working
  <2>2. CASE ~(a < Len(Assets)) /\ s < Len(Strategies)
    <3>1. s' \in DOMAIN Strategies /\ a' \in DOMAIN Assets
      BY <1>1, <1>3, <2>2, Shape
    <3> QED BY <1>1, <1>2, <1>3, <2>2, <3>1, Shape DEF IInv, Places, Working
  <2>3. CASE ~(a < Len(Assets)) /\ ~(s < Len(Strategies))
    BY <1>1, <1>2, <1>3, <2>3, Shape DEF IInv, Places, Working
  <2> QED BY <2>1, <2>2, <2>3
<1>5. Reach = Final /\ Reach' = 0
  BY <1>1 DEF Reach
<1>6. ASSUME NEW i \in DOMAIN Strategies, NEW j \in DOMAIN Assets, NEW d \in Dates
      PROVE  Past(i, j, d)' <=> Past(i, j, d)
  <2>1. /\ i \in Nat /\ j \in Nat /\ d \in Nat /\ j <= Len(Assets) /\ j >= 1
        /\ ~(d <= 0) /\ d <= Final
    BY Shape DEF Dates
  <2>2. Past(i, j, d) <=> i < s \/ (i = s /\ j <= a)
    BY <1>5, <2>1, Shape DEF Past
  <2>3. Past(i, j, d)' <=> i < s' \/ (i = s' /\ j < a')
    BY <1>5, <2>1 DEF Past
  <2> QED BY <1>1, <1>3, <2>1, <2>2, <2>3, Shape
<1>7. Remembered'
  BY <1>1 DEF Remembered
<1> QED BY <1>1, <1>4, <1>6, <1>7, Moves

LEMMA LostDateIInv == IInv /\ LostDate => IInv'
<1> SUFFICES ASSUME IInv, LostDate PROVE IInv'
  OBVIOUS
<1>1. /\ pc = "date" /\ pc' = pc /\ date < Final /\ date' = date + 1 /\ position = None
      /\ position' = position /\ failedStatus' = failedStatus /\ s' = s /\ a' = a
      /\ comparison' = comparison /\ Report(Row(date'), failedStatus)
  BY DEF LostDate
<1>2. failedStatus \in {"unavailable-entry", "incomplete"}
  BY DEF IInv, Places
<1>3. failedStatus \in Statuses
  BY <1>2 DEF Statuses
<1>4. date' \in Dates /\ date' = Reach + 1
  BY <1>1, Shape DEF Dates, Reach
<1> QED BY <1>1, <1>2, <1>3, <1>4, Reports

\* the rows of a date that had a position: none before it was lost
LEMMA StandsIInv ==
  ASSUME IInv, comparison' = comparison, s' = s, a' = a, date' = date,
         pc \in {"compound", "exit"}, pc' = "date",
         NEW status \in Statuses, Report(Row(date), status),
         \/ status = "incomplete" /\ failedStatus' = "incomplete" /\ position' = None
         \/ status \in {"complete", "unavailable-exit"} /\ failedStatus' = failedStatus
  PROVE  IInv'
<1>1. date' \in Dates /\ date' = Reach + 1
  BY Shape DEF IInv, Places, Dates, Reach
<1>2. \A d \in Dates : ~(d <= Reach /\ Lost(rows[RowKey(s, a, d)]))
  BY DEF IInv, Remembered
<1>3. failedStatus' \in {"unavailable-entry", "incomplete"}
  BY DEF IInv, Places
<1>4. Report(Row(date'), status)
  OBVIOUS
<1>5. status \in {"unavailable-entry", "incomplete"} => position' = None /\ failedStatus' = status
  OBVIOUS
<1> QED BY <1>1, <1>2, <1>3, <1>4, <1>5, Reports

LEMMA LosePositionIInv == IInv /\ LosePosition => IInv'
<1>1. "incomplete" \in Statuses
  BY DEF Statuses
<1> QED BY <1>1, StandsIInv DEF LosePosition

LEMMA ExitIInv == IInv /\ Exit => IInv'
<1>1. "complete" \in Statuses
  BY DEF Statuses
<1>2. Exit => /\ pc = "exit" /\ pc' = "date" /\ Report(Row(date), "complete")
              /\ comparison' = comparison /\ s' = s /\ a' = a /\ date' = date
              /\ failedStatus' = failedStatus
  BY DEF Exit
<1> QED BY <1>1, <1>2, StandsIInv

LEMMA ExitUnavailableIInv == IInv /\ ExitUnavailable => IInv'
<1>1. "unavailable-exit" \in Statuses
  BY DEF Statuses
<1> QED BY <1>1, StandsIInv DEF ExitUnavailable

LEMMA StutterIInv == IInv /\ UNCHANGED vars => IInv'
<1> SUFFICES ASSUME IInv, UNCHANGED vars PROVE IInv'
  OBVIOUS
<1> USE DEF vars
<1>1. Strategies' = Strategies /\ Assets' = Assets /\ RowKeys' = RowKeys
  BY SameKeys
<1>2. Places'
  BY <1>1 DEF IInv, Places
<1>3. Pages'
  BY <1>1 DEF IInv, Pages
<1>4. Counted' 
  BY <1>1 DEF IInv, Counted, Past, Reach, HoldKey, CashKey, RowKey, Key
<1>5. Finality'
  BY <1>1 DEF IInv, Finality, Lost, HoldKey, CashKey, RowKey, Key
<1>6. Remembered'
  BY <1>1 DEF IInv, Remembered, Reach, Lost, RowKey, Key
<1> QED BY <1>2, <1>3, <1>4, <1>5, <1>6 DEF IInv

(* Every step leaves each strategy, asset and date with the rows that are due, and
   what was lost as it was. *)
LEMMA NextIInv == IInv /\ [Next]_vars => IInv'
BY HoldIInv, CashIInv, VerifyIInv, EnterFailsIInv, EnterIInv, LostDateIInv, NextDateIInv,
   CompoundIInv, SkipCompoundIInv, LosePositionIInv, ExitIInv, ExitUnavailableIInv,
   NextAssetIInv, StutterIInv DEF Next, Done

(* The rows reported so far are those of the benchmarks, strategies, assets and
   dates already passed, and the last one is remembered until the next. *)
THEOREM Inductive == Spec => []IInv
BY InitIInv, NextIInv, PTL DEF Spec
-----------------------------------------------------------------------------
LEMMA IInvOneRow == IInv => OneRowEach
<1> SUFFICES ASSUME IInv, NEW k \in RowKeys
             PROVE  Len(rows[k]) <= 1 /\ (pc = "done" => Len(rows[k]) = 1)
  BY DEF OneRowEach
<1>1. comparison \in Comparisons /\ Counted /\ (pc = "done" => s = Len(Strategies) + 1)
  BY DEF IInv, Places
<1>2. ASSUME NEW i \in DOMAIN Holdings, NEW d \in Dates, k = HoldKey(i, d)
      PROVE  Len(rows[k]) <= 1 /\ (pc = "done" => Len(rows[k]) = 1)
  <2>1. Len(rows[k]) = IF pc = "benchmarks" /\ a <= i THEN 0 ELSE 1
    BY <1>1, <1>2 DEF Counted
  <2> QED BY <2>1
<1>3. ASSUME NEW d \in Dates, k = CashKey(d)
      PROVE  Len(rows[k]) <= 1 /\ (pc = "done" => Len(rows[k]) = 1)
  <2>1. Len(rows[k]) = IF pc = "benchmarks" THEN 0 ELSE 1
    BY <1>1, <1>3 DEF Counted
  <2> QED BY <2>1
<1>4. ASSUME NEW i \in DOMAIN Strategies, NEW j \in DOMAIN Assets, NEW d \in Dates,
             k = RowKey(i, j, d)
      PROVE  Len(rows[k]) <= 1 /\ (pc = "done" => Len(rows[k]) = 1)
  <2>1. pc = "done" => Past(i, j, d)
    BY <1>1, Shape DEF Past
  <2>2. Len(rows[k]) = IF pc # "benchmarks" /\ Past(i, j, d) THEN 1 ELSE 0
    BY <1>1, <1>4 DEF Counted
  <2> QED BY <2>1, <2>2
<1> QED BY <1>1, <1>2, <1>3, <1>4, Keys

(* Every strategy, asset and date gets one row, whatever failed on the way: at most
   one at any time, and exactly one when compare() returns. *)
THEOREM OneRow == Spec => []OneRowEach
BY Inductive, IInvOneRow, PTL

LEMMA IInvLossIsFinal == IInv => LossIsFinal
<1> SUFFICES ASSUME IInv, NEW k \in RowKeys, NEW l \in RowKeys,
                    k[1] = l[1], k[2] = l[2], k[3] < l[3],
                    rows[k] # <<>>, rows[l] # <<>>, Lost(rows[k])
             PROVE  rows[l] = rows[k]
  BY DEF LossIsFinal, Lost
<1>1. comparison \in Comparisons /\ Finality
  BY DEF IInv, Places
<1>2. PICK i \in DOMAIN Strategies, j \in DOMAIN Assets, d \in Dates : k = RowKey(i, j, d)
  BY <1>1, Keys DEF Finality
<1>3. k[1] = Strategies[i] /\ k[2] = Assets[j] /\ k[3] = d
  BY <1>2 DEF RowKey, Key
<1>4. Strategies[i] \notin {"hold", "cash"}
  BY <1>1, <1>2, <1>3, KeysDiffer
<1>5. PICK m \in DOMAIN Strategies, n \in DOMAIN Assets, e \in Dates : l = RowKey(m, n, e)
  <2>1. \A h \in DOMAIN Holdings, e \in Dates : l # HoldKey(h, e)
    BY <1>2, <1>3, <1>4 DEF HoldKey
  <2>2. \A e \in Dates : l # CashKey(e)
    BY <1>2, <1>3, <1>4 DEF CashKey, Key
  <2> QED BY <1>1, <2>1, <2>2, Keys
<1>6. l[1] = Strategies[m] /\ l[2] = Assets[n] /\ l[3] = e
  BY <1>5 DEF RowKey, Key
<1>7. l = RowKey(i, j, e)
  BY <1>3, <1>5, <1>6 DEF RowKey, Key
<1> QED BY <1>1, <1>2, <1>3, <1>6, <1>7 DEF Finality

(* A position that could not be entered, or whose compound lacked data, is reported
   so at every later date. *)
THEOREM LossFinal == Spec => []LossIsFinal
BY Inductive, IInvLossIsFinal, PTL
-----------------------------------------------------------------------------
(* Sums over finite sets, as SumFunctionOnSet computes them: what one element adds
   does not depend on the order of summation.  The least-counterexample form of
   induction is used throughout. *)
LEMMA Least ==
  ASSUME NEW S \in SUBSET Nat, S # {}
  PROVE  \E n \in S : \A m \in S : n <= m
<1> DEFINE R == OpToRel(<, Nat)
<1>1. IsWellFoundedOn(R, Nat)
  BY NatLessThanWellFounded
<1>2. \A m, n \in Nat : m < n => <<m, n>> \in R
  BY DEF OpToRel
<1> HIDE DEF R
<1>3. PICK n \in S : \A m \in S : ~(<<m, n>> \in R)
  BY <1>1, WFMin
<1>4. \A m \in S : m \in Nat /\ n \in Nat /\ ~(m < n)
  BY <1>2, <1>3
<1> QED BY <1>4

(* Among finite sets there is a smallest one. *)
LEMMA Smallest ==
  ASSUME NEW F, F # {}, \A T \in F : IsFiniteSet(T)
  PROVE  \E T \in F : \A U \in F : ~(Cardinality(U) < Cardinality(T))
<1> DEFINE sizes == {Cardinality(T) : T \in F}
<1>1. \A T \in F : Cardinality(T) \in Nat
  BY FS_CardinalityType
<1>2. PICK n \in sizes : \A m \in sizes : n <= m
  <2>1. sizes \in SUBSET Nat /\ sizes # {}
    BY <1>1
  <2> HIDE DEF sizes
  <2> QED BY <2>1, Least
<1>3. PICK T \in F : n = Cardinality(T)
  OBVIOUS
<1>4. \A U \in F : n <= Cardinality(U)
  BY <1>2
<1> QED BY <1>1, <1>3, <1>4

LEMMA Smaller ==
  ASSUME NEW T, IsFiniteSet(T), NEW x \in T
  PROVE  /\ IsFiniteSet(T \ {x}) /\ Cardinality(T \ {x}) < Cardinality(T)
         /\ Cardinality(T \ {x}) = Cardinality(T) - 1 /\ Cardinality(T) \in Nat
<1>1. Cardinality(T) \in Nat
  BY FS_CardinalityType
<1>2. IsFiniteSet(T \ {x}) /\ Cardinality(T \ {x}) = Cardinality(T) - 1
  BY FS_RemoveElement
<1> QED BY <1>1, <1>2

Pick(T) == CHOOSE x \in T : TRUE
Term(f, g, T) == IF T = {} THEN 0 ELSE f[Pick(T)] + g[T \ {Pick(T)}]
Adds(f, S, g) == g = [T \in SUBSET S |-> Term(f, g, T)]

LEMMA SumIs ==
  ASSUME NEW f, NEW S
  PROVE  Sum(f, S) = (CHOOSE g : Adds(f, S, g))[S]
BY DEF Sum, SumFunctionOnSet, FoldFunctionOnSet, MapThenFoldSet, Adds, Term, Pick

LEMMA SumExists ==
  ASSUME NEW f, NEW S, IsFiniteSet(S)
  PROVE  \E g : Adds(f, S, g)
<1> DEFINE Small(n) == {T \in SUBSET S : Cardinality(T) <= n}
           Good(n) == \E g : g = [T \in Small(n) |-> Term(f, g, T)]
           Bad == {n \in Nat : ~Good(n)}
<1>0. \A T \in SUBSET S : IsFiniteSet(T) /\ Cardinality(T) \in Nat /\ Cardinality(T) <= Cardinality(S)
  BY FS_Subset, FS_CardinalityType
<1>1. Good(0)
  <2> DEFINE g == [T \in Small(0) |-> 0]
  <2>1. ASSUME NEW T \in Small(0) PROVE T = {}
    BY <1>0, FS_EmptySet
  <2>2. g = [T \in Small(0) |-> Term(f, g, T)]
    BY <2>1 DEF Term
  <2> QED BY <2>2
<1>2. ASSUME NEW n \in Nat, Good(n) PROVE Good(n + 1)
  <2>1. PICK g : g = [T \in Small(n) |-> Term(f, g, T)]
    BY <1>2
  <2> DEFINE h == [T \in Small(n + 1) |-> Term(f, g, T)]
  <2>2. \A T \in Small(n) : T \in Small(n + 1) /\ g[T] = Term(f, g, T)
    BY <1>0, <2>1
  <2>3. \A T \in Small(n) : h[T] = g[T]
    BY <2>2
  <2>4. ASSUME NEW T \in Small(n + 1), T # {} PROVE T \ {Pick(T)} \in Small(n)
    <3>1. Pick(T) \in T
      BY <2>4 DEF Pick
    <3>2. Cardinality(T) <= n + 1
      OBVIOUS
    <3>3. Cardinality(T \ {Pick(T)}) = Cardinality(T) - 1
      BY <1>0, <3>1, Smaller
    <3> QED BY <1>0, <3>2, <3>3
  <2> HIDE DEF Small
  <2>5. \A T \in Small(n + 1) : Term(f, g, T) = Term(f, h, T)
    <3> HIDE DEF h
    <3> QED BY <2>3, <2>4 DEF Term
  <2>6. h = [T \in Small(n + 1) |-> Term(f, h, T)]
    BY <2>5
  <2> QED BY <2>6
<1>3. Cardinality(S) \in Nat /\ SUBSET S = Small(Cardinality(S))
  BY <1>0, FS_CardinalityType
<1>4. Bad = {}
  <2> SUFFICES ASSUME Bad # {} PROVE FALSE
    OBVIOUS
  <2> HIDE DEF Good
  <2>1. PICK n \in Bad : \A m \in Bad : n <= m
    BY Least
  <2>2. n # 0
    BY <1>1
  <2>3. n - 1 \in Nat /\ n - 1 \notin Bad
    BY <2>1, <2>2
  <2>4. Good(n)
    BY <1>2, <2>3
  <2> QED BY <2>1, <2>4
<1>5. Good(Cardinality(S))
  <2> HIDE DEF Good
  <2> QED BY <1>3, <1>4
<1> QED BY <1>3, <1>5 DEF Adds

(* Two partial sums agree on what is common to them. *)
LEMMA SumsAgree ==
  ASSUME NEW f, NEW g, NEW S, NEW T, IsFiniteSet(T), T \subseteq S, \A x \in T : f[x] = g[x],
         NEW p, NEW q, Adds(f, S, p), Adds(g, T, q)
  PROVE  p[T] = q[T]
<1> DEFINE Bad == {U \in SUBSET T : p[U] # q[U]}
<1>1. \A U \in SUBSET T : IsFiniteSet(U) /\ p[U] = Term(f, p, U) /\ q[U] = Term(g, q, U)
  BY FS_Subset DEF Adds
<1>2. Bad = {}
  <2> SUFFICES ASSUME Bad # {} PROVE FALSE
    OBVIOUS
  <2>1. PICK U \in Bad : \A V \in Bad : ~(Cardinality(V) < Cardinality(U))
    BY <1>1, Smallest
  <2>2. U # {}
    BY <1>1 DEF Term
  <2>3. Pick(U) \in U
    BY <2>2 DEF Pick
  <2>4. p[U \ {Pick(U)}] = q[U \ {Pick(U)}]
    BY <1>1, <2>1, <2>3, Smaller
  <2> QED BY <1>1, <2>2, <2>3, <2>4 DEF Term
<1> QED BY <1>2

LEMMA SumSame ==
  ASSUME NEW f, NEW g, NEW S, IsFiniteSet(S), \A x \in S : f[x] = g[x]
  PROVE  Sum(f, S) = Sum(g, S)
<1> DEFINE p == CHOOSE h : Adds(f, S, h)
           q == CHOOSE h : Adds(g, S, h)
<1>1. Adds(f, S, p) /\ Adds(g, S, q)
  BY SumExists
<1> HIDE DEF p, q
<1>2. p[S] = q[S]
  BY <1>1, SumsAgree
<1> QED BY <1>2, SumIs DEF p, q

LEMMA SumEmpty == \A f : Sum(f, {}) = 0
<1> SUFFICES ASSUME NEW f PROVE Sum(f, {}) = 0
  OBVIOUS
<1> DEFINE p == CHOOSE h : Adds(f, {}, h)
<1>1. Adds(f, {}, p)
  BY SumExists, FS_EmptySet
<1> HIDE DEF p
<1>2. p[{}] = 0
  BY <1>1 DEF Adds, Term
<1> QED BY <1>2, SumIs DEF p

LEMMA SumPick ==
  ASSUME NEW f, NEW S, IsFiniteSet(S), S # {}
  PROVE  Pick(S) \in S /\ Sum(f, S) = f[Pick(S)] + Sum(f, S \ {Pick(S)})
<1> DEFINE T == S \ {Pick(S)}
           p == CHOOSE h : Adds(f, S, h)
           q == CHOOSE h : Adds(f, T, h)
<1>1. Pick(S) \in S
  BY DEF Pick
<1>2. IsFiniteSet(T) /\ T \subseteq S
  BY <1>1, Smaller
<1> HIDE DEF T
<1>3. Adds(f, S, p) /\ Adds(f, T, q)
  BY <1>2, SumExists
<1> HIDE DEF p, q
<1>4. p[T] = q[T]
  BY <1>2, <1>3, SumsAgree
<1>5. p[S] = f[Pick(S)] + p[T]
  BY <1>3 DEF Adds, Term, T
<1>6. Sum(f, S) = p[S] /\ Sum(f, T) = q[T]
  BY SumIs DEF p, q
<1> QED BY <1>1, <1>4, <1>5, <1>6 DEF T

LEMMA SumInt ==
  ASSUME NEW f, NEW S, IsFiniteSet(S), \A x \in S : f[x] \in Int
  PROVE  Sum(f, S) \in Int
<1> DEFINE Bad == {T \in SUBSET S : Sum(f, T) \notin Int}
<1>1. \A T \in SUBSET S : IsFiniteSet(T)
  BY FS_Subset
<1>2. Bad = {}
  <2> SUFFICES ASSUME Bad # {} PROVE FALSE
    OBVIOUS
  <2>1. PICK T \in Bad : \A U \in Bad : ~(Cardinality(U) < Cardinality(T))
    BY <1>1, Smallest
  <2>2. T # {}
    BY SumEmpty
  <2>3. Pick(T) \in T /\ Sum(f, T) = f[Pick(T)] + Sum(f, T \ {Pick(T)})
    BY <1>1, <2>2, SumPick
  <2>4. Sum(f, T \ {Pick(T)}) \in Int
    BY <1>1, <2>1, <2>3, Smaller
  <2> QED BY <2>3, <2>4
<1> QED BY <1>2

(* What an element adds to the sum does not depend on the order of summation. *)
LEMMA SumRemove ==
  ASSUME NEW f, NEW S, IsFiniteSet(S), \A x \in S : f[x] \in Int, NEW x \in S
  PROVE  Sum(f, S) = f[x] + Sum(f, S \ {x})
<1> DEFINE Good(T) == \A y \in T : Sum(f, T) = f[y] + Sum(f, T \ {y})
           Bad == {T \in SUBSET S : ~Good(T)}
<1>1. \A T \in SUBSET S : IsFiniteSet(T) /\ Sum(f, T) \in Int
  <2> SUFFICES ASSUME NEW T \in SUBSET S PROVE IsFiniteSet(T) /\ Sum(f, T) \in Int
    OBVIOUS
  <2>1. IsFiniteSet(T)
    BY FS_Subset
  <2> QED BY <2>1, SumInt
<1>2. Bad = {}
  <2> SUFFICES ASSUME Bad # {} PROVE FALSE
    OBVIOUS
  <2>1. PICK T \in Bad : \A U \in Bad : ~(Cardinality(U) < Cardinality(T))
    BY <1>1, Smallest
  <2>2. PICK y \in T : Sum(f, T) # f[y] + Sum(f, T \ {y})
    BY <2>1
  <2> DEFINE z == Pick(T)
  <2>3. z \in T /\ Sum(f, T) = f[z] + Sum(f, T \ {z})
    BY <1>1, <2>2, SumPick
  <2>4. z # y
    BY <2>2, <2>3
  <2> HIDE DEF z
  <2>5. \A w \in T : T \ {w} \in SUBSET S /\ Good(T \ {w})
    <3> SUFFICES ASSUME NEW w \in T PROVE T \ {w} \in SUBSET S /\ Good(T \ {w})
      OBVIOUS
    <3>1. T \ {w} \in SUBSET S
      OBVIOUS
    <3>2. T \ {w} \notin Bad
      BY <1>1, <2>1, Smaller
    <3> QED BY <3>1, <3>2
  <2>6. Sum(f, T \ {z}) = f[y] + Sum(f, (T \ {z}) \ {y})
    BY <2>3, <2>4, <2>5
  <2>7. Sum(f, T \ {y}) = f[z] + Sum(f, (T \ {y}) \ {z})
    BY <2>3, <2>4, <2>5
  <2>8. (T \ {z}) \ {y} = (T \ {y}) \ {z} /\ (T \ {z}) \ {y} \in SUBSET S
    OBVIOUS
  <2>9. f[y] \in Int /\ f[z] \in Int /\ Sum(f, (T \ {z}) \ {y}) \in Int
    BY <1>1, <2>3, <2>8
  <2>10. Sum(f, T \ {z}) = f[y] + Sum(f, (T \ {z}) \ {y})
    BY <2>6
  <2>11. Sum(f, T \ {y}) = f[z] + Sum(f, (T \ {z}) \ {y})
    BY <2>7, <2>8
  <2> QED BY <2>2, <2>3, <2>9, <2>10, <2>11
<1> QED BY <1>2

LEMMA SumSplit ==
  ASSUME NEW f, NEW S, IsFiniteSet(S), \A x \in S : f[x] \in Int, NEW T \in SUBSET S
  PROVE  Sum(f, S) = Sum(f, T) + Sum(f, S \ T)
<1> DEFINE Bad == {U \in SUBSET S : Sum(f, (S \ T) \cup U) # Sum(f, U) + Sum(f, S \ T)}
           Bd == Bad \cap SUBSET T
<1>1. \A U \in SUBSET S : IsFiniteSet(U) /\ Sum(f, U) \in Int
  <2> SUFFICES ASSUME NEW U \in SUBSET S PROVE IsFiniteSet(U) /\ Sum(f, U) \in Int
    OBVIOUS
  <2>1. IsFiniteSet(U)
    BY FS_Subset
  <2> QED BY <2>1, SumInt
<1>2. Bd = {}
  <2> SUFFICES ASSUME Bd # {} PROVE FALSE
    OBVIOUS
  <2>1. PICK U \in Bd : \A V \in Bd : ~(Cardinality(V) < Cardinality(U))
    BY <1>1, Smallest
  <2>2. U # {}
    <3>1. Sum(f, S \ T) \in Int /\ (S \ T) \cup {} = S \ T
      BY <1>1
    <3>2. {} \notin Bd
      BY <3>1, SumEmpty
    <3> QED BY <2>1, <3>2
  <2>3. PICK x \in U : TRUE
    BY <2>2
  <2> DEFINE V == U \ {x}
             W == (S \ T) \cup U
  <2>4. V \in SUBSET S /\ V \in SUBSET T /\ W \in SUBSET S /\ x \in W /\ W \ {x} = (S \ T) \cup V
    OBVIOUS
  <2>5. V \notin Bd
    BY <1>1, <2>1, Smaller
  <2>6. Sum(f, (S \ T) \cup V) = Sum(f, V) + Sum(f, S \ T)
    BY <2>4, <2>5
  <2>7. Sum(f, W) = f[x] + Sum(f, W \ {x})
    <3> HIDE DEF W
    <3> QED BY <1>1, <2>4, SumRemove
  <2>8. Sum(f, U) = f[x] + Sum(f, V)
    BY <1>1, SumRemove
  <2>9. Sum(f, V) \in Int /\ Sum(f, S \ T) \in Int /\ f[x] \in Int
    BY <1>1, <2>4
  <2>10. Sum(f, W) # Sum(f, U) + Sum(f, S \ T)
    BY <2>1
  <2>11. Sum(f, W) = f[x] + Sum(f, (S \ T) \cup V)
    BY <2>4, <2>7
  <2> HIDE DEF V, W
  <2> QED BY <2>6, <2>8, <2>9, <2>10, <2>11
<1>3. T \in SUBSET S /\ T \notin Bad /\ (S \ T) \cup T = S
  BY <1>2
<1> QED BY <1>3

LEMMA SumZero ==
  ASSUME NEW f, NEW S, IsFiniteSet(S), \A x \in S : f[x] = 0
  PROVE  Sum(f, S) = 0
<1> DEFINE Bad == {T \in SUBSET S : Sum(f, T) # 0}
<1>1. \A T \in SUBSET S : IsFiniteSet(T)
  BY FS_Subset
<1>2. Bad = {}
  <2> SUFFICES ASSUME Bad # {} PROVE FALSE
    OBVIOUS
  <2>1. PICK T \in Bad : \A U \in Bad : ~(Cardinality(U) < Cardinality(T))
    BY <1>1, Smallest
  <2>2. T # {}
    BY SumEmpty
  <2>3. Pick(T) \in T /\ Sum(f, T) = f[Pick(T)] + Sum(f, T \ {Pick(T)})
    BY <1>1, <2>2, SumPick
  <2>4. Sum(f, T \ {Pick(T)}) = 0
    BY <1>1, <2>1, <2>3, Smaller
  <2>5. f[Pick(T)] = 0
    BY <2>3
  <2> QED BY <2>1, <2>3, <2>4, <2>5
<1> QED BY <1>2
-----------------------------------------------------------------------------
(* The position between two forks: its shape, the reward counters carried along,
   the events logged for it and the value quoted last. *)
RewardRecords == [integral : Nat, entitled : Nat, paid : Nat]
PositionRecords == [shares : Nat \ {0}, startDust : Nat, idle : [Tokens -> Nat]]
EventRecords == [kind : {"entry", "compound", "skipped-compound", "exit"},
                 date : Nat, gas : Nat]
Attempt == {"compound", "skipped-compound"}
\* dates up to now at which the rewards had to be compounded
Months == IF pc = "compound" \/ date = Final THEN date - 1 ELSE date

Shaped == position # None => position \in PositionRecords
Underway == /\ pc \in {"compound", "exit"} => position # None
            /\ pc = "compound" => state # None /\ date # Final
Carried ==
  Held /\ state # None =>
    /\ Strategies[s] \in Rewarded
    /\ DOMAIN state \in SUBSET Tokens /\ state \in [DOMAIN state -> RewardRecords]
    /\ \A t \in DOMAIN state : /\ state[t].paid <= state[t].entitled
                               /\ state[t].integral <= Integral[t][date]
    /\ \A t \in Tokens : 0 \in Listed[t] => t \in DOMAIN state
Logged ==
  Held => /\ events \in Seq(EventRecords)
          /\ \A i \in DOMAIN events : events[i].kind = "exit" => date = Final /\ pc = "date"
Attempted ==
  Held /\ state # None =>
    /\ Months < Len(events) /\ events[1].kind = "entry"
    /\ \A m \in 1..Months : events[m + 1].kind \in Attempt /\ events[m + 1].date = m
    /\ \A i \in DOMAIN events : Months + 1 < i => events[i].kind = "exit"
Asked ==
  Held /\ quote # NoQuote => pc = "date" /\ (state # None => Restorable(date))

PInv == Shaped /\ Underway /\ Carried /\ Logged /\ Attempted /\ Asked
-----------------------------------------------------------------------------
(* What the reward contracts do to an account. *)
LEMMA Integrals ==
  ASSUME comparison \in Comparisons, NEW t \in Tokens
  PROVE  /\ Listed[t] \in SUBSET (0..Final)
         /\ \A d \in 0..Final : Integral[t][d] \in Nat
         /\ 0 \notin Listed[t] => Integral[t][0] = 0
         /\ \A d \in 1..Final : /\ Integral[t][d - 1] <= Integral[t][d]
                                /\ d \notin Listed[t] => Integral[t][d - 1] = Integral[t][d]
<1>1. /\ comparison.listed \in [Tokens -> SUBSET (0..Final)]
      /\ comparison.integral \in [Tokens -> [0..Final -> Nat]]
      /\ 0 \notin comparison.listed[t] => comparison.integral[t][0] = 0
      /\ \A d \in 1..Final :
           /\ comparison.integral[t][d - 1] <= comparison.integral[t][d]
           /\ d \notin comparison.listed[t] => comparison.integral[t][d - 1] = comparison.integral[t][d]
  BY EngineAssumption
<1>2. Listed[t] \in SUBSET (0..Final) /\ Integral[t] \in [0..Final -> Nat]
  BY <1>1 DEF Listed, Integral
<1> QED BY <1>1, <1>2 DEF Listed, Integral

Accounts == [shares : Nat, working : Nat, rewards : [Tokens -> RewardRecords]]

LEMMA WorkingNat ==
  ASSUME NEW n \in Nat
  PROVE  WorkingBalance(n) \in Nat
BY DEF WorkingBalance

LEMMA FreshIsAccount == FreshAccount \in Accounts /\ NoReward \in RewardRecords
BY DEF FreshAccount, Accounts, NoReward, RewardRecords

\* what a reward record becomes when the contract is asked at a date
Accrued(r, working, t, d) ==
  [integral |-> Integral[t][d],
   entitled |-> r.entitled + working * (Integral[t][d] - r.integral),
   paid |-> r.paid]

LEMMA AccruedIs ==
  ASSUME comparison \in Comparisons, NEW t \in Tokens, NEW d \in 0..Final,
         NEW r \in RewardRecords, NEW working \in Nat, r.integral <= Integral[t][d]
  PROVE  /\ Accrued(r, working, t, d) \in RewardRecords
         /\ r.entitled <= Accrued(r, working, t, d).entitled
         /\ [r EXCEPT !.integral = Integral[t][d],
                      !.entitled = r.entitled + working * (Integral[t][d] - r.integral)]
              = Accrued(r, working, t, d)
<1>1. Integral[t][d] \in Nat /\ r.integral \in Nat /\ r.entitled \in Nat /\ r.paid \in Nat
  BY Integrals DEF RewardRecords
<1> DEFINE growth == working * (Integral[t][d] - r.integral)
<1>2. growth \in Nat
  <2>1. Integral[t][d] - r.integral \in Nat
    BY <1>1
  <2> HIDE DEF growth
  <2>2. \A m, n \in Nat : m * n \in Nat
    OBVIOUS
  <2> QED BY <2>1, <2>2 DEF growth
<1> HIDE DEF growth
<1>3. Accrued(r, working, t, d) =
        [integral |-> Integral[t][d], entitled |-> r.entitled + growth, paid |-> r.paid]
  BY DEF Accrued, growth
<1>4. [r EXCEPT !.integral = Integral[t][d], !.entitled = r.entitled + growth]
        = [integral |-> Integral[t][d], entitled |-> r.entitled + growth, paid |-> r.paid]
  <2> DEFINE new == [r EXCEPT !.integral = Integral[t][d], !.entitled = r.entitled + growth]
  <2>1. new = [r EXCEPT !.integral = Integral[t][d], !.entitled = r.entitled + growth]
    OBVIOUS
  <2> HIDE DEF new
  <2>2. new = [integral |-> Integral[t][d], entitled |-> r.entitled + growth, paid |-> r.paid]
    BY <2>1 DEF RewardRecords
  <2> QED BY <2>1, <2>2
<1>5. r.entitled + growth \in Nat /\ r.entitled <= r.entitled + growth
  BY <1>1, <1>2
<1>6. Accrued(r, working, t, d) \in RewardRecords
  BY <1>1, <1>3, <1>5 DEF RewardRecords
<1>7. [r EXCEPT !.integral = Integral[t][d],
                !.entitled = r.entitled + working * (Integral[t][d] - r.integral)]
        = Accrued(r, working, t, d)
  BY <1>3, <1>4 DEF growth
<1> QED BY <1>3, <1>5, <1>6, <1>7

LEMMA CheckpointIs ==
  ASSUME comparison \in Comparisons, NEW d \in 0..Final, NEW account \in Accounts,
         \A t \in Tokens : account.rewards[t].integral <= Integral[t][d]
  PROVE  /\ Checkpoint(account, d) \in Accounts
         /\ Checkpoint(account, d).shares = account.shares
         /\ Checkpoint(account, d).working = account.working
         /\ Checkpoint(account, d).rewards
              = [t \in Tokens |-> IF d \in Listed[t]
                                  THEN Accrued(account.rewards[t], account.working, t, d)
                                  ELSE account.rewards[t]]
<1> DEFINE new == [t \in Tokens |-> IF d \in Listed[t]
                                    THEN Accrued(account.rewards[t], account.working, t, d)
                                    ELSE account.rewards[t]]
<1>1. /\ account.shares \in Nat /\ account.working \in Nat
      /\ \A t \in Tokens : account.rewards[t] \in RewardRecords
  BY DEF Accounts
<1>2. ASSUME NEW t \in Tokens
      PROVE
        /\ Accrued(account.rewards[t], account.working, t, d) \in RewardRecords
        /\ [account.rewards[t] EXCEPT
              !.integral = Integral[t][d],
              !.entitled = account.rewards[t].entitled
                           + account.working * (Integral[t][d] - account.rewards[t].integral)]
             = Accrued(account.rewards[t], account.working, t, d)
  <2>1. account.rewards[t] \in RewardRecords /\ account.working \in Nat
        /\ account.rewards[t].integral <= Integral[t][d]
    BY <1>1
  <2> QED BY <2>1, AccruedIs
<1>3. Checkpoint(account, d) = [account EXCEPT !.rewards = new]
  BY <1>2 DEF Checkpoint
<1>4. new \in [Tokens -> RewardRecords]
  BY <1>1, <1>2
<1> HIDE DEF new
<1>5. /\ Checkpoint(account, d) \in Accounts
      /\ Checkpoint(account, d).shares = account.shares
      /\ Checkpoint(account, d).working = account.working
      /\ Checkpoint(account, d).rewards = new
  BY <1>3, <1>4 DEF Accounts
<1> QED BY <1>5 DEF new

LEMMA StakeIs ==
  ASSUME comparison \in Comparisons, NEW d \in 0..Final, NEW account \in Accounts,
         \A t \in Tokens : account.rewards[t].integral <= Integral[t][d],
         NEW shares \in Nat
  PROVE  Stake(account, shares, d).rewards = Checkpoint(account, d).rewards
<1>1. Checkpoint(account, d) \in Accounts
  BY CheckpointIs
<1> QED BY <1>1 DEF Stake, Accounts

(* A restored position knows what it was captured with, and nothing of the other
   rewards. *)
LEMMA RestoredIs ==
  ASSUME IInv, PInv, Held, state # None
  PROVE  /\ Restored \in Accounts
         /\ position.shares \in Nat \ {0} /\ WorkingBalance(position.shares) \in Nat
         /\ Restored.working = WorkingBalance(position.shares)
         /\ Restored.rewards = [t \in Tokens |-> RestoredReward(t)]
         /\ \A t \in Tokens : /\ RestoredReward(t) \in RewardRecords
                              /\ RestoredReward(t).paid <= RestoredReward(t).entitled
                              /\ RestoredReward(t).integral <= Integral[t][date]
<1>1. position \in PositionRecords
  BY DEF PInv, Shaped, Held
<1>2. position.shares \in Nat \ {0} /\ position.shares \in Nat
  BY <1>1 DEF PositionRecords
<1>3. WorkingBalance(position.shares) \in Nat
  BY <1>2, WorkingNat
<1>4. ASSUME NEW t \in Tokens
      PROVE  /\ RestoredReward(t) \in RewardRecords
             /\ RestoredReward(t).paid <= RestoredReward(t).entitled
             /\ RestoredReward(t).integral <= Integral[t][date]
  <2>1. CASE t \in DOMAIN state
    BY <2>1 DEF PInv, Carried, RestoredReward
  <2>2. CASE t \notin DOMAIN state
    <3>1. RestoredReward(t) = NoReward
      BY <2>2 DEF RestoredReward
    <3>2. Integral[t][date] \in Nat
      <4>1. date \in 0..Final /\ comparison \in Comparisons
        BY DEF IInv, Places
      <4> QED BY <4>1, Integrals
    <3> QED BY <3>1, <3>2, FreshIsAccount DEF NoReward
  <2> QED BY <2>1, <2>2
<1>5. Restored = [shares |-> position.shares, working |-> WorkingBalance(position.shares),
                  rewards |-> [t \in Tokens |-> RestoredReward(t)]]
  BY DEF Restored
<1>6. [t \in Tokens |-> RestoredReward(t)] \in [Tokens -> RewardRecords]
  BY <1>4
<1>7. Restored \in Accounts
  BY <1>2, <1>3, <1>5, <1>6 DEF Accounts
<1> QED BY <1>2, <1>3, <1>4, <1>5, <1>7

\* what the contract knows of a reward of the position now
Known(t) == Accrued(RestoredReward(t), WorkingBalance(position.shares), t, date)

LEMMA KnownIs ==
  ASSUME IInv, PInv, Held, state # None, NEW t \in Tokens
  PROVE  /\ Known(t) \in RewardRecords /\ Known(t).paid <= Known(t).entitled
         /\ Unclaimed[t] = Known(t).entitled - Known(t).paid
         /\ Unclaimed[t] \in Nat
<1> DEFINE r == RestoredReward(t)
           growth == WorkingBalance(position.shares) * (Integral[t][date] - r.integral)
<1>1. comparison \in Comparisons /\ date \in 0..Final
  BY DEF IInv, Places
<1>2. /\ r \in RewardRecords /\ r.paid <= r.entitled /\ r.integral <= Integral[t][date]
      /\ WorkingBalance(position.shares) \in Nat
  BY RestoredIs
<1> HIDE DEF r
<1>3. /\ Known(t) \in RewardRecords /\ r.entitled <= Known(t).entitled
      /\ Known(t).entitled = r.entitled + growth /\ Known(t).paid = r.paid
  BY <1>1, <1>2, AccruedIs DEF Known, Accrued, r
<1>4. Unclaimed[t] = r.entitled - r.paid + growth
  BY DEF Unclaimed, r
<1>5. growth \in Int
  <2>1. Integral[t][date] \in Nat /\ r.integral \in Nat
    BY <1>1, <1>2, Integrals DEF RewardRecords
  <2>2. Integral[t][date] - r.integral \in Int
    BY <2>1
  <2>3. \A m, n \in Int : m * n \in Int
    OBVIOUS
  <2>4. WorkingBalance(position.shares) \in Int
    BY <1>2
  <2> QED BY <2>2, <2>3, <2>4
<1> HIDE DEF growth
<1>6. r.entitled \in Nat /\ r.paid \in Nat
  BY <1>2 DEF RewardRecords
<1>7. Known(t).entitled \in Nat /\ Known(t).paid \in Nat
  BY <1>3 DEF RewardRecords
<1> QED BY <1>2, <1>3, <1>4, <1>5, <1>6, <1>7

LEMMA ClaimingIs ==
  ASSUME IInv, PInv, Held, state # None
  PROVE  /\ Claiming(date) \in Accounts
         /\ Claiming(date).working = WorkingBalance(position.shares)
         /\ \A t \in Tokens : Claiming(date).rewards[t] = IF date \in Listed[t] THEN Known(t)
                                                          ELSE RestoredReward(t)
<1>1. comparison \in Comparisons /\ date \in 0..Final
  BY DEF IInv, Places
<1>2. /\ Restored \in Accounts
      /\ Restored.working = WorkingBalance(position.shares)
      /\ Restored.rewards = [t \in Tokens |-> RestoredReward(t)]
      /\ \A t \in Tokens : RestoredReward(t).integral <= Integral[t][date]
  BY RestoredIs
<1>3. \A t \in Tokens : Restored.rewards[t].integral <= Integral[t][date]
  BY <1>2
<1>4. /\ Checkpoint(Restored, date) \in Accounts
      /\ Checkpoint(Restored, date).working = Restored.working
      /\ Checkpoint(Restored, date).rewards
           = [t \in Tokens |-> IF date \in Listed[t]
                               THEN Accrued(Restored.rewards[t], Restored.working, t, date)
                               ELSE Restored.rewards[t]]
  BY <1>1, <1>2, <1>3, CheckpointIs
<1> QED BY <1>2, <1>4 DEF Claiming, Known

(* The wallet holds what the contracts owe, on top of what it held. *)
LEMMA RewardsAre ==
  ASSUME IInv, PInv, Held
  PROVE  /\ Rewards(date) \in [Tokens -> Nat] /\ Unclaimed \in [Tokens -> Nat]
         /\ position \in PositionRecords
         /\ \A t \in Tokens :
              Rewards(date)[t] = position.idle[t]
                                 + IF state = None \/ date \notin Listed[t] THEN 0 ELSE Unclaimed[t]
<1>1. position \in PositionRecords /\ position.idle \in [Tokens -> Nat]
  BY DEF PInv, Shaped, Held, PositionRecords
<1>2. CASE state = None
  <2>1. Rewards(date) = position.idle /\ \A t \in Tokens : Unclaimed[t] = 0
    BY <1>2 DEF Rewards, Unclaimed
  <2>2. Unclaimed = [t \in Tokens |-> Unclaimed[t]]
    BY DEF Unclaimed
  <2>3. Unclaimed \in [Tokens -> Nat]
    BY <2>1, <2>2
  <2> QED BY <1>1, <1>2, <2>1, <2>3
<1>3. CASE state # None
  <2>1. ASSUME NEW t \in Tokens
        PROVE  /\ Unclaimed[t] \in Nat
               /\ Owed(Claiming(date), date)[t] = IF date \in Listed[t] THEN Unclaimed[t] ELSE 0
    BY <1>3, KnownIs, ClaimingIs DEF Owed
  <2>2. Rewards(date) = [t \in Tokens |-> Owed(Claiming(date), date)[t] + position.idle[t]]
    BY <1>3 DEF Rewards
  <2>3. \A t \in Tokens : Rewards(date)[t] = Owed(Claiming(date), date)[t] + position.idle[t]
    BY <2>2
  <2>4. \A t \in Tokens :
          /\ Rewards(date)[t] \in Nat
          /\ Rewards(date)[t] = position.idle[t]
                                + IF state = None \/ date \notin Listed[t] THEN 0 ELSE Unclaimed[t]
    BY <1>1, <1>3, <2>1, <2>3
  <2>5. Rewards(date) \in [Tokens -> Nat]
    BY <2>2, <2>4
  <2>6. Unclaimed = [t \in Tokens |-> Unclaimed[t]]
    BY DEF Unclaimed
  <2>7. Unclaimed \in [Tokens -> Nat]
    BY <2>1, <2>6
  <2> QED BY <1>1, <2>4, <2>5, <2>7
<1> QED BY <1>2, <1>3

(* What is captured after a deposit: everything earned so far has been paid. *)
LEMMA CompoundedIs ==
  ASSUME IInv, PInv, Held, state # None, NEW deposit \in Nat
  PROVE  /\ \A t \in Tokens : Known(t).entitled \in Nat
         /\ Captured(Stake(Paid(Claiming(date), date), deposit, date), date)
              = [t \in {u \in Tokens : date \in Listed[u]} |->
                   [integral |-> Integral[t][date], entitled |-> Known(t).entitled,
                    paid |-> Known(t).entitled]]
<1> DEFINE settled(t) == [integral |-> Integral[t][date], entitled |-> Known(t).entitled,
                          paid |-> Known(t).entitled]
           W == WorkingBalance(position.shares)
           account == Paid(Claiming(date), date)
<1>1. comparison \in Comparisons /\ date \in 0..Final
  BY DEF IInv, Places
<1>2. /\ Claiming(date) \in Accounts /\ Claiming(date).working = W
      /\ \A t \in Tokens : Claiming(date).rewards[t] = IF date \in Listed[t] THEN Known(t)
                                                       ELSE RestoredReward(t)
  BY ClaimingIs
<1>3. \A t \in Tokens : /\ RestoredReward(t) \in RewardRecords
                        /\ RestoredReward(t).integral <= Integral[t][date]
  BY RestoredIs
<1>4. W \in Nat
  BY RestoredIs
<1>5. ASSUME NEW t \in Tokens
      PROVE  /\ Known(t) \in RewardRecords /\ Known(t).entitled \in Nat
             /\ Known(t).integral = Integral[t][date] /\ Integral[t][date] \in Nat
             /\ settled(t) \in RewardRecords
  <2>1. Known(t) \in RewardRecords
    BY KnownIs
  <2>2. Known(t).entitled \in Nat
    BY <2>1 DEF RewardRecords
  <2>3. Known(t).integral = Integral[t][date]
    BY DEF Known, Accrued
  <2>4. Integral[t][date] \in Nat
    BY <1>1, Integrals
  <2> QED BY <2>1, <2>2, <2>3, <2>4 DEF RewardRecords
<1>6. ASSUME NEW t \in Tokens PROVE [Known(t) EXCEPT !.paid = Known(t).entitled] = settled(t)
  <2> DEFINE new == [Known(t) EXCEPT !.paid = Known(t).entitled]
  <2>1. new = [Known(t) EXCEPT !.paid = Known(t).entitled]
    OBVIOUS
  <2> HIDE DEF new
  <2>2. new = settled(t)
    BY <1>5, <2>1 DEF RewardRecords
  <2> QED BY <2>1, <2>2
<1> DEFINE paid == [t \in Tokens |-> IF date \in Listed[t] THEN settled(t) ELSE RestoredReward(t)]
<1> HIDE DEF W, settled
<1>7. account = [Claiming(date) EXCEPT !.rewards = paid]
  <2>1. account = [Claiming(date) EXCEPT !.rewards =
                     [t \in Tokens |-> IF date \in Listed[t]
                        THEN [Claiming(date).rewards[t] EXCEPT !.paid = Claiming(date).rewards[t].entitled]
                        ELSE Claiming(date).rewards[t]]]
    BY DEF Paid
  <2>2. \A t \in Tokens :
          IF date \in Listed[t]
          THEN [Claiming(date).rewards[t] EXCEPT !.paid = Claiming(date).rewards[t].entitled] = settled(t)
          ELSE Claiming(date).rewards[t] = RestoredReward(t)
    BY <1>2, <1>6
  <2>3. [t \in Tokens |-> IF date \in Listed[t]
           THEN [Claiming(date).rewards[t] EXCEPT !.paid = Claiming(date).rewards[t].entitled]
           ELSE Claiming(date).rewards[t]] = paid
    BY <2>2
  <2> HIDE DEF paid, account
  <2> QED BY <2>1, <2>3
<1>8. paid \in [Tokens -> RewardRecords]
  BY <1>3, <1>5
<1> HIDE DEF paid, account
<1>9. account \in Accounts /\ account.working = W /\ account.rewards = paid
  BY <1>2, <1>7, <1>8 DEF Accounts
<1>10. \A t \in Tokens : paid[t].integral <= Integral[t][date]
  <2> SUFFICES ASSUME NEW t \in Tokens PROVE paid[t].integral <= Integral[t][date]
    OBVIOUS
  <2>1. CASE date \in Listed[t]
    <3>1. paid[t].integral = Integral[t][date]
      BY <2>1 DEF paid, settled
    <3> QED BY <1>5, <3>1
  <2>2. CASE date \notin Listed[t]
    BY <1>3, <2>2 DEF paid
  <2> QED BY <2>1, <2>2
<1>11. Stake(account, deposit, date).rewards
         = [t \in Tokens |-> IF date \in Listed[t] THEN Accrued(paid[t], W, t, date) ELSE paid[t]]
  <2>1. \A t \in Tokens : account.rewards[t].integral <= Integral[t][date]
    BY <1>9, <1>10
  <2>2. Checkpoint(account, date).rewards
         = [t \in Tokens |-> IF date \in Listed[t] THEN Accrued(account.rewards[t], account.working, t, date)
                             ELSE account.rewards[t]]
    BY <1>1, <1>9, <2>1, CheckpointIs
  <2>3. Stake(account, deposit, date).rewards = Checkpoint(account, date).rewards
    BY <1>1, <1>9, <2>1, StakeIs
  <2> QED BY <1>9, <2>2, <2>3
<1>12. ASSUME NEW t \in Tokens, date \in Listed[t]
       PROVE  Accrued(paid[t], W, t, date) = settled(t)
  <2>1. paid[t] = settled(t) /\ paid[t].integral = Integral[t][date]
    BY <1>12 DEF paid, settled
  <2>2. W * (Integral[t][date] - Integral[t][date]) = 0
    <3>1. Integral[t][date] - Integral[t][date] = 0
      BY <1>5
    <3>2. W * 0 = 0
      BY <1>4
    <3> QED BY <3>1, <3>2
  <2>3. Accrued(paid[t], W, t, date)
          = [integral |-> Integral[t][date], entitled |-> Known(t).entitled + 0,
             paid |-> Known(t).entitled]
    BY <2>1, <2>2 DEF Accrued, settled
  <2>4. Known(t).entitled + 0 = Known(t).entitled
    BY <1>5
  <2> QED BY <2>3, <2>4 DEF settled
<1>13. Captured(Stake(account, deposit, date), date)
         = [t \in {u \in Tokens : date \in Listed[u]} |-> settled(t)]
  BY <1>11, <1>12 DEF Captured
<1> QED BY <1>5, <1>13 DEF settled, account

(* What is captured after the entry: nothing was earned before it. *)
LEMMA EnteredIs ==
  ASSUME comparison \in Comparisons, NEW deposit \in Nat
  PROVE  Captured(Stake(FreshAccount, deposit, 0), 0)
           = [t \in {u \in Tokens : 0 \in Listed[u]} |->
                [integral |-> Integral[t][0], entitled |-> 0, paid |-> 0]]
<1>1. 0 \in 0..Final
  BY EngineAssumption
<1>2. /\ FreshAccount \in Accounts /\ FreshAccount.working = 0
      /\ \A t \in Tokens : FreshAccount.rewards[t] = NoReward /\ NoReward.integral = 0
  BY FreshIsAccount DEF FreshAccount, NoReward
<1>3. \A t \in Tokens : Integral[t][0] \in Nat
  BY <1>1, Integrals
<1>4. \A t \in Tokens : FreshAccount.rewards[t].integral <= Integral[t][0]
  BY <1>2, <1>3
<1>5. Stake(FreshAccount, deposit, 0).rewards
        = [t \in Tokens |-> IF 0 \in Listed[t]
                            THEN Accrued(FreshAccount.rewards[t], FreshAccount.working, t, 0)
                            ELSE FreshAccount.rewards[t]]
  BY <1>1, <1>2, <1>4, CheckpointIs, StakeIs
<1>6. ASSUME NEW t \in Tokens
      PROVE  Accrued(FreshAccount.rewards[t], FreshAccount.working, t, 0)
               = [integral |-> Integral[t][0], entitled |-> 0, paid |-> 0]
  <2>1. 0 + 0 * (Integral[t][0] - 0) = 0
    BY <1>3
  <2> QED BY <1>2, <2>1 DEF Accrued, NoReward
<1> QED BY <1>5, <1>6 DEF Captured
-----------------------------------------------------------------------------
LEMMA InitPInv == Init => PInv
BY DEF Init, PInv, Shaped, Underway, Carried, Logged, Attempted, Asked, Held

(* Nothing is said of a position that is not held. *)
LEMMA UnheldPInv ==
  ASSUME PInv, pc' \notin {"compound", "exit"}, ~Held', position' \in {None, position}
  PROVE  PInv'
BY DEF PInv, Shaped, Underway, Carried, Logged, Attempted, Asked

LEMMA BenchmarksPInv == PInv /\ (Hold \/ Cash \/ Verify \/ NextAsset) => PInv'
<1> SUFFICES ASSUME PInv, Hold \/ Cash \/ Verify \/ NextAsset PROVE PInv'
  OBVIOUS
<1>1. position' = position /\ pc' \in {"benchmarks", "verify", "enter", "done"}
  BY DEF Hold, Cash, Verify, NextAsset
<1> QED BY <1>1, UnheldPInv DEF Held

LEMMA NoPositionPInv == PInv /\ (EnterFails \/ LostDate \/ LosePosition) => PInv'
<1> SUFFICES ASSUME PInv, EnterFails \/ LostDate \/ LosePosition PROVE PInv'
  OBVIOUS
<1>1. position' = None /\ pc' = "date"
  BY DEF EnterFails, LostDate, LosePosition
<1> QED BY <1>1, UnheldPInv DEF Held

LEMMA EnterPInv == IInv /\ PInv /\ Enter => PInv'
<1> SUFFICES ASSUME IInv, PInv, Enter PROVE PInv'
  OBVIOUS
<1>1. comparison \in Comparisons /\ 0 \in 0..Final /\ 0 # Final /\ Final \in Nat
  BY EngineAssumption DEF IInv, Places
<1>2. PICK shares \in EntryShares, dust \in 0..MaxDust, gas \in 1..MaxGas :
        /\ position' = [shares |-> shares, startDust |-> dust, idle |-> Nothing]
        /\ state' = EntryState(shares)
        /\ events' = <<Event("entry", 0, gas)>>
  BY DEF Enter
<1>3. shares \in Nat /\ shares \in Nat \ {0} /\ dust \in Nat /\ gas \in Nat
  BY EngineAssumption
<1>4. /\ comparison' = comparison /\ s' = s /\ date' = 0 /\ quote' = NoQuote /\ pc' = "date"
      /\ Strategies' = Strategies /\ Listed' = Listed /\ Integral' = Integral
  BY DEF Enter, Strategies, Listed, Integral
<1>5. position' \in PositionRecords
  <2>1. Nothing \in [Tokens -> Nat]
    BY DEF Nothing
  <2> QED BY <1>2, <1>3, <2>1 DEF PositionRecords
<1>6. state' # None =>
        /\ Strategies[s] \in Rewarded
        /\ state' = [t \in {u \in Tokens : 0 \in Listed[u]} |->
                       [integral |-> Integral[t][0], entitled |-> 0, paid |-> 0]]
  BY <1>1, <1>2, <1>3, EnteredIs DEF EntryState
<1>7. \A t \in Tokens : Integral[t][0] \in Nat
  BY <1>1, Integrals
<1>8. Carried'
  <2> SUFFICES ASSUME state' # None
               PROVE  /\ Strategies[s] \in Rewarded
                      /\ DOMAIN state' \in SUBSET Tokens /\ state' \in [DOMAIN state' -> RewardRecords]
                      /\ \A t \in DOMAIN state' : /\ state'[t].paid <= state'[t].entitled
                                                  /\ state'[t].integral <= Integral[t][0]
                      /\ \A t \in Tokens : 0 \in Listed[t] => t \in DOMAIN state'
    BY <1>4 DEF Carried
  <2>1. \A t \in Tokens : [integral |-> Integral[t][0], entitled |-> 0, paid |-> 0] \in RewardRecords
    BY <1>7 DEF RewardRecords
  <2>2. DOMAIN state' = {u \in Tokens : 0 \in Listed[u]}
    BY <1>6
  <2>3. \A t \in DOMAIN state' :
          t \in Tokens /\ state'[t] = [integral |-> Integral[t][0], entitled |-> 0, paid |-> 0]
    BY <1>6, <2>2
  <2>4. state' \in [DOMAIN state' -> RewardRecords]
    BY <1>6, <2>1, <2>2, <2>3
  <2>5. \A t \in DOMAIN state' : /\ state'[t].paid <= state'[t].entitled
                                 /\ state'[t].integral <= Integral[t][0]
    BY <1>7, <2>3
  <2> QED BY <1>6, <2>2, <2>3, <2>4, <2>5
<1>9. events' = <<Event("entry", 0, gas)>> /\ Event("entry", 0, gas) \in EventRecords
      /\ Event("entry", 0, gas).kind = "entry"
  BY <1>2, <1>3 DEF Event, EventRecords
<1>10. Logged'
  <2>1. events' \in Seq(EventRecords)
    BY <1>9
  <2>2. \A i \in DOMAIN events' : events'[i].kind # "exit"
    BY <1>9
  <2> QED BY <2>1, <2>2 DEF Logged
<1>11. Attempted'
  <2>1. Months' = 0
    BY <1>1, <1>4 DEF Months
  <2>2. Len(events') = 1 /\ events'[1].kind = "entry" /\ \A i \in DOMAIN events' : ~(1 < i)
    BY <1>9
  <2> QED BY <2>1, <2>2 DEF Attempted
<1> QED BY <1>4, <1>5, <1>8, <1>10, <1>11
        DEF PInv, Shaped, Underway, Asked

(* Time passes: the counters of the position are those captured before. *)
LEMMA NextDatePInv == IInv /\ PInv /\ NextDate => PInv'
<1> SUFFICES ASSUME IInv, PInv, NextDate PROVE PInv'
  OBVIOUS
<1>1. /\ pc = "date" /\ date < Final /\ position # None /\ date' = date + 1
      /\ pc' = IF Compounds(date') THEN "compound" ELSE "exit"
      /\ comparison' = comparison /\ s' = s /\ position' = position /\ state' = state
      /\ events' = events /\ quote' = NoQuote
  BY DEF NextDate
<1>2. /\ comparison \in Comparisons /\ date \in Nat /\ Final \in Nat
      /\ date \in 0..Final /\ date' \in 1..Final /\ date' - 1 = date
  BY <1>1, EngineAssumption DEF IInv, Places
<1>3. Strategies' = Strategies /\ Listed' = Listed /\ Integral' = Integral
  BY <1>1 DEF Strategies, Listed, Integral
<1>4. Held /\ Held'
  BY <1>1 DEF Held
<1>5. Underway' /\ (pc' = "exit" /\ state # None => date' = Final)
  BY <1>1 DEF Underway, Compounds
<1>6. Carried'
  <2> SUFFICES ASSUME state # None
               PROVE  \A t \in DOMAIN state : state[t].integral <= Integral[t][date']
    BY <1>1, <1>3, <1>4 DEF PInv, Carried
  <2> TAKE t \in DOMAIN state
  <2>1. t \in Tokens /\ state[t] \in RewardRecords /\ state[t].integral <= Integral[t][date]
    BY <1>4 DEF PInv, Carried
  <2>2. Integral[t][date'] \in Nat /\ Integral[t][date] \in Nat /\ Integral[t][date] <= Integral[t][date']
    <3>1. Integral[t][date' - 1] <= Integral[t][date']
      BY <1>2, <2>1, Integrals
    <3>2. date' \in 0..Final
      BY <1>2
    <3> QED BY <1>2, <2>1, <3>1, <3>2, Integrals
  <2> QED BY <2>1, <2>2 DEF RewardRecords
<1>7. Logged'
  <2>1. \A i \in DOMAIN events : events[i].kind # "exit"
    BY <1>1, <1>2, <1>4 DEF PInv, Logged
  <2> QED BY <1>1, <1>4, <2>1 DEF PInv, Logged
<1>8. Attempted'
  <2> SUFFICES ASSUME state # None PROVE Attempted'
    BY <1>1 DEF Attempted
  <2>1. Months' = Months
    BY <1>1, <1>2, <1>5 DEF Months, Compounds
  <2> QED BY <1>1, <1>4, <2>1 DEF PInv, Attempted
<1> QED BY <1>1, <1>5, <1>6, <1>7, <1>8 DEF PInv, Shaped, Asked

(* One more event, of the kind that is due. *)
LEMMA LogsPInv ==
  ASSUME IInv, PInv, Held, pc = "compound", pc' = "exit", date' = date,
         NEW e \in EventRecords, e.kind \in Attempt, e.date = date,
         events' = Append(events, e)
  PROVE  Logged' /\ Attempted'
<1>1. state # None /\ date # Final /\ date \in Nat \ {0}
  BY EngineAssumption DEF PInv, Underway, IInv, Places
<1>2. /\ events \in Seq(EventRecords) /\ \A i \in DOMAIN events : events[i].kind # "exit"
      /\ Months = date - 1 /\ Months' = date /\ Months' = Months + 1
      /\ Months < Len(events) /\ events[1].kind = "entry"
      /\ \A m \in 1..Months : events[m + 1].kind \in Attempt /\ events[m + 1].date = m
      /\ \A i \in DOMAIN events : Months + 1 < i => events[i].kind = "exit"
  BY <1>1 DEF PInv, Logged, Attempted, Months
<1>3. Len(events) = date
  <2>1. Len(events) \in Nat /\ DOMAIN events = 1..Len(events)
    BY <1>2
  <2>2. ~(Months + 1 < Len(events))
    BY <1>1, <1>2, <2>1
  <2> QED BY <1>1, <1>2, <2>1, <2>2
<1>4. /\ events' \in Seq(EventRecords) /\ Len(events') = date + 1
      /\ DOMAIN events' = 1..(date + 1)
      /\ \A i \in 1..date : events'[i] = events[i]
      /\ events'[date + 1] = e
  BY <1>2, <1>3
<1>5. \A i \in DOMAIN events' : events'[i].kind # "exit"
  <2>1. DOMAIN events = 1..date
    BY <1>2, <1>3
  <2>2. ASSUME NEW i \in DOMAIN events' PROVE events'[i].kind # "exit"
    <3>1. i \in 1..date \/ i = date + 1
      BY <1>1, <1>4
    <3> QED BY <1>2, <1>4, <2>1, <3>1 DEF Attempt
  <2> QED BY <2>2
<1>6. ASSUME NEW m \in 1..date PROVE events'[m + 1].kind \in Attempt /\ events'[m + 1].date = m
  <2>1. CASE m = date
    BY <1>4, <2>1
  <2>2. CASE m # date
    <3>1. m \in 1..Months /\ m + 1 \in 1..date
      BY <1>1, <1>2, <2>2
    <3> QED BY <1>2, <1>4, <3>1
  <2> QED BY <2>1, <2>2
<1>7. events'[1].kind = "entry"
  <2>1. 1 \in 1..date
    BY <1>1
  <2> QED BY <1>2, <1>4, <2>1
<1>8. \A i \in DOMAIN events' : ~(Months' + 1 < i)
  BY <1>1, <1>2, <1>4
<1>9. Logged'
  BY <1>4, <1>5 DEF Logged
<1>10. Attempted'
  <2>1. Months' < Len(events')
    BY <1>1, <1>2, <1>4
  <2> QED BY <1>2, <1>6, <1>7, <1>8, <2>1 DEF Attempted
<1> QED BY <1>9, <1>10

LEMMA SkipCompoundPInv == IInv /\ PInv /\ SkipCompound => PInv'
<1> SUFFICES ASSUME IInv, PInv, SkipCompound PROVE PInv'
  OBVIOUS
<1>1. /\ pc = "compound" /\ pc' = "exit" /\ comparison' = comparison /\ s' = s
      /\ date' = date /\ position' = position /\ state' = state /\ quote' = quote
      /\ events' = Append(events, Event("skipped-compound", date, 0))
  BY DEF SkipCompound
<1>2. Strategies' = Strategies /\ Listed' = Listed /\ Integral' = Integral
  BY <1>1 DEF Strategies, Listed, Integral
<1>3. Held /\ Held' /\ position # None
  BY <1>1 DEF PInv, Underway, Held
<1>4. /\ Event("skipped-compound", date, 0) \in EventRecords
      /\ Event("skipped-compound", date, 0).kind \in Attempt
      /\ Event("skipped-compound", date, 0).date = date
  <2>1. date \in Nat
    BY EngineAssumption DEF IInv, Places
  <2> QED BY <2>1 DEF Event, EventRecords, Attempt
<1>5. Logged' /\ Attempted'
  BY <1>1, <1>3, <1>4, LogsPInv
<1>6. Carried'
  BY <1>1, <1>2, <1>3 DEF PInv, Carried
<1>7. Asked'
  BY <1>1, <1>3 DEF PInv, Asked
<1> QED BY <1>1, <1>3, <1>5, <1>6, <1>7 DEF PInv, Shaped, Underway

\* what a compound found, what it did with it, and the position it leaves
Compounded(sold, gas, dust, deposit) ==
  /\ sold \in SUBSET Tokens /\ gas \in Nat \ {0} /\ dust \in Nat /\ deposit \in Nat \ {0}
  /\ Sum(Rewards(date), sold) = deposit + gas + dust
  /\ position' = [position EXCEPT !.shares = @ + deposit,
                                  !.idle = IdleAfter(dust, Residuals(Rewards(date), sold))]
  /\ position'.shares = position.shares + deposit
  /\ position'.startDust = position.startDust
  /\ position'.idle = IdleAfter(dust, Residuals(Rewards(date), sold))
  /\ position' \in PositionRecords
  /\ state' = [t \in {u \in Tokens : date \in Listed[u]} |->
                 [integral |-> Integral[t][date], entitled |-> Known(t).entitled,
                  paid |-> Known(t).entitled]]
  /\ events' = Append(events, Event("compound", date, gas))

LEMMA CompoundDoes ==
  ASSUME IInv, PInv, Compound
  PROVE  \E sold, gas, dust, deposit : Compounded(sold, gas, dust, deposit)
<1>1. pc = "compound" /\ Held /\ state # None
  BY DEF Compound, PInv, Underway, Held
<1>2. PICK sold \in Sellable(Rewards(date)), gas \in 1..MaxGas, dust \in 0..MaxDust :
        LET proceeds == Sum(Rewards(date), sold)
            deposit  == proceeds - gas - dust
            kept     == Residuals(Rewards(date), sold)
            account  == Stake(Paid(Claiming(date), date), deposit, date)
        IN  /\ deposit > 0
            /\ position' = [position EXCEPT !.shares = @ + deposit,
                                           !.idle = IdleAfter(dust, kept)]
            /\ state' = Captured(account, date)
            /\ events' = Append(events, Event("compound", date, gas))
  BY DEF Compound
<1> DEFINE deposit == Sum(Rewards(date), sold) - gas - dust
           kept == IdleAfter(dust, Residuals(Rewards(date), sold))
<1>3. /\ Rewards(date) \in [Tokens -> Nat] /\ position \in PositionRecords
  BY <1>1, RewardsAre
<1>4. sold \in SUBSET Tokens /\ IsFiniteSet(sold) /\ gas \in Nat \ {0} /\ dust \in Nat
  <2>1. sold \in SUBSET Tokens
    BY DEF Sellable
  <2> QED BY <2>1, EngineAssumption, FS_Subset
<1>5. Sum(Rewards(date), sold) \in Int
  <2>1. \A t \in sold : Rewards(date)[t] \in Int
    BY <1>3, <1>4
  <2> QED BY <1>4, <2>1, SumInt
<1>6. deposit \in Nat \ {0} /\ Sum(Rewards(date), sold) = deposit + gas + dust
  BY <1>2, <1>4, <1>5
<1>7. kept \in [Tokens -> Nat]
  <2>1. Residuals(Rewards(date), sold) \in [Tokens -> Nat]
    BY <1>3 DEF Residuals
  <2>2. \A r \in [Tokens -> Nat] : IdleAfter(dust, r) \in [Tokens -> Nat]
    BY <1>4 DEF IdleAfter
  <2> QED BY <2>1, <2>2
<1>8. /\ position' = [position EXCEPT !.shares = @ + deposit, !.idle = kept]
      /\ state' = Captured(Stake(Paid(Claiming(date), date), deposit, date), date)
      /\ events' = Append(events, Event("compound", date, gas))
  BY <1>2
<1> HIDE DEF deposit, kept
<1>9. /\ position'.shares = position.shares + deposit
      /\ position'.startDust = position.startDust
      /\ position'.idle = kept
  BY <1>3, <1>8 DEF PositionRecords
<1>10. position' \in PositionRecords
  <2>1. position.shares + deposit \in Nat \ {0} /\ position.startDust \in Nat
    BY <1>3, <1>6 DEF PositionRecords
  <2> QED BY <1>3, <1>6, <1>7, <1>8, <2>1 DEF PositionRecords
<1>11. state' = [t \in {u \in Tokens : date \in Listed[u]} |->
                   [integral |-> Integral[t][date], entitled |-> Known(t).entitled,
                    paid |-> Known(t).entitled]]
  BY <1>1, <1>6, <1>8, CompoundedIs
<1>12. Compounded(sold, gas, dust, deposit)
  BY <1>4, <1>6, <1>8, <1>9, <1>10, <1>11 DEF Compounded, kept
<1> QED BY <1>12

LEMMA CompoundPInv == IInv /\ PInv /\ Compound => PInv'
<1> SUFFICES ASSUME IInv, PInv, Compound PROVE PInv'
  OBVIOUS
<1>1. /\ pc = "compound" /\ pc' = "exit" /\ comparison' = comparison /\ s' = s
      /\ date' = date /\ quote' = quote /\ Restorable(date)
  BY DEF Compound
<1>2. Strategies' = Strategies /\ Listed' = Listed /\ Integral' = Integral
  BY <1>1 DEF Strategies, Listed, Integral
<1>3. Held /\ position # None /\ state # None
  BY <1>1 DEF PInv, Underway, Held
<1>4. comparison \in Comparisons /\ date \in 0..Final /\ date \in Nat
  BY EngineAssumption DEF IInv, Places
<1>5. PICK sold, gas, dust, deposit : Compounded(sold, gas, dust, deposit)
  BY CompoundDoes
<1>6. position' \in PositionRecords /\ position' # None
  BY <1>5, EngineAssumption DEF Compounded, PositionRecords
<1>7. Held'
  BY <1>1, <1>6 DEF Held
<1>8. /\ state' = [t \in {u \in Tokens : date \in Listed[u]} |->
                     [integral |-> Integral[t][date], entitled |-> Known(t).entitled,
                      paid |-> Known(t).entitled]]
      /\ DOMAIN state' = {u \in Tokens : date \in Listed[u]}
  BY <1>5 DEF Compounded
<1>9. ASSUME NEW t \in DOMAIN state'
      PROVE  /\ t \in Tokens /\ state'[t] \in RewardRecords
             /\ state'[t].paid <= state'[t].entitled /\ state'[t].integral <= Integral[t][date]
  <2>1. t \in Tokens
    BY <1>8
  <2>2. state'[t] = [integral |-> Integral[t][date], entitled |-> Known(t).entitled,
                     paid |-> Known(t).entitled]
    BY <1>8
  <2>3. Known(t).entitled \in Nat
    BY <1>3, <2>1, KnownIs DEF RewardRecords
  <2>4. Integral[t][date] \in Nat
    BY <1>4, <2>1, Integrals
  <2> QED BY <2>1, <2>2, <2>3, <2>4 DEF RewardRecords
<1>10. ASSUME NEW t \in Tokens, 0 \in Listed[t] PROVE t \in DOMAIN state'
  <2>1. t \in DOMAIN state
    BY <1>3, <1>10 DEF PInv, Carried
  <2> QED BY <1>1, <1>8, <2>1 DEF Restorable
<1>11. Carried'
  <2>1. DOMAIN state' \in SUBSET Tokens /\ state' \in [DOMAIN state' -> RewardRecords]
    BY <1>8, <1>9
  <2> QED BY <1>1, <1>2, <1>3, <1>9, <1>10, <2>1 DEF PInv, Carried
<1>12. /\ Event("compound", date, gas) \in EventRecords
       /\ Event("compound", date, gas).kind \in Attempt
       /\ Event("compound", date, gas).date = date
  BY <1>4, <1>5 DEF Compounded, Event, EventRecords, Attempt
<1>13. events' = Append(events, Event("compound", date, gas))
  BY <1>5 DEF Compounded
<1>14. Logged' /\ Attempted'
  BY <1>1, <1>3, <1>12, <1>13, LogsPInv
<1>15. Asked'
  BY <1>1, <1>3 DEF PInv, Asked
<1> QED BY <1>1, <1>6, <1>11, <1>14, <1>15 DEF PInv, Shaped, Underway

\* an exit is an event only at the last date
LEMMA ExitPInv == IInv /\ PInv /\ Exit => PInv'
<1> SUFFICES ASSUME IInv, PInv, Exit PROVE PInv'
  OBVIOUS
<1>1. /\ pc = "exit" /\ pc' = "date" /\ comparison' = comparison /\ s' = s
      /\ date' = date /\ position' = position /\ state' = state
      /\ state # None => Restorable(date)
  BY DEF Exit
<1>2. PICK gas \in 1..MaxGas :
        events' = IF date = Final THEN Append(events, Event("exit", date, gas)) ELSE events
  BY DEF Exit
<1>3. Strategies' = Strategies /\ Listed' = Listed /\ Integral' = Integral
  BY <1>1 DEF Strategies, Listed, Integral
<1>4. Held /\ Held' /\ position # None
  BY <1>1 DEF PInv, Underway, Held
<1>5. date \in Nat /\ Final \in Nat /\ Event("exit", date, gas) \in EventRecords
      /\ Event("exit", date, gas).kind = "exit" /\ date # 0
  BY EngineAssumption, <1>1 DEF IInv, Places, Event, EventRecords
<1>6. events \in Seq(EventRecords) /\ \A i \in DOMAIN events : events[i].kind # "exit"
  BY <1>1, <1>4 DEF PInv, Logged
<1>7. Carried'
  BY <1>1, <1>3, <1>4 DEF PInv, Carried
<1>8. Logged'
  <2>1. CASE date = Final
    <3>1. /\ events' \in Seq(EventRecords)
          /\ DOMAIN events' = 1..Len(events')
      BY <1>2, <1>5, <1>6, <2>1
    <3> QED BY <1>1, <2>1, <3>1 DEF Logged
  <2>2. CASE date # Final
    BY <1>1, <1>2, <1>6, <2>2 DEF Logged
  <2> QED BY <2>1, <2>2
<1>9. Attempted'
  <2> SUFFICES ASSUME state # None PROVE Attempted'
    BY <1>1 DEF Attempted
  <2>1. Months' = Months /\ Months \in Nat
    BY <1>1, <1>5 DEF Months
  <2>2. /\ Months < Len(events) /\ events[1].kind = "entry"
        /\ \A m \in 1..Months : events[m + 1].kind \in Attempt /\ events[m + 1].date = m
        /\ \A i \in DOMAIN events : Months + 1 < i => events[i].kind = "exit"
    BY <1>4 DEF PInv, Attempted
  <2>3. CASE date # Final
    BY <1>1, <1>2, <2>1, <2>2, <2>3 DEF Attempted
  <2>4. CASE date = Final
    <3>1. /\ Len(events') = Len(events) + 1 /\ Len(events) \in Nat
          /\ DOMAIN events = 1..Len(events) /\ DOMAIN events' = 1..(Len(events) + 1)
          /\ \A i \in 1..Len(events) : events'[i] = events[i]
          /\ events'[Len(events) + 1].kind = "exit"
      BY <1>2, <1>5, <1>6, <2>4
    <3>2. Months < Len(events') /\ events'[1].kind = "entry"
      BY <2>1, <2>2, <3>1
    <3>3. ASSUME NEW m \in 1..Months
          PROVE  events'[m + 1].kind \in Attempt /\ events'[m + 1].date = m
      <4>1. m + 1 \in 1..Len(events)
        BY <2>1, <2>2, <3>1
      <4> QED BY <2>2, <3>1, <4>1
    <3>4. ASSUME NEW i \in DOMAIN events', Months + 1 < i PROVE events'[i].kind = "exit"
      <4>1. i \in DOMAIN events \/ i = Len(events) + 1
        BY <3>1
      <4> QED BY <2>2, <3>1, <3>4, <4>1
    <3> QED BY <2>1, <3>2, <3>3, <3>4 DEF Attempted
  <2> QED BY <2>3, <2>4
<1>10. Asked'
  <2>1. Restorable(date)' = Restorable(date)
    BY <1>1, <1>3 DEF Restorable
  <2> QED BY <1>1, <2>1 DEF Asked
<1> QED BY <1>1, <1>4, <1>7, <1>8, <1>9, <1>10 DEF PInv, Shaped, Underway

LEMMA ExitUnavailablePInv == PInv /\ ExitUnavailable => PInv'
<1> SUFFICES ASSUME PInv, ExitUnavailable PROVE PInv'
  OBVIOUS
<1>1. /\ pc = "exit" /\ pc' = "date" /\ comparison' = comparison /\ s' = s
      /\ date' = date /\ position' = position /\ state' = state /\ events' = events
      /\ quote' = quote
  BY DEF ExitUnavailable
<1>2. Strategies' = Strategies /\ Listed' = Listed /\ Integral' = Integral
  BY <1>1 DEF Strategies, Listed, Integral
<1>3. Held /\ Held'
  BY <1>1 DEF PInv, Underway, Held
<1>4. Carried'
  BY <1>1, <1>2, <1>3 DEF PInv, Carried
<1>5. Logged'
  BY <1>1, <1>3 DEF PInv, Logged
<1>6. Attempted'
  <2>1. Months' = Months
    BY <1>1 DEF Months
  <2> QED BY <1>1, <1>3, <2>1 DEF PInv, Attempted
<1> QED BY <1>1, <1>3, <1>4, <1>5, <1>6 DEF PInv, Shaped, Underway, Asked

LEMMA StutterPInv == PInv /\ UNCHANGED vars => PInv'
<1> SUFFICES ASSUME PInv, UNCHANGED vars PROVE PInv'
  OBVIOUS
<1> USE DEF vars
<1>1. Strategies' = Strategies /\ Listed' = Listed /\ Integral' = Integral /\ Held' = Held
  BY DEF Strategies, Listed, Integral, Held
<1>2. Carried'
  BY <1>1 DEF PInv, Carried
<1>3. Logged' /\ Attempted'
  BY <1>1 DEF PInv, Logged, Attempted, Months
<1>4. Asked'
  BY <1>1 DEF PInv, Asked, Restorable
<1> QED BY <1>2, <1>3, <1>4 DEF PInv, Shaped, Underway

LEMMA NextPInv == IInv /\ PInv /\ [Next]_vars => PInv'
BY BenchmarksPInv, NoPositionPInv, EnterPInv, NextDatePInv, CompoundPInv, SkipCompoundPInv,
   ExitPInv, ExitUnavailablePInv, StutterPInv DEF Next, Done

(* What is carried from fork to fork: a position with its shape, counters that never
   say more was paid than earned and include every token listed at the entry, one
   event for each month, and a value only after an exit. *)
THEOREM Carrying == Spec => []PInv
BY InitPInv, NextPInv, Inductive, PTL DEF Spec
-----------------------------------------------------------------------------
(* Shapes of the state, and counters that never pay more than was earned. *)
THEOREM TypeCorrect == Spec => []TypeOK
<1>1. IInv /\ PInv => TypeOK
  <2> SUFFICES ASSUME IInv, PInv PROVE TypeOK
    OBVIOUS
  <2>1. /\ pc \in {"benchmarks", "verify", "enter", "date", "compound", "exit", "done"}
        /\ date \in 0..Final /\ rows \in [RowKeys -> Seq(Statuses)]
        /\ failedStatus \in Statuses
    BY DEF IInv, Places, Working, Pages, Statuses
  <2>2. position # None => /\ position.shares \in Nat \ {0} /\ position.startDust \in Nat
                           /\ position.idle \in [Tokens -> Nat]
    BY DEF PInv, Shaped, PositionRecords
  <2>3. state # None /\ Held =>
          /\ Strategies[s] \in Rewarded
          /\ \A t \in DOMAIN state : state[t].paid \in 0..state[t].entitled
    BY DEF PInv, Carried, RewardRecords
  <2> QED BY <2>1, <2>2, <2>3 DEF TypeOK
<1> QED BY <1>1, Inductive, Carrying, PTL

(* A rewarded position has tried to compound at every date but the end, once and in
   order. *)
THEOREM MonthsAttempted == Spec => []EveryMonthAttempted
<1>1. IInv /\ PInv => EveryMonthAttempted
  <2> SUFFICES ASSUME IInv, PInv, Held, pc = "date", state # None PROVE EveryMonthAttempted
    BY DEF EveryMonthAttempted
  <2> DEFINE attempts == {i \in DOMAIN events : events[i].kind \in Attempt}
  <2>1. /\ date \in Nat /\ Final \in Nat \ {0} /\ Months \in Int
        /\ Months = IF date = Final THEN Final - 1 ELSE date
        /\ Months \in Nat
    BY EngineAssumption DEF IInv, Places, Months
  <2>2. /\ events \in Seq(EventRecords) /\ Months < Len(events) /\ events[1].kind = "entry"
        /\ \A m \in 1..Months : events[m + 1].kind \in Attempt /\ events[m + 1].date = m
        /\ \A i \in DOMAIN events : Months + 1 < i => events[i].kind = "exit"
    BY DEF PInv, Logged, Attempted
  <2>3. Len(events) \in Nat /\ DOMAIN events = 1..Len(events)
    BY <2>2
  <2>4. ASSUME NEW i \in attempts PROVE i \in Nat /\ i - 1 \in 1..Months /\ events[i].date = i - 1
    <3>1. i \in 1..Len(events) /\ events[i].kind \in Attempt
      BY <2>3
    <3>2. i # 1 /\ ~(Months + 1 < i)
      BY <2>2, <2>3, <3>1 DEF Attempt
    <3>3. i - 1 \in 1..Months /\ (i - 1) + 1 = i
      BY <2>1, <3>1, <3>2
    <3>4. events[(i - 1) + 1].date = i - 1
      BY <2>2, <3>3
    <3> QED BY <3>1, <3>3, <3>4
  <2>5. ASSUME NEW m \in 1..Months PROVE m + 1 \in attempts /\ events[m + 1].date = m
    <3>1. m + 1 \in 1..Len(events)
      BY <2>1, <2>2, <2>3
    <3> QED BY <2>2, <2>3, <3>1
  <2>6. {events[i].date : i \in attempts} = 1..Months
    <3> HIDE DEF attempts
    <3> QED BY <2>4, <2>5
  <2>7. \A i, j \in attempts : i < j => events[i].date < events[j].date
    <3> HIDE DEF attempts
    <3> QED BY <2>1, <2>4
  <2> QED BY <2>1, <2>6, <2>7 DEF EveryMonthAttempted, Attempt
<1> QED BY <1>1, Inductive, Carrying, PTL

LEMMA NothingHidden ==
  ASSUME \A c \in Comparisons : Lasting(c), IInv, PInv, Held, state # None => Restorable(date),
         NEW t \in Tokens, date \notin Listed[t]
  PROVE  Unclaimed[t] = 0
<1>1. CASE state = None
  BY <1>1 DEF Unclaimed
<1>2. CASE state # None
  <2>1. t \notin DOMAIN state
    BY <1>2 DEF Restorable
  <2>2. 0 \notin Listed[t]
    BY <1>2, <2>1 DEF PInv, Carried
  <2>3. comparison \in Comparisons /\ date \in 0..Final
    BY DEF IInv, Places
  <2>4. Integral[t][date] = 0
    BY <2>2, <2>3 DEF Lasting, Listed, Integral
  <2>5. RestoredReward(t) = NoReward
    BY <2>1 DEF RestoredReward
  <2>6. Unclaimed[t] = 0 - 0 + WorkingBalance(position.shares) * (0 - 0)
    BY <1>2, <2>4, <2>5 DEF Unclaimed, NoReward
  <2>7. WorkingBalance(position.shares) \in Nat
    BY <1>2, RestoredIs
  <2>8. WorkingBalance(position.shares) * 0 = 0
    BY <2>7
  <2> QED BY <2>6, <2>8
<1> QED BY <1>1, <1>2

(* As long as the reward contracts drop only tokens they listed at the entry, a
   complete value leaves out no reward of a token that was removed. *)
THEOREM RemovedVisible == 
  ASSUME \A c \in Comparisons : Lasting(c)
  PROVE  Spec => []RemovedRewardsVisible
<1>1. IInv /\ PInv => RemovedRewardsVisible
  BY NothingHidden DEF RemovedRewardsVisible, PInv, Asked
<1> QED BY <1>1, Inductive, Carrying, PTL
-----------------------------------------------------------------------------
(* The position as one that was never taken apart. *)
LEMMA CostsAre ==
  ASSUME events \in Seq(EventRecords)
  PROVE  /\ Costs \in Int
         /\ (\A i \in DOMAIN events : events[i].kind # "exit") => GasOf(events) = Costs
<1> DEFINE f == [i \in DOMAIN events |-> events[i].gas]
           S == {i \in DOMAIN events : events[i].kind # "exit"}
<1>1. IsFiniteSet(DOMAIN events)
  <2>1. Len(events) \in Nat /\ DOMAIN events = 1..Len(events)
    OBVIOUS
  <2> QED BY <2>1, FS_Interval
<1>2. IsFiniteSet(S)
  BY <1>1, FS_Subset
<1>3. \A i \in S : f[i] \in Int
  <2>1. \A r \in EventRecords : r.gas \in Int
    BY DEF EventRecords
  <2>2. \A i \in DOMAIN events : events[i] \in EventRecords
    OBVIOUS
  <2> QED BY <2>1, <2>2
<1>4. Costs = Sum(f, S) /\ GasOf(events) = Sum(f, DOMAIN events)
  BY DEF Costs, GasOf, GasIn
<1>5. (\A i \in DOMAIN events : events[i].kind # "exit") => S = DOMAIN events
  OBVIOUS
<1> HIDE DEF f, S
<1>6. Sum(f, S) \in Int
  BY <1>2, <1>3, SumInt
<1> QED BY <1>4, <1>5, <1>6

LEMMA CostsGrow ==
  ASSUME events \in Seq(EventRecords), NEW e \in EventRecords, events' = Append(events, e)
  PROVE  Costs' = Costs + IF e.kind = "exit" THEN 0 ELSE e.gas
<1> DEFINE f == [i \in DOMAIN events |-> events[i].gas]
           g == [i \in DOMAIN events' |-> events'[i].gas]
           S == {i \in DOMAIN events : events[i].kind # "exit"}
           T == {i \in DOMAIN events' : events'[i].kind # "exit"}
           n == Len(events) + 1
<1>1. /\ Len(events) \in Nat /\ DOMAIN events = 1..Len(events) /\ DOMAIN events' = 1..n
      /\ \A i \in DOMAIN events : events'[i] = events[i] /\ i \in DOMAIN events'
      /\ events'[n] = e /\ n \in DOMAIN events' /\ n \notin DOMAIN events
      /\ \A i \in DOMAIN events' : i \in DOMAIN events \/ i = n
  OBVIOUS
<1>2. \A i \in DOMAIN events : g[i] = f[i] /\ f[i] \in Int
  <2>1. \A r \in EventRecords : r.gas \in Int
    BY DEF EventRecords
  <2>2. \A i \in DOMAIN events : events[i] \in EventRecords
    OBVIOUS
  <2> QED BY <1>1, <2>1, <2>2
<1>3. g[n] = e.gas /\ e.gas \in Int
  BY <1>1 DEF EventRecords
<1>4. T = IF e.kind = "exit" THEN S ELSE S \cup {n}
  BY <1>1
<1>5. IsFiniteSet(DOMAIN events) /\ S \in SUBSET DOMAIN events /\ n \notin S
  BY <1>1, FS_Interval
<1>6. IsFiniteSet(S) /\ IsFiniteSet(S \cup {n})
  <2>1. IsFiniteSet(S)
    BY <1>5, FS_Subset
  <2> QED BY <2>1, FS_AddElement
<1>7. Costs = Sum(f, S) /\ Costs' = Sum(g, T)
  BY DEF Costs, GasIn, Sum
<1> HIDE DEF f, g, S, T, n
<1>8. Sum(g, S) = Sum(f, S) /\ Sum(f, S) \in Int
  <2>1. \A i \in S : g[i] = f[i] /\ f[i] \in Int
    BY <1>2, <1>5
  <2> QED BY <1>6, <2>1, SumSame, SumInt
<1>9. Sum(g, S \cup {n}) = e.gas + Sum(g, S)
  <2>1. \A i \in S \cup {n} : g[i] \in Int
    BY <1>2, <1>3, <1>5
  <2>2. Sum(g, S \cup {n}) = g[n] + Sum(g, (S \cup {n}) \ {n})
    BY <1>6, <2>1, SumRemove
  <2>3. (S \cup {n}) \ {n} = S
    BY <1>5
  <2> QED BY <1>3, <2>2, <2>3
<1> QED BY <1>3, <1>4, <1>7, <1>8, <1>9

LEMMA InitOnChain == Init => OnChain!Init
<1> SUFFICES ASSUME Init PROVE OnChain!Init
  OBVIOUS
<1>1. ~Held
  BY DEF Init, Held
<1>2. Unclaimed = Nothing
  BY <1>1 DEF Unclaimed, Nothing
<1> QED BY <1>1, <1>2 DEF OnChain!Init, OnChain!Nothing, OnChain!NoQuote, Nothing, NoQuote

LEMMA UnheldIs ==
  ASSUME ~Held
  PROVE  Unclaimed = Nothing
BY DEF Unclaimed, Nothing

(* The steps between two positions, and those that only report. *)
LEMMA UnheldOnChain ==
  ASSUME ~Held, ~Held', comparison' = comparison
  PROVE  UNCHANGED OnChain!vars
<1>1. Integral' = Integral
  BY DEF Integral
<1>2. Unclaimed = Nothing /\ Unclaimed' = Nothing
  BY UnheldIs DEF Unclaimed, Nothing
<1>3. Held' = Held /\ (Held /\ state # None)' = (Held /\ state # None)
  BY DEF Held
<1>4. Unclaimed' = Unclaimed /\ Nothing' = Nothing /\ NoQuote' = NoQuote
  BY <1>2 DEF Nothing, NoQuote
<1>5. /\ (IF Held THEN date ELSE 0)' = IF Held THEN date ELSE 0
      /\ (IF Held THEN position.shares ELSE 0)' = IF Held THEN position.shares ELSE 0
      /\ (IF Held THEN position.startDust ELSE 0)' = IF Held THEN position.startDust ELSE 0
      /\ (IF Held THEN position.idle ELSE Nothing)' = IF Held THEN position.idle ELSE Nothing
      /\ (IF Held THEN Costs ELSE 0)' = IF Held THEN Costs ELSE 0
      /\ (IF Held THEN quote ELSE NoQuote)' = IF Held THEN quote ELSE NoQuote
  BY <1>4
<1> QED BY <1>1, <1>3, <1>4, <1>5 DEF OnChain!vars

LEMMA DropOnChain ==
  ASSUME Held, ~Held', comparison' = comparison
  PROVE  OnChain!Next
<1>1. Integral' = Integral
  BY DEF Integral
<1>2. Unclaimed' = Nothing
  BY DEF Unclaimed, Nothing
<1>3. OnChain!Drop
  BY <1>1, <1>2 DEF OnChain!Drop, OnChain!Nothing, OnChain!NoQuote, Nothing, NoQuote
<1> QED BY <1>3 DEF OnChain!Next

LEMMA StaysOnChain ==
  ASSUME Held, Held', comparison' = comparison, date' = date, position' = position,
         state' = state, Costs' = Costs, quote' = quote
  PROVE  UNCHANGED OnChain!vars
<1>1. Integral' = Integral
  BY DEF Integral
<1>2. Unclaimed' = Unclaimed
  BY <1>1 DEF Unclaimed, RestoredReward
<1>3. Held' = Held
  BY DEF Held
<1>4. /\ (Held /\ state # None)' = (Held /\ state # None)
      /\ (IF Held THEN Costs ELSE 0)' = IF Held THEN Costs ELSE 0
      /\ (IF Held THEN quote ELSE NoQuote)' = IF Held THEN quote ELSE NoQuote
  BY <1>3 DEF NoQuote
<1>5. /\ (IF Held THEN date ELSE 0)' = IF Held THEN date ELSE 0
      /\ (IF Held THEN position.shares ELSE 0)' = IF Held THEN position.shares ELSE 0
      /\ (IF Held THEN position.startDust ELSE 0)' = IF Held THEN position.startDust ELSE 0
      /\ (IF Held THEN position.idle ELSE Nothing)' = IF Held THEN position.idle ELSE Nothing
  BY <1>3 DEF Nothing
<1> QED BY <1>1, <1>2, <1>3, <1>4, <1>5 DEF OnChain!vars

LEMMA EnterOnChain ==
  ASSUME IInv, Enter
  PROVE  OnChain!Next
<1>1. comparison \in Comparisons /\ 0 \in 0..Final
  BY EngineAssumption DEF IInv, Places
<1>2. PICK shares \in EntryShares, dust \in 0..MaxDust, gas \in 1..MaxGas :
        /\ position' = [shares |-> shares, startDust |-> dust, idle |-> Nothing]
        /\ state' = EntryState(shares)
        /\ events' = <<Event("entry", 0, gas)>>
  BY DEF Enter
<1>3. shares \in Nat /\ shares > 0 /\ dust \in Nat /\ gas \in Nat /\ gas > 0
  BY EngineAssumption
<1>4. /\ pc = "enter" /\ comparison' = comparison /\ date' = 0 /\ quote' = NoQuote
      /\ pc' = "date" /\ Integral' = Integral
  BY DEF Enter, Integral
<1>5. position' # None
  <2>1. Nothing \in [Tokens -> Nat]
    BY DEF Nothing
  <2> QED BY <1>2, <1>3, <2>1, EngineAssumption
<1>6. ~Held /\ Held'
  BY <1>4, <1>5 DEF Held
<1>7. Costs' = gas
  <2> DEFINE f == [i \in DOMAIN events' |-> events'[i].gas]
             T == {i \in DOMAIN events' : events'[i].kind # "exit"}
  <2>1. /\ events'[1].kind = "entry" /\ events'[1].gas = gas /\ DOMAIN events' = {1}
    BY <1>2 DEF Event
  <2>2. T = {1} /\ f[1] = gas
    BY <2>1
  <2>3. Costs' = Sum(f, T)
    BY DEF Costs, GasIn, Sum
  <2> HIDE DEF f, T
  <2>4. Sum(f, {1}) = f[1] + Sum(f, {1} \ {1})
    <3>1. 1 \in {1} /\ IsFiniteSet({1}) /\ \A x \in {1} : f[x] \in Int
      BY <1>3, <2>2, FS_Singleton
    <3> QED BY <3>1, SumRemove
  <2>5. {1} \ {1} = {}
    OBVIOUS
  <2> QED BY <1>3, <2>2, <2>3, <2>4, <2>5, SumEmpty
<1>8. Unclaimed' = Nothing
  <2>1. Unclaimed' = [t \in Tokens |-> Unclaimed'[t]]
    BY DEF Unclaimed
  <2>2. ASSUME NEW t \in Tokens PROVE Unclaimed'[t] = 0
    <3>1. CASE state' = None
      BY <3>1 DEF Unclaimed
    <3>2. CASE state' # None
      <4>1. state' = [u \in {v \in Tokens : 0 \in Listed[v]} |->
                        [integral |-> Integral[u][0], entitled |-> 0, paid |-> 0]]
        BY <1>1, <1>2, <1>3, <3>2, EnteredIs DEF EntryState
      <4>2. Integral[t][0] \in Nat /\ (0 \notin Listed[t] => Integral[t][0] = 0)
        BY <1>1, Integrals
      <4>3. RestoredReward(t)' = [integral |-> Integral[t][0], entitled |-> 0, paid |-> 0]
        <5>1. CASE 0 \in Listed[t]
          BY <4>1, <5>1 DEF RestoredReward
        <5>2. CASE 0 \notin Listed[t]
          BY <4>1, <4>2, <5>2 DEF RestoredReward, NoReward
        <5> QED BY <5>1, <5>2
      <4>4. Unclaimed'[t] = 0 - 0 + WorkingBalance(position'.shares) * (Integral[t][0] - Integral[t][0])
        BY <1>4, <1>6, <3>2, <4>3 DEF Unclaimed
      <4>5. position'.shares = shares /\ WorkingBalance(shares) \in Nat
        BY <1>2, <1>3, WorkingNat
      <4>6. Integral[t][0] - Integral[t][0] = 0 /\ WorkingBalance(shares) * 0 = 0
        BY <4>2, <4>5
      <4> QED BY <4>4, <4>5, <4>6
    <3> QED BY <3>1, <3>2
  <2> QED BY <2>1, <2>2 DEF Nothing
<1>9. OnChain!Enter
  BY <1>2, <1>3, <1>4, <1>6, <1>7, <1>8
     DEF OnChain!Enter, OnChain!Nothing, OnChain!NoQuote, Nothing, NoQuote
<1> QED BY <1>9 DEF OnChain!Next

LEMMA AdvanceOnChain ==
  ASSUME IInv, PInv, NextDate
  PROVE  OnChain!Next
<1>1. /\ pc = "date" /\ date < Final /\ position # None /\ date' = date + 1
      /\ pc' \in {"compound", "exit"} /\ comparison' = comparison
      /\ position' = position /\ state' = state /\ events' = events /\ quote' = NoQuote
      /\ Integral' = Integral
  BY DEF NextDate, Integral
<1>2. Held /\ Held'
  BY <1>1 DEF Held
<1>3. /\ comparison \in Comparisons /\ date \in 0..Final /\ date + 1 \in 0..Final
  BY <1>1, EngineAssumption DEF IInv, Places
<1>4. Costs' = Costs
  BY <1>1 DEF Costs, GasIn
<1>5. ASSUME NEW t \in Tokens, state # None
      PROVE  Unclaimed'[t] = Unclaimed[t]
               + WorkingBalance(position.shares) * (Integral[t][date + 1] - Integral[t][date])
  <2> DEFINE W == WorkingBalance(position.shares)
             r == RestoredReward(t)
  <2>1. RestoredReward(t)' = RestoredReward(t)
    BY <1>1 DEF RestoredReward
  <2>2. Unclaimed'[t] = r.entitled - r.paid + W * (Integral[t][date + 1] - r.integral)
    BY <1>1, <1>2, <1>5, <2>1 DEF Unclaimed
  <2>3. Unclaimed[t] = r.entitled - r.paid + W * (Integral[t][date] - r.integral)
    BY <1>2, <1>5 DEF Unclaimed
  <2>4. r \in RewardRecords /\ W \in Nat
    BY <1>2, <1>5, RestoredIs
  <2>5. r.entitled \in Int /\ r.paid \in Int /\ r.integral \in Int
    BY <2>4 DEF RewardRecords
  <2>6. Integral[t][date + 1] \in Int /\ Integral[t][date] \in Int
    BY <1>3, Integrals
  <2> HIDE DEF W, r
  <2>7. W * (Integral[t][date + 1] - r.integral)
          = W * (Integral[t][date] - r.integral) + W * (Integral[t][date + 1] - Integral[t][date])
    <3>1. \A w, x, y, z \in Int : w * (x - z) = w * (y - z) + w * (x - y)
      OBVIOUS
    <3> QED BY <2>4, <2>5, <2>6, <3>1
  <2>8. W * (Integral[t][date] - r.integral) \in Int /\ W * (Integral[t][date + 1] - Integral[t][date]) \in Int
    <3>1. \A w, x, y \in Int : w * (x - y) \in Int
      OBVIOUS
    <3> QED BY <2>4, <2>5, <2>6, <3>1
  <2> QED BY <2>2, <2>3, <2>5, <2>7, <2>8 DEF W
<1>6. ASSUME state = None PROVE Unclaimed' = Unclaimed
  BY <1>1, <1>2, <1>6 DEF Unclaimed
<1>7. Unclaimed' = IF state # None
                   THEN [t \in Tokens |-> Unclaimed[t]
                           + WorkingBalance(position.shares) * (Integral[t][date + 1] - Integral[t][date])]
                   ELSE Unclaimed
  <2>1. Unclaimed' = [t \in Tokens |-> Unclaimed'[t]]
    BY DEF Unclaimed
  <2> QED BY <1>5, <1>6, <2>1
<1>8. OnChain!Advance
  BY <1>1, <1>2, <1>4, <1>7
     DEF OnChain!Advance, OnChain!Earned, OnChain!NoQuote, NoQuote, WorkingBalance
<1> QED BY <1>8 DEF OnChain!Next

\* what the wallet would hold had the rewards been paid out
LEMMA WealthIs ==
  ASSUME \A c \in Comparisons : Lasting(c), IInv, PInv, Held, state # None => Restorable(date)
  PROVE  OnChain!Wealth = Rewards(date) /\ Rewards(date) \in [Tokens -> Nat]
<1>1. /\ Rewards(date) \in [Tokens -> Nat] /\ Unclaimed \in [Tokens -> Nat]
      /\ position \in PositionRecords
      /\ \A t \in Tokens :
           Rewards(date)[t] = position.idle[t]
                              + IF state = None \/ date \notin Listed[t] THEN 0 ELSE Unclaimed[t]
  BY RewardsAre
<1>2. position.idle \in [Tokens -> Nat]
  BY <1>1 DEF PositionRecords
<1>3. OnChain!Wealth = [t \in Tokens |-> Unclaimed[t] + position.idle[t]]
  BY DEF OnChain!Wealth
<1>4. ASSUME NEW t \in Tokens PROVE Rewards(date)[t] = Unclaimed[t] + position.idle[t]
  <2>1. state = None \/ date \notin Listed[t] => Unclaimed[t] = 0
    BY NothingHidden DEF Unclaimed
  <2> QED BY <1>1, <1>2, <2>1
<1>5. Rewards(date) = [t \in Tokens |-> Rewards(date)[t]]
  BY <1>1
<1> QED BY <1>1, <1>3, <1>4, <1>5

LEMMA SameSum == \A f, S : OnChain!SumFunctionOnSet(f, S) = Sum(f, S)
BY DEF Sum, SumFunctionOnSet, FoldFunctionOnSet, MapThenFoldSet,
       OnChain!SumFunctionOnSet, OnChain!FoldFunctionOnSet, OnChain!MapThenFoldSet

LEMMA CompoundOnChain ==
  ASSUME \A c \in Comparisons : Lasting(c), IInv, PInv, Compound
  PROVE  OnChain!Next
<1>1. /\ pc = "compound" /\ pc' = "exit" /\ comparison' = comparison
      /\ date' = date /\ quote' = quote /\ Restorable(date) /\ Integral' = Integral
  BY DEF Compound, Integral
<1>2. Held /\ position # None /\ state # None
  BY <1>1 DEF PInv, Underway, Held
<1>3. comparison \in Comparisons /\ date \in 0..Final
  BY DEF IInv, Places
<1>4. PICK sold, gas, dust, deposit : Compounded(sold, gas, dust, deposit)
  BY CompoundDoes
<1>5. /\ sold \in SUBSET Tokens /\ gas \in Nat \ {0} /\ dust \in Nat /\ deposit \in Nat \ {0}
      /\ Sum(Rewards(date), sold) = deposit + gas + dust
      /\ position'.shares = position.shares + deposit
      /\ position'.startDust = position.startDust
      /\ position'.idle = IdleAfter(dust, Residuals(Rewards(date), sold))
      /\ position' \in PositionRecords
      /\ state' = [t \in {u \in Tokens : date \in Listed[u]} |->
                     [integral |-> Integral[t][date], entitled |-> Known(t).entitled,
                      paid |-> Known(t).entitled]]
      /\ events' = Append(events, Event("compound", date, gas))
  BY <1>4 DEF Compounded
<1>6. position' # None /\ Held'
  BY <1>1, <1>5, EngineAssumption DEF Held, PositionRecords
<1>7. ASSUME NEW t \in Tokens
      PROVE  /\ Integral[t][date] \in Nat /\ Known(t).entitled \in Nat
             /\ date \notin Listed[t] => Integral[t][date] = 0
  <2>1. Integral[t][date] \in Nat
    BY <1>3, Integrals
  <2>2. Known(t).entitled \in Nat
    BY <1>2, KnownIs DEF RewardRecords
  <2>3. ASSUME date \notin Listed[t] PROVE Integral[t][date] = 0
    <3>1. t \notin DOMAIN state
      BY <1>1, <2>3 DEF Restorable
    <3>2. 0 \notin Listed[t]
      BY <1>2, <3>1 DEF PInv, Carried
    <3> QED BY <1>3, <2>3, <3>2 DEF Lasting, Listed, Integral
  <2> QED BY <2>1, <2>2, <2>3
<1>8. state' # None
  <2> DEFINE S == {u \in Tokens : date \in Listed[u]}
  <2>1. state' \in [S -> RewardRecords]
    BY <1>5, <1>7 DEF RewardRecords
  <2>2. S \in SUBSET Tokens
    OBVIOUS
  <2> HIDE DEF S
  <2> QED BY <2>1, <2>2, EngineAssumption DEF RewardRecords
<1>9. Unclaimed' = Nothing
  <2>1. Unclaimed' = [t \in Tokens |-> Unclaimed'[t]]
    BY DEF Unclaimed
  <2>2. ASSUME NEW t \in Tokens PROVE Unclaimed'[t] = 0
    <3> DEFINE r == RestoredReward(t)'
               W == WorkingBalance(position'.shares)
    <3>1. Unclaimed'[t] = r.entitled - r.paid + W * (Integral[t][date] - r.integral)
      BY <1>1, <1>6, <1>8 DEF Unclaimed
    <3>2. W \in Nat
      BY <1>5, WorkingNat DEF PositionRecords
    <3>3. r.entitled = r.paid /\ r.integral = Integral[t][date] /\ r.entitled \in Nat
      <4>1. CASE date \in Listed[t]
        <5>1. r = [integral |-> Integral[t][date], entitled |-> Known(t).entitled,
                   paid |-> Known(t).entitled]
          BY <1>5, <4>1 DEF RestoredReward
        <5> QED BY <1>7, <5>1
      <4>2. CASE date \notin Listed[t]
        <5>1. r = NoReward
          BY <1>5, <4>2 DEF RestoredReward
        <5> QED BY <1>7, <4>2, <5>1 DEF NoReward
      <4> QED BY <4>1, <4>2
    <3> HIDE DEF r, W
    <3>4. Integral[t][date] - r.integral = 0 /\ W * 0 = 0
      BY <1>7, <3>2, <3>3
    <3> QED BY <3>1, <3>3, <3>4
  <2> QED BY <2>1, <2>2 DEF Nothing
<1>10. Costs' = Costs + gas /\ Costs \in Int
  <2>1. events \in Seq(EventRecords)
    BY <1>2 DEF PInv, Logged
  <2>2. /\ Event("compound", date, gas) \in EventRecords
        /\ Event("compound", date, gas).kind = "compound" /\ Event("compound", date, gas).gas = gas
    BY <1>3, <1>5, EngineAssumption DEF Event, EventRecords
  <2>3. Costs' = Costs + IF Event("compound", date, gas).kind = "exit" THEN 0
                         ELSE Event("compound", date, gas).gas
    BY <1>5, <2>1, <2>2, CostsGrow
  <2> QED BY <2>1, <2>2, <2>3, CostsAre
<1>11. OnChain!Wealth = Rewards(date) /\ Rewards(date) \in [Tokens -> Nat]
  BY <1>1, <1>2, WealthIs
<1>12. position \in PositionRecords /\ position.shares \in Nat
  BY <1>2 DEF PInv, Shaped, PositionRecords
<1>13. /\ Coin \in Tokens
       /\ \A t \in Tokens : position'.idle[t] = (IF t \in sold THEN 0 ELSE Rewards(date)[t])
                                                + IF t = Coin THEN dust ELSE 0
  BY <1>5, EngineAssumption DEF IdleAfter, Residuals
<1> DEFINE Kept(t) == IF t \in sold THEN 0 ELSE OnChain!Wealth[t]
           change == position'.idle[Coin] - Kept(Coin)
<1>14. change = dust
  BY <1>5, <1>11, <1>13
<1>15. \A t \in Tokens \ {Coin} : position'.idle[t] = Kept(t)
  BY <1>11, <1>13
<1>16. OnChain!SumFunctionOnSet(OnChain!Wealth, sold)
         = (position'.shares - position.shares) + (Costs' - Costs) + change
  <2>1. Sum(Rewards(date), sold) = OnChain!SumFunctionOnSet(OnChain!Wealth, sold)
    BY <1>11, SameSum
  <2> QED BY <1>5, <1>10, <1>12, <1>14, <2>1
<1>17. position'.shares > position.shares /\ Costs' > Costs /\ change >= 0
  BY <1>5, <1>10, <1>12, <1>14
<1>18. /\ (IF Held THEN position.shares ELSE 0) = position.shares
       /\ (IF Held THEN position.shares ELSE 0)' = position'.shares
       /\ (IF Held THEN Costs ELSE 0) = Costs /\ (IF Held THEN Costs ELSE 0)' = Costs'
       /\ (IF Held THEN position.idle ELSE Nothing)' = position'.idle
  BY <1>2, <1>6
<1>19. /\ Held' = Held /\ (Held /\ state # None) /\ (Held /\ state # None)' = (Held /\ state # None)
       /\ (IF Held THEN date ELSE 0)' = IF Held THEN date ELSE 0
       /\ (IF Held THEN position.startDust ELSE 0)' = IF Held THEN position.startDust ELSE 0
       /\ (IF Held THEN quote ELSE NoQuote)' = IF Held THEN quote ELSE NoQuote
  <2>1. Held' = Held
    BY <1>2, <1>6 DEF Held
  <2> QED BY <1>1, <1>2, <1>5, <1>6, <1>8, <2>1
<1> HIDE DEF change, Kept
<1>20. OnChain!Compound
  <2>1. /\ (IF Held THEN position.shares ELSE 0)' > (IF Held THEN position.shares ELSE 0)
        /\ (IF Held THEN Costs ELSE 0)' > (IF Held THEN Costs ELSE 0)
        /\ change >= 0
        /\ OnChain!SumFunctionOnSet(OnChain!Wealth, sold)
             = ((IF Held THEN position.shares ELSE 0)' - (IF Held THEN position.shares ELSE 0))
               + ((IF Held THEN Costs ELSE 0)' - (IF Held THEN Costs ELSE 0)) + change
        /\ \A t \in Tokens \ {Coin} : (IF Held THEN position.idle ELSE Nothing)'[t] = Kept(t)
    BY <1>15, <1>16, <1>17, <1>18
  <2>2. change = (IF Held THEN position.idle ELSE Nothing)'[Coin] - Kept(Coin)
    BY <1>18 DEF change
  <2>3. Unclaimed' = OnChain!Nothing
    BY <1>9 DEF OnChain!Nothing, Nothing
  <2>4. \A t : Kept(t) = IF t \in sold THEN 0 ELSE OnChain!Wealth[t]
    BY DEF Kept
  <2> HIDE DEF OnChain!Wealth
  <2> QED BY <1>1, <1>2, <1>5, <1>19, <2>1, <2>2, <2>3, <2>4 DEF OnChain!Compound
<1> QED BY <1>20 DEF OnChain!Next

LEMMA ExitOnChain ==
  ASSUME \A c \in Comparisons : Lasting(c), IInv, PInv, Exit
  PROVE  OnChain!Next
<1>1. /\ pc = "exit" /\ pc' = "date" /\ comparison' = comparison
      /\ date' = date /\ position' = position /\ state' = state /\ Integral' = Integral
      /\ state # None => Restorable(date)
  BY DEF Exit, Integral
<1>2. PICK sold \in Sellable(Rewards(date)), gas \in 1..MaxGas :
       LET output   == position.shares + Sum(Rewards(date), sold)
           residual == Residuals(Rewards(date), sold)
       IN  /\ output > gas
           /\ quote' = [amount |-> output - gas + position.startDust, gas |-> gas,
                        unsold |-> Sum(residual, Tokens),
                        total |-> GasOf(events) + gas]
           /\ events' = IF date = Final
                        THEN Append(events, Event("exit", date, gas))
                        ELSE events
  BY DEF Exit
<1> DEFINE paid == Sum(Rewards(date), sold)
           residual == Residuals(Rewards(date), sold)
<1>3. Held /\ Held'
  BY <1>1 DEF PInv, Underway, Held
<1>4. OnChain!Wealth = Rewards(date) /\ Rewards(date) \in [Tokens -> Nat]
  BY <1>1, <1>3, WealthIs
<1>5. sold \in SUBSET Tokens /\ gas \in Nat \ {0} /\ IsFiniteSet(Tokens) /\ IsFiniteSet(sold)
  <2>1. sold \in SUBSET Tokens /\ IsFiniteSet(Tokens)
    BY EngineAssumption DEF Sellable
  <2> QED BY <2>1, FS_Subset, EngineAssumption
<1>6. position.shares \in Nat /\ position.startDust \in Nat
  BY <1>3 DEF PInv, Shaped, Held, PositionRecords
<1>7. /\ events \in Seq(EventRecords) /\ \A i \in DOMAIN events : events[i].kind # "exit"
  BY <1>1, <1>3 DEF PInv, Logged
<1>8. GasOf(events) = Costs /\ Costs \in Int
  BY <1>7, CostsAre
<1>9. Costs' = Costs
  <2>1. CASE date = Final
    <3>1. /\ Event("exit", date, gas) \in EventRecords /\ Event("exit", date, gas).kind = "exit"
      BY <1>5, <2>1, EngineAssumption DEF Event, EventRecords
    <3>2. events' = Append(events, Event("exit", date, gas))
      BY <1>2, <2>1
    <3>3. Costs' = Costs + IF Event("exit", date, gas).kind = "exit" THEN 0
                           ELSE Event("exit", date, gas).gas
      BY <1>7, <3>1, <3>2, CostsGrow
    <3> QED BY <1>8, <3>1, <3>3
  <2>2. CASE date # Final
    <3>1. events' = events
      BY <1>2, <2>2
    <3> QED BY <3>1 DEF Costs, GasIn
  <2> QED BY <2>1, <2>2
<1>10. Unclaimed' = Unclaimed
  BY <1>1, <1>3 DEF Unclaimed, RestoredReward
<1>11. paid \in Int /\ Sum(Rewards(date), Tokens) = paid + Sum(residual, Tokens)
       /\ Sum(residual, Tokens) \in Int
  <2>1. \A t \in Tokens : Rewards(date)[t] \in Int
    BY <1>4
  <2>2. paid \in Int
    BY <1>5, <2>1, SumInt
  <2>3. Sum(Rewards(date), Tokens) = paid + Sum(Rewards(date), Tokens \ sold)
    BY <1>5, <2>1, SumSplit
  <2>4. /\ \A t \in Tokens : residual[t] \in Int /\ (t \in sold => residual[t] = 0)
        /\ \A t \in Tokens \ sold : residual[t] = Rewards(date)[t]
    BY <2>1 DEF Residuals
  <2> HIDE DEF residual, paid
  <2>5. Sum(residual, Tokens) = Sum(residual, sold) + Sum(residual, Tokens \ sold)
    BY <1>5, <2>4, SumSplit
  <2>6. Sum(residual, sold) = 0
    BY <1>5, <2>4, SumZero
  <2>7. IsFiniteSet(Tokens \ sold)
    BY <1>5, FS_Subset
  <2>8. Sum(residual, Tokens \ sold) = Sum(Rewards(date), Tokens \ sold)
    BY <2>4, <2>7, SumSame
  <2>9. Sum(residual, Tokens \ sold) \in Int
    BY <2>4, <2>7, SumInt
  <2> QED BY <2>2, <2>3, <2>5, <2>6, <2>8, <2>9
<1>12. /\ quote'.amount = (position.shares + paid) - gas + position.startDust
       /\ quote'.gas = gas /\ quote'.unsold = Sum(residual, Tokens)
       /\ quote'.total = Costs + gas /\ position.shares + paid > gas
  BY <1>2, <1>8
<1> HIDE DEF paid, residual
<1>13. /\ quote'.amount > 0 /\ quote'.gas > 0
       /\ quote'.amount + quote'.gas + quote'.unsold
            = position.shares + position.startDust + OnChain!SumFunctionOnSet(OnChain!Wealth, Tokens)
       /\ quote'.total = Costs + quote'.gas
  <2>1. OnChain!SumFunctionOnSet(OnChain!Wealth, Tokens) = Sum(Rewards(date), Tokens)
    BY <1>4, SameSum
  <2> QED BY <1>5, <1>6, <1>11, <1>12, <2>1
<1>14. /\ Held' = Held /\ (Held /\ state # None)' = (Held /\ state # None)
       /\ (IF Held THEN date ELSE 0)' = IF Held THEN date ELSE 0
       /\ (IF Held THEN position.shares ELSE 0)' = IF Held THEN position.shares ELSE 0
       /\ (IF Held THEN position.startDust ELSE 0)' = IF Held THEN position.startDust ELSE 0
       /\ (IF Held THEN position.idle ELSE Nothing)' = IF Held THEN position.idle ELSE Nothing
       /\ (IF Held THEN Costs ELSE 0)' = IF Held THEN Costs ELSE 0
  <2>1. Held' = Held
    BY <1>3 DEF Held
  <2> QED BY <1>1, <1>3, <1>9, <2>1
<1>15. (IF Held THEN quote ELSE NoQuote)' = quote' /\ (IF Held THEN Costs ELSE 0) = Costs
       /\ (IF Held THEN position.shares ELSE 0) = position.shares
       /\ (IF Held THEN position.startDust ELSE 0) = position.startDust
  BY <1>3
<1>16. OnChain!Quote
  BY <1>1, <1>3, <1>10, <1>13, <1>14, <1>15 DEF OnChain!Quote
<1> QED BY <1>16 DEF OnChain!Next

LEMMA NextOnChain ==
  ASSUME \A c \in Comparisons : Lasting(c), IInv, PInv, [Next]_vars
  PROVE  [OnChain!Next]_(OnChain!vars)
<1> SUFFICES OnChain!Next \/ UNCHANGED OnChain!vars
  OBVIOUS
<1>1. ASSUME Hold \/ Cash \/ Verify \/ EnterFails PROVE UNCHANGED OnChain!vars
  <2>1. ~Held /\ ~Held' /\ comparison' = comparison
    BY <1>1 DEF Hold, Cash, Verify, EnterFails, Held
  <2> QED BY <2>1, UnheldOnChain
<1>2. ASSUME LostDate PROVE UNCHANGED OnChain!vars
  <2>1. ~Held /\ ~Held' /\ comparison' = comparison
    BY <1>2 DEF LostDate, Held
  <2> QED BY <2>1, UnheldOnChain
<1>3. ASSUME LosePosition \/ NextAsset PROVE OnChain!Next \/ UNCHANGED OnChain!vars
  <2>1. ~Held' /\ comparison' = comparison
    BY <1>3 DEF LosePosition, NextAsset, Held
  <2> QED BY <2>1, UnheldOnChain, DropOnChain
<1>4. ASSUME SkipCompound PROVE UNCHANGED OnChain!vars
  <2>1. /\ pc = "compound" /\ pc' = "exit" /\ comparison' = comparison /\ date' = date
        /\ position' = position /\ state' = state /\ quote' = quote
        /\ events' = Append(events, Event("skipped-compound", date, 0))
    BY <1>4 DEF SkipCompound
  <2>2. Held /\ Held'
    BY <2>1 DEF PInv, Underway, Held
  <2>3. date \in Nat /\ events \in Seq(EventRecords)
    BY <2>2, EngineAssumption DEF PInv, Logged, IInv, Places
  <2>4. /\ Event("skipped-compound", date, 0) \in EventRecords
        /\ Event("skipped-compound", date, 0).kind # "exit"
        /\ Event("skipped-compound", date, 0).gas = 0
    BY <2>3 DEF Event, EventRecords
  <2>5. Costs \in Int /\ Costs' = Costs + IF Event("skipped-compound", date, 0).kind = "exit" THEN 0
                                          ELSE Event("skipped-compound", date, 0).gas
    BY <2>1, <2>3, <2>4, CostsAre, CostsGrow
  <2>6. Costs' = Costs
    BY <2>4, <2>5
  <2> QED BY <2>1, <2>2, <2>6, StaysOnChain
<1>5. ASSUME ExitUnavailable PROVE UNCHANGED OnChain!vars
  <2>1. /\ pc = "exit" /\ pc' = "date" /\ comparison' = comparison /\ date' = date
        /\ position' = position /\ state' = state /\ quote' = quote /\ events' = events
    BY <1>5 DEF ExitUnavailable
  <2>2. Held /\ Held'
    BY <2>1 DEF PInv, Underway, Held
  <2>3. Costs' = Costs
    BY <2>1 DEF Costs, GasIn
  <2> QED BY <2>1, <2>2, <2>3, StaysOnChain
<1>6. ASSUME UNCHANGED vars PROVE UNCHANGED OnChain!vars
  <2>1. comparison' = comparison /\ Held' = Held /\ date' = date /\ position' = position
        /\ state' = state /\ quote' = quote /\ Costs' = Costs
    BY <1>6 DEF vars, Held, Costs, GasIn
  <2> QED BY <2>1, UnheldOnChain, StaysOnChain
<1> QED BY <1>1, <1>2, <1>3, <1>4, <1>5, <1>6, EnterOnChain, AdvanceOnChain, CompoundOnChain,
           ExitOnChain DEF Next, Done

(* As long as the reward contracts drop only tokens they listed at the entry,
   capturing the reward state after a deposit and restoring it on every later fork
   amounts to holding the position on chain: no reward is lost or paid twice. *)
THEOREM ContinuouslyHeld == 
  ASSUME \A c \in Comparisons : Lasting(c)
  PROVE  Spec => ImplementsContinuousPosition
<1>1. Init => OnChain!Init
  BY InitOnChain
<1>2. IInv /\ PInv /\ [Next]_vars => [OnChain!Next]_(OnChain!vars)
  BY NextOnChain
<1> QED BY <1>1, <1>2, Inductive, Carrying, PTL
        DEF Spec, ImplementsContinuousPosition, OnChain!Spec
=============================================================================
