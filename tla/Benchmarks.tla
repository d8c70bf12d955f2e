----------------------------- MODULE Benchmarks ------------------------------
(* The frame of a comparison: its monthly dates, the holdings and cash that every
   strategy is measured against (src/hodl/engine.py 57-126) and what the report
   makes of all rows.  Engine models the strategies; here their rows are whatever
   a strategy may report.  The time in between months is in Calendar, the search
   for a price in MarketData, the report in Records. *)
EXTENDS Calendar, MarketData, Records

CONSTANTS Comparisons,  \* [start, end, behind, holdings, strategies]
          Usd,          \* scenario.usd_value
          Around,       \* when the market is observed, relative to the time asked for
          Values,       \* prices, zero for one that is not positive
          Proceeds      \* what a strategy may be worth

ASSUME PriceAssumption == /\ Values \subseteq Nat /\ Around \subseteq Int /\ Usd \in Nat
                          /\ Proceeds \subseteq Int
ASSUME ScenarioAssumption ==
  \A c \in Comparisons :
    /\ IsMoment(c.start) /\ c.end \in Int /\ c.behind \in Nat
    /\ Timestamp(c.start) < c.end /\ c.end <= Timestamp(LastMoment)
Assets(c) == {c.holdings[i] : i \in DOMAIN c.holdings}
             \cup {c.strategies[i].asset : i \in DOMAIN c.strategies} \cup {"cash"}
Names(c) == {<<"hold", c.holdings[i]>> : i \in DOMAIN c.holdings}
            \cup {c.strategies[i].name : i \in DOMAIN c.strategies} \cup {<<"cash", "USD">>}
Rows(c) == [strategy : Names(c), asset : Assets(c), target : Int,
            usd : Int \cup {None}, status : {"complete", "unavailable"}]
ASSUME SelectionAssumption ==
  \A c \in Comparisons : /\ c.holdings \in Seq(Assets(c))
                         /\ c.strategies \in Seq([name : Names(c), asset : Assets(c)])
ASSUME NoneAssumption == None \notin Int /\ \A c \in Comparisons : None \notin Rows(c)

VARIABLES comparison,  \* the scenario and what it selects
          dates,       \* anniversaries found so far
          initial,     \* <<>>, or <<quantity>> of the token whose rows are next
          asked,       \* the last request: its time, the last observation, the answer
          rows         \* report.observations
vars == <<comparison, dates, initial, asked, rows>>

start == Timestamp(comparison.start)
end == comparison.end
holdings == comparison.holdings
strategies == comparison.strategies

NotAsked == [at |-> 0, last |-> None, got |-> None]
Init == /\ comparison \in Comparisons
        /\ dates = <<>> /\ initial = <<>> /\ asked = NotAsked /\ rows = <<>>

(* anniversaries *)
Dated == dates # <<>> /\ dates[Len(dates)] = end
NextPoint == point(comparison.start, Len(dates) + 1)
NextMonth == /\ ~Dated /\ NextPoint < end
             /\ dates' = Append(dates, NextPoint)
             /\ UNCHANGED <<comparison, initial, asked, rows>>
LastDate == /\ ~Dated /\ NextPoint >= end
            /\ dates' = Append(dates, end)
            /\ UNCHANGED <<comparison, initial, asked, rows>>

(* The rows come token by token, then cash, then strategy by strategy, and for each
   of them date by date. *)
Turn == Len(rows) \div Len(dates) + 1
Date == dates[(Len(rows) % Len(dates)) + 1]
Holding == Dated /\ Turn <= Len(holdings)
OfStrategies == Dated /\ Turn > Len(holdings) + 1
Finished == Dated /\ Turn > Len(holdings) + 1 + Len(strategies)

\* the last block at or before a date
BlockTime(date) == date - comparison.behind

Row(strategy, asset, usd) ==
  [strategy |-> strategy, asset |-> asset, target |-> Date, usd |-> usd,
   status |-> IF usd = None THEN "unavailable" ELSE "complete"]
Add(row) == rows' = Append(rows, row)

(* Prices.at(token, time), with what the market has seen around that time *)
Latest(seen, time) ==
  LET past == {o \in seen : time - Window <= o /\ o <= time}
  IN  IF past = {} THEN None ELSE CHOOSE o \in past : \A p \in past : p <= o
Answered(time, price) ==
  \E offsets \in SUBSET Around, late \in BOOLEAN :
    LET seen == {time + o : o \in offsets}
        got == select_price(Charts(seen, time, late), time, None)
    IN  /\ asked' = [at |-> time, last |-> Latest(seen, time), got |-> got]
        /\ IF price = None THEN got = None \/ 0 \in Values
           ELSE got # None /\ price > 0
RequestFails(price) == price = None /\ UNCHANGED asked
PriceAt(time, price) == Answered(time, price) \/ RequestFails(price)

Prices == Values \cup {None}  \* zero is rejected
InitialPrice ==
  /\ Holding /\ initial = <<>>
  /\ \E price \in Prices :
       /\ PriceAt(BlockTime(start), price)
       /\ initial' = <<IF price = None THEN None ELSE Usd \div price>>
  /\ UNCHANGED <<comparison, dates, rows>>

\* the next token starts without a quantity
KeptInitial == IF Len(rows) % Len(dates) = Len(dates) - 1 THEN <<>> ELSE initial
HoldRow(usd) == /\ Add(Row(<<"hold", holdings[Turn]>>, holdings[Turn], usd))
                /\ initial' = KeptInitial
                /\ UNCHANGED <<comparison, dates>>
HoldNothing == /\ Holding /\ initial = <<None>>
               /\ HoldRow(None)
               /\ UNCHANGED asked
Hold == /\ Holding /\ initial # <<>> /\ initial # <<None>>
        /\ \E price \in Prices :
             /\ PriceAt(BlockTime(Date), price)
             /\ HoldRow(IF price = None THEN None ELSE initial[1] * price)

Cash == /\ Dated /\ Turn = Len(holdings) + 1
        /\ Add(Row(<<"cash", "USD">>, "cash", Usd))
        /\ UNCHANGED <<comparison, dates, initial, asked>>
StrategyRow ==
  /\ OfStrategies /\ ~Finished
  /\ LET selected == strategies[Turn - Len(holdings) - 1]
     IN  \E usd \in Proceeds \cup {None} : Add(Row(selected.name, selected.asset, usd))
  /\ UNCHANGED <<comparison, dates, initial, asked>>
Done == Finished /\ UNCHANGED vars

Next == \/ NextMonth \/ LastDate \/ InitialPrice \/ HoldNothing \/ Hold \/ Cash
        \/ StrategyRow \/ Done
Spec == Init /\ [][Next]_vars

-------------------------------------------------------------------------------
(* A moment from its Unix time, found by search instead of arithmetic. *)
YearAt(day) ==
  CHOOSE y \in 1970..2037 : DayNumber(y, 1, 1) <= day /\ day < DayNumber(y + 1, 1, 1)
MonthAt(day, year) ==
  CHOOSE n \in 1..12 : /\ DayNumber(year, n, 1) <= day
                       /\ day < DayNumber(year, n, 1) + MonthLength(year, n)
Civil(time) ==
  LET day == time \div 86400
      year == YearAt(day)
      month == MonthAt(day, year)
  IN  [year |-> year, month |-> month, day |-> (day - DayNumber(year, month, 1)) + 1,
       second |-> time % 86400]
\* dates, with the start before them
Marks == <<start>> \o dates
Monthly(i) ==
  LET d == Civil(dates[i])
  IN  /\ d.second = comparison.start.second
      /\ Months(d, 0) = Months(comparison.start, i)
      /\ \/ d.day = comparison.start.day
         \/ d.day < comparison.start.day /\ Civil(dates[i] + 86400).day = 1

(* The dates of a comparison increase and never pass its end, no two are more than
   31 days apart, and every one but the last is in the next month, at the start's
   time of the day, on the start's day of the month or, where the month is too
   short for it, on its last day (anniversaries, "Clamp each month against the
   original day, including leap years"). *)
DatesNeverDrift ==
  /\ \A i \in DOMAIN dates : /\ Marks[i] < dates[i] /\ dates[i] <= end
                             /\ dates[i] - Marks[i] <= 31 * 86400
  /\ \A i \in DOMAIN dates : dates[i] = end \/ Monthly(i)

(* If the market was observed at all in the 24 hours up to the time asked for, a
   price is found, although the hourly samples may be answered by observations
   after that time or before that day; it is never a later one and misses the
   last by less than two hours (Prices.at, "Cover observations between hourly
   samples").  Otherwise none is found. *)
PriceFound ==
  IF asked.last = None THEN asked.got = None
  ELSE /\ asked.got # None
       /\ asked.got <= asked.at /\ asked.at - asked.got <= Window
       /\ asked.last - asked.got < 2 * Hour

(* The text compares the rows of one date, the CSV file those of all dates, and both
   say the same; and what a text table says once for an asset, the best and the
   vault, is what the records of all its rows say ("Text and CSV render the same
   accounting records", report.py). *)
TextMatchesCsv ==
  Finished =>
    LET records == comparison_records(rows)
    IN  \A target \in {dates[i] : i \in DOMAIN dates} :
          LET text == table(rows, target)
          IN  /\ text = [i \in RowsAt(rows, target) |-> records[i]]
              /\ \A i \in DOMAIN text :
                   LET r == text[i]
                   IN  headline(text, r.row.asset) =
                         [best |-> r.best, vault |-> r.vault, vault_status |-> r.vault_status]

(* Nothing at a date has higher proceeds than what is reported as the best there,
   gaps can be compared across assets, and whatever is not complete has no gap;
   only a complete vault of the same asset is compared with (comparison_records,
   "Best across the comparison"). *)
BestIsHighest ==
  Finished =>
    LET records == comparison_records(rows)
        At(target) == {i \in DOMAIN records : records[i].row.target = target}
        Completed(S) == {i \in S : records[i].row.status = "complete"}
    IN  \A target \in {dates[i] : i \in DOMAIN dates} :
          /\ \E i \in Completed(At(target)) : records[i].versus_best = 0
          /\ \A i \in Completed(At(target)) : records[i].versus_best <= 0
          /\ \A i, j \in Completed(At(target)) :
               records[i].versus_best - records[j].versus_best =
                 records[i].row.usd - records[j].row.usd
          /\ \A i \in At(target) \ Completed(At(target)) :
               records[i].versus_best = None /\ records[i].versus_vault = None
          /\ \A i \in At(target) :
               LET r == records[i] IN
               r.vault # None <=> \E j \in Completed(At(target)) :
                 /\ records[j].row.asset = r.row.asset
                 /\ records[j].row.strategy \in VaultsOf[r.row.asset]
=============================================================================
