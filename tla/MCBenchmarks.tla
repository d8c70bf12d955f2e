---------------------------- MODULE MCBenchmarks ----------------------------
(* Instances of Benchmarks: comparisons of up to fourteen months for the calendar,
   and short ones for prices, rows and the report. *)
EXTENDS Benchmarks, TLC

At(year, month, day, second) ==
  [year |-> year, month |-> month, day |-> day, second |-> second]
Months31 == At(2023, 1, 31, 0)       \* over a common February and a leap one
Months30 == At(2023, 11, 30, 86399)
LeapDay == At(2024, 2, 29, 3600)
Starts == {Months31, Months30, LeapDay}

\* the end on an anniversary, a second before or after it, or within the first month
Ends(d) == {point(d, offset) + s : offset \in {1, 2, 13}, s \in {-1, 0, 1}}
           \cup {Timestamp(d) + 86400}
Calm(d, e) == [start |-> d, end |-> e, behind |-> 0, holdings |-> <<>>, strategies |-> <<>>]
Calendars == UNION {{Calm(d, e) : e \in Ends(d)} : d \in Starts}

Of(name, asset) == [name |-> <<name, asset>>, asset |-> asset]
Short(days, tokens, selected) ==
  [start |-> At(2024, 1, 31, 43200), end |-> Timestamp(At(2024, 2, 28, 43200)) + days * 86400,
   behind |-> 5, holdings |-> tokens, strategies |-> selected]
SomeComparisons ==
  Calendars \cup
  {Short(0, <<"USDC", "ETH">>, <<Of("yv", "USDC"), Of("gauge", "ETH")>>),
   Short(2, <<"USDC">>, <<Of("yv", "USDC"), Of("gauge", "ETH")>>),
   Short(30, <<"USDC", "ETH">>, <<Of("yv", "USDC")>>),
   Short(2, <<>>, <<Of("yv", "USDC"), Of("v3", "USDC"), Of("gauge", "USDC")>>)}

Vaults == "USDC" :> {<<"yv", "USDC">>, <<"v3", "USDC">>} @@ "ETH" :> {<<"yv", "WETH">>}
          @@ "cash" :> {}

\* around both ends of the day and between samples
Minutes(S) == {60 * k : k \in S}
SomeTimes == Minutes({-1441, -1440, -1385, -70, -25, 10})
=============================================================================
