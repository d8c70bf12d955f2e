-------------------------- MODULE BenchmarksProofs --------------------------
(* Proofs about the frame of a comparison: its dates, for every scenario of the
   years 1970 to 2037, the search for a price, for every market, and the report of
   its rows, whatever strategies report. *)
EXTENDS Benchmarks, TLAPS, WellFoundedInduction

(* A nonempty set of numbers has a least one. *)
LEMMA Least ==
  ASSUME NEW S \in SUBSET Nat, S # {}
  PROVE  \E n \in S : \A m \in S : n <= m
<1> DEFINE R == OpToRel(<, Nat)
<1>1. IsWellFoundedOn(R, Nat)
  BY NatLessThanWellFounded
<1>2. \A m, n \in Nat : m < n => <<m, n>> \in R
  BY DEF OpToRel
<1> HIDE DEF R
<1>3. PICK n \in S : \A m \in S : ~(<<m, n>> \in R)
  BY <1>1, WFMin
<1>4. \A m \in S : m \in Nat /\ n \in Nat /\ ~(m < n)
  BY <1>2, <1>3
<1> QED BY <1>4

(* A set of times that is bounded on one side has an extreme on that side. *)
LEMMA MinOf ==
  ASSUME NEW S \in SUBSET Int, S # {}, NEW low \in Int, \A x \in S : low <= x
  PROVE  Min(S) \in S /\ \A y \in S : Min(S) <= y
<1> DEFINE T == {x - low : x \in S}
<1>0. \A x \in S : x - low \in Nat
  OBVIOUS
<1>1. T \in SUBSET Nat /\ T # {}
  BY <1>0
<1>2. PICK n \in T : \A m \in T : n <= m
  <2> HIDE DEF T
  <2> QED BY <1>1, Least
<1>3. PICK x \in S : n = x - low
  OBVIOUS
<1>4. \A y \in S : x <= y
  <2> SUFFICES ASSUME NEW y \in S PROVE x <= y
    OBVIOUS
  <2>1. n <= y - low
    BY <1>2
  <2> QED BY <1>3, <2>1
<1> QED BY <1>4 DEF Min

LEMMA MaxOf ==
  ASSUME NEW S \in SUBSET Int, S # {}, NEW high \in Int, \A x \in S : x <= high
  PROVE  Max(S) \in S /\ \A y \in S : y <= Max(S)
<1> DEFINE T == {high - x : x \in S}
<1>0. \A x \in S : high - x \in Nat
  OBVIOUS
<1>1. T \in SUBSET Nat /\ T # {}
  BY <1>0
<1>2. PICK n \in T : \A m \in T : n <= m
  <2> HIDE DEF T
  <2> QED BY <1>1, Least
<1>3. PICK x \in S : n = high - x
  OBVIOUS
<1>4. \A y \in S : x >= y
  <2> SUFFICES ASSUME NEW y \in S PROVE x >= y
    OBVIOUS
  <2>1. n <= high - y
    BY <1>2
  <2> QED BY <1>3, <2>1
<1>5. Max(S) \in S /\ \A y \in S : Max(S) >= y
  BY <1>4 DEF Max
<1> QED BY <1>5

(* An observation within reach of a sample time is answered by the nearest one. *)
LEMMA NearestFound ==
  ASSUME NEW seen \in SUBSET Int, NEW sample \in Int,
         NEW o \in seen, Distance(o, sample) <= SearchWidth
  PROVE  Nearest(seen, sample) # {}
<1> DEFINE D == {Distance(p, sample) : p \in seen}
<1>1. \A p \in seen : Distance(p, sample) \in Nat
  BY DEF Distance
<1>2. D \in SUBSET Nat /\ D # {}
  BY <1>1
<1>3. PICK n \in D : \A m \in D : n <= m
  <2> HIDE DEF D
  <2> QED BY <1>2, Least
<1>4. PICK p \in seen : n = Distance(p, sample)
  OBVIOUS
<1>5. \A q \in seen : Distance(p, sample) <= Distance(q, sample)
  BY <1>3, <1>4
<1>6. Distance(p, sample) <= SearchWidth
  BY <1>1, <1>5 DEF SearchWidth, Hour
<1> QED BY <1>5, <1>6 DEF Nearest

(* The answer to a sample is an observation, no further from it than any other. *)
LEMMA Sampled ==
  ASSUME NEW seen \in SUBSET Int, NEW t \in Int, NEW late \in BOOLEAN,
         NEW k \in 0..24, NEW o \in seen, Distance(o, (t - Window) + k * Hour) <= SearchWidth
  PROVE  \E c \in Charts(seen, t, late) :
           c \in seen /\ Distance(c, (t - Window) + k * Hour)
                           <= Distance(o, (t - Window) + k * Hour)
<1> DEFINE sample == (t - Window) + k * Hour
           near == Nearest(seen, sample)
           c == IF late THEN Max(near) ELSE Min(near)
<1>1. sample \in Int /\ Window \in Int /\ Hour \in Int
  BY DEF Window, Hour
<1>2. near # {}
  BY <1>1, NearestFound
<1>3. near \in SUBSET Int /\ \A p \in near : Distance(p, sample) <= SearchWidth
  BY DEF Nearest
<1> HIDE DEF sample
<1>4. \A p \in near : sample - SearchWidth <= p /\ p <= sample + SearchWidth
  BY <1>1, <1>3 DEF Distance, SearchWidth, Hour
<1>5. SearchWidth \in Int
  BY DEF SearchWidth, Hour
<1>6. sample - SearchWidth \in Int /\ sample + SearchWidth \in Int
  BY <1>1, <1>5
<1>7. c \in near
  <2> HIDE DEF near
  <2>1. Max(near) \in near
    BY <1>2, <1>3, <1>4, <1>6, MaxOf
  <2>2. Min(near) \in near
    BY <1>2, <1>3, <1>4, <1>6, MinOf
  <2> QED BY <2>1, <2>2
<1>8. c \in seen /\ Distance(c, sample) <= Distance(o, sample)
  <2> HIDE DEF c
  <2> QED BY <1>7 DEF Nearest
<1>9. sample \in Samples(t)
  BY DEF sample, Samples, Span
<1>10. c \in Charts(seen, t, late)
  BY <1>2, <1>9 DEF Charts
<1> HIDE DEF c
<1> QED BY <1>8, <1>10 DEF sample

(* Charts answers with observations only. *)
LEMMA ChartsSeen ==
  ASSUME NEW seen \in SUBSET Int, NEW t \in Int, NEW late \in BOOLEAN
  PROVE  Charts(seen, t, late) \subseteq seen
<1> SUFFICES ASSUME NEW c \in Charts(seen, t, late) PROVE c \in seen
  OBVIOUS
<1>1. PICK r \in Samples(t) : /\ Nearest(seen, r) # {}
                              /\ c = IF late THEN Max(Nearest(seen, r))
                                     ELSE Min(Nearest(seen, r))
  BY DEF Charts
<1>2. r \in Int
  BY DEF Samples, Span, Window, Hour
<1> DEFINE near == Nearest(seen, r)
<1>3. near \in SUBSET Int /\ \A p \in near : Distance(p, r) <= SearchWidth
  BY DEF Nearest
<1>4. \A p \in near : r - SearchWidth <= p /\ p <= r + SearchWidth
  BY <1>2, <1>3 DEF Distance, SearchWidth, Hour
<1>5. r - SearchWidth \in Int /\ r + SearchWidth \in Int
  BY <1>2 DEF SearchWidth, Hour
<1>6. near # {} /\ c = IF late THEN Max(near) ELSE Min(near)
  BY <1>1
<1>7. near \subseteq seen
  BY DEF Nearest
<1> HIDE DEF near
<1>8. Max(near) \in near
  BY <1>3, <1>4, <1>5, <1>6, MaxOf
<1>9. Min(near) \in near
  BY <1>3, <1>4, <1>5, <1>6, MinOf
<1> QED BY <1>6, <1>7, <1>8, <1>9

(* Hourly samples whose answers may be an hour away leave no gap: the last
   observation of the day is less than two hours later than the price found. *)
LEMMA Covered ==
  ASSUME NEW seen \in SUBSET Int, NEW t \in Int, NEW late \in BOOLEAN,
         NEW last \in seen, t - Window <= last, last <= t,
         \A p \in seen : t - Window <= p /\ p <= t => p <= last
  PROVE  \E c \in Charts(seen, t, late) :
           t - Window <= c /\ c <= t /\ last - c < 2 * Hour
<1> DEFINE q == (last - (t - Window)) \div Hour
<1>1. q \in 0..24 /\ q * 3600 <= last - (t - 86400) /\ last - (t - 86400) < (q * 3600) + 3600
  BY DEF Window, Hour
<1> HIDE DEF q
<1>2. PICK k \in 0..24 : k = IF q = 0 THEN 1 ELSE q
  BY <1>1
<1>3. PICK sample \in Int : sample = (t - Window) + k * Hour
  BY DEF Window, Hour
<1>4. sample = (t - 86400) + k * 3600
  BY <1>3 DEF Window, Hour
<1>5. Distance(last, sample) <= SearchWidth
  BY <1>1, <1>2, <1>4 DEF Distance, SearchWidth, Hour
<1>6. PICK c \in Charts(seen, t, late) :
        c \in seen /\ Distance(c, sample) <= Distance(last, sample)
  <2>1. Distance(last, (t - Window) + k * Hour) <= SearchWidth
    BY <1>3, <1>5
  <2> QED BY <1>3, <2>1, Sampled
<1>7. c \in Int /\ last \in Int
  BY <1>6
<1>8. CASE q = 0
  <2>1. sample = (t - 86400) + 3600
    BY <1>2, <1>4, <1>8
  <2>2. last <= c /\ c <= (t - 86400) + 7200
    BY <1>1, <1>6, <1>7, <1>8, <2>1 DEF Distance
  <2>3. t - 86400 <= last
    BY DEF Window, Hour
  <2>4. t - Window <= c /\ c <= t
    BY <1>7, <2>2, <2>3 DEF Window, Hour
  <2>5. c = last
    BY <1>6, <1>7, <2>2, <2>4
  <2> QED BY <1>6, <1>7, <2>4, <2>5 DEF Hour
<1>9. CASE q # 0
  <2>1. sample = (t - 86400) + q * 3600 /\ q >= 1
    BY <1>1, <1>2, <1>4, <1>9
  <2>2. sample <= last /\ last < sample + 3600
    BY <1>1, <1>7, <2>1
  <2>3. c <= last /\ c > sample - 3600
    BY <1>6, <1>7, <2>2 DEF Distance
  <2>4. t - 86400 <= c
    BY <1>1, <1>7, <2>1, <2>3
  <2> QED BY <1>6, <1>7, <2>2, <2>3, <2>4 DEF Window, Hour
<1> QED BY <1>8, <1>9
-----------------------------------------------------------------------------
(* The calendar, by the number of a month from the year 0: its first day, counted
   from 1970, and its length. *)
First(n) == DayNumber(YearOf(n), MonthOf(n), 1)
Size(n) == MonthLength(YearOf(n), MonthOf(n))
Epoch == 1970 * 12
LastMonth == 2037 * 12 + 11

LEMMA TableType ==
  ASSUME NEW y \in Nat, NEW m \in 1..12
  PROVE  DaysBefore(y, m) \in Nat /\ MonthLength(y, m) \in 28..31
<1>1. \/ m = 1 \/ m = 2 \/ m = 3 \/ m = 4 \/ m = 5 \/ m = 6
      \/ m = 7 \/ m = 8 \/ m = 9 \/ m = 10 \/ m = 11 \/ m = 12
  OBVIOUS
<1> QED BY <1>1 DEF DaysBefore, MonthLength

LEMMA TableNext ==
  ASSUME NEW y \in Nat, NEW m \in 1..11
  PROVE  DaysBefore(y, m + 1) = DaysBefore(y, m) + MonthLength(y, m)
<1>1. \/ m = 1 \/ m = 2 \/ m = 3 \/ m = 4 \/ m = 5 \/ m = 6
      \/ m = 7 \/ m = 8 \/ m = 9 \/ m = 10 \/ m = 11
  OBVIOUS
<1> QED BY <1>1 DEF DaysBefore, MonthLength

LEMMA MonthType ==
  ASSUME NEW n \in Nat, n >= Epoch
  PROVE  /\ YearOf(n) \in Nat /\ YearOf(n) >= 1970 /\ MonthOf(n) \in 1..12
         /\ n = (12 * YearOf(n)) + (MonthOf(n) - 1)
         /\ Size(n) \in 28..31 /\ First(n) \in Nat
<1>1. /\ YearOf(n) \in Nat /\ YearOf(n) >= 1970 /\ MonthOf(n) \in 1..12
      /\ n = (12 * YearOf(n)) + (MonthOf(n) - 1)
  BY DEF YearOf, MonthOf, Epoch
<1>2. DaysBefore(YearOf(n), MonthOf(n)) \in Nat /\ Size(n) \in 28..31
  <2>1. PICK y \in Nat, m \in 1..12 : y = YearOf(n) /\ m = MonthOf(n)
    BY <1>1
  <2>2. DaysBefore(y, m) \in Nat /\ MonthLength(y, m) \in 28..31
    BY TableType
  <2> QED BY <2>1, <2>2 DEF Size
<1>3. (YearOf(n) - 1969) \div 4 \in Nat
  BY <1>1
<1>4. First(n) \in Nat
  BY <1>1, <1>2, <1>3 DEF First, DayNumber
<1> QED BY <1>1, <1>2, <1>4

LEMMA Leaps ==
  ASSUME NEW y \in Nat, y >= 1970, NEW leaps \in Nat, leaps = (y - 1969) \div 4,
         NEW extra \in {0, 1}, extra = IF Leap(y) THEN 1 ELSE 0
  PROVE  ((y + 1) - 1969) \div 4 = leaps + extra
BY DEF Leap

(* Months follow each other without a gap. *)
LEMMA NextFirst ==
  ASSUME NEW n \in Nat, n >= Epoch
  PROVE  First(n + 1) = First(n) + Size(n)
<1>1. PICK y \in Nat, m \in 1..12 :
        y = YearOf(n) /\ m = MonthOf(n) /\ y >= 1970 /\ n = (12 * y) + (m - 1)
  BY MonthType
<1>2. PICK leaps \in Nat : leaps = (y - 1969) \div 4
  BY <1>1
<1>3. PICK before \in Nat, length \in 28..31 :
        before = DaysBefore(y, m) /\ length = MonthLength(y, m)
  BY TableType
<1>4. Size(n) = length /\ First(n) = ((365 * (y - 1970)) + leaps) + before
  <2>1. First(n) = DayNumber(y, m, 1) /\ Size(n) = MonthLength(y, m)
    BY <1>1 DEF First, Size
  <2>2. DayNumber(y, m, 1) = (((365 * (y - 1970)) + leaps) + before) + (1 - 1)
    BY <1>2, <1>3 DEF DayNumber
  <2> QED BY <1>3, <2>1, <2>2
<1>5. CASE m < 12
  <2>1. YearOf(n + 1) = y /\ MonthOf(n + 1) = m + 1
    BY <1>1, <1>5 DEF YearOf, MonthOf
  <2>2. DaysBefore(y, m + 1) = before + length
    BY <1>3, <1>5, TableNext
  <2>3. First(n + 1) = DayNumber(y, m + 1, 1)
    BY <2>1 DEF First
  <2>4. DayNumber(y, m + 1, 1) = (((365 * (y - 1970)) + leaps) + (before + length)) + (1 - 1)
    BY <1>2, <2>2 DEF DayNumber
  <2> QED BY <1>1, <1>2, <1>3, <1>4, <2>3, <2>4
<1>6. CASE m = 12
  <2>1. YearOf(n + 1) = y + 1 /\ MonthOf(n + 1) = 1
    BY <1>1, <1>6 DEF YearOf, MonthOf
  <2>2. PICK extra \in {0, 1} : extra = IF Leap(y) THEN 1 ELSE 0
    OBVIOUS
  <2>3. before = 334 + extra /\ length = 31
    BY <1>3, <1>6, <2>2 DEF DaysBefore, MonthLength
  <2>4. ((y + 1) - 1969) \div 4 = leaps + extra
    <3>1. y >= 1970
      BY <1>1
    <3> QED BY <3>1, <1>2, <2>2, Leaps
  <2>5. DaysBefore(y + 1, 1) = 0
    BY DEF DaysBefore
  <2>6. First(n + 1) = DayNumber(y + 1, 1, 1)
    BY <2>1 DEF First
  <2>7. DayNumber(y + 1, 1, 1) = ((365 * ((y + 1) - 1970)) + (leaps + extra)) + (0 + (1 - 1))
    BY <1>1, <2>4, <2>5 DEF DayNumber
  <2> QED BY <1>1, <1>2, <1>4, <2>3, <2>6, <2>7
<1> QED BY <1>5, <1>6

Index(z, k) == (12 * z) + (k - 1)
LEMMA MonthOfYear ==
  ASSUME NEW z \in Nat, z >= 1970, NEW k \in 1..12
  PROVE  /\ Index(z, k) \in Nat /\ Index(z, k) >= Epoch
         /\ First(Index(z, k)) = DayNumber(z, k, 1) /\ Size(Index(z, k)) = MonthLength(z, k)
<1>1. PICK l \in Nat : l = (12 * z) + (k - 1)
  OBVIOUS
<1>2. l >= Epoch
  BY <1>1 DEF Epoch
<1>3. First(l) = DayNumber(z, k, 1) /\ Size(l) = MonthLength(z, k)
  <2>1. YearOf(l) = z
    BY <1>1 DEF YearOf
  <2>2. MonthOf(l) = k
    BY <1>1 DEF MonthOf
  <2> QED BY <2>1, <2>2 DEF First, Size
<1>4. l = Index(z, k)
  BY <1>1 DEF Index
<1> QED BY <1>2, <1>3, <1>4

LEMMA FirstGrows ==
  ASSUME NEW n \in Nat, n >= Epoch, NEW m \in Nat, n < m
  PROVE  First(n) + Size(n) <= First(m)
<1> DEFINE S == {k \in Nat : n < k /\ ~(First(n) + Size(n) <= First(k))}
<1>1. SUFFICES ASSUME S # {} PROVE FALSE
  OBVIOUS
<1>2. PICK k \in S : \A l \in S : k <= l
  <2>1. S \in SUBSET Nat
    OBVIOUS
  <2> HIDE DEF S
  <2> QED BY <1>1, <2>1, Least
<1>3. k \in Nat /\ n < k /\ ~(First(n) + Size(n) <= First(k))
  OBVIOUS
<1>4. Epoch \in Nat
  BY DEF Epoch
<1>5. CASE k = n + 1
  BY <1>3, <1>5, NextFirst, MonthType
<1>6. CASE k # n + 1
  <2>1. k - 1 \in Nat /\ n < k - 1 /\ k - 1 >= Epoch /\ (k - 1) + 1 = k
    BY <1>3, <1>4, <1>6
  <2>2. ~(k - 1 \in S)
    BY <1>2, <2>1
  <2>3. First(n) + Size(n) <= First(k - 1)
    BY <2>1, <2>2
  <2>4. First(k) = First(k - 1) + Size(k - 1)
    BY <2>1, NextFirst
  <2>5. First(k - 1) \in Nat /\ Size(k - 1) \in Nat /\ First(n) \in Nat /\ Size(n) \in Nat
    BY <2>1, MonthType
  <2> QED BY <1>3, <2>3, <2>4, <2>5
<1> QED BY <1>5, <1>6

(* The search for the year and month of a day finds the month that contains it. *)
LEMMA CivilIs ==
  ASSUME NEW n \in Epoch..LastMonth, NEW day \in 1..Size(n),
         NEW second \in Nat, second < 86400
  PROVE  Civil((86400 * (First(n) + (day - 1))) + second) =
           [year |-> YearOf(n), month |-> MonthOf(n), day |-> day, second |-> second]
<1> DEFINE number == First(n) + (day - 1)
           y == YearOf(n)
           InYear(z) == DayNumber(z, 1, 1) <= number /\ number < DayNumber(z + 1, 1, 1)
           InMonth(k) == /\ DayNumber(y, k, 1) <= number
                         /\ number < DayNumber(y, k, 1) + MonthLength(y, k)
<1>1. n \in Nat /\ n >= Epoch /\ n <= 24455 /\ day \in Nat /\ day <= Size(n) /\ day >= 1
  BY MonthType DEF Epoch, LastMonth
<1>2. /\ y \in Nat /\ y >= 1970 /\ y <= 2037 /\ MonthOf(n) \in 1..12 /\ n = (12 * y) + (MonthOf(n) - 1)
      /\ Size(n) \in 28..31 /\ First(n) \in Nat
  <2>1. /\ y \in Nat /\ y >= 1970 /\ MonthOf(n) \in 1..12
        /\ n = (12 * y) + (MonthOf(n) - 1) /\ Size(n) \in 28..31 /\ First(n) \in Nat
    BY <1>1, MonthType
  <2> HIDE DEF y
  <2>2. y <= 2037
    BY <1>1, <2>1
  <2> QED BY <2>1, <2>2
<1>3. number \in Nat /\ First(n) <= number /\ number < First(n) + Size(n)
  BY <1>1, <1>2
<1> HIDE DEF number, y
<1> DEFINE time == (86400 * number) + second
<1>4. time \div 86400 = number /\ time % 86400 = second
  BY <1>3
<1> HIDE DEF time
<1>5. \A k \in Nat : k >= Epoch /\ First(k) <= number => k <= n
  <2> SUFFICES ASSUME NEW k \in Nat, k >= Epoch, First(k) <= number, n < k PROVE FALSE
    BY <1>1
  <2>1. First(n) + Size(n) <= First(k) /\ First(k) \in Nat
    BY <1>1, FirstGrows, MonthType
  <2> QED BY <1>2, <1>3, <2>1
<1>6. \A k \in Nat : k >= Epoch /\ number < First(k) => n < k
  <2> SUFFICES ASSUME NEW k \in Nat, k >= Epoch, number < First(k), k <= n PROVE FALSE
    BY <1>1
  <2>1. k < n => First(k) + Size(k) <= First(n)
    BY <1>1, FirstGrows
  <2>2. First(k) \in Nat /\ Size(k) \in Nat
    BY MonthType
  <2>3. k # n
    BY <1>2, <1>3
  <2>4. First(k) + Size(k) <= First(n)
    BY <1>1, <2>1, <2>3
  <2> QED BY <1>2, <1>3, <2>2, <2>4
<1>7. ASSUME NEW z \in Nat, z >= 1970
      PROVE  InYear(z) <=> z = y
  <2>1. PICK l \in Nat : l >= Epoch /\ l = Index(z, 1) /\ First(l) = DayNumber(z, 1, 1)
    BY <1>7, MonthOfYear
  <2>2. z + 1 \in Nat /\ z + 1 >= 1970
    BY <1>7
  <2>3. PICK m \in Nat : /\ m >= Epoch /\ m = Index(z + 1, 1)
                         /\ First(m) = DayNumber(z + 1, 1, 1)
    BY <2>2, MonthOfYear
  <2>4. First(l) <= number <=> l <= n
    <3>1. First(l) <= number => l <= n
      BY <1>5, <2>1
    <3>2. l < n => First(l) + Size(l) <= First(n)
      BY <1>1, <2>1, FirstGrows
    <3>3. First(l) \in Nat /\ Size(l) \in Nat
      BY <2>1, MonthType
    <3>4. l < n => First(l) <= number
      BY <1>2, <1>3, <3>2, <3>3
    <3>5. l = n => First(l) <= number
      BY <1>3
    <3> QED BY <1>1, <3>1, <3>4, <3>5
  <2>5. number < First(m) <=> n < m
    <3>1. number < First(m) => n < m
      BY <1>6, <2>3
    <3>2. n < m => First(n) + Size(n) <= First(m)
      BY <1>1, <2>3, FirstGrows
    <3>3. First(m) \in Nat
      BY <2>3, MonthType
    <3> QED BY <1>2, <1>3, <3>1, <3>2, <3>3
  <2>6. l <= n /\ n < m <=> z = y
    BY <1>1, <1>2, <2>1, <2>3 DEF Index
  <2> QED BY <2>1, <2>3, <2>4, <2>5, <2>6
<1>8. ASSUME NEW k \in 1..12
      PROVE  InMonth(k) <=> k = MonthOf(n)
  <2>1. PICK l \in Nat : /\ l >= Epoch /\ l = Index(y, k)
                         /\ First(l) = DayNumber(y, k, 1) /\ Size(l) = MonthLength(y, k)
    BY <1>2, MonthOfYear
  <2>2. PICK next \in Nat : next = l + 1 /\ next >= Epoch
    BY <2>1 DEF Epoch
  <2>3. First(next) = First(l) + Size(l)
    BY <2>1, <2>2, NextFirst
  <2>4. InMonth(k) => l <= n /\ n < next
    BY <1>5, <1>6, <2>1, <2>2, <2>3
  <2>5. l = n => InMonth(k)
    BY <1>3, <2>1
  <2>6. l = n <=> k = MonthOf(n)
    BY <1>1, <1>2, <2>1 DEF Index
  <2>7. l <= n /\ n < next => l = n
    BY <1>1, <2>1, <2>2
  <2> QED BY <2>4, <2>5, <2>6, <2>7
<1>11. y = YearAt(number)
  <2>1. y = CHOOSE z \in 1970..2037 : InYear(z)
    <3>1. y \in 1970..2037
      BY <1>2
    <3>2. \A z \in 1970..2037 : z \in Nat /\ z >= 1970
      OBVIOUS
    <3> HIDE DEF InYear
    <3>3. InYear(y) /\ \A z \in 1970..2037 : InYear(z) => z = y
      BY <1>2, <1>7, <3>2
    <3> QED BY <3>1, <3>3, SMT
  <2> QED BY <2>1 DEF YearAt
<1>14. MonthOf(n) = MonthAt(number, y)
  <2>1. MonthOf(n) = CHOOSE k \in 1..12 : InMonth(k)
    <3> HIDE DEF InMonth
    <3> QED BY <1>2, <1>8, SMT
  <2> QED BY <2>1 DEF MonthAt
<1>15. (number - DayNumber(y, MonthOf(n), 1)) + 1 = day
  <2>1. DayNumber(y, MonthOf(n), 1) = First(n)
    BY DEF First, y
  <2>2. number = First(n) + (day - 1)
    BY DEF number
  <2> QED BY <1>1, <1>2, <2>1, <2>2
<1>16. Civil(time) = [year |-> y, month |-> MonthOf(n), day |-> day, second |-> second]
  BY <1>4, <1>11, <1>14, <1>15 DEF Civil
<1> QED BY <1>16 DEF time, number, y
-----------------------------------------------------------------------------
(* The anniversaries of a moment. *)
Clamp(d, n) == IF d.day < Size(n) THEN d.day ELSE Size(n)

LEMMA MomentType ==
  ASSUME NEW d, IsMoment(d)
  PROVE  /\ d.year \in Nat /\ d.year >= 1970 /\ d.month \in 1..12
         /\ d.day \in Nat /\ d.day >= 1 /\ d.day <= 31
         /\ d.day <= MonthLength(d.year, d.month)
         /\ d.second \in Nat /\ d.second < 86400
         /\ d \in [year : Nat, month : 1..12, day : Nat, second : Nat]
<1>1. d.year \in Nat /\ d.month \in 1..12 /\ d.day \in Nat /\ d.second \in Nat
  BY DEF IsMoment
<1>2. MonthLength(d.year, d.month) \in 28..31 /\ DaysBefore(d.year, d.month) \in Nat
  BY <1>1, TableType
<1> QED BY <1>1, <1>2 DEF IsMoment

LEMMA DayOf ==
  ASSUME NEW y \in Nat, NEW m \in 1..12
  PROVE  \A day \in Int : DayNumber(y, m, day) = DayNumber(y, m, 1) + (day - 1)
<1>1. DaysBefore(y, m) \in Nat /\ MonthLength(y, m) \in 28..31
  BY TableType
<1>2. PICK leaps \in Int : leaps = (y - 1969) \div 4
  OBVIOUS
<1>3. PICK before \in Nat : before = DaysBefore(y, m)
  BY <1>1
<1>4. DayNumber(y, m, 1) = (((365 * (y - 1970)) + leaps) + before) + (1 - 1)
  BY <1>2, <1>3 DEF DayNumber
<1>5. ASSUME NEW day \in Int
      PROVE  DayNumber(y, m, day) = (((365 * (y - 1970)) + leaps) + before) + (day - 1)
  BY <1>2, <1>3 DEF DayNumber
<1> QED BY <1>4, <1>5

LEMMA PointIs ==
  ASSUME NEW d, IsMoment(d), NEW k \in Nat, NEW n, n = Months(d, k)
  PROVE  /\ n \in Nat /\ n >= Epoch /\ n = Index(d.year, d.month) + k
         /\ Clamp(d, n) \in 1..Size(n)
         /\ point(d, k) = (86400 * (First(n) + (Clamp(d, n) - 1))) + d.second
<1>1. /\ d.year \in Nat /\ d.year >= 1970 /\ d.month \in 1..12
      /\ d.day \in Nat /\ d.day >= 1 /\ d.second \in Nat
      /\ d \in [year : Nat, month : 1..12, day : Nat, second : Nat]
  BY MomentType
<1>2. n \in Nat /\ n >= Epoch /\ n = Index(d.year, d.month) + k
  <2>1. n = ((d.year * 12) + (d.month - 1)) + k
    BY <1>1 DEF Months
  <2> QED BY <1>1, <2>1 DEF Index, Epoch
<1>3. /\ YearOf(n) \in Nat /\ YearOf(n) >= 1970 /\ MonthOf(n) \in 1..12
      /\ Size(n) \in 28..31 /\ First(n) \in Nat
  BY <1>2, MonthType
<1>4. Clamp(d, n) \in 1..Size(n) /\ Clamp(d, n) = ClampedDay(d.day, n)
  BY <1>1, <1>3 DEF Clamp, ClampedDay, Size
<1>5. PICK m : m = Moment(d, k)
  OBVIOUS
<1>6. /\ m.year = YearOf(n) /\ m.month = MonthOf(n) /\ m.day = Clamp(d, n)
      /\ m.second = d.second
  BY <1>1, <1>4, <1>5 DEF Moment
<1>7. point(d, k) = (86400 * DayNumber(YearOf(n), MonthOf(n), Clamp(d, n))) + d.second
  BY <1>5, <1>6 DEF point, Timestamp
<1>8. DayNumber(YearOf(n), MonthOf(n), Clamp(d, n)) = First(n) + (Clamp(d, n) - 1)
  <2>1. PICK y \in Nat, m1 \in 1..12, day \in Int :
          y = YearOf(n) /\ y >= 1970 /\ m1 = MonthOf(n) /\ day = Clamp(d, n)
    BY <1>3, <1>4
  <2>2. DayNumber(y, m1, day) = DayNumber(y, m1, 1) + (day - 1)
    BY <2>1, DayOf
  <2> QED BY <2>1, <2>2 DEF First
<1> QED BY <1>2, <1>4, <1>7, <1>8

LEMMA PointZero ==
  ASSUME NEW d, IsMoment(d)
  PROVE  point(d, 0) = Timestamp(d)
<1>1. /\ d.year \in Nat /\ d.year >= 1970 /\ d.month \in 1..12
      /\ d.day \in Nat /\ d.day >= 1 /\ d.second \in Nat
      /\ d.day <= MonthLength(d.year, d.month)
  BY MomentType
<1>2. PICK n : n = Months(d, 0)
  OBVIOUS
<1>3. /\ n \in Nat /\ n >= Epoch /\ n = Index(d.year, d.month) + 0
      /\ point(d, 0) = (86400 * (First(n) + (Clamp(d, n) - 1))) + d.second
  BY <1>2, PointIs
<1>4. /\ Index(d.year, d.month) \in Nat /\ First(n) = DayNumber(d.year, d.month, 1)
      /\ Size(n) = MonthLength(d.year, d.month)
  BY <1>1, <1>3, MonthOfYear
<1>5. Size(n) \in Nat
  BY <1>3, MonthType
<1>6. Clamp(d, n) = d.day
  BY <1>1, <1>4, <1>5 DEF Clamp
<1>7. DayNumber(d.year, d.month, d.day) = First(n) + (d.day - 1)
  <2>1. PICK y \in Nat, m \in 1..12, day \in Int :
          y = d.year /\ y >= 1970 /\ m = d.month /\ day = d.day
    BY <1>1
  <2>2. DayNumber(y, m, day) = DayNumber(y, m, 1) + (day - 1)
    BY <2>1, DayOf
  <2> QED BY <1>4, <2>1, <2>2
<1> QED BY <1>3, <1>6, <1>7 DEF Timestamp

(* From one anniversary to the next it is at least a day and at most 31. *)
LEMMA PointStep ==
  ASSUME NEW d, IsMoment(d), NEW k \in Nat
  PROVE  /\ point(d, k) \in Int /\ point(d, k + 1) \in Int
         /\ point(d, k) < point(d, k + 1) /\ point(d, k + 1) - point(d, k) <= 31 * 86400
<1>1. PICK n : n = Months(d, k)
  OBVIOUS
<1>2. PICK m : m = Months(d, k + 1)
  OBVIOUS
<1>3. /\ d.day \in Nat /\ d.day >= 1 /\ d.day <= 31 /\ d.second \in Nat
      /\ d.year \in Nat /\ d.month \in 1..12
  BY MomentType
<1>4. /\ n \in Nat /\ n >= Epoch /\ n = Index(d.year, d.month) + k
      /\ point(d, k) = (86400 * (First(n) + (Clamp(d, n) - 1))) + d.second
  BY <1>1, PointIs
<1>5. /\ m \in Nat /\ m >= Epoch /\ m = Index(d.year, d.month) + (k + 1)
      /\ point(d, k + 1) = (86400 * (First(m) + (Clamp(d, m) - 1))) + d.second
  BY <1>2, PointIs, k + 1 \in Nat
<1>6. m = n + 1
  BY <1>3, <1>4, <1>5 DEF Index
<1>7. First(m) = First(n) + Size(n)
  BY <1>4, <1>6, NextFirst
<1>8. First(n) \in Nat /\ Size(n) \in 28..31 /\ Size(m) \in 28..31
  BY <1>4, <1>5, MonthType
<1>9. PICK first \in Nat, u \in Int, v \in Int :
        /\ first = First(n) /\ u = Clamp(d, n) /\ v = Clamp(d, m)
        /\ 1 <= u /\ u <= 31 /\ 1 <= v /\ v <= 31
        /\ (Size(n) + v) - u >= 1 /\ (Size(n) + v) - u <= 31
  <2>1. PICK first \in Nat, x \in 28..31, y \in 28..31, w \in Nat :
          first = First(n) /\ x = Size(n) /\ y = Size(m) /\ w = d.day /\ 1 <= w /\ w <= 31
    BY <1>3, <1>8
  <2>2. PICK u \in Nat, v \in Nat :
          u = (IF w < x THEN w ELSE x) /\ v = (IF w < y THEN w ELSE y)
    OBVIOUS
  <2>3. u = Clamp(d, n) /\ v = Clamp(d, m)
    BY <2>1, <2>2 DEF Clamp
  <2>4. /\ 1 <= u /\ u <= 31 /\ 1 <= v /\ v <= 31
        /\ (x + v) - u >= 1 /\ (x + v) - u <= 31
    BY <2>1, <2>2
  <2> QED BY <2>1, <2>3, <2>4
<1>10. /\ point(d, k) = (86400 * (first + (u - 1))) + d.second
       /\ point(d, k + 1) = (86400 * ((first + Size(n)) + (v - 1))) + d.second
  BY <1>4, <1>5, <1>7, <1>9
<1> QED BY <1>3, <1>8, <1>9, <1>10

(* An anniversary within the years is in its month, at the start's time, on the
   start's day or the month's last. *)
LEMMA PointDate ==
  ASSUME NEW d, IsMoment(d), NEW k \in Nat, point(d, k) < Timestamp(LastMoment) + 1
  PROVE  LET c == Civil(point(d, k))
         IN  /\ c.second = d.second /\ Months(c, 0) = Months(d, k)
             /\ \/ c.day = d.day
                \/ c.day < d.day /\ Civil(point(d, k) + 86400).day = 1
<1>1. PICK n : n = Months(d, k)
  OBVIOUS
<1>2. /\ d.day \in Nat /\ d.day <= 31 /\ d.second \in Nat /\ d.second < 86400
  BY MomentType
<1>3. /\ n \in Nat /\ n >= Epoch /\ Clamp(d, n) \in 1..Size(n)
      /\ point(d, k) = (86400 * (First(n) + (Clamp(d, n) - 1))) + d.second
  BY <1>1, PointIs
<1>4. /\ First(n) \in Nat /\ Size(n) \in 28..31 /\ YearOf(n) \in Nat /\ MonthOf(n) \in 1..12
      /\ n = (12 * YearOf(n)) + (MonthOf(n) - 1)
  BY <1>3, MonthType
<1>5. LastMonth \in Nat /\ LastMonth >= Epoch /\ Size(LastMonth) = 31 /\ First(LastMonth) \in Nat
      /\ Timestamp(LastMoment) = (86400 * (First(LastMonth) + 30)) + 86399
  <2>1. Index(2037, 12) = LastMonth
    BY DEF Index, LastMonth
  <2>2. /\ LastMonth \in Nat /\ LastMonth >= Epoch
        /\ First(LastMonth) = DayNumber(2037, 12, 1) /\ Size(LastMonth) = MonthLength(2037, 12)
    BY <2>1, MonthOfYear
  <2>3. MonthLength(2037, 12) = 31
    BY DEF MonthLength
  <2>4. DayNumber(2037, 12, 31) = DayNumber(2037, 12, 1) + (31 - 1)
    BY DayOf
  <2>5. Timestamp(LastMoment) = (86400 * DayNumber(2037, 12, 31)) + 86399
    BY DEF Timestamp, LastMoment
  <2> QED BY <2>2, <2>3, <2>4, <2>5, MonthType
<1>6. n <= LastMonth
  <2>1. SUFFICES ASSUME LastMonth < n PROVE FALSE
    BY <1>3, <1>5
  <2>2. First(LastMonth) + 31 <= First(n)
    BY <1>3, <1>5, <2>1, FirstGrows
  <2>3. First(LastMonth) + 31 <= First(n) + (Clamp(d, n) - 1)
    BY <1>3, <1>4, <1>5, <2>2
  <2>4. PICK u \in Int, v \in Int : u = First(LastMonth) /\ v = First(n) + (Clamp(d, n) - 1)
    BY <1>3, <1>4, <1>5
  <2> QED BY <1>2, <1>3, <1>5, <2>3, <2>4
<1>7. n \in Epoch..LastMonth
  BY <1>3, <1>5, <1>6 DEF Epoch
<1>8. Civil(point(d, k)) = [year |-> YearOf(n), month |-> MonthOf(n), day |-> Clamp(d, n),
                            second |-> d.second]
  BY <1>2, <1>3, <1>7, CivilIs
<1>9. Months(Civil(point(d, k)), 0) = n
  BY <1>4, <1>8 DEF Months
<1>10. ASSUME Clamp(d, n) # d.day
       PROVE  Clamp(d, n) < d.day /\ Civil(point(d, k) + 86400).day = 1
  <2>1. Clamp(d, n) = Size(n) /\ Size(n) < d.day
    BY <1>2, <1>4, <1>10 DEF Clamp
  <2>2. n # LastMonth
    BY <1>2, <1>5, <2>1
  <2>3. PICK m \in Nat : m = n + 1
    BY <1>3
  <2>4. m \in Epoch..LastMonth /\ m >= Epoch
    BY <1>3, <1>5, <1>6, <2>2, <2>3 DEF Epoch
  <2>5. First(m) = First(n) + Size(n)
    BY <1>3, <2>3, NextFirst
  <2>6. point(d, k) + 86400 = (86400 * (First(m) + (1 - 1))) + d.second
    BY <1>2, <1>3, <1>4, <2>1, <2>5
  <2>7. 1 \in 1..Size(m)
    BY <2>4, MonthType
  <2>8. Civil(point(d, k) + 86400) = [year |-> YearOf(m), month |-> MonthOf(m), day |-> 1,
                                      second |-> d.second]
    BY <1>2, <2>4, <2>6, <2>7, CivilIs
  <2> QED BY <2>1, <2>8
<1> QED BY <1>1, <1>8, <1>9, <1>10
-----------------------------------------------------------------------------
(* The dates found so far: anniversaries, and at most one end. *)
Calendared ==
  /\ comparison \in Comparisons
  /\ dates \in Seq(Int)
  /\ \A i \in DOMAIN dates :
       \/ dates[i] = point(comparison.start, i) /\ dates[i] < end
       \/ i = Len(dates) /\ dates[i] = end /\ end <= point(comparison.start, i)
IInv == Calendared /\ (\E S : rows \in Seq(S)) /\ PriceFound

LEMMA Scenario ==
  ASSUME comparison \in Comparisons
  PROVE  /\ IsMoment(comparison.start) /\ end \in Int /\ comparison.behind \in Nat
         /\ start \in Int /\ start < end /\ end <= Timestamp(LastMoment)
         /\ Timestamp(LastMoment) \in Int
<1>1. /\ IsMoment(comparison.start) /\ end \in Int /\ comparison.behind \in Nat
      /\ start < end /\ end <= Timestamp(LastMoment)
  BY ScenarioAssumption DEF start, end
<1>2. point(comparison.start, 0) \in Int
  BY <1>1, PointStep
<1>3. start \in Int
  BY <1>1, <1>2, PointZero DEF start
<1>4. Timestamp(LastMoment) \in Int
  BY DEF Timestamp, LastMoment, DayNumber, DaysBefore
<1> QED BY <1>1, <1>3, <1>4

LEMMA CalendaredDates ==
  ASSUME Calendared
  PROVE  DatesNeverDrift
<1>1. /\ IsMoment(comparison.start) /\ end \in Int /\ start \in Int /\ start < end
      /\ end <= Timestamp(LastMoment) /\ Timestamp(LastMoment) \in Int
  BY Scenario DEF Calendared
<1>2. /\ Len(dates) \in Nat /\ DOMAIN dates = 1..Len(dates)
      /\ \A i \in DOMAIN dates : dates[i] \in Int
  BY DEF Calendared
<1>3. ASSUME NEW i \in DOMAIN dates
      PROVE  /\ i \in Nat /\ i - 1 \in Nat /\ (i - 1) + 1 = i
             /\ point(comparison.start, i - 1) \in Int /\ point(comparison.start, i) \in Int
             /\ point(comparison.start, i - 1) < point(comparison.start, i)
             /\ point(comparison.start, i) - point(comparison.start, i - 1) <= 31 * 86400
             /\ dates[i] <= point(comparison.start, i)
             /\ Marks[i] = point(comparison.start, i - 1) /\ Marks[i] < end
  <2>1. i \in Nat /\ i - 1 \in Nat /\ (i - 1) + 1 = i
    BY <1>2
  <2>2. /\ point(comparison.start, i - 1) \in Int /\ point(comparison.start, i) \in Int
        /\ point(comparison.start, i - 1) < point(comparison.start, i)
        /\ point(comparison.start, i) - point(comparison.start, i - 1) <= 31 * 86400
    BY <1>1, <2>1, PointStep
  <2>3. dates[i] <= point(comparison.start, i)
    BY <1>2, <2>2 DEF Calendared
  <2>4. Marks[i] = point(comparison.start, i - 1) /\ Marks[i] < end
    <3>1. CASE i = 1
      <4>1. Marks[1] = start
        BY <1>2, <3>1 DEF Marks
      <4> QED BY <1>1, <3>1, <4>1, PointZero DEF start
    <3>2. CASE i # 1
      <4>1. i - 1 \in DOMAIN dates /\ i - 1 # Len(dates)
        BY <1>2, <2>1, <3>2
      <4>2. Marks[i] = dates[i - 1]
        BY <1>1, <1>2, <2>1, <4>1 DEF Marks
      <4> QED BY <4>1, <4>2 DEF Calendared
    <3> QED BY <3>1, <3>2
  <2> QED BY <2>1, <2>2, <2>3, <2>4
<1>4. ASSUME NEW i \in DOMAIN dates
      PROVE  Marks[i] < dates[i] /\ dates[i] <= end /\ dates[i] - Marks[i] <= 31 * 86400
  <2>1. dates[i] = end \/ (dates[i] = point(comparison.start, i) /\ dates[i] < end)
    BY DEF Calendared
  <2> QED BY <1>1, <1>2, <1>3, <2>1
<1>5. ASSUME NEW i \in DOMAIN dates, dates[i] # end
      PROVE  Monthly(i)
  <2>1. dates[i] = point(comparison.start, i) /\ dates[i] < end
    BY <1>5 DEF Calendared
  <2>2. point(comparison.start, i) < Timestamp(LastMoment) + 1
    BY <1>1, <1>3, <2>1
  <2>3. LET c == Civil(dates[i])
        IN  /\ c.second = comparison.start.second
            /\ Months(c, 0) = Months(comparison.start, i)
            /\ \/ c.day = comparison.start.day
               \/ c.day < comparison.start.day /\ Civil(dates[i] + 86400).day = 1
    BY <1>1, <1>3, <2>1, <2>2, PointDate
  <2> QED BY <2>3 DEF Monthly
<1> QED BY <1>4, <1>5 DEF DatesNeverDrift

(* Of what was seen, the price found is the last that the samples can show. *)
LEMMA AnsweredFinds ==
  ASSUME NEW time \in Int, NEW price, Answered(time, price)
  PROVE  PriceFound'
<1>1. PICK offsets \in SUBSET Around, late \in BOOLEAN :
        asked' = [at |-> time, last |-> Latest({time + o : o \in offsets}, time),
                  got |-> select_price(Charts({time + o : o \in offsets}, time, late),
                                       time, None)]
  BY DEF Answered
<1>2. PICK seen \in SUBSET Int : seen = {time + o : o \in offsets}
  <2>1. \A o \in offsets : time + o \in Int
    BY PriceAssumption
  <2>2. {time + o : o \in offsets} \in SUBSET Int
    BY <2>1
  <2> QED BY <2>2
<1> DEFINE past == {o \in seen : time - Window <= o /\ o <= time}
           points == Charts(seen, time, late)
           fit == Eligible(points, time)
<1>3. /\ asked'.at = time /\ asked'.last = Latest(seen, time)
      /\ asked'.got = select_price(points, time, None)
  BY <1>1, <1>2
<1>4. points \subseteq seen
  BY ChartsSeen
<1>5. Window \in Int /\ Hour \in Int /\ time - Window \in Int
  BY DEF Window, Hour
<1>6. CASE past = {}
  <2>1. asked'.last = None
    BY <1>3, <1>6 DEF Latest
  <2>2. fit = {}
    <3> HIDE DEF points
    <3> QED BY <1>4, <1>6 DEF Eligible
  <2>3. asked'.got = None
    <3> HIDE DEF fit, points
    <3> QED BY <1>3, <2>2 DEF select_price, fit
  <2> QED BY <2>1, <2>3 DEF PriceFound
<1>7. CASE past # {}
  <2>1. past \in SUBSET Int /\ \A o \in past : o <= time
    OBVIOUS
  <2>2. Max(past) \in past /\ \A o \in past : o <= Max(past)
    <3> HIDE DEF past
    <3> QED BY <1>7, <2>1, MaxOf
  <2>3. PICK last \in past : last = asked'.last /\ \A o \in past : o <= last
    BY <1>3, <1>7, <2>2 DEF Latest
  <2>4. last \in seen /\ last \in Int /\ time - Window <= last /\ last <= time
    BY <2>3
  <2>5. PICK c \in points : time - Window <= c /\ c <= time /\ last - c < 2 * Hour
    <3>1. \A p \in seen : time - Window <= p /\ p <= time => p <= last
      BY <2>3
    <3> QED BY <2>4, <3>1, Covered
  <2>6. c \in fit /\ c \in Int
    BY <1>4, <2>5 DEF Eligible
  <2>7. fit \in SUBSET Int /\ \A o \in fit : time - Window <= o /\ o <= time
    <3> HIDE DEF points
    <3> QED BY <1>4 DEF Eligible
  <2>8. PICK got \in fit : got = Max(fit) /\ c <= got
    <3> HIDE DEF fit
    <3> QED BY <2>6, <2>7, MaxOf
  <2>9. asked'.got = got
    <3> HIDE DEF points
    <3>1. fit # {}
      BY <2>6
    <3> QED BY <1>3, <2>8, <3>1 DEF select_price
  <2>10. got \in Int /\ time - Window <= got /\ got <= time
    <3> HIDE DEF fit
    <3> QED BY <2>7
  <2>11. /\ asked'.last # None /\ asked'.got # None
         /\ asked'.got <= asked'.at /\ asked'.at - asked'.got <= Window
         /\ asked'.last - asked'.got < 2 * Hour
    <3> HIDE DEF past, points, fit
    <3> QED BY <1>3, <1>5, <2>3, <2>4, <2>5, <2>6, <2>8, <2>9, <2>10, NoneAssumption
  <2> QED BY <2>11 DEF PriceFound
<1> QED BY <1>6, <1>7

LEMMA InitIInv == Init => IInv
<1> SUFFICES ASSUME Init PROVE IInv
  OBVIOUS
<1>1. Calendared
  BY DEF Init, Calendared
<1>2. rows \in Seq({})
  BY DEF Init
<1>3. PriceFound
  BY DEF Init, NotAsked, PriceFound
<1> QED BY <1>1, <1>2, <1>3 DEF IInv

\* a date is added after anniversaries only
LEMMA DatesGrow ==
  ASSUME IInv, ~Dated, NEW date \in Int, dates' = Append(dates, date),
         UNCHANGED <<comparison, rows, asked>>,
         \/ date = NextPoint /\ NextPoint < end
         \/ date = end /\ NextPoint >= end
  PROVE  IInv'
<1>1. Calendared /\ comparison \in Comparisons
  BY DEF IInv, Calendared
<1>2. /\ IsMoment(comparison.start) /\ end \in Int
  BY <1>1, Scenario
<1>3. Len(dates) \in Nat /\ dates \in Seq(Int) /\ DOMAIN dates = 1..Len(dates)
  BY <1>1 DEF Calendared
<1>4. end' = end
  BY DEF end
<1>5. /\ dates' \in Seq(Int) /\ Len(dates') = Len(dates) + 1
      /\ DOMAIN dates' = 1..(Len(dates) + 1)
      /\ dates'[Len(dates) + 1] = date
      /\ \A i \in DOMAIN dates : dates'[i] = dates[i]
  BY <1>3
<1>6. NextPoint = point(comparison.start, Len(dates) + 1) /\ NextPoint \in Int
  BY <1>2, <1>3, PointStep DEF NextPoint
<1>7. ASSUME NEW i \in DOMAIN dates'
      PROVE  \/ dates'[i] = point(comparison.start, i) /\ dates'[i] < end
             \/ i = Len(dates') /\ dates'[i] = end /\ end <= point(comparison.start, i)
  <2>1. CASE i = Len(dates) + 1
    BY <1>2, <1>5, <1>6, <2>1
  <2>2. CASE i # Len(dates) + 1
    <3>1. i \in DOMAIN dates /\ dates # <<>>
      BY <1>3, <1>5, <2>2
    <3>2. dates[Len(dates)] # end
      BY <3>1 DEF Dated
    <3>3. dates[i] = point(comparison.start, i) /\ dates[i] < end
      BY <1>1, <3>1, <3>2 DEF Calendared
    <3> QED BY <1>5, <3>1, <3>3
  <2> QED BY <2>1, <2>2
<1>8. Calendared'
  BY <1>1, <1>4, <1>5, <1>7 DEF Calendared
<1>9. PriceFound'
  BY DEF IInv, PriceFound
<1> QED BY <1>8, <1>9 DEF IInv

\* a price may be asked for, and a row added, once all dates are there
LEMMA RowsGrow ==
  ASSUME IInv, UNCHANGED <<comparison, dates>>,
         rows' = rows \/ \E row : Add(row),
         UNCHANGED asked \/ PriceFound'
  PROVE  IInv'
<1>1. Calendared'
  BY DEF IInv, Calendared, end
<1>2. PriceFound'
  BY DEF IInv, PriceFound
<1>3. \E S : rows' \in Seq(S)
  <2>1. PICK S : rows \in Seq(S)
    BY DEF IInv
  <2>2. ASSUME NEW row, Add(row) PROVE \E T : rows' \in Seq(T)
    <3>1. rows \in Seq(S \cup {row}) /\ row \in S \cup {row}
      BY <2>1
    <3>2. rows' \in Seq(S \cup {row})
      BY <2>2, <3>1 DEF Add
    <3> QED BY <3>2
  <2> QED BY <2>1, <2>2
<1> QED BY <1>1, <1>2, <1>3 DEF IInv

LEMMA PriceAtFinds ==
  ASSUME IInv, NEW time \in Int, NEW price, PriceAt(time, price)
  PROVE  UNCHANGED asked \/ PriceFound'
BY AnsweredFinds DEF PriceAt, RequestFails

LEMMA DateType ==
  ASSUME IInv, Dated
  PROVE  Date \in Int
<1>1. dates \in Seq(Int) /\ dates # <<>>
  BY DEF IInv, Calendared, Dated
<1>2. PICK S : rows \in Seq(S)
  BY DEF IInv
<1>3. Len(rows) \in Nat /\ Len(dates) \in Nat \ {0}
  BY <1>1, <1>2
<1>4. (Len(rows) % Len(dates)) + 1 \in 1..Len(dates)
  BY <1>3
<1> QED BY <1>1, <1>4 DEF Date

(* Every step keeps the dates, and the price it asks for is the one to be found. *)
LEMMA NextIInv == IInv /\ [Next]_vars => IInv'
<1> SUFFICES ASSUME IInv, [Next]_vars PROVE IInv'
  OBVIOUS
<1>1. comparison.behind \in Nat /\ start \in Int /\ end \in Int
      /\ IsMoment(comparison.start) /\ Len(dates) + 1 \in Nat
  BY Scenario DEF IInv, Calendared
<1>2. NextPoint \in Int
  BY <1>1, PointStep DEF NextPoint
<1>3. CASE NextMonth
  BY <1>2, <1>3, DatesGrow DEF NextMonth
<1>4. CASE LastDate
  BY <1>1, <1>4, DatesGrow DEF LastDate
<1>5. CASE InitialPrice
  <2>1. PICK price : PriceAt(BlockTime(start), price)
    BY <1>5 DEF InitialPrice
  <2>2. BlockTime(start) \in Int
    BY <1>1 DEF BlockTime
  <2>3. UNCHANGED asked \/ PriceFound'
    BY <2>1, <2>2, PriceAtFinds
  <2> QED BY <1>5, <2>3, RowsGrow DEF InitialPrice
<1>6. CASE HoldNothing
  BY <1>6, RowsGrow DEF HoldNothing, HoldRow
<1>7. CASE Hold
  <2>1. PICK price : /\ PriceAt(BlockTime(Date), price)
                     /\ HoldRow(IF price = None THEN None ELSE initial[1] * price)
    BY <1>7 DEF Hold
  <2>2. Date \in Int
    BY <1>7, DateType DEF Hold, Holding
  <2>3. BlockTime(Date) \in Int
    BY <1>1, <2>2 DEF BlockTime
  <2>4. UNCHANGED asked \/ PriceFound'
    BY <2>1, <2>3, PriceAtFinds
  <2> QED BY <2>1, <2>4, RowsGrow DEF HoldRow
<1>8. CASE Cash
  BY <1>8, RowsGrow DEF Cash
<1>9. CASE StrategyRow
  <2>1. PICK row : Add(row)
    BY <1>9 DEF StrategyRow
  <2> QED BY <1>9, <2>1, RowsGrow DEF StrategyRow
<1>10. CASE UNCHANGED vars
  BY <1>10, RowsGrow DEF vars
<1> QED BY <1>3, <1>4, <1>5, <1>6, <1>7, <1>8, <1>9, <1>10 DEF Next, Done

-------------------------------------------------------------------------------
(* The report of all rows. *)

\* of the rows at S, row i has the greatest proceeds, and no earlier one as great
Foremost(f, S, i) ==
  \A j \in S : \/ f[j].usd < f[i].usd
               \/ f[j].usd = f[i].usd /\ i <= j
(* Of finitely many rows with proceeds, one is the first of the greatest: else it would be
   missing among the rows up to some k and there among those before k. *)
LEMMA FirstExists ==
  ASSUME NEW n \in Nat, NEW f, NEW S \in SUBSET (1..n), S # {},
         \A i \in S : f[i].usd \in Int
  PROVE  \E i \in S : Foremost(f, S, i)
<1> DEFINE Upto(k) == {i \in S : i <= k}
           Bad == {k \in 0..n : Upto(k) # {} /\ ~ \E i \in Upto(k) : Foremost(f, Upto(k), i)}
<1>0. \A i \in S : i \in Nat /\ 1 <= i /\ i <= n
  OBVIOUS
<1>1. Upto(n) = S
  BY <1>0
<1>2. SUFFICES Bad = {}
  BY <1>1
<1>3. SUFFICES ASSUME Bad # {} PROVE FALSE
  OBVIOUS
<1>4. PICK k \in Bad : \A m \in Bad : k <= m
  <2>1. Bad \in SUBSET Nat
    OBVIOUS
  <2> HIDE DEF Bad
  <2> QED BY <1>3, <2>1, Least
<1>5. k \in 1..n /\ k - 1 \in 0..n /\ k - 1 \notin Bad
  <2>1. k # 0
    <3>1. Upto(0) = {}
      <4>1. \A i \in S : ~(i <= 0)
        BY <1>0
      <4> QED BY <4>1
    <3>2. Upto(k) # {}
      OBVIOUS
    <3> HIDE DEF Upto
    <3> QED BY <3>1, <3>2
  <2>2. k \in 0..n /\ \A m \in Bad : k <= m
    BY <1>4
  <2> HIDE DEF Bad
  <2> QED BY <2>1, <2>2
<1>6. Upto(k) # {} /\ ~ \E i \in Upto(k) : Foremost(f, Upto(k), i)
  OBVIOUS
<1>7. k \in S /\ Upto(k) = Upto(k - 1) \cup {k}
  <2>0. \A i \in S : i <= k <=> i <= k - 1 \/ i = k
    BY <1>0, <1>5
  <2>1. k \notin S => Upto(k) = Upto(k - 1)
    BY <2>0
  <2>2. k \in S
    <3> HIDE DEF Upto
    <3>1. Upto(k - 1) # {} => \E i \in Upto(k - 1) : Foremost(f, Upto(k - 1), i)
      BY <1>5
    <3> QED BY <1>6, <2>1, <3>1
  <2> QED BY <2>0, <2>2
<1>8. \A i \in Upto(k - 1) : i \in Nat /\ i < k /\ f[i].usd \in Int
  BY <1>5
<1>9. f[k].usd \in Int
  BY <1>7
<1>10. CASE Upto(k - 1) = {}
  <2>1. Upto(k) = {k}
    BY <1>7, <1>10
  <2>2. Foremost(f, {k}, k)
    BY <1>5, <1>9 DEF Foremost
  <2> QED BY <1>6, <2>1, <2>2
<1>11. CASE Upto(k - 1) # {}
  <2>1. PICK b \in Upto(k - 1) : Foremost(f, Upto(k - 1), b)
    BY <1>5, <1>11
  <2>2. CASE f[k].usd > f[b].usd
    <3>1. \A j \in Upto(k - 1) : f[j].usd < f[k].usd
      BY <1>8, <1>9, <2>1, <2>2 DEF Foremost
    <3>2. Foremost(f, Upto(k), k)
      BY <1>5, <1>7, <1>9, <3>1 DEF Foremost
    <3>3. k \in Upto(k)
      BY <1>7
    <3> QED BY <1>6, <3>2, <3>3
  <2>3. CASE ~ f[k].usd > f[b].usd
    <3>1. Foremost(f, Upto(k), b)
      BY <1>5, <1>7, <1>8, <1>9, <2>1, <2>3 DEF Foremost
    <3>2. b \in Upto(k)
      BY <1>7
    <3> QED BY <1>6, <3>1, <3>2
  <2> QED BY <2>2, <2>3
<1> QED BY <1>10, <1>11

(* Greatest is one of the rows, and none of them has higher proceeds. *)
LEMMA GreatestIs ==
  ASSUME NEW n \in Nat, NEW f, NEW S \in SUBSET (1..n), S # {},
         \A i \in S : f[i].usd \in Int
  PROVE  \E i \in S : /\ Greatest(f, S) = f[i]
                      /\ \A j \in S : f[j].usd <= f[i].usd
<1> DEFINE i == CHOOSE k \in S : Foremost(f, S, k)
<1>1. i \in S /\ Foremost(f, S, i)
  BY FirstExists
<1>2. Greatest(f, S) = f[i]
  BY DEF Greatest, Foremost
<1>3. \A j \in S : f[j].usd <= f[i].usd
  <2> HIDE DEF i
  <2> QED BY <1>1 DEF Foremost
<1> QED BY <1>1, <1>2, <1>3

(* Rows that agree on what is compared have the same greatest. *)
LEMMA SameGreatest ==
  ASSUME NEW n \in Nat, NEW f, NEW g, NEW S \in SUBSET (1..n),
         \A i \in S : f[i] = g[i] /\ f[i].usd \in Int
  PROVE  Greatest(f, S) = Greatest(g, S)
<1>1. CASE S = {}
  BY <1>1 DEF Greatest
<1>2. CASE S # {}
  <2> DEFINE a == CHOOSE k \in S : Foremost(f, S, k)
             b == CHOOSE k \in S : Foremost(g, S, k)
  <2>1. a \in S /\ Foremost(f, S, a)
    BY <1>2, FirstExists
  <2>2. b \in S /\ Foremost(g, S, b)
    <3>1. \A i \in S : g[i].usd \in Int
      OBVIOUS
    <3> QED BY <1>2, <3>1, FirstExists
  <2>3. Greatest(f, S) = f[a] /\ Greatest(g, S) = g[b]
    BY <1>2 DEF Greatest, Foremost
  <2> HIDE DEF a, b
  <2>4. a = b
    BY <2>1, <2>2 DEF Foremost
  <2> QED BY <2>1, <2>3, <2>4
<1> QED BY <1>1, <1>2

\* rows that have proceeds when they are complete
Valued(f) == \A i \in DOMAIN f : IsComplete(f[i]) => f[i].usd \in Int

(* The rows of one date, compared with each other, come out as among all rows. *)
LEMMA TableIs ==
  ASSUME NEW n \in Nat, NEW f, DOMAIN f = 1..n, Valued(f), NEW target
  PROVE  table(f, target) = [i \in RowsAt(f, target) |-> comparison_records(f)[i]]
<1> DEFINE T == RowsAt(f, target)
           g == [i \in T |-> f[i]]
<1>1. T \subseteq 1..n /\ DOMAIN g = T /\ \A i \in T : g[i] = f[i] /\ f[i].target = target
  BY DEF RowsAt
<1>2. ASSUME NEW i \in T
      PROVE  comparison_record(g, g[i]) = comparison_record(f, f[i])
  <2> DEFINE row == f[i]
  <2>1. g[i] = row /\ row.target = target
    BY <1>1
  <2>2. Options(g, row) = Options(f, row)
    BY <1>1, <2>1 DEF Options, RowsAt
  <2>3. VaultRows(g, row) = VaultRows(f, row)
    BY <1>1, <2>1 DEF VaultRows, Group, RowsAt
  <2>4. \A j \in VaultRows(f, row) : j \in T
    BY <2>1 DEF VaultRows, Group, RowsAt
  <2> DEFINE V == {j \in VaultRows(f, row) : IsComplete(f[j])}
  <2>5. {j \in VaultRows(g, row) : IsComplete(g[j])} = V
    BY <1>1, <2>3, <2>4
  <2>6. \A j \in Options(f, row) : j \in T /\ f[j].usd \in Int
    BY <1>1, <2>1 DEF Options, Valued, RowsAt
  <2>7. \A j \in V : j \in T /\ f[j].usd \in Int
    BY <1>1, <2>4 DEF Valued
  <2>8. winner(g, row) = winner(f, row)
    <3>1. Options(f, row) \in SUBSET (1..n) /\ \A j \in Options(f, row) : f[j] = g[j] /\ f[j].usd \in Int
      BY <1>1, <2>6
    <3>2. Greatest(f, Options(f, row)) = Greatest(g, Options(f, row))
      BY <3>1, SameGreatest
    <3> QED BY <2>2, <3>2 DEF winner
  <2>9. vault(g, row) = vault(f, row)
    <3> HIDE DEF V
    <3>1. V \in SUBSET (1..n) /\ \A j \in V : f[j] = g[j] /\ f[j].usd \in Int
      BY <1>1, <2>7
    <3>2. Greatest(f, V) = Greatest(g, V)
      BY <3>1, SameGreatest
    <3> QED BY <2>5, <3>2 DEF vault, V
  <2>10. vault_status(g, row) = vault_status(f, row)
    BY <2>3, <2>9 DEF vault_status
  <2> QED BY <2>1, <2>8, <2>9, <2>10 DEF comparison_record
<1>3. table(f, target) = [i \in T |-> comparison_record(g, g[i])]
  BY <1>1 DEF table, comparison_records
<1>4. [i \in T |-> comparison_records(f)[i]] = [i \in T |-> comparison_record(f, f[i])]
  BY <1>1 DEF comparison_records
<1> HIDE DEF g
<1> QED BY <1>2, <1>3, <1>4 DEF T

(* Rows of one asset and date are compared with the same. *)
LEMMA Alike ==
  ASSUME NEW f, NEW r, NEW q, r.asset = q.asset, r.target = q.target
  PROVE  winner(f, r) = winner(f, q) /\ vault(f, r) = vault(f, q)
         /\ vault_status(f, r) = vault_status(f, q)
<1>1. Options(f, r) = Options(f, q) /\ Group(f, r) = Group(f, q)
  BY DEF Options, Group
<1>2. VaultRows(f, r) = VaultRows(f, q)
  BY <1>1 DEF VaultRows
<1>3. winner(f, r) = winner(f, q) /\ vault(f, r) = vault(f, q)
  BY <1>1, <1>2 DEF winner, vault
<1> QED BY <1>2, <1>3 DEF vault_status

(* The headline of an asset says what each of its rows says. *)
LEMMA HeadlineIs ==
  ASSUME NEW n \in Nat, NEW f, DOMAIN f = 1..n, Valued(f), NEW target,
         NEW i \in RowsAt(f, target)
  PROVE  LET text == table(f, target)
             r == text[i]
         IN  headline(text, r.row.asset) =
               [best |-> r.best, vault |-> r.vault, vault_status |-> r.vault_status]
<1> DEFINE T == RowsAt(f, target)
           text == table(f, target)
           places == {j \in DOMAIN text : text[j].row.asset = text[i].row.asset}
           h == CHOOSE j \in places : \A k \in places : j <= k
<1>0. T \subseteq 1..n /\ \A j \in T : f[j].target = target
  BY DEF RowsAt
<1>1. /\ T \subseteq 1..n /\ DOMAIN text = T
      /\ \A j \in T : text[j] = comparison_record(f, f[j]) /\ f[j].target = target
  <2>1. text = [j \in T |-> comparison_records(f)[j]]
    BY TableIs
  <2>2. \A j \in T : comparison_records(f)[j] = comparison_record(f, f[j])
    BY <1>0 DEF comparison_records
  <2> HIDE DEF text, T
  <2> QED BY <1>0, <2>1, <2>2
<1>2. \A j \in T : /\ text[j].row = f[j] /\ text[j].best = winner(f, f[j])
                   /\ text[j].vault = vault(f, f[j])
                   /\ text[j].vault_status = vault_status(f, f[j])
  BY <1>1 DEF comparison_record
<1> HIDE DEF text
<1>3. places \in SUBSET Nat /\ places # {} /\ places \subseteq T
  BY <1>1
<1>4. h \in places
  <2> HIDE DEF places
  <2> QED BY <1>3, Least
<1>5. h \in T /\ f[h].asset = f[i].asset /\ f[h].target = f[i].target
  <2>1. h \in T /\ text[h].row.asset = text[i].row.asset
    <3> HIDE DEF h
    <3> QED BY <1>3, <1>4
  <2> HIDE DEF h
  <2> QED BY <1>1, <1>2, <2>1
<1>6. text[h].best = text[i].best /\ text[h].vault = text[i].vault
      /\ text[h].vault_status = text[i].vault_status
  <2> HIDE DEF h
  <2> QED BY <1>2, <1>5, Alike
<1>7. headline(text, text[i].row.asset) =
        [best |-> text[h].best, vault |-> text[h].vault, vault_status |-> text[h].vault_status]
  BY DEF headline
<1> HIDE DEF h
<1> QED BY <1>6, <1>7 DEF text

(* Rows are counted date by date: arithmetic of quotient and remainder. *)
LEMMA Divided ==
  ASSUME NEW a \in Nat, NEW b \in Nat \ {0}
  PROVE  a \div b \in Nat /\ a % b \in 0..(b - 1) /\ a = b * (a \div b) + (a % b)
OBVIOUS
LEMMA Places ==
  ASSUME NEW b \in Nat \ {0}, NEW h \in Nat, NEW k \in 0..(b - 1)
  PROVE  b * h + k \in Nat /\ (b * h + k) \div b = h /\ (b * h + k) % b = k
OBVIOUS
LEMMA Past ==
  ASSUME NEW a \in Nat, NEW b \in Nat \ {0}, NEW h \in Nat, a \div b > h,
         NEW k \in 0..(b - 1)
  PROVE  b * h + k < a
OBVIOUS
LEMMA Product ==
  ASSUME NEW a \in Nat, NEW b \in Nat PROVE a * b \in Nat
OBVIOUS
LEMMA Quotient ==
  ASSUME NEW a \in Nat, NEW b \in Nat, b > 0 PROVE a \div b \in Nat
OBVIOUS

\* what has been reported
Sheet ==
  /\ initial \in {<<>>} \cup {<<q>> : q \in Nat \cup {None}}
  /\ rows \in Seq(Rows(comparison))
  /\ rows # <<>> => Dated
  /\ \A n \in DOMAIN rows :
       /\ rows[n].status = "complete" <=> rows[n].usd # None
       /\ rows[n].target = dates[((n - 1) % Len(dates)) + 1]
       /\ (n - 1) \div Len(dates) = Len(holdings) => rows[n].usd = Usd

(* What a comparison selects is named and typed. *)
LEMMA Selected ==
  ASSUME IInv
  PROVE  /\ comparison \in Comparisons
         /\ Len(holdings) \in Nat /\ Len(strategies) \in Nat
         /\ \A i \in 1..Len(holdings) : /\ holdings[i] \in Assets(comparison)
                                        /\ <<"hold", holdings[i]>> \in Names(comparison)
         /\ \A i \in 1..Len(strategies) : /\ strategies[i].asset \in Assets(comparison)
                                          /\ strategies[i].name \in Names(comparison)
<1>1. comparison \in Comparisons
  BY DEF IInv, Calendared
<1>2. /\ comparison.holdings \in Seq(Assets(comparison))
      /\ comparison.strategies \in Seq([name : Names(comparison), asset : Assets(comparison)])
  BY <1>1, SelectionAssumption
<1>3. \A i \in 1..Len(holdings) : <<"hold", holdings[i]>> \in Names(comparison)
  BY <1>2 DEF Names, holdings
<1>4. ASSUME NEW i \in 1..Len(strategies)
      PROVE  /\ strategies[i].asset \in Assets(comparison)
             /\ strategies[i].name \in Names(comparison)
  <2>1. strategies[i] \in [name : Names(comparison), asset : Assets(comparison)]
    <3> DEFINE S == [name : Names(comparison), asset : Assets(comparison)]
    <3>1. strategies \in Seq(S)
      BY <1>2 DEF strategies
    <3> HIDE DEF S
    <3>2. strategies[i] \in S
      BY <3>1
    <3> QED BY <3>2 DEF S
  <2> QED BY <2>1
<1> QED BY <1>1, <1>2, <1>3, <1>4 DEF holdings, strategies

\* the turn and the date of the next row
LEMMA TurnType ==
  ASSUME IInv, Sheet, Dated
  PROVE  /\ Len(rows) \in Nat /\ Len(dates) \in Nat \ {0} /\ DOMAIN rows = 1..Len(rows)
         /\ Turn = Len(rows) \div Len(dates) + 1 /\ Turn \in Nat \ {0}
         /\ Date \in Int
<1>1. dates \in Seq(Int) /\ dates # <<>>
  BY DEF IInv, Calendared, Dated
<1>2. rows \in Seq(Rows(comparison))
  BY DEF Sheet
<1>3. Len(rows) \in Nat /\ Len(dates) \in Nat \ {0} /\ DOMAIN rows = 1..Len(rows)
  BY <1>1, <1>2
<1>4. Len(rows) \div Len(dates) \in Nat
  BY <1>3, Divided
<1> QED BY <1>3, <1>4, DateType DEF Turn

(* A row of a selected position, at the date whose turn it is, keeps the sheet. *)
LEMMA RowAdded ==
  ASSUME IInv, Sheet, Dated, UNCHANGED <<comparison, dates>>,
         NEW strategy \in Names(comparison), NEW asset \in Assets(comparison),
         NEW usd \in Int \cup {None}, Turn = Len(holdings) + 1 => usd = Usd,
         Add(Row(strategy, asset, usd)),
         initial' \in {<<>>} \cup {<<q>> : q \in Nat \cup {None}}
  PROVE  Sheet'
<1> DEFINE row == Row(strategy, asset, usd)
<1>1. /\ Len(rows) \in Nat /\ Len(dates) \in Nat \ {0} /\ DOMAIN rows = 1..Len(rows)
      /\ Turn = Len(rows) \div Len(dates) + 1 /\ Turn \in Nat \ {0}
      /\ Date \in Int
  BY TurnType
<1>2. /\ row \in Rows(comparison) /\ row.usd = usd /\ row.target = Date
      /\ row.status = "complete" <=> row.usd # None
  BY <1>1 DEF Row, Rows
<1> HIDE DEF row
<1>3. rows \in Seq(Rows(comparison)) /\ rows' = Append(rows, row)
  BY DEF Sheet, Add, row
<1>4. /\ rows' \in Seq(Rows(comparison)) /\ DOMAIN rows' = 1..(Len(rows) + 1)
      /\ rows'[Len(rows) + 1] = row
      /\ \A n \in DOMAIN rows : rows'[n] = rows[n]
  BY <1>1, <1>2, <1>3
<1>5. Dated' /\ holdings' = holdings
  BY DEF Dated, holdings, end
<1>6. ASSUME NEW n \in DOMAIN rows'
      PROVE  /\ rows'[n].status = "complete" <=> rows'[n].usd # None
             /\ rows'[n].target = dates[((n - 1) % Len(dates)) + 1]
             /\ (n - 1) \div Len(dates) = Len(holdings) => rows'[n].usd = Usd
  <2>1. CASE n = Len(rows) + 1
    <3>1. n - 1 = Len(rows)
      BY <1>1, <2>1
    <3>2. Date = dates[((n - 1) % Len(dates)) + 1]
      BY <3>1 DEF Date
    <3>3. (n - 1) \div Len(dates) = Len(holdings) => usd = Usd
      BY <1>1, <3>1
    <3> QED BY <1>2, <1>4, <2>1, <3>2, <3>3
  <2>2. CASE n # Len(rows) + 1
    <3>1. n \in DOMAIN rows
      BY <1>1, <1>4, <2>2
    <3> QED BY <1>4, <3>1 DEF Sheet
  <2> QED BY <2>1, <2>2
<1>7. rows' \in Seq(Rows(comparison'))
  BY <1>4
<1> QED BY <1>5, <1>6, <1>7 DEF Sheet

\* and so does a step that adds none
LEMMA SheetKept ==
  ASSUME Sheet, UNCHANGED <<comparison, rows>>,
         rows = <<>> \/ UNCHANGED dates,
         initial' \in {<<>>} \cup {<<q>> : q \in Nat \cup {None}}
  PROVE  Sheet'
<1>1. CASE rows = <<>>
  <2>1. rows' = <<>> /\ DOMAIN rows' = {}
    BY <1>1
  <2> QED BY <2>1 DEF Sheet
<1>2. CASE UNCHANGED dates
  BY <1>2 DEF Sheet, Dated, holdings, end
<1> QED BY <1>1, <1>2

(* Every row is of a position that was selected, at the date whose turn it is, and the
   rows after the holdings are cash. *)
LEMMA NextSheet == IInv /\ Sheet /\ [Next]_vars => Sheet'
<1> SUFFICES ASSUME IInv, Sheet, [Next]_vars PROVE Sheet'
  OBVIOUS
<1> DEFINE Initials == {<<>>} \cup {<<q>> : q \in Nat \cup {None}}
<1>0. initial \in Initials
  BY DEF Sheet
<1>1. CASE NextMonth
  <2>1. rows = <<>>
    BY <1>1 DEF NextMonth, Sheet
  <2> QED BY <1>0, <1>1, <2>1, SheetKept DEF NextMonth
<1>2. CASE LastDate
  <2>1. rows = <<>>
    BY <1>2 DEF LastDate, Sheet
  <2> QED BY <1>0, <1>2, <2>1, SheetKept DEF LastDate
<1>3. CASE InitialPrice
  <2>1. PICK price \in Prices :
          /\ PriceAt(BlockTime(start), price)
          /\ initial' = <<IF price = None THEN None ELSE Usd \div price>>
    BY <1>3 DEF InitialPrice
  <2>2. ASSUME price # None PROVE Usd \div price \in Nat
    <3>1. price > 0 /\ price \in Values
      BY <2>1, <2>2 DEF PriceAt, Answered, RequestFails, Prices
    <3>2. price \in Nat /\ Usd \in Nat
      BY <3>1, PriceAssumption
    <3> QED BY <3>1, <3>2, Quotient
  <2>3. initial' \in Initials
    BY <2>1, <2>2
  <2> QED BY <1>3, <2>3, SheetKept DEF InitialPrice
<1>4. ASSUME Holding PROVE /\ Dated
                           /\ <<"hold", holdings[Turn]>> \in Names(comparison)
                           /\ holdings[Turn] \in Assets(comparison)
                           /\ Turn # Len(holdings) + 1
  <2>1. Dated /\ Turn <= Len(holdings)
    BY <1>4 DEF Holding
  <2>2. Turn \in Nat \ {0} /\ Len(holdings) \in Nat
    BY <2>1, TurnType, Selected
  <2>3. Turn \in 1..Len(holdings) /\ Turn # Len(holdings) + 1
    BY <2>1, <2>2
  <2> QED BY <2>1, <2>3, Selected
<1>5. KeptInitial \in Initials
  BY <1>0 DEF KeptInitial
<1>6. CASE HoldNothing
  BY <1>4, <1>5, <1>6, RowAdded DEF HoldNothing, HoldRow
<1>7. CASE Hold
  <2>1. PICK price \in Prices :
          HoldRow(IF price = None THEN None ELSE initial[1] * price)
    BY <1>7 DEF Hold
  <2>2. initial[1] \in Nat
    BY <1>0, <1>7 DEF Hold
  <2>3. price # None => price \in Nat
    BY PriceAssumption DEF Prices
  <2>4. price # None => initial[1] * price \in Nat
    BY <2>2, <2>3, Product
  <2>5. (IF price = None THEN None ELSE initial[1] * price) \in Int \cup {None}
    BY <2>4
  <2> QED BY <1>4, <1>5, <1>7, <2>1, <2>5, RowAdded DEF Hold, HoldRow
<1>8. CASE Cash
  <2>1. <<"cash", "USD">> \in Names(comparison) /\ "cash" \in Assets(comparison)
    BY DEF Names, Assets
  <2>2. Usd \in Int \cup {None}
    BY PriceAssumption
  <2> QED BY <1>0, <1>8, <2>1, <2>2, RowAdded DEF Cash
<1>9. CASE StrategyRow
  <2> DEFINE selected == strategies[Turn - Len(holdings) - 1]
  <2>1. PICK usd \in Proceeds \cup {None} : Add(Row(selected.name, selected.asset, usd))
    BY <1>9 DEF StrategyRow
  <2>2. Dated /\ Turn > Len(holdings) + 1 /\ ~(Turn > Len(holdings) + 1 + Len(strategies))
    BY <1>9 DEF StrategyRow, OfStrategies, Finished
  <2>3. Turn \in Nat \ {0} /\ Len(holdings) \in Nat /\ Len(strategies) \in Nat
    BY <2>2, TurnType, Selected
  <2>4. Turn - Len(holdings) - 1 \in 1..Len(strategies) /\ Turn # Len(holdings) + 1
    BY <2>2, <2>3
  <2>5. selected.name \in Names(comparison) /\ selected.asset \in Assets(comparison)
    BY <2>4, Selected
  <2>6. usd \in Int \cup {None}
    BY PriceAssumption
  <2> HIDE DEF selected
  <2> QED BY <1>0, <1>9, <2>1, <2>2, <2>4, <2>5, <2>6, RowAdded DEF StrategyRow
<1>10. CASE UNCHANGED vars
  BY <1>0, <1>10, SheetKept DEF vars
<1> QED BY <1>1, <1>2, <1>3, <1>6, <1>7, <1>8, <1>9, <1>10 DEF Next, Done

\* a row has proceeds exactly when it is complete
LEMMA RowsValued ==
  ASSUME IInv, Sheet
  PROVE  /\ Len(rows) \in Nat /\ DOMAIN rows = 1..Len(rows) /\ Valued(rows)
         /\ \A i \in DOMAIN rows : /\ rows[i] \in Rows(comparison) /\ rows[i] # None
                                   /\ IsComplete(rows[i]) <=> rows[i].status = "complete"
                                   /\ rows[i].usd \in Int <=> rows[i].status = "complete"
<1>1. rows \in Seq(Rows(comparison)) /\ comparison \in Comparisons
  BY DEF IInv, Calendared, Sheet
<1>2. Len(rows) \in Nat /\ DOMAIN rows = 1..Len(rows)
  BY <1>1
<1>3. ASSUME NEW i \in DOMAIN rows
      PROVE  /\ rows[i] \in Rows(comparison) /\ rows[i] # None
             /\ IsComplete(rows[i]) <=> rows[i].status = "complete"
             /\ rows[i].usd \in Int <=> rows[i].status = "complete"
  <2>1. rows[i] \in Rows(comparison)
    BY <1>1, <1>2, <1>3
  <2>2. rows[i] # None
    BY <1>1, <2>1, NoneAssumption
  <2>3. rows[i].usd \in Int \cup {None}
    BY <2>1 DEF Rows
  <2>4. rows[i].status = "complete" <=> rows[i].usd # None
    BY DEF Sheet
  <2> QED BY <2>1, <2>2, <2>3, <2>4, NoneAssumption DEF IsComplete
<1> QED BY <1>2, <1>3 DEF Valued

(* When all rows are there, every date has its row of cash. *)
LEMMA CashReported ==
  ASSUME IInv, Sheet, Finished, NEW d \in DOMAIN dates
  PROVE  \E n \in DOMAIN rows : rows[n].target = dates[d] /\ rows[n].status = "complete"
<1>1. Dated /\ Turn > Len(holdings) + 1 + Len(strategies)
  BY DEF Finished
<1>2. /\ Len(rows) \in Nat /\ Len(dates) \in Nat \ {0} /\ DOMAIN rows = 1..Len(rows)
      /\ Turn = Len(rows) \div Len(dates) + 1
      /\ Len(holdings) \in Nat /\ Len(strategies) \in Nat
  BY <1>1, TurnType, Selected
<1>3. Len(rows) \div Len(dates) \in Nat /\ Len(rows) \div Len(dates) > Len(holdings)
  <2> DEFINE q == Len(rows) \div Len(dates)
  <2>1. q \in Nat
    BY <1>2, Divided
  <2>2. Turn = q + 1
    BY <1>2
  <2> HIDE DEF q
  <2>3. q > Len(holdings)
    BY <1>1, <1>2, <2>1, <2>2
  <2> QED BY <2>1, <2>3 DEF q
<1>4. d - 1 \in 0..(Len(dates) - 1) /\ (d - 1) + 1 = d
  BY DEF IInv, Calendared
<1> DEFINE before == Len(dates) * Len(holdings) + (d - 1)
<1>5. /\ before \in Nat /\ before < Len(rows)
      /\ before \div Len(dates) = Len(holdings) /\ before % Len(dates) = d - 1
  BY <1>2, <1>3, <1>4, Places, Past
<1> HIDE DEF before
<1>6. before + 1 \in DOMAIN rows /\ (before + 1) - 1 = before
  BY <1>2, <1>5
<1>7. rows[before + 1].target = dates[d] /\ rows[before + 1].usd = Usd
  BY <1>4, <1>5, <1>6 DEF Sheet
<1>8. rows[before + 1].status = "complete"
  BY <1>6, <1>7, RowsValued, PriceAssumption
<1> QED BY <1>6, <1>7, <1>8

(* The best of a date is the greatest of its complete rows, of which cash is one. *)
LEMMA Highest ==
  ASSUME IInv, Sheet, Finished
  PROVE  BestIsHighest
<1> DEFINE records == comparison_records(rows)
           At(target) == {i \in DOMAIN records : records[i].row.target = target}
           Completed(S) == {i \in S : records[i].row.status = "complete"}
<1>1. /\ Len(rows) \in Nat /\ DOMAIN rows = 1..Len(rows)
      /\ \A i \in DOMAIN rows : /\ rows[i] # None
                                /\ IsComplete(rows[i]) <=> rows[i].status = "complete"
                                /\ rows[i].usd \in Int <=> rows[i].status = "complete"
  BY RowsValued
<1>2. /\ DOMAIN records = DOMAIN rows
      /\ \A i \in DOMAIN rows : records[i] = comparison_record(rows, rows[i])
  BY DEF comparison_records
<1>3. \A i \in DOMAIN rows : /\ records[i].row = rows[i]
                             /\ records[i].versus_best = Versus(rows[i], winner(rows, rows[i]))
                             /\ records[i].vault = vault(rows, rows[i])
                             /\ records[i].versus_vault = Versus(rows[i], vault(rows, rows[i]))
  BY <1>2 DEF comparison_record
<1> SUFFICES ASSUME NEW d \in DOMAIN dates
             PROVE  LET target == dates[d] IN
                    /\ \E i \in Completed(At(target)) : records[i].versus_best = 0
                    /\ \A i \in Completed(At(target)) : records[i].versus_best <= 0
                    /\ \A i, j \in Completed(At(target)) :
                         records[i].versus_best - records[j].versus_best =
                           records[i].row.usd - records[j].row.usd
                    /\ \A i \in At(target) \ Completed(At(target)) :
                         records[i].versus_best = None /\ records[i].versus_vault = None
                    /\ \A i \in At(target) :
                         LET r == records[i] IN
                         r.vault # None <=> \E j \in Completed(At(target)) :
                           /\ records[j].row.asset = r.row.asset
                           /\ records[j].row.strategy \in VaultsOf[r.row.asset]
  BY DEF BestIsHighest
<1> DEFINE target == dates[d]
           T == {i \in DOMAIN rows : rows[i].target = target}
           C == {i \in T : rows[i].status = "complete"}
<1> HIDE DEF records
<1>4. At(target) = T /\ Completed(At(target)) = C
  BY <1>2, <1>3
<1>5. \A i \in T : Options(rows, rows[i]) = C
  BY <1>1 DEF Options
<1>6. PICK n \in DOMAIN rows : n \in C
  BY CashReported
<1>7. PICK b \in C : /\ Greatest(rows, C) = rows[b]
                     /\ \A j \in C : rows[j].usd <= rows[b].usd
  <2>1. C \in SUBSET (1..Len(rows)) /\ \A i \in C : rows[i].usd \in Int
    BY <1>1
  <2>2. C # {}
    BY <1>6
  <2> HIDE DEF C
  <2> QED BY <1>1, <2>1, <2>2, GreatestIs
<1>8. \A i \in C : /\ rows[i].usd \in Int /\ i \in T
                   /\ records[i].versus_best = rows[i].usd - rows[b].usd
  <2> TAKE i \in C
  <2>1. i \in T /\ rows[i].usd \in Int /\ rows[i].status = "complete" /\ IsComplete(rows[i])
    BY <1>1
  <2>2. winner(rows, rows[i]) = rows[b]
    BY <1>5, <1>7, <2>1 DEF winner
  <2>3. rows[b] # None
    BY <1>1, <1>7
  <2> QED BY <1>3, <2>1, <2>2, <2>3 DEF Versus, IsComplete
<1>9. \A i \in T \ C : records[i].versus_best = None /\ records[i].versus_vault = None
  BY <1>3 DEF Versus
<1>10. ASSUME NEW i \in T
       PROVE  records[i].vault # None <=>
                \E j \in C : /\ records[j].row.asset = records[i].row.asset
                             /\ records[j].row.strategy \in VaultsOf[records[i].row.asset]
  <2> DEFINE V == {j \in VaultRows(rows, rows[i]) : IsComplete(rows[j])}
  <2>1. V = {j \in C : rows[j].asset = rows[i].asset /\ rows[j].strategy \in VaultsOf[rows[i].asset]}
    BY <1>1 DEF VaultRows, Group
  <2>2. records[i].vault = Greatest(rows, V)
    BY <1>3 DEF vault
  <2>3. V \in SUBSET (1..Len(rows)) /\ \A j \in V : rows[j].usd \in Int
    BY <1>1, <2>1
  <2>4. V = {} => records[i].vault = None
    BY <2>2 DEF Greatest
  <2>5. V # {} => records[i].vault # None
    <3> HIDE DEF V
    <3>1. V # {} => \E j \in V : Greatest(rows, V) = rows[j]
      BY <1>1, <2>3, GreatestIs
    <3> QED BY <1>1, <2>2, <2>3, <3>1
  <2>6. V # {} <=> \E j \in C : /\ records[j].row.asset = records[i].row.asset
                                /\ records[j].row.strategy \in VaultsOf[records[i].row.asset]
    BY <1>3, <2>1
  <2> QED BY <2>4, <2>5, <2>6
<1>11. \E i \in C : records[i].versus_best = 0
  BY <1>7, <1>8
<1>12. \A i \in C : records[i].versus_best <= 0
  BY <1>7, <1>8
<1>13. \A i, j \in C : records[i].versus_best - records[j].versus_best =
                         records[i].row.usd - records[j].row.usd
  BY <1>3, <1>7, <1>8
<1> HIDE DEF T, C, At, Completed
<1> QED BY <1>4, <1>9, <1>10, <1>11, <1>12, <1>13

\* at any date, reported or not
LEMMA TextIsCsv ==
  ASSUME IInv, Sheet
  PROVE  TextMatchesCsv
<1>1. Len(rows) \in Nat /\ DOMAIN rows = 1..Len(rows) /\ Valued(rows)
  BY RowsValued
<1>2. ASSUME NEW target
      PROVE  LET text == table(rows, target)
             IN  /\ text = [i \in RowsAt(rows, target) |-> comparison_records(rows)[i]]
                 /\ \A i \in DOMAIN text :
                      LET r == text[i]
                      IN  headline(text, r.row.asset) =
                            [best |-> r.best, vault |-> r.vault,
                             vault_status |-> r.vault_status]
  <2>1. table(rows, target) = [i \in RowsAt(rows, target) |-> comparison_records(rows)[i]]
    BY <1>1, TableIs
  <2>2. DOMAIN table(rows, target) = RowsAt(rows, target)
    BY <2>1
  <2> QED BY <1>1, <2>1, <2>2, HeadlineIs
<1> QED BY <1>2 DEF TextMatchesCsv

-------------------------------------------------------------------------------
(* The dates found so far are anniversaries of the start before the end, or the end,
   and no request has missed a price. *)
THEOREM Inductive == Spec => []IInv
BY InitIInv, NextIInv, PTL DEF Spec

(* The dates of a comparison never drift, whatever day it starts on: they increase up
   to its end, at most 31 days apart, each in the next month on the start's day or
   the month's last. *)
THEOREM NoDrift == Spec => []DatesNeverDrift
<1>1. IInv => DatesNeverDrift
  BY CalendaredDates DEF IInv
<1> QED BY <1>1, Inductive, PTL

(* If anything was observed in the 24 hours up to a time, the hourly samples find a
   price, less than two hours before the last observation and never a later one. *)
THEOREM PricesFound == Spec => []PriceFound
<1>1. IInv => PriceFound
  BY DEF IInv
<1> QED BY <1>1, Inductive, PTL

(* Every row is of a selected position at the date whose turn it was, has proceeds exactly
   when it is complete, and the rows after the holdings are cash. *)
THEOREM Reported == Spec => [](IInv /\ Sheet)
<1>1. Init => IInv /\ Sheet
  <2>1. Init => Sheet
    <3> SUFFICES ASSUME Init PROVE Sheet
      OBVIOUS
    <3>1. rows = <<>> /\ initial = <<>> /\ DOMAIN rows = {}
      BY DEF Init
    <3> QED BY <3>1 DEF Sheet
  <2> QED BY <2>1, InitIInv
<1>2. (IInv /\ Sheet) /\ [Next]_vars => (IInv /\ Sheet)'
  BY NextIInv, NextSheet
<1> QED BY <1>1, <1>2, PTL DEF Spec

(* What the text says of one date, row by row and in its headlines, is what the CSV file says
   of that date, whatever is reported. *)
THEOREM SameReport == Spec => []TextMatchesCsv
<1>1. IInv /\ Sheet => TextMatchesCsv
  BY TextIsCsv
<1> QED BY <1>1, Reported, PTL

(* Every finished report has a best at each date, nothing complete is higher, gaps add up
   across assets, and exactly the assets with a complete vault are compared with one. *)
THEOREM BestReported == Spec => []BestIsHighest
<1>1. IInv /\ Sheet => BestIsHighest
  BY Highest DEF BestIsHighest
<1> QED BY <1>1, Reported, PTL
=============================================================================
