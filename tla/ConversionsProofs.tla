--------------------------- MODULE ConversionsProofs ---------------------------
(***************************************************************************)
(* Proofs about the conversions: the date in a session certificate, for    *)
(* every day since 1970; the proxy manifest, for every list of             *)
(* destinations that the loopback addresses suffice for; the items of a    *)
(* set, for every text of one; and the registration found in what is       *)
(* printed, for everything JSON allows in it.                              *)
(***************************************************************************)
EXTENDS Conversions, TLAPS, FiniteSetTheorems, WellFoundedInduction

-----------------------------------------------------------------------------
(* Division by a constant, where the quotient is known.                    *)

LEMMA Quotient == ASSUME NEW k \in Nat, NEW r \in Nat
  PROVE  /\ r < 146097 => (146097 * k + r) \div 146097 = k
         /\ r < 1460 => (1460 * k + r) \div 1460 = k
         /\ r < 365 => (365 * k + r) \div 365 = k
  BY SMT

\* And where it is not.

Parts(n, d, k, r) == k \in Nat /\ r \in Nat /\ n = d * k + r /\ r < d

LEMMA Eras == ASSUME NEW n \in Nat
  PROVE  Parts(n, 146097, n \div 146097, n - 146097 * (n \div 146097))
BY SMT DEF Parts

LEMMA Centuries == ASSUME NEW n \in Nat
  PROVE  Parts(n, 36524, n \div 36524, n - 36524 * (n \div 36524))
BY SMT DEF Parts

LEMMA Spans == ASSUME NEW n \in Nat
  PROVE  Parts(n, 1461, n \div 1461, n - 1461 * (n \div 1461))
BY SMT DEF Parts

LEMMA Years == ASSUME NEW n \in Nat
  PROVE  Parts(n, 365, n \div 365, n - 365 * (n \div 365))
BY SMT DEF Parts

-----------------------------------------------------------------------------
(* The day of the era: b centuries of 36524 days, q spans of four years and *)
(* 1461 days, u years of 365, and the day v of a year that begins in March. *)
(* The last year of a span has a 366th day, unless it is the last of a      *)
(* century, unless that is the last of the era.                             *)

LongYear(b, q, u) == u = 3 /\ (q # 24 \/ b = 3)

IsPlace(b, q, u, v) ==
  /\ b \in Nat /\ q \in Nat /\ u \in Nat /\ v \in Nat
  /\ b <= 3 /\ q <= 24 /\ u <= 3 /\ v <= 365
  /\ v = 365 => LongYear(b, q, u)

DayOfEra(b, q, u, v) == 36524 * b + 1461 * q + 365 * u + v

LEMMA PlaceInEra ==
  ASSUME NEW b, NEW q, NEW u, NEW v, IsPlace(b, q, u, v)
  PROVE  DayOfEra(b, q, u, v) \in Nat /\ DayOfEra(b, q, u, v) < 146097
BY SMT DEF IsPlace, LongYear, DayOfEra

\* Every day of the era has a place.
LEMMA PlaceExists ==
  ASSUME NEW doe \in Nat, doe < 146097
  PROVE  \E b, q, u, v : IsPlace(b, q, u, v) /\ doe = DayOfEra(b, q, u, v)
<1>1. CASE doe = 146096
  <2>1. IsPlace(3, 24, 3, 365) /\ doe = DayOfEra(3, 24, 3, 365)
    BY <1>1, SMT DEF IsPlace, LongYear, DayOfEra
  <2> QED
    BY <2>1, SMT
<1>2. CASE doe # 146096
  <2> DEFINE b == doe \div 36524
             r == doe - 36524 * b
             q == r \div 1461
             t == r - 1461 * q
             u == t \div 365
             v == t - 365 * u
  <2>1. Parts(doe, 36524, b, r)
    BY Centuries, SMT
  <2>2. Parts(r, 1461, q, t)
    <3>1. r \in Nat
      BY <2>1, SMT DEF Parts
    <3> HIDE DEF r
    <3> QED
      BY <3>1, Spans, SMT
  <2>3. Parts(t, 365, u, v)
    <3>1. t \in Nat
      BY <2>2, SMT DEF Parts
    <3> HIDE DEF t
    <3> QED
      BY <3>1, Years, SMT
  <2> HIDE DEF b, r, q, t, u, v
  <2>4. CASE t = 1460
    <3>1. IsPlace(b, q, 3, 365) /\ doe = DayOfEra(b, q, 3, 365)
      BY <1>2, <2>1, <2>2, <2>4, SMT DEF Parts, IsPlace, LongYear, DayOfEra
    <3> QED
      BY <3>1, SMT
  <2>5. CASE t # 1460
    <3>1. IsPlace(b, q, u, v) /\ doe = DayOfEra(b, q, u, v)
      BY <1>2, <2>1, <2>2, <2>3, <2>5, SMT DEF Parts, IsPlace, DayOfEra
    <3> QED
      BY <3>1, SMT
  <2> QED
    BY <2>4, <2>5, SMT
<1> QED
  BY <1>1, <1>2, SMT

\* Its year is the one the four divisions give: of the corrections, those for
\* centuries and eras cancel the days that the first has taken too many.
LEMMA YearOfPlace ==
  ASSUME NEW b, NEW q, NEW u, NEW v, IsPlace(b, q, u, v)
  PROVE  YearOfEra(DayOfEra(b, q, u, v)) = 100 * b + 4 * q + u
<1> DEFINE doe == DayOfEra(b, q, u, v)
<1> DEFINE y == 100 * b + 4 * q + u
<1> USE DEF IsPlace, LongYear
<1>1. \E k \in Nat : k <= 1 /\ doe \div 36524 = b + k /\ doe \div 146096 = k
  <2>1. CASE doe = 146096
    <3>1. b = 3
      BY <2>1, SMT DEF DayOfEra
    <3>2. 146096 \div 36524 = 4 /\ 146096 \div 146096 = 1
      BY SMT
    <3> QED
      BY <2>1, <3>1, <3>2, SMT
  <2>2. CASE doe # 146096
    <3>1. doe \div 36524 = b /\ doe \div 146096 = 0
      BY <2>2, SMT DEF DayOfEra
    <3> QED
      BY <3>1, SMT
  <2> QED
    BY <2>1, <2>2, SMT
<1> DEFINE over == 24 * b + q + 365 * u + v
           w == IF over < 1460 THEN 0 ELSE 1
<1>2. w \in Nat /\ w <= v /\ v - w < 365 /\ doe \div 1460 = 25 * b + q + w
  <2>1. doe = 1460 * (25 * b + q) + over
    BY SMT DEF DayOfEra
  <2>2. CASE over < 1460
    <3>1. doe \div 1460 = 25 * b + q
      BY <2>1, <2>2, SMT
    <3> QED
      BY <2>2, <3>1, SMT
  <2>3. CASE over >= 1460
    <3>1. doe \div 1460 = 25 * b + q + 1
      BY <2>1, <2>3, SMT
    <3> QED
      BY <2>3, <3>1, SMT
  <2> QED
    BY <2>2, <2>3, SMT
<1>3. PICK k \in Nat : doe \div 36524 = b + k /\ doe \div 146096 = k
  BY <1>1, SMT
<1> HIDE DEF w
<1>5. doe - doe \div 1460 + doe \div 36524 - doe \div 146096 = 365 * y + (v - w)
  BY <1>2, <1>3, SMT DEF DayOfEra
<1>6. (365 * y + (v - w)) \div 365 = y
  BY <1>2, Quotient, SMT
<1> QED
  BY <1>5, <1>6, SMT DEF YearOfEra

-----------------------------------------------------------------------------
(* The date of a day v of the year y that begins in March.                 *)

\* civil_from_days gives the date of the day's place.
LEMMA CivilOfPlace ==
  ASSUME NEW days \in Nat, NEW era \in Nat, NEW b, NEW q, NEW u, NEW v,
         IsPlace(b, q, u, v), days + 719468 = 146097 * era + DayOfEra(b, q, u, v)
  PROVE  CivilFromDays(days) = DateOf(400 * era + 100 * b + 4 * q + u, v)
<1> DEFINE z == days + 719468
<1> DEFINE y == 100 * b + 4 * q + u
<1>1. PICK doe \in Nat : doe = DayOfEra(b, q, u, v) /\ doe < 146097
  BY PlaceInEra, SMT
<1>2. z \div 146097 = era /\ z - (z \div 146097) * 146097 = doe
  <2>1. z \div 146097 = era
    BY <1>1, Quotient, SMT
  <2> QED
    BY <1>1, <2>1, SMT
<1>3. YearOfEra(doe) = y
  BY <1>1, YearOfPlace, SMT
<1>4. DayOfYear(doe) = v
  <2>1. y \div 4 = 25 * b + q /\ y \div 100 = b
    BY SMT DEF IsPlace
  <2>2. DayOfYear(doe) = doe - (365 * y + y \div 4 - y \div 100)
    BY <1>3, SMT DEF DayOfYear
  <2> QED
    BY <1>1, <2>1, <2>2, SMT DEF IsPlace, DayOfEra
<1>5. y + era * 400 = 400 * era + 100 * b + 4 * q + u
  BY SMT DEF IsPlace
<1> HIDE DEF y
<1> QED
  BY <1>2, <1>3, <1>4, <1>5, SMT DEF CivilFromDays

MonthStart(m) == (153 * m + 2) \div 5

\* The month of a day is the one it lies in.
LEMMA MonthOfDay ==
  ASSUME NEW v \in Nat, v <= 365
  PROVE  /\ MonthIndex(v) \in Nat /\ MonthIndex(v) <= 11
         /\ MonthStart(MonthIndex(v)) <= v
         /\ v < MonthStart(MonthIndex(v) + 1)
BY SMT DEF MonthIndex, MonthStart

LEMMA MonthStarts ==
  /\ MonthStart(0) = 0 /\ MonthStart(1) = 31 /\ MonthStart(2) = 61
  /\ MonthStart(3) = 92 /\ MonthStart(4) = 122 /\ MonthStart(5) = 153
  /\ MonthStart(6) = 184 /\ MonthStart(7) = 214 /\ MonthStart(8) = 245
  /\ MonthStart(9) = 275 /\ MonthStart(10) = 306 /\ MonthStart(11) = 337
  /\ MonthStart(12) = 367
BY SMT DEF MonthStart

\* The day within the month, and how long the months are.
LEMMA DayWithinMonth ==
  ASSUME NEW v \in Nat, v <= 365, NEW y \in Nat
  PROVE  LET m == MonthIndex(v)
             d == DateOf(y, v)
         IN /\ d.day = v - MonthStart(m) + 1
            /\ d.month = (IF m < 10 THEN m + 3 ELSE m - 9)
            /\ d.year = (IF m < 10 THEN y ELSE y + 1)
            /\ d = [year |-> d.year, month |-> d.month, day |-> d.day]
            /\ m < 11 => DaysInMonth(d.year, d.month) = MonthStart(m + 1) - MonthStart(m)
            /\ m = 11 => DaysInMonth(d.year, d.month) = IF IsLeap(y + 1) THEN 29 ELSE 28
<1> DEFINE m == MonthIndex(v)
           d == DateOf(y, v)
<1>1. m \in Nat /\ m <= 11
  BY MonthOfDay, SMT
<1>2. d.month = (IF m < 10 THEN m + 3 ELSE m - 9)
  BY SMT DEF DateOf, Month
<1>3. d.year = (IF m < 10 THEN y ELSE y + 1)
  BY <1>1, SMT DEF DateOf, Month
<1>4. d.day = v - MonthStart(m) + 1
  BY SMT DEF DateOf, DayOfMonth, MonthStart
<1>5. d = [year |-> d.year, month |-> d.month, day |-> d.day]
  BY SMT DEF DateOf
<1> HIDE DEF m, d
<1>6. m < 11 => DaysInMonth(d.year, d.month) = MonthStart(m + 1) - MonthStart(m)
  BY <1>1, <1>2, MonthStarts, SMT DEF DaysInMonth
<1>7. m = 11 => DaysInMonth(d.year, d.month) = IF IsLeap(y + 1) THEN 29 ELSE 28
  BY <1>2, <1>3, SMT DEF DaysInMonth
<1> QED
  BY <1>2, <1>3, <1>4, <1>5, <1>6, <1>7, SMT DEF m, d

\* Within a year the next day's date is the next date.
LEMMA NextWithinYear ==
  ASSUME NEW v \in Nat, v <= 364, NEW y \in Nat, v = 364 => IsLeap(y + 1)
  PROVE  DateOf(y, v + 1) = NextDate(DateOf(y, v))
<1> DEFINE w == v + 1
           m == MonthIndex(v)
           n == MonthIndex(w)
           d == DateOf(y, v)
           e == DateOf(y, w)
<1>1. m \in Nat /\ m <= 11 /\ MonthStart(m) <= v /\ v < MonthStart(m + 1)
  BY MonthOfDay, SMT
<1>2. n = IF v + 1 < MonthStart(m + 1) THEN m ELSE m + 1
  BY SMT DEF MonthIndex, MonthStart
<1>3. /\ d.day = v - MonthStart(m) + 1
      /\ d.month = (IF m < 10 THEN m + 3 ELSE m - 9)
      /\ d.year = (IF m < 10 THEN y ELSE y + 1)
      /\ d = [year |-> d.year, month |-> d.month, day |-> d.day]
      /\ m < 11 => DaysInMonth(d.year, d.month) = MonthStart(m + 1) - MonthStart(m)
      /\ m = 11 => DaysInMonth(d.year, d.month) = IF IsLeap(y + 1) THEN 29 ELSE 28
  BY DayWithinMonth, SMT
<1>4. w \in Nat /\ w = v + 1 /\ w <= 365
  BY SMT
<1> HIDE DEF w
<1>5. /\ e.day = w - MonthStart(n) + 1
      /\ e.month = (IF n < 10 THEN n + 3 ELSE n - 9)
      /\ e.year = (IF n < 10 THEN y ELSE y + 1)
      /\ e = [year |-> e.year, month |-> e.month, day |-> e.day]
  BY <1>4, DayWithinMonth, SMT
<1> HIDE DEF m, n, d, e
<1>6. CASE v + 1 < MonthStart(m + 1)
  <2>1. n = m
    BY <1>2, <1>6, SMT
  <2>2. e = [year |-> d.year, month |-> d.month, day |-> d.day + 1]
    BY <1>1, <1>3, <1>4, <1>5, <2>1, MonthStarts, SMT
  <2>3. d.day < DaysInMonth(d.year, d.month)
    BY <1>1, <1>3, <1>6, MonthStarts, SMT
  <2> QED
    BY <1>3, <2>2, <2>3, SMT DEF NextDate, d, e, w
<1>7. CASE ~(v + 1 < MonthStart(m + 1))
  <2>1. m < 11 /\ n = m + 1 /\ v + 1 = MonthStart(m + 1)
    BY <1>1, <1>2, <1>7, MonthStarts, SMT
  <2>2. d.day = DaysInMonth(d.year, d.month)
    BY <1>1, <1>3, <2>1, MonthStarts, SMT
  <2>3. e.day = 1
    BY <1>1, <1>4, <1>5, <2>1, MonthStarts, SMT
  <2>4. ~(d.day < DaysInMonth(d.year, d.month))
    BY <1>1, <1>3, <2>1, <2>2, MonthStarts, SMT
  <2>5. CASE m = 9
    BY <1>3, <1>4, <1>5, <2>1, <2>3, <2>4, <2>5, SMT DEF NextDate, d, e, w
  <2>6. CASE m # 9
    <3>1. d.month < 12 /\ e.month = d.month + 1 /\ e.year = d.year
      BY <1>1, <1>3, <1>4, <1>5, <2>1, <2>6, SMT
    <3>2. NextDate(d) = [year |-> d.year, month |-> d.month + 1, day |-> 1]
      BY <2>4, <3>1, SMT DEF NextDate
    <3>3. NextDate(d) = e
      BY <1>4, <1>5, <2>3, <3>1, <3>2, SMT
    <3> QED
      BY <3>3 DEF d, e, w
  <2> QED
    BY <2>5, <2>6, SMT
<1> QED
  BY <1>6, <1>7, SMT

\* And after its last day, 28 or 29 February, comes 1 March of the next.
LEMMA NextAcrossYears ==
  ASSUME NEW v \in Nat, NEW y \in Nat,
         v = IF IsLeap(y + 1) THEN 365 ELSE 364
  PROVE  DateOf(y + 1, 0) = NextDate(DateOf(y, v))
<1> DEFINE d == DateOf(y, v)
<1>1. MonthIndex(v) = 11 /\ MonthIndex(0) = 0
  BY SMT DEF MonthIndex
<1>2. d = [year |-> y + 1, month |-> 2, day |-> v - 336]
  BY <1>1, SMT DEF DateOf, Month, DayOfMonth
<1>3. DateOf(y + 1, 0) = [year |-> y + 1, month |-> 3, day |-> 1]
  BY <1>1, SMT DEF DateOf, Month, DayOfMonth
<1>4. v - 336 = DaysInMonth(y + 1, 2)
  BY SMT DEF DaysInMonth
<1> HIDE DEF d
<1>5. /\ d.year = y + 1 /\ d.month = 2 /\ d.day = DaysInMonth(d.year, d.month)
      /\ ~(d.day < DaysInMonth(d.year, d.month))
  BY <1>2, <1>4, SMT
<1>6. NextDate(d) = [year |-> y + 1, month |-> 3, day |-> 1]
  BY <1>5, SMT DEF NextDate
<1> QED
  BY <1>3, <1>6 DEF d

\* It is a date of the calendar.
LEMMA DateExists ==
  ASSUME NEW v \in Nat, v <= 365, NEW y \in Nat, v = 365 => IsLeap(y + 1),
         y >= 1969, y = 1969 => v >= 306
  PROVE  IsDate(DateOf(y, v))
<1> DEFINE m == MonthIndex(v)
           d == DateOf(y, v)
<1>1. m \in Nat /\ m <= 11 /\ MonthStart(m) <= v /\ v < MonthStart(m + 1)
  BY MonthOfDay, SMT
<1>2. /\ d.day = v - MonthStart(m) + 1
      /\ d.month = (IF m < 10 THEN m + 3 ELSE m - 9)
      /\ d.year = (IF m < 10 THEN y ELSE y + 1)
      /\ m < 11 => DaysInMonth(d.year, d.month) = MonthStart(m + 1) - MonthStart(m)
      /\ m = 11 => DaysInMonth(d.year, d.month) = IF IsLeap(y + 1) THEN 29 ELSE 28
  BY DayWithinMonth, SMT
<1> HIDE DEF m, d
<1>3. d.month \in 1..12
  BY <1>1, <1>2, SMT
<1>4. d.day \in Nat /\ d.day >= 1 /\ d.day <= DaysInMonth(d.year, d.month)
      /\ DaysInMonth(d.year, d.month) \in Nat
  BY <1>1, <1>2, MonthStarts, SMT
<1>5. d.year >= 1970
  BY <1>1, <1>2, MonthStarts, SMT
<1> QED
  BY <1>3, <1>4, <1>5, SMT DEF IsDate, d

-----------------------------------------------------------------------------
(* From one day to the next.                                               *)

\* A year that begins in March has a 366th day when the February it ends with
\* has a 29th.
LEMMA LongYearIsLeap ==
  ASSUME NEW era \in Nat, NEW b, NEW q, NEW u, NEW v, IsPlace(b, q, u, v)
  PROVE  IsLeap(400 * era + 100 * b + 4 * q + u + 1) <=> LongYear(b, q, u)
<1> DEFINE y == 400 * era + 100 * b + 4 * q + u
<1>1. (y + 1) % 4 = 0 <=> u = 3
  BY SMT DEF IsPlace
<1>2. u = 3 => ((y + 1) % 100 = 0 <=> q = 24)
  BY SMT DEF IsPlace
<1>3. u = 3 /\ q = 24 => ((y + 1) % 400 = 0 <=> b = 3)
  BY SMT DEF IsPlace
<1>4. (y + 1) % 400 = 0 => (y + 1) % 100 = 0
  BY SMT DEF IsPlace
<1> HIDE DEF y
<1>5. IsLeap(y + 1) <=> LongYear(b, q, u)
  BY <1>1, <1>2, <1>3, <1>4, SMT DEF IsLeap, LongYear
<1> QED
  BY <1>5, SMT DEF y

\* The place of the next day: the next of the year, or the first of the next
\* year, which may begin a span, a century or an era.
Follows(era, b, q, u, v, era2, b2, q2, u2, v2) ==
  /\ IsPlace(b2, q2, u2, v2) /\ era2 \in Nat
  /\ 146097 * era2 + DayOfEra(b2, q2, u2, v2)
       = 146097 * era + DayOfEra(b, q, u, v) + 1
  /\ \/ /\ era2 = era /\ b2 = b /\ q2 = q /\ u2 = u /\ v2 = v + 1
        /\ v <= 364 /\ (v = 364 => LongYear(b, q, u))
     \/ /\ 400 * era2 + 100 * b2 + 4 * q2 + u2 = 400 * era + 100 * b + 4 * q + u + 1
        /\ v2 = 0 /\ v = IF LongYear(b, q, u) THEN 365 ELSE 364

LEMMA NextPlace ==
  ASSUME NEW era \in Nat, NEW b, NEW q, NEW u, NEW v, IsPlace(b, q, u, v)
  PROVE  \/ Follows(era, b, q, u, v, era, b, q, u, v + 1)
         \/ Follows(era, b, q, u, v, era, b, q, u + 1, 0)
         \/ Follows(era, b, q, u, v, era, b, q + 1, 0, 0)
         \/ Follows(era, b, q, u, v, era, b + 1, 0, 0, 0)
         \/ Follows(era, b, q, u, v, era + 1, 0, 0, 0, 0)
<1> USE DEF IsPlace, LongYear, DayOfEra, Follows
<1>1. CASE v < 364 \/ (v = 364 /\ LongYear(b, q, u))
  <2>1. Follows(era, b, q, u, v, era, b, q, u, v + 1)
    BY <1>1, SMT
  <2> QED
    BY <2>1
<1>2. CASE (v = 364 /\ ~LongYear(b, q, u)) \/ v = 365
  <2>1. v = IF LongYear(b, q, u) THEN 365 ELSE 364
    BY <1>2, SMT
  <2>2. CASE u < 3
    <3>0. v = 364 /\ ~LongYear(b, q, u)
      BY <2>1, <2>2, SMT
    <3>1. Follows(era, b, q, u, v, era, b, q, u + 1, 0)
      BY <2>2, <3>0, SMT
    <3> QED
      BY <3>1
  <2>3. CASE u = 3 /\ q < 24
    <3>1. Follows(era, b, q, u, v, era, b, q + 1, 0, 0)
      BY <2>1, <2>3, SMT
    <3> QED
      BY <3>1
  <2>4. CASE u = 3 /\ q = 24 /\ b < 3
    <3>1. Follows(era, b, q, u, v, era, b + 1, 0, 0, 0)
      BY <2>1, <2>4, SMT
    <3> QED
      BY <3>1
  <2>5. CASE u = 3 /\ q = 24 /\ b = 3
    <3>1. Follows(era, b, q, u, v, era + 1, 0, 0, 0, 0)
      BY <2>1, <2>5, SMT
    <3> QED
      BY <3>1
  <2> QED
    BY <2>2, <2>3, <2>4, <2>5, SMT
<1>3. v < 364 \/ v = 364 \/ v = 365
  BY SMT
<1> HIDE DEF Follows, DayOfEra, IsPlace, LongYear
<1> QED
  BY <1>1, <1>2, <1>3, SMT

\* The days since 1970 are in no year before 1969's, and in it not before the
\* January it ends with.
LEMMA Since1970 ==
  ASSUME NEW days \in Nat, NEW era \in Nat, NEW b, NEW q, NEW u, NEW v,
         IsPlace(b, q, u, v), days + 719468 = 146097 * era + DayOfEra(b, q, u, v)
  PROVE  LET y == 400 * era + 100 * b + 4 * q + u
         IN y \in Nat /\ y >= 1969 /\ (y = 1969 => v >= 306)
<1>1. CASE era <= 3
  BY <1>1, SMT DEF IsPlace, LongYear, DayOfEra
<1>2. CASE era = 4
  BY <1>2, SMT DEF IsPlace, LongYear, DayOfEra
<1>3. CASE era >= 5
  BY <1>3, SMT DEF IsPlace
<1> QED
  BY <1>1, <1>2, <1>3, SMT

LEMMA DayHasPlace ==
  ASSUME NEW days \in Nat
  PROVE  \E era \in Nat : \E b, q, u, v :
           /\ IsPlace(b, q, u, v)
           /\ days + 719468 = 146097 * era + DayOfEra(b, q, u, v)
<1> DEFINE z == days + 719468
           era == z \div 146097
           doe == z - 146097 * era
<1>1. z \in Nat
  BY SMT
<1> HIDE DEF z
<1>2. era \in Nat /\ doe \in Nat /\ z = 146097 * era + doe /\ doe < 146097
  BY <1>1, Eras, SMT DEF Parts
<1> HIDE DEF era, doe
<1>3. PICK b, q, u, v : IsPlace(b, q, u, v) /\ doe = DayOfEra(b, q, u, v)
  BY <1>2, PlaceExists, SMT
<1>4. days + 719468 = 146097 * era + DayOfEra(b, q, u, v)
  BY <1>2, <1>3, SMT DEF z
<1> QED
  BY <1>2, <1>3, <1>4, SMT

\* civil_from_days gives a date of the calendar for every day since 1970, and
\* the next date for the next day.
LEMMA DatesFollow ==
  ASSUME NEW days \in Nat
  PROVE  /\ IsDate(CivilFromDays(days))
         /\ CivilFromDays(days + 1) = NextDate(CivilFromDays(days))
<1>1. PICK era \in Nat : \E b, q, u, v :
        /\ IsPlace(b, q, u, v)
        /\ days + 719468 = 146097 * era + DayOfEra(b, q, u, v)
  BY DayHasPlace, SMT
<1>2. PICK b, q, u, v :
        /\ IsPlace(b, q, u, v)
        /\ days + 719468 = 146097 * era + DayOfEra(b, q, u, v)
  BY <1>1, SMT
<1> DEFINE y == 400 * era + 100 * b + 4 * q + u
<1>3. CivilFromDays(days) = DateOf(y, v)
  BY <1>2, CivilOfPlace, SMT
<1>4. y \in Nat /\ y >= 1969 /\ (y = 1969 => v >= 306)
  BY <1>2, Since1970, SMT
<1>5. IsLeap(y + 1) <=> LongYear(b, q, u)
  BY <1>2, LongYearIsLeap, SMT
<1>6. v \in Nat /\ v <= 365 /\ (v = 365 => LongYear(b, q, u))
  BY <1>2, SMT DEF IsPlace
<1>7. ASSUME NEW era2, NEW b2, NEW q2, NEW u2, NEW v2,
             Follows(era, b, q, u, v, era2, b2, q2, u2, v2)
      PROVE  CivilFromDays(days + 1) = NextDate(DateOf(y, v))
  <2> DEFINE next == days + 1
             y2 == 400 * era2 + 100 * b2 + 4 * q2 + u2
  <2>1. IsPlace(b2, q2, u2, v2) /\ era2 \in Nat
    BY <1>7, SMT DEF Follows
  <2>2. next \in Nat /\ next + 719468 = 146097 * era2 + DayOfEra(b2, q2, u2, v2)
    <3>1. DayOfEra(b, q, u, v) \in Nat /\ DayOfEra(b2, q2, u2, v2) \in Nat
      BY <1>2, <2>1, PlaceInEra, SMT
    <3> QED
      BY <1>2, <1>7, <3>1, SMT DEF Follows
  <2> HIDE DEF next
  <2>3. CivilFromDays(next) = DateOf(y2, v2)
    BY <2>1, <2>2, CivilOfPlace, SMT
  <2> HIDE DEF y, y2
  <2>4. CASE y2 = y /\ v2 = v + 1 /\ v <= 364 /\ (v = 364 => LongYear(b, q, u))
    BY <1>4, <1>5, <1>6, <2>3, <2>4, NextWithinYear, SMT DEF next
  <2>5. CASE y2 = y + 1 /\ v2 = 0 /\ v = IF LongYear(b, q, u) THEN 365 ELSE 364
    BY <1>4, <1>5, <1>6, <2>3, <2>5, NextAcrossYears, SMT DEF next
  <2> QED
    BY <1>7, <2>4, <2>5, SMT DEF Follows, y, y2
<1>8. IsDate(DateOf(y, v))
  <2> HIDE DEF y
  <2> QED
    BY <1>4, <1>5, <1>6, DateExists, SMT
<1>9. CivilFromDays(days + 1) = NextDate(DateOf(y, v))
  BY <1>2, <1>7, NextPlace, SMT
<1> QED
  BY <1>3, <1>8, <1>9, SMT

\* Day 0 is 1 January 1970.
LEMMA DayZero ==
  CivilFromDays(0) = [year |-> 1970, month |-> 1, day |-> 1]
<1>1. IsPlace(3, 17, 1, 306) /\ 0 + 719468 = 146097 * 4 + DayOfEra(3, 17, 1, 306)
  BY SMT DEF IsPlace, DayOfEra
<1>2. CivilFromDays(0) = DateOf(400 * 4 + 100 * 3 + 4 * 17 + 1, 306)
  BY <1>1, CivilOfPlace, SMT
<1>3. MonthIndex(306) = 10
  BY SMT DEF MonthIndex
<1> QED
  BY <1>2, <1>3, SMT DEF DateOf, Month, DayOfMonth

-----------------------------------------------------------------------------
(* The certificate of any second since 1970.                               *)

\* The three fields of the time of day add up to it.
AddsUp(h, m, r, s) ==
  h \in 0..23 /\ m \in 0..59 /\ r \in 0..59 /\ 3600 * h + 60 * m + r = s

LEMMA TimeOfDay ==
  ASSUME NEW s \in Nat, s < 86400
  PROVE  AddsUp(s \div 3600, (s % 3600) \div 60, s % 60, s)
<1> DEFINE h == s \div 3600
           t == s % 3600
           m == t \div 60
           r == s % 60
<1>1. h \in Nat /\ h <= 23 /\ t \in Nat /\ t < 3600 /\ s = 3600 * h + t
  BY SMT
<1>2. m \in Nat /\ m <= 59 /\ r \in Nat /\ r <= 59
  BY SMT
<1>3. t = 60 * m + r
  BY SMT
<1> HIDE DEF h, t, m, r
<1>4. AddsUp(h, m, r, s)
  BY <1>1, <1>2, <1>3, SMT DEF AddsUp
<1> QED
  BY <1>4 DEF h, t, m, r

\* What an input of kind "time" is.
TimeInput ==
  input.kind = "time" =>
    input.day \in Nat /\ input.second \in Nat /\ input.second < 86400

LEMMA TimeInputInit == Init => TimeInput
BY SMT DEF Init, None, TimeInput

LEMMA TimeInputNext == TimeInput /\ [Next]_input => TimeInput'
<1> SUFFICES ASSUME TimeInput, [Next]_input PROVE TimeInput'
  OBVIOUS
<1>1. CASE SealSet
  BY <1>1, SMT DEF SealSet, TimeInput
<1>2. CASE MakeCertificate
  <2>1. PICK d \in Days, s \in Seconds :
          input' = [kind |-> "time", day |-> d, second |-> s]
    BY <1>2 DEF MakeCertificate
  <2>2. d \in Nat /\ s \in Nat /\ s < 86400
    BY ConversionsAssumption, SMT
  <2>3. input'.day = d /\ input'.second = s
    BY <2>1, SMT
  <2> QED
    BY <2>2, <2>3, SMT DEF TimeInput
<1>3. CASE MoveProxies
  BY <1>3, SMT DEF MoveProxies, TimeInput
<1>4. CASE RegisterEnclave
  BY <1>4, SMT DEF RegisterEnclave, TimeInput
<1>5. CASE UNCHANGED input
  BY <1>5, SMT DEF TimeInput
<1> QED
  BY <1>1, <1>2, <1>3, <1>4, <1>5, SMT DEF Next

\* The fields are the date of the day and the time in it, which add up.
LEMMA TimeInputExact == TimeInput => CertificateTimeExact
<1> SUFFICES ASSUME TimeInput, input.kind = "time" PROVE CertificateTimeExact
  BY SMT DEF CertificateTimeExact
<1> DEFINE f == CertificateFields(input.day, input.second)
<1>1. input.day \in Nat /\ input.second \in Nat /\ input.second < 86400
  BY SMT DEF TimeInput
<1>2. /\ f.date = CivilFromDays(input.day) /\ f.hour = input.second \div 3600
      /\ f.minute = (input.second % 3600) \div 60 /\ f.second = input.second % 60
  BY SMT DEF CertificateFields
<1> HIDE DEF f
<1>3. IsDate(f.date) /\ CivilFromDays(input.day + 1) = NextDate(f.date)
  BY <1>1, <1>2, DatesFollow, SMT
<1>4. input.day = 0 => f.date = [year |-> 1970, month |-> 1, day |-> 1]
  BY <1>2, DayZero, SMT
<1>5. /\ f.hour \in 0..23 /\ f.minute \in 0..59 /\ f.second \in 0..59
      /\ 3600 * f.hour + 60 * f.minute + f.second = input.second
  <2>1. AddsUp(f.hour, f.minute, f.second, input.second)
    BY <1>1, <1>2, TimeOfDay, SMT
  <2> QED
    BY <2>1 DEF AddsUp
<1> QED
  BY <1>3, <1>4, <1>5, SMT DEF CertificateTimeExact, f

\* The date in a session certificate is the Gregorian one and its time of day
\* adds up, for every second since 1970: format_certificate_time prints what
\* the key servers print.
THEOREM CertificateTimesExact == Spec => []CertificateTimeExact
<1>1. Init => TimeInput
  BY TimeInputInit
<1>2. TimeInput /\ [Next]_input => TimeInput'
  BY TimeInputNext
<1>3. TimeInput => CertificateTimeExact
  BY TimeInputExact
<1> QED
  BY <1>1, <1>2, <1>3, PTL DEF Spec

-----------------------------------------------------------------------------
(* The proxy manifest.                                                     *)

\* The natural numbers are well-founded.
Less == {p \in Nat \X Nat : p[1] < p[2]}

LEMMA LessWF == IsWellFoundedOn(Less, Nat)
BY NatLessThanWellFounded DEF OpToRel, Less

\* Every destination of a manifest has a first mention.
LEMMA FirstMention ==
  ASSUME NEW dests \in Seq(STRING \X Nat), NEW d \in ToSet(dests)
  PROVE  \E i \in FirstMentions(dests) : dests[i] = d
<1> DEFINE T == {i \in Nat : i \in DOMAIN dests /\ dests[i] = d}
<1>1. T \subseteq Nat /\ T # {}
  <2>1. PICK i \in DOMAIN dests : dests[i] = d
    BY DEF ToSet
  <2>2. i \in Nat
    BY <2>1, SMT
  <2> QED
    BY <2>1, <2>2
<1>2. PICK i \in T : \A j \in T : ~(<<j, i>> \in Less)
  BY <1>1, LessWF, WFMin
<1>3. ASSUME NEW j \in 1..(i - 1), dests[j] = d PROVE FALSE
  <2>1. j \in Nat /\ j < i /\ j \in DOMAIN dests
    BY <1>2, SMT
  <2>2. <<j, i>> \in Less
    BY <1>2, <2>1, SMT DEF Less
  <2> QED
    BY <1>2, <1>3, <2>1, <2>2
<1>4. i \in DOMAIN dests /\ dests[i] = d
  BY <1>2
<1> QED
  BY <1>3, <1>4 DEF FirstMentions

\* Two first mentions are of two destinations, at most 252 of them come before,
\* and no two have as many before them: the count is strictly monotonic.
LEMMA BeforeBounded ==
  ASSUME NEW dests \in Seq(STRING \X Nat), Len(dests) <= 252,
         NEW i \in FirstMentions(dests)
  PROVE  Before(dests, i) \in Nat /\ Before(dests, i) <= 251
<1> DEFINE S == {j \in FirstMentions(dests) : j < i}
<1>1. i \in Nat /\ 1 <= i /\ i <= 252
  BY SMT DEF FirstMentions
<1>2. S \subseteq 1..(i - 1)
  BY <1>1, SMT DEF FirstMentions
<1>3. IsFiniteSet(1..(i - 1)) /\ Cardinality(1..(i - 1)) = i - 1
  <2> DEFINE n == i - 1
  <2>1. n \in Nat /\ n \in Int /\ 1 \in Int
    BY <1>1, SMT
  <2>2. IsFiniteSet(1..n) /\ Cardinality(1..n) = IF 1 > n THEN 0 ELSE n - 1 + 1
    BY <2>1, FS_Interval
  <2> QED
    BY <2>1, <2>2, SMT
<1>4. IsFiniteSet(S) /\ Cardinality(S) <= i - 1
  <2> HIDE DEF S
  <2>1. IsFiniteSet(S) /\ Cardinality(S) <= Cardinality(1..(i - 1))
    BY <1>2, <1>3, FS_Subset
  <2> QED
    BY <1>3, <2>1
<1>5. Cardinality(S) \in Nat
  BY <1>4, FS_CardinalityType
<1> QED
  BY <1>1, <1>4, <1>5, SMT DEF Before

LEMMA BeforeGrows ==
  ASSUME NEW dests \in Seq(STRING \X Nat),
         NEW i \in FirstMentions(dests), NEW k \in FirstMentions(dests), i < k
  PROVE  Before(dests, i) < Before(dests, k)
<1> DEFINE S == {j \in FirstMentions(dests) : j < i}
           T == {j \in FirstMentions(dests) : j < k}
<1>1. i \in Nat /\ k \in Nat /\ FirstMentions(dests) \subseteq 1..Len(dests)
      /\ Len(dests) \in Nat
  BY SMT DEF FirstMentions
<1>2. S \subseteq T /\ i \in T /\ i \notin S
  BY <1>1, SMT
<1>3. IsFiniteSet(T)
  <2>1. IsFiniteSet(1..Len(dests))
    BY <1>1, FS_Interval, SMT
  <2>2. T \subseteq 1..Len(dests)
    BY <1>1
  <2> QED
    BY <2>1, <2>2, FS_Subset
<1>4. /\ IsFiniteSet(S) /\ Cardinality(S) <= Cardinality(T)
      /\ Cardinality(S) = Cardinality(T) => S = T
  BY <1>2, <1>3, FS_Subset
<1>5. Cardinality(S) \in Nat /\ Cardinality(T) \in Nat
  BY <1>3, <1>4, FS_CardinalityType
<1>6. Cardinality(S) # Cardinality(T)
  BY <1>2, <1>4
<1>7. Cardinality(S) < Cardinality(T)
  BY <1>4, <1>5, <1>6, SMT
<1> QED
  BY <1>7 DEF Before

\* The lines of a manifest: no two have a port or an address in common, and
\* every address is one.
LEMMA LinesDiffer ==
  ASSUME NEW dests \in Seq(STRING \X Nat), Len(dests) <= 252, NEW base \in Nat,
         NEW l \in AssignProxyDestinations(dests, base),
         NEW m \in AssignProxyDestinations(dests, base)
  PROVE  /\ l.vport = m.vport => l = m
         /\ l.lo = m.lo => l = m
         /\ l.lo <= 255
<1>1. PICK i \in FirstMentions(dests) : l = Line(dests, base, i)
  BY DEF AssignProxyDestinations
<1>2. PICK k \in FirstMentions(dests) : m = Line(dests, base, k)
  BY DEF AssignProxyDestinations
<1>3. i \in Nat /\ k \in Nat
  BY SMT DEF FirstMentions
<1>4. /\ Before(dests, i) \in Nat /\ Before(dests, i) <= 251
      /\ Before(dests, k) \in Nat
  BY BeforeBounded, SMT
<1>5. Before(dests, i) = Before(dests, k) => i = k
  <2>1. CASE i < k
    BY <1>4, <2>1, BeforeGrows, SMT
  <2>2. CASE k < i
    BY <1>4, <2>2, BeforeGrows, SMT
  <2> QED
    BY <1>3, <2>1, <2>2, SMT
<1>6. l.vport = base + Before(dests, i) /\ m.vport = base + Before(dests, k)
      /\ l.lo = 4 + Before(dests, i) /\ m.lo = 4 + Before(dests, k)
  BY <1>1, <1>2, SMT DEF Line
<1>7. (l.vport = m.vport \/ l.lo = m.lo) => i = k
  BY <1>4, <1>5, <1>6, SMT
<1> QED
  BY <1>1, <1>2, <1>4, <1>6, <1>7, SMT

\* Once the host is set up for a manifest, whatever it was set up for before,
\* the unit of a line's port forwards to the line's destination.
LEMMA UnitOfLine ==
  ASSUME NEW manifest, NEW units, NEW l \in manifest,
         \A m \in manifest : l.vport = m.vport => l = m
  PROVE  /\ l.vport \in DOMAIN SetupProxy(units, manifest)
         /\ SetupProxy(units, manifest)[l.vport] = l.dest
<1>1. l.vport \in Vports(manifest)
  BY DEF Vports
<1>2. DestAt(manifest, l.vport) = l.dest
  BY DEF DestAt
<1> QED
  BY <1>1, <1>2 DEF SetupProxy

LEMMA ReachedThroughLine ==
  ASSUME NEW manifest, NEW units, NEW l \in manifest, NEW port,
         \A m \in manifest : l.lo = m.lo => l = m,
         l.vport \in DOMAIN units /\ units[l.vport] = l.dest
  PROVE  Reached(manifest, units, l.lo, port)
           = IF l.dest[2] = port THEN {l.dest} ELSE {}
<1> DEFINE e == [lo |-> l.lo, port |-> l.dest[2], vport |-> l.vport]
           Taken == {x \in Listeners(manifest) :
                       x.lo = l.lo /\ x.port = port /\ x.vport \in DOMAIN units}
<1>1. e \in Listeners(manifest) /\ e.lo = l.lo /\ e.port = l.dest[2] /\ e.vport = l.vport
  BY DEF Listeners
<1>2. ASSUME NEW x \in Listeners(manifest), x.lo = l.lo PROVE x = e
  <2>1. PICK m \in manifest :
          x = [lo |-> m.lo, port |-> m.dest[2], vport |-> m.vport]
    BY DEF Listeners
  <2>2. m = l
    BY <1>2, <2>1
  <2> QED
    BY <2>1, <2>2
<1>3. Taken = IF l.dest[2] = port THEN {e} ELSE {}
  BY <1>1, <1>2
<1>4. {units[x.vport] : x \in Taken} = IF l.dest[2] = port THEN {l.dest} ELSE {}
  <2> HIDE DEF Taken, e
  <2> QED
    BY <1>1, <1>3
<1> QED
  BY <1>4 DEF Reached

LEMMA PairsEqual ==
  ASSUME NEW S, NEW T, NEW p \in S \X T, NEW q \in S \X T,
         p[1] = q[1], p[2] = q[2]
  PROVE  p = q
BY SMT

\* Where connections to d end: there, and nowhere else.
OnlyReaches(manifest, units, d) ==
  LET ends == {Reached(manifest, units, lo, d[2]) :
                 lo \in AddressesOf(manifest, d[1])}
  IN {d} \in ends /\ ends \subseteq {{d}, {}}

\* Whatever units a host had, after it is set up for a manifest each of its
\* destinations is reached, and nothing else, under the host's addresses.
LEMMA DestinationsReached ==
  ASSUME NEW dests \in Seq(STRING \X Nat), Len(dests) <= 252, NEW base \in Nat,
         NEW units, NEW d \in ToSet(dests)
  PROVE  LET manifest == AssignProxyDestinations(dests, base)
         IN OnlyReaches(manifest, SetupProxy(units, manifest), d)
<1> DEFINE manifest == AssignProxyDestinations(dests, base)
           now == SetupProxy(units, manifest)
           ends == {Reached(manifest, now, lo, d[2]) :
                      lo \in AddressesOf(manifest, d[1])}
<1>1. ASSUME NEW l \in manifest
      PROVE  /\ Reached(manifest, now, l.lo, d[2])
                  = IF l.dest[2] = d[2] THEN {l.dest} ELSE {}
             /\ l.lo <= 255
             /\ l.dest \in STRING \X Nat
  <2>1. \A m \in manifest : (l.vport = m.vport => l = m) /\ (l.lo = m.lo => l = m)
    BY LinesDiffer
  <2>2. l.lo <= 255
    BY LinesDiffer
  <2>3. l.vport \in DOMAIN now /\ now[l.vport] = l.dest
    <3> HIDE DEF manifest
    <3> QED
      BY <2>1, UnitOfLine
  <2>4. Reached(manifest, now, l.lo, d[2])
          = IF l.dest[2] = d[2] THEN {l.dest} ELSE {}
    <3> HIDE DEF manifest, now
    <3> QED
      BY <2>1, <2>3, ReachedThroughLine
  <2>5. l.dest \in STRING \X Nat
    <3>1. PICK i \in FirstMentions(dests) : l = Line(dests, base, i)
      BY DEF AssignProxyDestinations
    <3>2. l.dest = dests[i]
      BY <3>1 DEF Line
    <3> QED
      BY <3>2 DEF FirstMentions
  <2> QED
    BY <2>2, <2>4, <2>5
<1>2. d \in STRING \X Nat
  BY DEF ToSet
<1>3. \E l \in manifest : l.dest = d
  <2>1. PICK i \in FirstMentions(dests) : dests[i] = d
    BY FirstMention
  <2>2. Line(dests, base, i) \in manifest
    BY DEF AssignProxyDestinations
  <2>3. Line(dests, base, i).dest = d
    BY <2>1 DEF Line
  <2> QED
    BY <2>2, <2>3
<1> HIDE DEF manifest, now
<1>4. {d} \in ends
  <2>1. PICK l \in manifest : l.dest = d
    BY <1>3
  <2>2. l.lo \in AddressesOf(manifest, d[1])
    BY <1>1, <2>1 DEF AddressesOf
  <2>3. Reached(manifest, now, l.lo, d[2]) = {d}
    BY <1>1, <2>1
  <2> QED
    BY <2>2, <2>3
<1>5. ASSUME NEW lo \in AddressesOf(manifest, d[1])
      PROVE  Reached(manifest, now, lo, d[2]) \in {{d}, {}}
  <2>1. PICK l \in manifest : l.dest[1] = d[1] /\ l.lo = lo
    BY DEF AddressesOf
  <2>2. CASE l.dest[2] = d[2]
    <3>1. l.dest = d
      BY <1>1, <1>2, <2>1, <2>2, PairsEqual
    <3> QED
      BY <1>1, <2>1, <2>2, <3>1
  <2>3. CASE l.dest[2] # d[2]
    BY <1>1, <2>1, <2>3
  <2> QED
    BY <2>2, <2>3
<1>6. OnlyReaches(manifest, now, d)
  BY <1>4, <1>5 DEF OnlyReaches
<1> QED
  BY <1>6 DEF manifest, now

\* What an input of kind "proxy" is.
ProxyInput ==
  input.kind = "proxy" => input.dests \in Manifests /\ input.base \in Nat

LEMMA ProxyInputInit == Init => ProxyInput
BY DEF Init, None, ProxyInput

LEMMA ProxyInputNext == ProxyInput /\ [Next]_input => ProxyInput'
<1> SUFFICES ASSUME ProxyInput, [Next]_input PROVE ProxyInput'
  OBVIOUS
<1>1. CASE SealSet
  BY <1>1 DEF SealSet, ProxyInput
<1>2. CASE MakeCertificate
  BY <1>2 DEF MakeCertificate, ProxyInput
<1>3. CASE MoveProxies
  <2>1. PICK earlier \in Manifests, now \in Manifests, b \in Bases, c \in Bases :
          input' = [kind |-> "proxy", earlier |-> AssignProxyDestinations(earlier, b),
                    dests |-> now, base |-> c]
    BY <1>3 DEF MoveProxies
  <2>2. c \in Nat
    BY ConversionsAssumption
  <2> QED
    BY <2>1, <2>2 DEF ProxyInput
<1>4. CASE RegisterEnclave
  BY <1>4 DEF RegisterEnclave, ProxyInput
<1>5. CASE UNCHANGED input
  BY <1>5 DEF ProxyInput
<1> QED
  BY <1>1, <1>2, <1>3, <1>4, <1>5 DEF Next

LEMMA ProxyInputReached == ProxyInput => DialReachesHost
<1> SUFFICES ASSUME ProxyInput, input.kind = "proxy" PROVE DialReachesHost
  BY DEF DialReachesHost
<1>1. /\ input.dests \in Seq(STRING \X Nat) /\ Len(input.dests) <= 252
      /\ input.base \in Nat
  BY ConversionsAssumption, SMT DEF ProxyInput
<1> DEFINE manifest == AssignProxyDestinations(input.dests, input.base)
           units == SetupProxy(NoUnits, input.earlier)
<1>2. \A d \in ToSet(input.dests) :
        OnlyReaches(manifest, SetupProxy(units, manifest), d)
  <2> HIDE DEF units
  <2> QED
    BY <1>1, DestinationsReached
<1> QED
  BY <1>2 DEF DialReachesHost, OnlyReaches

\* Whatever manifest of at most 252 destinations the image is built for and
\* whatever the host was set up for before, the enclave's connections end at
\* the destination they are meant for.
THEOREM DialsReachHosts == Spec => []DialReachesHost
<1>1. Init => ProxyInput
  BY ProxyInputInit
<1>2. ProxyInput /\ [Next]_input => ProxyInput'
  BY ProxyInputNext
<1>3. ProxyInput => DialReachesHost
  BY ProxyInputReached
<1> QED
  BY <1>1, <1>2, <1>3, PTL DEF Spec

-----------------------------------------------------------------------------
(* Recursive functions on the first natural numbers.                       *)

\* A set that holds 0 and with each number the next holds them all.
LEMMA Induction ==
  ASSUME NEW P, 0 \in P, \A n \in Nat : n \in P => n + 1 \in P
  PROVE  Nat \subseteq P
<1> DEFINE T == Nat \ P
<1> SUFFICES ASSUME T # {} PROVE FALSE
  OBVIOUS
<1>1. PICK m \in T : \A j \in T : ~(<<j, m>> \in Less)
  <2>1. T \subseteq Nat
    OBVIOUS
  <2> HIDE DEF T
  <2> QED
    BY <2>1, LessWF, WFMin
<1>2. m \in Nat /\ m # 0 /\ m \notin P
  BY <1>1
<1>3. m - 1 \in Nat /\ (m - 1) + 1 = m /\ m - 1 < m
  BY <1>2, SMT
<1>4. m - 1 \in P
  <2>1. <<m - 1, m>> \in Less
    BY <1>2, <1>3, SMT DEF Less
  <2> QED
    BY <1>1, <1>3, <2>1
<1> QED
  BY <1>2, <1>3, <1>4

\* f goes from init by the step, a function of the number and the last value.
Runs(f, len, init, step) ==
  f[0] = init /\ \A n \in 1..len : f[n] = step[<<n, f[n - 1]>>]

StaysIn(T, len, step) == \A n \in 1..len : \A x \in T : step[<<n, x>>] \in T

LEMMA Recursion ==
  ASSUME NEW T, NEW init \in T, NEW len \in Nat, NEW step, StaysIn(T, len, step)
  PROVE  \E f \in [0..len -> T] : Runs(f, len, init, step)
<1> DEFINE P == {k \in Nat : k <= len => \E f \in [0..k -> T] : Runs(f, k, init, step)}
<1>1. 0 \in P
  <2> DEFINE f == [n \in 0..0 |-> init]
  <2>1. f \in [0..0 -> T] /\ f[0] = init /\ 1..0 = {}
    BY SMT
  <2> HIDE DEF f
  <2> QED
    BY <2>1 DEF Runs
<1>2. ASSUME NEW k \in Nat, k \in P PROVE k + 1 \in P
  <2> SUFFICES ASSUME k + 1 <= len
               PROVE  \E f \in [0..(k + 1) -> T] : Runs(f, k + 1, init, step)
    OBVIOUS
  <2>1. k <= len /\ k + 1 \in 1..len /\ k \in 0..k /\ (k + 1) - 1 = k
    BY SMT
  <2>2. PICK f \in [0..k -> T] : Runs(f, k, init, step)
    BY <1>2, <2>1
  <2> DEFINE g == [n \in 0..(k + 1) |-> IF n = k + 1 THEN step[<<n, f[k]>>] ELSE f[n]]
  <2>3. f[k] \in T /\ step[<<k + 1, f[k]>>] \in T
    BY <2>1 DEF StaysIn
  <2>4. \A n \in 0..k : g[n] = f[n] /\ g[n] \in T
    <3>1. \A n \in 0..k : n \in 0..(k + 1) /\ n # k + 1
      BY SMT
    <3> QED
      BY <3>1
  <2>5. g[k + 1] = step[<<k + 1, f[k]>>]
    <3>1. k + 1 \in 0..(k + 1)
      BY SMT
    <3> QED
      BY <3>1
  <2>6. g \in [0..(k + 1) -> T]
    <3>1. \A n \in 0..(k + 1) : n = k + 1 \/ n \in 0..k
      BY SMT
    <3> QED
      BY <2>3, <2>4, <3>1
  <2> HIDE DEF g
  <2>7. ASSUME NEW n \in 1..(k + 1) PROVE g[n] = step[<<n, g[n - 1]>>]
    <3>1. CASE n = k + 1
      BY <2>1, <2>4, <2>5, <3>1
    <3>2. CASE n # k + 1
      <4>1. n \in 1..k /\ n \in 0..k /\ n - 1 \in 0..k
        BY <3>2, SMT
      <4> QED
        BY <2>2, <2>4, <4>1 DEF Runs
    <3> QED
      BY <3>1, <3>2
  <2>8. 0 \in 0..k
    BY SMT
  <2> QED
    BY <2>2, <2>4, <2>6, <2>7, <2>8 DEF Runs
<1> HIDE DEF P
<1>3. Nat \subseteq P
  BY <1>1, <1>2, Induction
<1>4. len <= len
  BY SMT
<1> QED
  BY <1>3, <1>4 DEF P

\* Two of them that start alike and go on alike are the same.
GoAlike(f, g, len) ==
  f[0] = g[0] /\ \A n \in 1..len : f[n - 1] = g[n - 1] => f[n] = g[n]

LEMMA RunsUnique ==
  ASSUME NEW f, NEW g, NEW len \in Nat, GoAlike(f, g, len)
  PROVE  \A n \in 0..len : f[n] = g[n]
<1> DEFINE P == {k \in Nat : k <= len => f[k] = g[k]}
<1>1. 0 \in P
  BY DEF GoAlike
<1>2. ASSUME NEW k \in Nat, k \in P PROVE k + 1 \in P
  <2>1. k + 1 <= len => k <= len /\ k + 1 \in 1..len /\ (k + 1) - 1 = k
    BY SMT
  <2> QED
    BY <1>2, <2>1 DEF GoAlike
<1> HIDE DEF P
<1>3. Nat \subseteq P
  BY <1>1, <1>2, Induction
<1>4. \A n \in 0..len : n \in Nat /\ n <= len
  BY SMT
<1> QED
  BY <1>3, <1>4 DEF P

-----------------------------------------------------------------------------
(* The items of a set.                                                     *)

Lines == Seq(Seq(STRING))

LEMMA AppendTyped ==
  ASSUME NEW S, NEW s \in Seq(S), NEW e \in S
  PROVE  /\ Append(s, e) \in Seq(S) /\ Len(Append(s, e)) = Len(s) + 1
         /\ <<e>> \in Seq(S) /\ Len(<<e>>) = 1 /\ <<>> \in Seq(S)
         /\ Append(s, e)[Len(s) + 1] = e
         /\ \A i \in 1..Len(s) : Append(s, e)[i] = s[i]
BY SMT

LEMMA CutTyped ==
  ASSUME NEW pieces \in Lines, Len(pieces) >= 1, NEW c \in STRING
  PROVE  Cut(pieces, c) \in Lines /\ Len(Cut(pieces, c)) >= 1
<1>1. CASE c = "LF"
  <2>1. <<>> \in Seq(STRING)
    BY SMT
  <2>2. Cut(pieces, c) = Append(pieces, <<>>)
    BY <1>1 DEF Cut
  <2>3. Append(pieces, <<>>) \in Lines /\ Len(Append(pieces, <<>>)) = Len(pieces) + 1
    BY <2>1, AppendTyped DEF Lines
  <2>4. Len(pieces) \in Nat
    BY SMT DEF Lines
  <2> QED
    BY <2>2, <2>3, <2>4, SMT
<1>2. CASE c # "LF"
  <2> DEFINE n == Len(pieces)
             last == Append(pieces[n], c)
  <2>1. n \in DOMAIN pieces /\ pieces[n] \in Seq(STRING)
    BY SMT DEF Lines
  <2>2. last \in Seq(STRING)
    <3> HIDE DEF n
    <3> QED
      BY <2>1, AppendTyped
  <2>3. Cut(pieces, c) = [pieces EXCEPT ![n] = last]
    BY <1>2 DEF Cut
  <2> HIDE DEF n, last
  <2> QED
    BY <2>1, <2>2, <2>3, SMT DEF Lines
<1> QED
  BY <1>1, <1>2

IsPieces(text, f) ==
  f = [n \in 0..Len(text) |-> IF n = 0 THEN <<<<>>>> ELSE Cut(f[n - 1], text[n])]

LEMMA PiecesTyped ==
  ASSUME NEW text \in Seq(STRING)
  PROVE  Pieces(text) \in Lines /\ Len(Pieces(text)) >= 1
<1> DEFINE T == {p \in Lines : Len(p) >= 1}
           len == Len(text)
           step == [p \in (1..len) \X T |-> Cut(p[2], text[p[1]])]
<1>1. len \in Nat /\ \A n \in 1..len : text[n] \in STRING
  BY SMT
<1>2. <<<<>>>> \in T
  <2>1. <<>> \in Seq(STRING) /\ <<>> \in Seq(Seq(STRING))
    BY SMT
  <2>2. <<<<>>>> \in Seq(Seq(STRING)) /\ Len(<<<<>>>>) = 1
    BY <2>1, AppendTyped
  <2> QED
    BY <2>2, SMT DEF Lines
<1>3. \A n \in 1..len, x \in T : step[<<n, x>>] = Cut(x, text[n])
  OBVIOUS
<1>4. \A n \in 1..len, x \in T : Cut(x, text[n]) \in T
  BY <1>1, CutTyped
<1>5. StaysIn(T, len, step)
  BY <1>3, <1>4 DEF StaysIn
<1> HIDE DEF step, T, len
<1>6. PICK f \in [0..len -> T] : Runs(f, len, <<<<>>>>, step)
  BY <1>1, <1>2, <1>5, Recursion
<1>7. \A n \in 1..len : n # 0 /\ n \in 0..len /\ n - 1 \in 0..len
  BY <1>1, SMT
<1>8. \A n \in 1..len : f[n] = Cut(f[n - 1], text[n])
  BY <1>3, <1>6, <1>7 DEF Runs
<1>9. 0 \in 0..len /\ len \in 0..len /\ \A n \in 0..len : n = 0 \/ n \in 1..len
  BY <1>1, SMT
<1>10. IsPieces(text, f)
  <2>1. f = [n \in 0..len |-> f[n]]
    BY <1>6
  <2> QED
    BY <1>6, <1>7, <1>8, <1>9, <2>1 DEF Runs, IsPieces, len
<1> DEFINE g == CHOOSE h : IsPieces(text, h)
<1>11. IsPieces(text, g)
  BY <1>10
<1>12. Pieces(text) = g[len]
  BY DEF Pieces, IsPieces, len
<1> HIDE DEF g
<1>13. g[0] = <<<<>>>> /\ \A n \in 1..len : g[n] = Cut(g[n - 1], text[n])
  BY <1>7, <1>9, <1>11 DEF IsPieces, len
<1>14. \A n \in 0..len : f[n] = g[n]
  <2>1. GoAlike(f, g, len)
    BY <1>6, <1>8, <1>13 DEF Runs, GoAlike
  <2> QED
    BY <1>1, <2>1, RunsUnique
<1> QED
  BY <1>6, <1>9, <1>12, <1>14 DEF T

\* filter() of lines that all stay.
IsFilled(lines, f) ==
  f = [n \in 0..Len(lines) |->
         IF n = 0 THEN <<>>
         ELSE IF IsBlank(lines[n]) THEN f[n - 1]
         ELSE Append(f[n - 1], lines[n])]

LEMMA FilledAll ==
  ASSUME NEW lines \in Lines, \A i \in DOMAIN lines : ~IsBlank(lines[i])
  PROVE  Filled(lines) = lines
<1> DEFINE len == Len(lines)
           f == [n \in 0..len |-> SubSeq(lines, 1, n)]
<1>1. /\ len \in Nat /\ DOMAIN lines = 1..len
      /\ \A n \in 1..len : n # 0 /\ n \in 0..len /\ n - 1 \in 0..len
      /\ 0 \in 0..len /\ len \in 0..len /\ \A n \in 0..len : n = 0 \/ n \in 1..len
  <2>1. len \in Nat /\ DOMAIN lines = 1..len
    BY SMT DEF Lines
  <2> HIDE DEF len
  <2> QED
    BY <2>1, SMT
<1>2. f[0] = <<>>
  BY <1>1, SMT DEF Lines
<1>3. \A n \in 1..len : f[n] = Append(f[n - 1], lines[n])
  <2>1. ASSUME NEW n \in 1..len
        PROVE  SubSeq(lines, 1, n) = Append(SubSeq(lines, 1, n - 1), lines[n])
    BY SMT DEF Lines
  <2> QED
    BY <1>1, <2>1
<1>4. f[len] = lines
  <2>1. SubSeq(lines, 1, len) = lines
    BY SMT DEF Lines
  <2> QED
    BY <1>1, <2>1
<1>5. f = [n \in 0..len |-> f[n]]
  OBVIOUS
<1> HIDE DEF f
<1>6. IsFilled(lines, f)
  BY <1>1, <1>2, <1>3, <1>5 DEF IsFilled, len
<1> DEFINE g == CHOOSE h : IsFilled(lines, h)
<1>7. IsFilled(lines, g)
  BY <1>6
<1>8. Filled(lines) = g[len]
  BY DEF Filled, IsFilled, len
<1> HIDE DEF g
<1>9. g[0] = <<>> /\ \A n \in 1..len : g[n] = Append(g[n - 1], lines[n])
  BY <1>1, <1>7 DEF IsFilled, len
<1>10. GoAlike(f, g, len)
  BY <1>2, <1>3, <1>9 DEF GoAlike
<1> HIDE DEF len
<1>11. f[len] = g[len]
  BY <1>1, <1>10, RunsUnique
<1> QED
  BY <1>4, <1>8, <1>11

LEMMA DropCRTyped ==
  ASSUME NEW line \in Seq(STRING)
  PROVE  DropCR(line) \in Seq(STRING)
<1>1. CASE line # <<>>
  <2>1. SubSeq(line, 1, Len(line) - 1) \in Seq(STRING)
    BY <1>1, SMT
  <2> QED
    BY <2>1 DEF DropCR, Front
<1>2. CASE line = <<>>
  BY <1>2 DEF DropCR
<1> QED
  BY <1>1, <1>2

LEMMA FunctionSeq ==
  ASSUME NEW S, NEW m \in Nat, NEW s \in [1..m -> S]
  PROVE  s \in Seq(S) /\ Len(s) = m
BY SMT

\* A sequence but for its last element, and with it.
LEMMA SplitLast ==
  ASSUME NEW S, NEW s \in Seq(S), Len(s) # 0
  PROVE  /\ Front(s) \in Seq(S)
         /\ Front(s) = [i \in 1..(Len(s) - 1) |-> s[i]]
         /\ Append(Front(s), s[Len(s)]) = s
<1>1. SubSeq(s, 1, Len(s)) = Append(SubSeq(s, 1, Len(s) - 1), s[Len(s)])
  <2>1. ASSUME NEW n \in 1..Len(s)
        PROVE  SubSeq(s, 1, n) = Append(SubSeq(s, 1, n - 1), s[n])
    BY SMT
  <2>2. Len(s) \in 1..Len(s)
    BY SMT
  <2> QED
    BY <2>1, <2>2
<1>2. SubSeq(s, 1, Len(s)) = s
  BY SMT
<1>3. SubSeq(s, 1, Len(s) - 1) = [i \in 1..(Len(s) - 1) |-> s[i]]
  BY SMT
<1>4. SubSeq(s, 1, Len(s) - 1) \in Seq(S)
  BY SMT
<1> QED
  BY <1>1, <1>2, <1>3, <1>4 DEF Front

\* Both programs see the same lines.
LEMMA SameLines ==
  ASSUME NEW text \in Seq(STRING)
  PROVE  SplitJsonl(text) \in Lines /\ RustLines(text) = SplitJsonl(text)
<1> DEFINE pieces == Pieces(text)
           m == Len(pieces)
           lines == [i \in DOMAIN pieces |->
                       IF i < m THEN DropCR(pieces[i]) ELSE pieces[i]]
           ended == [i \in 1..(m - 1) |-> DropCR(pieces[i])]
<1>1. pieces \in Lines /\ m >= 1
  BY PiecesTyped
<1>2. /\ SplitJsonl(text) = IF Last(lines) = <<>> THEN Front(lines) ELSE lines
      /\ RustLines(text) = IF Last(pieces) = <<>> THEN ended ELSE Append(ended, Last(pieces))
  BY DEF SplitJsonl, RustLines
<1> HIDE DEF pieces
<1>3. /\ m \in Nat \ {0} /\ DOMAIN pieces = 1..m
      /\ \A i \in 1..m : pieces[i] \in Seq(STRING)
      /\ m \in 1..m /\ ~(m < m)
      /\ \A i \in 1..(m - 1) : i \in 1..m /\ i < m
  <2>1. m \in Nat /\ DOMAIN pieces = 1..m /\ \A i \in 1..m : pieces[i] \in Seq(STRING)
    BY <1>1, SMT DEF Lines
  <2> HIDE DEF m
  <2> QED
    BY <1>1, <2>1, SMT
<1> HIDE DEF m
<1>4. \A i \in 1..m : lines[i] \in Seq(STRING)
  BY <1>3, DropCRTyped
<1>5. lines = [i \in 1..m |-> lines[i]]
  BY <1>3
<1>6. lines[m] = pieces[m] /\ ended = [i \in 1..(m - 1) |-> lines[i]]
  BY <1>3
<1> HIDE DEF lines, ended
<1>7. /\ Front(lines) \in Lines /\ lines \in Lines /\ Len(lines) = m
      /\ Front(lines) = ended /\ Append(ended, lines[m]) = lines
  <2> DEFINE S == Seq(STRING)
  <2>1. lines \in [1..m -> S]
    BY <1>4, <1>5
  <2> HIDE DEF S
  <2>2. lines \in Seq(S) /\ Len(lines) = m
    BY <1>3, <2>1, FunctionSeq
  <2>3. /\ Front(lines) \in Seq(S)
        /\ Front(lines) = [i \in 1..(m - 1) |-> lines[i]]
        /\ Append(Front(lines), lines[m]) = lines
    BY <1>3, <2>2, SplitLast
  <2> QED
    BY <1>6, <2>2, <2>3 DEF Lines, S
<1>8. Last(lines) = lines[m] /\ Last(pieces) = pieces[m]
  BY <1>7 DEF Last, m
<1> QED
  BY <1>2, <1>6, <1>7, <1>8

\* What the enclave makes of a set that was sealed.
LEMMA SealedIsScored ==
  ASSUME NEW text \in Seq(STRING), NEW min,
         ValidateHeldoutSet(text, min) # Refused
  PROVE  \/ ParseItems(text) = ValidateHeldoutSet(text, min)
         \/ /\ ParseItems(text) = Refused
            /\ "odd" \in ToSet(ValidateHeldoutSet(text, min))
<1> DEFINE lines == SplitJsonl(text)
           sealed == ValidateHeldoutSet(text, min)
           items == [i \in DOMAIN lines |-> Items(lines[i])]
<1>1. lines \in Lines /\ RustLines(text) = lines
  BY SameLines
<1>2. /\ \A i \in DOMAIN lines : Len(Items(lines[i])) = 1
      /\ sealed = [i \in DOMAIN lines |-> Items(lines[i])[1]]
  <2>1. sealed = IF /\ Len(lines) >= min
                    /\ \A i \in DOMAIN items : Len(items[i]) = 1
                    /\ IsInjective(items)
                 THEN [i \in DOMAIN items |-> items[i][1]]
                 ELSE Refused
    BY DEF ValidateHeldoutSet
  <2>2. DOMAIN items = DOMAIN lines /\ \A i \in DOMAIN lines : items[i] = Items(lines[i])
    OBVIOUS
  <2> HIDE DEF items
  <2> QED
    BY <2>1, <2>2
<1>3. \A i \in DOMAIN lines : ~IsBlank(lines[i])
  <2>1. Len(<<>>) = 0
    BY SMT
  <2> QED
    BY <1>2, <2>1 DEF IsBlank
<1> HIDE DEF lines, sealed
<1>4. Filled(RustLines(text)) = lines
  BY <1>1, <1>3, FilledAll
<1>5. ParseItems(text) =
        IF \A i \in DOMAIN lines : Len(Items(lines[i])) = 1 /\ Items(lines[i]) # <<"odd">>
        THEN sealed ELSE Refused
  BY <1>2, <1>4 DEF ParseItems
<1>6. CASE \A i \in DOMAIN lines : Items(lines[i]) # <<"odd">>
  BY <1>2, <1>5, <1>6 DEF sealed
<1>7. CASE \E i \in DOMAIN lines : Items(lines[i]) = <<"odd">>
  <2>1. PICK i \in DOMAIN lines : Items(lines[i]) = <<"odd">>
    BY <1>7
  <2>2. sealed[i] = "odd" /\ i \in DOMAIN sealed
    BY <1>2, <2>1
  <2>3. "odd" \in ToSet(sealed)
    BY <2>2 DEF ToSet
  <2> QED
    BY <1>5, <2>1, <2>3 DEF sealed
<1> QED
  BY <1>6, <1>7

\* What an input of kind "set" is.
SetInput == input.kind = "set" => input.text \in Texts

LEMMA SetInputInit == Init => SetInput
BY DEF Init, None, SetInput

LEMMA SetInputNext == SetInput /\ [Next]_input => SetInput'
<1> SUFFICES ASSUME SetInput, [Next]_input PROVE SetInput'
  OBVIOUS
<1>1. CASE SealSet
  <2>1. PICK t \in Texts : input' = [kind |-> "set", text |-> t]
    BY <1>1 DEF SealSet
  <2> QED
    BY <2>1 DEF SetInput
<1>2. CASE MakeCertificate
  BY <1>2 DEF MakeCertificate, SetInput
<1>3. CASE MoveProxies
  BY <1>3 DEF MoveProxies, SetInput
<1>4. CASE RegisterEnclave
  BY <1>4 DEF RegisterEnclave, SetInput
<1>5. CASE UNCHANGED input
  BY <1>5 DEF SetInput
<1> QED
  BY <1>1, <1>2, <1>3, <1>4, <1>5 DEF Next

\* Of any text the sealing script accepts, whatever its line ends, blanks and
\* items, the enclave reads the same items in the same order or scores nothing.
THEOREM SetSizesScored == Spec => []SetSizeIsScored
<1>1. Init => SetInput
  BY SetInputInit
<1>2. SetInput /\ [Next]_input => SetInput'
  BY SetInputNext
<1>3. SetInput => SetSizeIsScored
  BY ConversionsAssumption, SealedIsScored DEF SetInput, SetSizeIsScored
<1> QED
  BY <1>1, <1>2, <1>3, PTL DEF Spec

-----------------------------------------------------------------------------
(* The objects in an output.                                               *)

\* What has been read, by its components.
State(at, start, found) == [at |-> at, start |-> start, found |-> found]

AtOutside(d) == [depth |-> d, inString |-> FALSE, escaped |-> FALSE]
AtString(d) == [depth |-> d, inString |-> TRUE, escaped |-> FALSE]
AtEscaped(d) == [depth |-> d, inString |-> TRUE, escaped |-> TRUE]

Outside(d, start, found) == State(AtOutside(d), start, found)
InString(d, start, found) == State(AtString(d), start, found)
Escaped(d, start, found) == State(AtEscaped(d), start, found)

ScanState == [depth : Int, inString : BOOLEAN, escaped : BOOLEAN]

LEMMA ScanFields ==
  ASSUME NEW s \in ScanState
  PROVE  s = [depth |-> s.depth, inString |-> s.inString, escaped |-> s.escaped]
BY DEF ScanState

LEMMA ScanFlags ==
  ASSUME NEW s \in ScanState, NEW e \in BOOLEAN, NEW f \in BOOLEAN
  PROVE  LET t == [s EXCEPT !.escaped = e, !.inString = f]
         IN t \in ScanState /\ t.depth = s.depth /\ t.escaped = e /\ t.inString = f
BY DEF ScanState

LEMMA ScanQuote ==
  ASSUME NEW s \in ScanState
  PROVE  LET t == [s EXCEPT !.inString = TRUE]
         IN t \in ScanState /\ t.depth = s.depth /\ t.escaped = s.escaped /\ t.inString = TRUE
BY DEF ScanState

LEMMA ScanDepth ==
  ASSUME NEW s \in ScanState, NEW d \in Int
  PROVE  LET t == [s EXCEPT !.depth = d]
         IN /\ t \in ScanState /\ t.depth = d /\ t.escaped = s.escaped
            /\ t.inString = s.inString
BY DEF ScanState

LEMMA ScanInString ==
  ASSUME NEW s \in ScanState, s.inString, NEW c
  PROVE  Scan(s, c) = [depth |-> s.depth, inString |-> s.escaped \/ c # "Q",
                       escaped |-> ~s.escaped /\ c = "B"]
<1> DEFINE e == ~s.escaped /\ c = "B"
           f == s.escaped \/ c # "Q"
           t == [s EXCEPT !.escaped = e, !.inString = f]
<1>1. Scan(s, c) = t
  BY DEF Scan
<1>2. e \in BOOLEAN /\ f \in BOOLEAN
  BY DEF ScanState
<1> HIDE DEF e, f
<1>3. t \in ScanState /\ t.depth = s.depth /\ t.escaped = e /\ t.inString = f
  BY <1>2, ScanFlags
<1> HIDE DEF t
<1>4. t = [depth |-> t.depth, inString |-> t.inString, escaped |-> t.escaped]
  BY <1>3, ScanFields
<1>5. t = [depth |-> s.depth, inString |-> f, escaped |-> e]
  BY <1>3, <1>4
<1> QED
  BY <1>1, <1>5 DEF e, f

LEMMA ScanOutside ==
  ASSUME NEW d \in Int, NEW c
  PROVE  LET s == [depth |-> d, inString |-> FALSE, escaped |-> FALSE]
         IN /\ c = "Q" =>
                 Scan(s, c) = [depth |-> d, inString |-> TRUE, escaped |-> FALSE]
            /\ c = "OPEN" =>
                 Scan(s, c) = [depth |-> d + 1, inString |-> FALSE, escaped |-> FALSE]
            /\ c = "CLOSE" =>
                 Scan(s, c) = [depth |-> d - 1, inString |-> FALSE, escaped |-> FALSE]
            /\ c \notin {"Q", "OPEN", "CLOSE"} => Scan(s, c) = s
<1> DEFINE s == [depth |-> d, inString |-> FALSE, escaped |-> FALSE]
<1>1. s \in ScanState /\ s.depth = d /\ s.inString = FALSE /\ s.escaped = FALSE
  BY DEF ScanState
<1> HIDE DEF s
<1>2. Scan(s, c) = CASE c = "Q" -> [s EXCEPT !.inString = TRUE]
                     [] c = "OPEN" -> [s EXCEPT !.depth = @ + 1]
                     [] c = "CLOSE" -> [s EXCEPT !.depth = @ - 1]
                     [] OTHER -> s
  BY <1>1 DEF Scan
<1>3. ASSUME c = "Q"
      PROVE  Scan(s, c) = [depth |-> d, inString |-> TRUE, escaped |-> FALSE]
  <2> DEFINE t == [s EXCEPT !.inString = TRUE]
  <2>1. Scan(s, c) = t
    BY <1>2, <1>3
  <2>2. t \in ScanState /\ t.depth = d /\ t.inString = TRUE /\ t.escaped = FALSE
    BY <1>1, ScanQuote
  <2> HIDE DEF t
  <2>3. t = [depth |-> t.depth, inString |-> t.inString, escaped |-> t.escaped]
    BY <2>2, ScanFields
  <2> QED
    BY <2>1, <2>2, <2>3
<1>4. ASSUME NEW x \in Int, Scan(s, c) = [s EXCEPT !.depth = x]
      PROVE  Scan(s, c) = [depth |-> x, inString |-> FALSE, escaped |-> FALSE]
  <2> DEFINE t == [s EXCEPT !.depth = x]
  <2>1. t \in ScanState /\ t.depth = x /\ t.inString = FALSE /\ t.escaped = FALSE
    BY <1>1, ScanDepth
  <2>2. Scan(s, c) = t
    BY <1>4
  <2> HIDE DEF t
  <2>3. t = [depth |-> t.depth, inString |-> t.inString, escaped |-> t.escaped]
    BY <2>1, ScanFields
  <2> QED
    BY <2>1, <2>2, <2>3
<1>5. d + 1 \in Int /\ d - 1 \in Int
  BY SMT
<1>6. c = "OPEN" => Scan(s, c) = [s EXCEPT !.depth = d + 1]
  BY <1>1, <1>2
<1>7. c = "CLOSE" => Scan(s, c) = [s EXCEPT !.depth = d - 1]
  BY <1>1, <1>2
<1>8. c \notin {"Q", "OPEN", "CLOSE"} => Scan(s, c) = s
  BY <1>2
<1> QED
  BY <1>3, <1>4, <1>5, <1>6, <1>7, <1>8 DEF s

LEMMA AtTyped ==
  ASSUME NEW d \in Int
  PROVE  /\ AtOutside(d) \in ScanState /\ AtOutside(d).depth = d
         /\ AtString(d) \in ScanState /\ AtString(d).depth = d
         /\ AtEscaped(d) \in ScanState /\ AtEscaped(d).depth = d
BY DEF AtOutside, AtString, AtEscaped, ScanState

\* The character at i takes the scan from at to t.
Scans(at, text, i, t) ==
  at \in ScanState /\ t \in ScanState /\ Scan(at, text[i]) = t

LEMMA ReadAt ==
  ASSUME NEW at, NEW start, NEW found, NEW text, NEW i, NEW t, Scans(at, text, i, t),
         NEW first, first = IF t.depth > at.depth /\ at.depth = 0 THEN i ELSE start,
         NEW next, next = Read(State(at, start, found), text, i)
  PROVE  /\ t.depth < at.depth /\ t.depth = 0 /\ first > 0 =>
              next = State(t, 0, Append(found, SubSeq(text, first, i)))
         /\ ~(t.depth < at.depth /\ t.depth = 0 /\ first > 0) =>
              next = State(t, first, found)
<1> DEFINE s == State(at, start, found)
<1>1. s.at = at /\ s.start = start /\ s.found = found
  BY DEF State
<1> HIDE DEF s
<1>2. Read(s, text, i) =
        IF t.depth < at.depth /\ t.depth = 0 /\ first > 0
        THEN [at |-> t, start |-> 0, found |-> Append(found, SubSeq(text, first, i))]
        ELSE [at |-> t, start |-> first, found |-> found]
  BY <1>1 DEF Read, Scans
<1> QED
  BY <1>2 DEF s, State

Level(at, t) == t.depth = at.depth
Begins(at, t) == at.depth = 0 /\ t.depth = 1
Deepens(at, t) == at.depth # 0 /\ t.depth = at.depth + 1
Rises(at, t) == t.depth # 0 /\ t.depth = at.depth - 1
Ends(at, t) == t.depth = 0 /\ at.depth = 1

LEMMA ReadLevel ==
  ASSUME NEW at, NEW start, NEW found, NEW text, NEW i,
         NEW t, Scans(at, text, i, t), Level(at, t)
  PROVE  Read(State(at, start, found), text, i) = State(t, start, found)
<1>1. ~(t.depth > at.depth) /\ ~(t.depth < at.depth)
  BY SMT DEF ScanState, Scans, Level
<1>2. start = IF t.depth > at.depth /\ at.depth = 0 THEN i ELSE start
  BY <1>1
<1> QED
  BY <1>1, <1>2, ReadAt

LEMMA ReadBegin ==
  ASSUME NEW at, NEW start, NEW found, NEW text, NEW i,
         NEW t, Scans(at, text, i, t), Begins(at, t)
  PROVE  Read(State(at, start, found), text, i) = State(t, i, found)
<1>1. t.depth > at.depth /\ ~(t.depth < at.depth)
  BY SMT DEF ScanState, Scans, Begins
<1>2. i = IF t.depth > at.depth /\ at.depth = 0 THEN i ELSE start
  BY <1>1 DEF Begins
<1> QED
  BY <1>1, <1>2, ReadAt

LEMMA ReadDeepen ==
  ASSUME NEW at, NEW start, NEW found, NEW text, NEW i,
         NEW t, Scans(at, text, i, t), Deepens(at, t)
  PROVE  Read(State(at, start, found), text, i) = State(t, start, found)
<1>1. t.depth > at.depth /\ ~(t.depth < at.depth)
  BY SMT DEF ScanState, Scans, Deepens
<1>2. start = IF t.depth > at.depth /\ at.depth = 0 THEN i ELSE start
  BY DEF Deepens
<1> QED
  BY <1>1, <1>2, ReadAt

LEMMA ReadRise ==
  ASSUME NEW at, NEW start, NEW found, NEW text, NEW i,
         NEW t, Scans(at, text, i, t), Rises(at, t)
  PROVE  Read(State(at, start, found), text, i) = State(t, start, found)
<1>1. ~(t.depth > at.depth)
  BY SMT DEF ScanState, Scans, Rises
<1>2. start = IF t.depth > at.depth /\ at.depth = 0 THEN i ELSE start
  BY <1>1
<1>3. t.depth # 0
  BY DEF Rises
<1> QED
  BY <1>2, <1>3, ReadAt

LEMMA ReadEnd ==
  ASSUME NEW at, NEW start, NEW found, NEW text, NEW i, start > 0,
         NEW t, Scans(at, text, i, t), Ends(at, t)
  PROVE  Read(State(at, start, found), text, i) =
           State(t, 0, Append(found, SubSeq(text, start, i)))
<1>1. ~(t.depth > at.depth) /\ t.depth < at.depth /\ t.depth = 0
  BY SMT DEF ScanState, Scans, Ends
<1>2. start = IF t.depth > at.depth /\ at.depth = 0 THEN i ELSE start
  BY <1>1
<1> QED
  BY <1>1, <1>2, ReadAt

\* The characters outside strings.
Char(text, i, c) == text[i] = c
Plain(text, i) == text[i] \notin {"Q", "OPEN", "CLOSE"}

LEMMA ReadQuote ==
  ASSUME NEW d \in Int, NEW start, NEW found, NEW text, NEW i, Char(text, i, "Q")
  PROVE  Read(Outside(d, start, found), text, i) = InString(d, start, found)
<1>1. Scans(AtOutside(d), text, i, AtString(d))
  <2>1. Scan(AtOutside(d), text[i]) = AtString(d)
    BY ScanOutside DEF AtOutside, AtString, Char
  <2> QED
    BY <2>1, AtTyped DEF Scans
<1>2. Level(AtOutside(d), AtString(d))
  BY AtTyped DEF Level
<1> QED
  BY <1>1, <1>2, ReadLevel DEF Outside, InString

LEMMA ReadPlain ==
  ASSUME NEW d \in Int, NEW start, NEW found, NEW text, NEW i, Plain(text, i)
  PROVE  Read(Outside(d, start, found), text, i) = Outside(d, start, found)
<1>1. Scans(AtOutside(d), text, i, AtOutside(d))
  <2>1. Scan(AtOutside(d), text[i]) = AtOutside(d)
    BY ScanOutside DEF AtOutside, Plain
  <2> QED
    BY <2>1, AtTyped DEF Scans
<1>2. Level(AtOutside(d), AtOutside(d))
  BY DEF Level
<1> QED
  BY <1>1, <1>2, ReadLevel DEF Outside

LEMMA ReadOpening ==
  ASSUME NEW d \in Int, NEW start, NEW found, NEW text, NEW i, Char(text, i, "OPEN"),
         NEW e \in Int, e = d + 1
  PROVE  /\ d = 0 => Read(Outside(d, start, found), text, i) = Outside(e, i, found)
         /\ d # 0 => Read(Outside(d, start, found), text, i) = Outside(e, start, found)
<1>1. Scans(AtOutside(d), text, i, AtOutside(e))
  <2>1. Scan(AtOutside(d), text[i]) = AtOutside(e)
    BY ScanOutside DEF AtOutside, Char
  <2> QED
    BY <2>1, AtTyped DEF Scans
<1>2. AtOutside(d).depth = d /\ AtOutside(e).depth = e
  BY AtTyped
<1>3. ASSUME d = 0
      PROVE  Read(Outside(d, start, found), text, i) = Outside(e, i, found)
  <2>1. e = 1
    BY <1>3, SMT
  <2>2. Begins(AtOutside(d), AtOutside(e))
    BY <1>2, <1>3, <2>1 DEF Begins
  <2> QED
    BY <1>1, <2>2, ReadBegin DEF Outside
<1>4. ASSUME d # 0
      PROVE  Read(Outside(d, start, found), text, i) = Outside(e, start, found)
  <2>1. Deepens(AtOutside(d), AtOutside(e))
    BY <1>2, <1>4 DEF Deepens
  <2> QED
    BY <1>1, <2>1, ReadDeepen DEF Outside
<1> QED
  BY <1>3, <1>4

LEMMA ReadClosing ==
  ASSUME NEW d \in Int, NEW start, NEW found, NEW text, NEW i, Char(text, i, "CLOSE"),
         NEW e \in Int, e = d - 1
  PROVE  /\ e = 0 /\ start > 0 =>
              Read(Outside(d, start, found), text, i) =
                Outside(e, 0, Append(found, SubSeq(text, start, i)))
         /\ e # 0 => Read(Outside(d, start, found), text, i) = Outside(e, start, found)
<1>1. Scans(AtOutside(d), text, i, AtOutside(e))
  <2>1. Scan(AtOutside(d), text[i]) = AtOutside(e)
    BY ScanOutside DEF AtOutside, Char
  <2> QED
    BY <2>1, AtTyped DEF Scans
<1>2. AtOutside(d).depth = d /\ AtOutside(e).depth = e
  BY AtTyped
<1>3. ASSUME e = 0, start > 0
      PROVE  Read(Outside(d, start, found), text, i) =
               Outside(e, 0, Append(found, SubSeq(text, start, i)))
  <2>1. d = 1
    BY <1>3, SMT
  <2>2. Ends(AtOutside(d), AtOutside(e))
    BY <1>2, <1>3, <2>1 DEF Ends
  <2> QED
    BY <1>1, <1>3, <2>2, ReadEnd DEF Outside
<1>4. ASSUME e # 0
      PROVE  Read(Outside(d, start, found), text, i) = Outside(e, start, found)
  <2>1. Rises(AtOutside(d), AtOutside(e))
    BY <1>2, <1>4 DEF Rises
  <2> QED
    BY <1>1, <2>1, ReadRise DEF Outside
<1> QED
  BY <1>3, <1>4

\* The characters of strings.
LEMMA ReadInString ==
  ASSUME NEW d \in Int, NEW start, NEW found, NEW text, NEW i
  PROVE  /\ Char(text, i, "Q") =>
              Read(InString(d, start, found), text, i) = Outside(d, start, found)
         /\ Char(text, i, "B") =>
              Read(InString(d, start, found), text, i) = Escaped(d, start, found)
         /\ ~Char(text, i, "Q") /\ ~Char(text, i, "B") =>
              Read(InString(d, start, found), text, i) = InString(d, start, found)
<1> DEFINE r == AtString(d)
           q == text[i] = "Q"
           b == text[i] = "B"
<1>1. r \in ScanState /\ r.inString /\ r.depth = d /\ r.escaped = FALSE
  BY DEF AtString, ScanState
<1> HIDE DEF r
<1>2. Scan(r, text[i]) = [depth |-> d, inString |-> ~q, escaped |-> b]
  <2>1. Scan(r, text[i]) = [depth |-> r.depth, inString |-> r.escaped \/ text[i] # "Q",
                            escaped |-> ~r.escaped /\ text[i] = "B"]
    BY <1>1, ScanInString
  <2>2. /\ (r.escaped \/ text[i] # "Q") = ~q
        /\ (~r.escaped /\ text[i] = "B") = b
    BY <1>1
  <2> QED
    BY <1>1, <2>1, <2>2
<1>3. AtOutside(d) \in ScanState /\ AtOutside(d).depth = d
  BY AtTyped
<1>4. AtEscaped(d) \in ScanState /\ AtEscaped(d).depth = d
  BY AtTyped
<1>5. ASSUME Char(text, i, "Q")
      PROVE  Read(InString(d, start, found), text, i) = Outside(d, start, found)
  <2>1. ~q = FALSE /\ b = FALSE
    BY <1>5 DEF Char
  <2>2. Scans(r, text, i, AtOutside(d)) /\ Level(r, AtOutside(d))
    BY <1>1, <1>2, <1>3, <2>1 DEF Scans, Level, AtOutside
  <2> QED
    BY <2>2, ReadLevel DEF Outside, InString, r
<1>6. ASSUME Char(text, i, "B")
      PROVE  Read(InString(d, start, found), text, i) = Escaped(d, start, found)
  <2>1. ~q = TRUE /\ b = TRUE
    BY <1>6 DEF Char
  <2>2. Scans(r, text, i, AtEscaped(d)) /\ Level(r, AtEscaped(d))
    BY <1>1, <1>2, <1>4, <2>1 DEF Scans, Level, AtEscaped
  <2> QED
    BY <2>2, ReadLevel DEF Escaped, InString, r
<1>7. ASSUME ~Char(text, i, "Q"), ~Char(text, i, "B")
      PROVE  Read(InString(d, start, found), text, i) = InString(d, start, found)
  <2>1. ~q = TRUE /\ b = FALSE
    BY <1>7 DEF Char
  <2>2. Scan(r, text[i]) = r
    BY <1>2, <2>1 DEF r, AtString
  <2>3. Scans(r, text, i, r) /\ Level(r, r)
    BY <1>1, <2>2 DEF Scans, Level
  <2> QED
    BY <2>3, ReadLevel DEF InString, r
<1> QED
  BY <1>5, <1>6, <1>7

LEMMA ReadEscaped ==
  ASSUME NEW d \in Int, NEW start, NEW found, NEW text, NEW i
  PROVE  Read(Escaped(d, start, found), text, i) = InString(d, start, found)
<1> DEFINE r == AtEscaped(d)
<1>1. r \in ScanState /\ r.inString /\ r.depth = d /\ r.escaped = TRUE
  BY DEF AtEscaped, ScanState
<1> HIDE DEF r
<1>2. Scan(r, text[i]) = AtString(d)
  <2>1. Scan(r, text[i]) = [depth |-> r.depth, inString |-> r.escaped \/ text[i] # "Q",
                            escaped |-> ~r.escaped /\ text[i] = "B"]
    BY <1>1, ScanInString
  <2>2. /\ (r.escaped \/ text[i] # "Q") = TRUE
        /\ (~r.escaped /\ text[i] = "B") = FALSE
    BY <1>1
  <2> QED
    BY <1>1, <2>1, <2>2 DEF AtString
<1>3. Scans(r, text, i, AtString(d)) /\ Level(r, AtString(d))
  BY <1>1, <1>2, AtTyped DEF Scans, Level
<1> QED
  BY <1>3, ReadLevel DEF Escaped, InString, r

\* s stands in text after its first p characters.
Stands(text, p, s) ==
  \A i \in 1..Len(s) : p + i \in 1..Len(text) /\ text[p + i] = s[i]

Reads(text, g) ==
  g[0] = Begun /\ \A n \in 1..Len(text) : g[n] = Read(g[n - 1], text, n)

LEMMA StandsSplit ==
  ASSUME NEW text, NEW p \in Nat, NEW a \in Seq(STRING), NEW b \in Seq(STRING),
         Stands(text, p, a \o b)
  PROVE  /\ a \o b \in Seq(STRING) /\ Len(a \o b) = Len(a) + Len(b)
         /\ Stands(text, p, a) /\ Stands(text, p + Len(a), b)
<1>1. /\ Len(a) \in Nat /\ Len(b) \in Nat
      /\ a \o b \in Seq(STRING) /\ Len(a \o b) = Len(a) + Len(b)
      /\ \A i \in 1..Len(a) : (a \o b)[i] = a[i]
      /\ \A i \in 1..Len(b) : (a \o b)[Len(a) + i] = b[i]
  BY SMT
<1> DEFINE m == Len(a)
           n == Len(b)
<1>2. m \in Nat /\ n \in Nat
  BY <1>1
<1>3. /\ \A i \in 1..m : i \in 1..(m + n)
      /\ \A i \in 1..n : m + i \in 1..(m + n) /\ p + (m + i) = (p + m) + i
  <2> HIDE DEF m, n
  <2> QED
    BY <1>2, SMT
<1> QED
  BY <1>1, <1>3 DEF Stands

\* One character of what stands there.
LEMMA NextRead ==
  ASSUME NEW text, NEW g, Reads(text, g), NEW p \in Nat, NEW s, Len(s) \in Nat,
         Stands(text, p, s), NEW k \in Nat, k < Len(s)
  PROVE  /\ text[p + (k + 1)] = s[k + 1]
         /\ g[p + (k + 1)] = Read(g[p + k], text, p + (k + 1))
<1>1. k + 1 \in 1..Len(s) /\ (p + (k + 1)) - 1 = p + k
  BY SMT
<1>2. p + (k + 1) \in 1..Len(text) /\ text[p + (k + 1)] = s[k + 1]
  BY <1>1 DEF Stands
<1> QED
  BY <1>1, <1>2 DEF Reads

\* A string is passed over, whatever stands in it.
LEMMA ReadString ==
  ASSUME NEW text, NEW g, Reads(text, g), NEW p \in Nat, NEW s \in Seq(STRING),
         IsString(s), Stands(text, p, s),
         NEW d \in Int, NEW start \in Nat, NEW found, g[p] = Outside(d, start, found)
  PROVE  g[p + Len(s)] = Outside(d, start, found)
<1>1. /\ Len(s) \in Nat /\ Len(s) >= 2 /\ DOMAIN s = 1..Len(s)
  BY SMT DEF IsString
<1>2. PICK e \in SUBSET DOMAIN s : \A i \in DOMAIN s :
             /\ i \in e <=> i > 1 /\ s[i - 1] = "B" /\ i - 1 \notin e
             /\ i \in {1, Len(s)} <=> s[i] = "Q" /\ i \notin e
  BY DEF IsString
<1> DEFINE len == Len(s)
           Esc(k) == s[k] = "B" /\ k \notin e
           Inside(k) ==
             /\ Esc(k) => g[p + k] = Escaped(d, start, found)
             /\ ~Esc(k) => g[p + k] = InString(d, start, found)
           P == {k \in Nat : /\ k + 1 < len => Inside(k + 1)
                             /\ k + 1 = len => g[p + len] = Outside(d, start, found)}
<1>3. 0 \in P
  <2>1. /\ 0 < len /\ 1 < len /\ 0 + 1 = 1 /\ 1 \in 1..len /\ ~(1 > 1) /\ p + 0 = p
        /\ 1 # len /\ 0 \in Nat
    BY <1>1, SMT
  <2>2. text[p + (0 + 1)] = s[0 + 1] /\ g[p + (0 + 1)] = Read(g[p + 0], text, p + (0 + 1))
    BY <1>1, <2>1, NextRead
  <2>3. s[1] = "Q"
    BY <1>1, <1>2, <2>1
  <2>4. Char(text, p + 1, "Q")
    BY <2>1, <2>2, <2>3 DEF Char
  <2>5. g[p + 1] = InString(d, start, found)
    BY <2>1, <2>2, <2>4, ReadQuote
  <2>6. ~Esc(1)
    BY <2>3
  <2> QED
    BY <2>1, <2>5, <2>6
<1>4. ASSUME NEW k \in Nat, k \in P PROVE k + 1 \in P
  <2> DEFINE j == k + 1
             i == p + (j + 1)
  <2>1. ASSUME j + 1 <= len
        PROVE  /\ j \in Nat /\ j < len /\ j + 1 \in 1..len /\ j + 1 > 1
               /\ (j + 1) - 1 = j /\ j + 1 # 1
    <3>1. len \in Nat
      BY <1>1
    <3> HIDE DEF len
    <3> QED
      BY <2>1, <3>1, SMT
  <2>2. ASSUME j + 1 <= len PROVE Inside(j)
    BY <1>4, <2>1, <2>2
  <2> HIDE DEF P, j
  <2>3. ASSUME j + 1 <= len
        PROVE  text[i] = s[j + 1] /\ g[i] = Read(g[p + j], text, i)
    <3>1. Len(s) \in Nat /\ j \in Nat /\ j < Len(s)
      BY <1>1, <2>1, <2>3
    <3> HIDE DEF len
    <3> QED
      BY <3>1, NextRead
  <2>4. ASSUME j + 1 <= len PROVE j + 1 \in e <=> Esc(j)
    BY <1>1, <1>2, <2>1, <2>4
  <2>5. ASSUME j + 1 <= len
        PROVE  j + 1 = len <=> s[j + 1] = "Q" /\ j + 1 \notin e
    BY <1>1, <1>2, <2>1, <2>5
  <2>6. ASSUME j + 1 < len PROVE Inside(j + 1)
    <3>1. j + 1 <= len /\ j + 1 # len
      <4>1. len \in Nat /\ j \in Nat
        BY <1>1 DEF j
      <4> HIDE DEF len
      <4> QED
        BY <2>6, <4>1, SMT
    <3>2. CASE Esc(j)
      <4>1. g[i] = InString(d, start, found)
        BY <2>2, <2>3, <3>1, <3>2, ReadEscaped
      <4>2. ~Esc(j + 1)
        BY <2>4, <3>1, <3>2
      <4> QED
        BY <4>1, <4>2
    <3>3. CASE ~Esc(j)
      <4>1. ~Char(text, i, "Q")
        BY <2>3, <2>4, <2>5, <3>1, <3>3 DEF Char
      <4>2. g[i] = Read(InString(d, start, found), text, i)
        BY <2>2, <2>3, <3>1, <3>3
      <4>3. Char(text, i, "B") <=> Esc(j + 1)
        BY <2>3, <2>4, <3>1, <3>3 DEF Char
      <4> HIDE DEF Esc, i
      <4>4. /\ Esc(j + 1) => g[i] = Escaped(d, start, found)
            /\ ~Esc(j + 1) => g[i] = InString(d, start, found)
        BY <4>1, <4>2, <4>3, ReadInString
      <4> QED
        BY <4>4 DEF i
    <3> QED
      BY <3>2, <3>3
  <2>7. ASSUME j + 1 = len PROVE g[p + len] = Outside(d, start, found)
    <3>1. j + 1 <= len
      BY <1>1, <2>7, SMT DEF j
    <3>2. ~Esc(j) /\ Char(text, i, "Q")
      BY <2>3, <2>4, <2>5, <2>7, <3>1 DEF Char
    <3>3. g[i] = Read(InString(d, start, found), text, i)
      BY <2>2, <2>3, <3>1, <3>2
    <3>4. g[i] = Outside(d, start, found)
      BY <3>2, <3>3, ReadInString
    <3> QED
      BY <2>7, <3>4
  <2> QED
    BY <2>6, <2>7 DEF P, j
<1>5. Nat \subseteq P
  <2> HIDE DEF P
  <2> QED
    BY <1>3, <1>4, Induction
<1>6. len - 1 \in Nat /\ (len - 1) + 1 = len
  BY <1>1, SMT
<1> QED
  <2> HIDE DEF len, Inside
  <2>1. len - 1 \in P
    BY <1>5, <1>6
  <2>2. g[p + len] = Outside(d, start, found)
    BY <1>6, <2>1
  <2> QED
    BY <2>2 DEF len

\* What is printed, lexeme by lexeme.
IsText(ls, f) ==
  f = [n \in 0..Len(ls) |-> IF n = 0 THEN <<>> ELSE f[n - 1] \o ls[n]]

Spells(ls, h) ==
  /\ h[0] = <<>> /\ \A n \in 0..Len(ls) : h[n] \in Seq(STRING)
  /\ \A n \in 1..Len(ls) : h[n] = h[n - 1] \o ls[n]

LEMMA TextSpelt ==
  ASSUME NEW ls \in Lines
  PROVE  \E h : Spells(ls, h) /\ Text(ls) = h[Len(ls)]
<1> DEFINE T == Seq(STRING)
           len == Len(ls)
           step == [p \in (1..len) \X T |-> p[2] \o ls[p[1]]]
<1>1. len \in Nat /\ (\A n \in 1..len : ls[n] \in T) /\ <<>> \in T
  BY SMT DEF Lines
<1>2. \A n \in 1..len, x \in T : step[<<n, x>>] = x \o ls[n]
  OBVIOUS
<1>3. StaysIn(T, len, step)
  <2>1. \A x \in T, y \in T : x \o y \in T
    BY SMT
  <2> HIDE DEF T, len, step
  <2> QED
    BY <1>1, <1>2, <2>1 DEF StaysIn
<1> HIDE DEF step, T, len
<1>4. PICK f \in [0..len -> T] : Runs(f, len, <<>>, step)
  BY <1>1, <1>3, Recursion
<1>5. /\ \A n \in 1..len : n # 0 /\ n \in 0..len /\ n - 1 \in 0..len
      /\ 0 \in 0..len /\ len \in 0..len /\ \A n \in 0..len : n = 0 \/ n \in 1..len
  BY <1>1, SMT
<1>6. \A n \in 1..len : f[n] = f[n - 1] \o ls[n]
  BY <1>2, <1>4, <1>5 DEF Runs
<1>7. IsText(ls, f)
  <2>1. f = [n \in 0..len |-> f[n]]
    BY <1>4
  <2> QED
    BY <1>4, <1>5, <1>6, <2>1 DEF Runs, IsText, len
<1> DEFINE g == CHOOSE h : IsText(ls, h)
<1>8. IsText(ls, g)
  BY <1>7
<1>9. Text(ls) = g[len]
  BY DEF Text, IsText, len
<1> HIDE DEF g
<1>10. g[0] = <<>> /\ \A n \in 1..len : g[n] = g[n - 1] \o ls[n]
  BY <1>5, <1>8 DEF IsText, len
<1>11. \A n \in 0..len : f[n] = g[n]
  <2>1. GoAlike(f, g, len)
    BY <1>4, <1>6, <1>10 DEF Runs, GoAlike
  <2> QED
    BY <1>1, <2>1, RunsUnique
<1> QED
  BY <1>4, <1>5, <1>6, <1>9, <1>11 DEF Spells, Runs, T, len

\* The scan, character by character.
ReadState == [at : ScanState, start : Nat, found : Lines]

LEMMA ScanTyped ==
  ASSUME NEW s \in ScanState, NEW c
  PROVE  Scan(s, c) \in ScanState
<1>1. CASE s.inString
  <2>1. Scan(s, c) = [depth |-> s.depth, inString |-> s.escaped \/ c # "Q",
                      escaped |-> ~s.escaped /\ c = "B"]
    BY <1>1, ScanInString
  <2> QED
    BY <2>1 DEF ScanState
<1>2. CASE ~s.inString
  <2>1. Scan(s, c) \in {[s EXCEPT !.inString = TRUE], [s EXCEPT !.depth = s.depth + 1],
                        [s EXCEPT !.depth = s.depth - 1], s}
    BY <1>2 DEF Scan
  <2>2. s.depth + 1 \in Int /\ s.depth - 1 \in Int
    BY SMT DEF ScanState
  <2> QED
    BY <2>1, <2>2, ScanQuote, ScanDepth
<1> QED
  BY <1>1, <1>2

LEMMA StretchTyped ==
  ASSUME NEW text \in Seq(STRING), NEW i \in 1..Len(text), NEW start \in Nat, start > 0,
         NEW found \in Lines
  PROVE  Append(found, SubSeq(text, start, i)) \in Lines
<1>1. SubSeq(text, start, i) \in Seq(STRING)
  BY SMT
<1> QED
  BY <1>1, AppendTyped DEF Lines

LEMMA ReadTyped ==
  ASSUME NEW text \in Seq(STRING), NEW i \in 1..Len(text), NEW s \in ReadState
  PROVE  Read(s, text, i) \in ReadState
<1> DEFINE t == Scan(s.at, text[i])
           first == IF t.depth > s.at.depth /\ s.at.depth = 0 THEN i ELSE s.start
<1>1. s.at \in ScanState /\ s.start \in Nat /\ s.found \in Lines
  BY DEF ReadState
<1>2. t \in ScanState
  BY <1>1, ScanTyped
<1>3. Read(s, text, i) =
        IF t.depth < s.at.depth /\ t.depth = 0 /\ first > 0
        THEN [at |-> t, start |-> 0, found |-> Append(s.found, SubSeq(text, first, i))]
        ELSE [at |-> t, start |-> first, found |-> s.found]
  BY DEF Read
<1>4. i \in Nat /\ 0 \in Nat
  BY SMT
<1>5. first \in Nat
  BY <1>1, <1>4
<1> HIDE DEF t, first
<1>6. first > 0 => Append(s.found, SubSeq(text, first, i)) \in Lines
  BY <1>1, <1>5, StretchTyped
<1> QED
  BY <1>1, <1>2, <1>3, <1>4, <1>5, <1>6 DEF ReadState

IsReading(text, f) ==
  f = [n \in 0..Len(text) |-> IF n = 0 THEN Begun ELSE Read(f[n - 1], text, n)]

LEMMA TextRead ==
  ASSUME NEW text \in Seq(STRING)
  PROVE  \E g : Reads(text, g) /\ JsonObjects(text) = g[Len(text)].found
<1> DEFINE T == ReadState
           len == Len(text)
           step == [p \in (1..len) \X T |-> Read(p[2], text, p[1])]
<1>1. len \in Nat
  BY SMT
<1>2. \A n \in 1..len, x \in T : step[<<n, x>>] = Read(x, text, n)
  OBVIOUS
<1>3. StaysIn(T, len, step)
  BY <1>2, ReadTyped DEF StaysIn
<1>4. Begun \in T
  <2>1. <<>> \in Lines /\ 0 \in Int /\ 0 \in Nat
    BY SMT DEF Lines
  <2> QED
    BY <2>1 DEF Begun, ReadState, ScanState
<1> HIDE DEF step, T, len
<1>5. PICK f \in [0..len -> T] : Runs(f, len, Begun, step)
  BY <1>1, <1>3, <1>4, Recursion
<1>6. /\ \A n \in 1..len : n # 0 /\ n \in 0..len /\ n - 1 \in 0..len
      /\ 0 \in 0..len /\ len \in 0..len /\ \A n \in 0..len : n = 0 \/ n \in 1..len
  BY <1>1, SMT
<1>7. \A n \in 1..len : f[n] = Read(f[n - 1], text, n)
  BY <1>2, <1>5, <1>6 DEF Runs
<1>8. IsReading(text, f)
  <2>1. f = [n \in 0..len |-> f[n]]
    BY <1>5
  <2> QED
    BY <1>5, <1>6, <1>7, <2>1 DEF Runs, IsReading, len
<1> DEFINE g == CHOOSE h : IsReading(text, h)
<1>9. IsReading(text, g)
  BY <1>8
<1>10. JsonObjects(text) = g[len].found
  BY DEF JsonObjects, IsReading, len
<1> HIDE DEF g
<1>11. Reads(text, g)
  BY <1>6, <1>9 DEF IsReading, Reads, len
<1> QED
  BY <1>10, <1>11 DEF len

\* A text that stands somewhere is a stretch.
LEMMA StandsSubSeq ==
  ASSUME NEW text \in Seq(STRING), NEW p \in Nat, NEW s \in Seq(STRING), Stands(text, p, s)
  PROVE  SubSeq(text, p + 1, p + Len(s)) = s
<1> DEFINE n == Len(s)
<1>1. n \in Nat /\ s = [i \in 1..n |-> s[i]]
  BY SMT
<1>2. SubSeq(text, p + 1, p + n) = [i \in 1..n |-> text[p + i]]
  <2>1. n \in Nat
    BY <1>1
  <2>2. \A i \in 1..n : p + i \in 1..Len(text)
    BY DEF Stands
  <2> HIDE DEF n
  <2> QED
    BY <2>1, <2>2, SMT
<1>3. \A i \in 1..n : text[p + i] = s[i]
  BY DEF Stands
<1> HIDE DEF n
<1> QED
  BY <1>1, <1>2, <1>3 DEF n

\* Where the lexemes of a text stand.
LEMMA LexemesStand ==
  ASSUME NEW text, NEW p \in Nat, NEW ls \in Lines, NEW h, Spells(ls, h),
         Stands(text, p, h[Len(ls)])
  PROVE  \A n \in 1..Len(ls) :
           /\ Len(h[n - 1]) \in Nat /\ Len(h[n]) = Len(h[n - 1]) + Len(ls[n])
           /\ Stands(text, p + Len(h[n - 1]), ls[n])
<1> DEFINE m == Len(ls)
           P == {k \in Nat : k <= m => Stands(text, p, h[m - k])}
<1>1. m \in Nat /\ \A n \in 1..m : ls[n] \in Seq(STRING)
  BY SMT DEF Lines
<1>2. \A n \in 0..m : h[n] \in Seq(STRING)
  BY DEF Spells
<1>3. \A n \in 1..m : h[n] = h[n - 1] \o ls[n]
  BY DEF Spells
<1>4. Stands(text, p, h[m])
  OBVIOUS
<1> HIDE DEF m
<1>5. /\ \A n \in 1..m : n \in 0..m /\ n - 1 \in 0..m
      /\ \A n \in 0..m : m - n \in Nat /\ m - n <= m /\ m - (m - n) = n
      /\ m - 0 = m
      /\ \A k \in Nat : k + 1 <= m => k <= m /\ m - k \in 1..m /\ m - (k + 1) = (m - k) - 1
  BY <1>1, SMT
<1>6. ASSUME NEW n \in 1..m, Stands(text, p, h[n])
      PROVE  /\ Stands(text, p, h[n - 1]) /\ Stands(text, p + Len(h[n - 1]), ls[n])
             /\ Len(h[n]) = Len(h[n - 1]) + Len(ls[n])
  <2>1. h[n - 1] \in Seq(STRING) /\ ls[n] \in Seq(STRING) /\ h[n] = h[n - 1] \o ls[n]
    BY <1>1, <1>2, <1>3, <1>5
  <2> DEFINE a == h[n - 1]
             b == ls[n]
  <2>2. a \in Seq(STRING) /\ b \in Seq(STRING) /\ Stands(text, p, a \o b)
    BY <1>6, <2>1
  <2> HIDE DEF a, b
  <2>3. Stands(text, p, a) /\ Stands(text, p + Len(a), b) /\ Len(a \o b) = Len(a) + Len(b)
    BY <2>2, StandsSplit
  <2> QED
    BY <2>1, <2>3 DEF a, b
<1>7. 0 \in P
  <2>1. 0 \in Nat
    BY SMT
  <2> QED
    BY <1>4, <1>5, <2>1
<1>8. ASSUME NEW k \in Nat, k \in P PROVE k + 1 \in P
  <2>1. k + 1 \in Nat
    BY SMT
  <2>2. ASSUME k + 1 <= m PROVE Stands(text, p, h[m - (k + 1)])
    <3>1. Stands(text, p, h[m - k]) /\ m - k \in 1..m
      BY <1>5, <1>8, <2>2
    <3>2. Stands(text, p, h[(m - k) - 1])
      BY <1>6, <3>1
    <3> QED
      BY <1>5, <2>2, <3>2
  <2> QED
    BY <2>1, <2>2
<1> HIDE DEF P
<1>9. Nat \subseteq P
  BY <1>7, <1>8, Induction
<1>10. \A n \in 0..m : Stands(text, p, h[n])
  <2>1. ASSUME NEW n \in 0..m PROVE Stands(text, p, h[m - (m - n)])
    BY <1>5, <1>9 DEF P
  <2> QED
    BY <1>5, <2>1
<1>11. \A n \in 1..m : Len(h[n - 1]) \in Nat
  <2>1. \A s \in Seq(STRING) : Len(s) \in Nat
    BY SMT
  <2> QED
    BY <1>2, <1>5, <2>1
<1> QED
  BY <1>5, <1>6, <1>10, <1>11 DEF m

\* A lexeme that is read.
LEMMA OneRead ==
  ASSUME NEW text, NEW g, Reads(text, g), NEW p \in Nat, NEW s,
         Stands(text, p, s), Len(s) = 1
  PROVE  text[p + 1] = s[1] /\ g[p + 1] = Read(g[p], text, p + 1)
<1>1. 1 \in 1..Len(s) /\ (p + 1) - 1 = p
  BY SMT
<1>2. p + 1 \in 1..Len(text) /\ text[p + 1] = s[1]
  BY <1>1 DEF Stands
<1> QED
  BY <1>1, <1>2 DEF Reads

LEMMA QuietRead ==
  ASSUME NEW text, NEW g, Reads(text, g), NEW p \in Nat, NEW s \in Seq(STRING),
         Stands(text, p, s), IsLexeme(s), s \notin {Opening, Closing},
         NEW d \in Int, NEW start \in Nat, NEW found, g[p] = Outside(d, start, found)
  PROVE  g[p + Len(s)] = Outside(d, start, found)
<1>1. CASE IsString(s)
  BY <1>1, ReadString
<1>2. CASE Len(s) = 1 /\ s[1] # "Q"
  <2>1. s = <<s[1]>>
    BY <1>2, SMT
  <2>2. text[p + 1] = s[1] /\ g[p + 1] = Read(g[p], text, p + 1)
    BY <1>2, OneRead
  <2>3. Plain(text, p + 1)
    BY <1>2, <2>1, <2>2 DEF Plain, Opening, Closing
  <2> QED
    BY <1>2, <2>2, <2>3, ReadPlain
<1> QED
  BY <1>1, <1>2 DEF IsLexeme

LEMMA OpeningRead ==
  ASSUME NEW text, NEW g, Reads(text, g), NEW p \in Nat, Stands(text, p, Opening),
         NEW d \in Int, NEW e \in Int, e = d + 1,
         NEW start \in Nat, NEW found, g[p] = Outside(d, start, found)
  PROVE  /\ Len(Opening) = 1
         /\ d = 0 => g[p + 1] = Outside(e, p + 1, found)
         /\ d # 0 => g[p + 1] = Outside(e, start, found)
<1>1. Len(Opening) = 1 /\ Opening[1] = "OPEN"
  BY SMT DEF Opening
<1>2. Char(text, p + 1, "OPEN") /\ g[p + 1] = Read(g[p], text, p + 1)
  BY <1>1, OneRead DEF Char
<1> QED
  BY <1>1, <1>2, ReadOpening

LEMMA ClosingRead ==
  ASSUME NEW text, NEW g, Reads(text, g), NEW p \in Nat, Stands(text, p, Closing),
         NEW d \in Int, NEW e \in Int, e = d - 1,
         NEW start \in Nat, start > 0, NEW found, g[p] = Outside(d, start, found)
  PROVE  /\ Len(Closing) = 1
         /\ e = 0 => g[p + 1] = Outside(0, 0, Append(found, SubSeq(text, start, p + 1)))
         /\ e # 0 => g[p + 1] = Outside(e, start, found)
<1>1. Len(Closing) = 1 /\ Closing[1] = "CLOSE"
  BY SMT DEF Closing
<1>2. Char(text, p + 1, "CLOSE") /\ g[p + 1] = Read(g[p], text, p + 1)
  BY <1>1, OneRead DEF Char
<1> QED
  BY <1>1, <1>2, ReadClosing

\* Text with braces in strings only leaves the scan as it was.
LEMMA NoiseRead ==
  ASSUME NEW text, NEW g, Reads(text, g), NEW p \in Nat, NEW ls \in Lines,
         \A i \in DOMAIN ls : IsLexeme(ls[i]), IsNoise(ls), Stands(text, p, Text(ls)),
         NEW found, g[p] = Outside(0, 0, found)
  PROVE  Len(Text(ls)) \in Nat /\ g[p + Len(Text(ls))] = Outside(0, 0, found)
<1>1. PICK h : Spells(ls, h) /\ Text(ls) = h[Len(ls)]
  BY TextSpelt
<1> DEFINE m == Len(ls)
           P == {n \in Nat : n <= m =>
                   Len(h[n]) \in Nat /\ g[p + Len(h[n])] = Outside(0, 0, found)}
<1>2. /\ m \in Nat /\ DOMAIN ls = 1..m /\ \A n \in 1..m : ls[n] \in Seq(STRING)
  BY SMT DEF Lines
<1>3. \A n \in 1..m :
        /\ Len(h[n - 1]) \in Nat /\ Len(h[n]) = Len(h[n - 1]) + Len(ls[n])
        /\ Stands(text, p + Len(h[n - 1]), ls[n])
  BY <1>1, LexemesStand
<1>4. 0 \in P
  <2>1. 0 \in Nat /\ p + 0 = p /\ Len(<<>>) = 0
    BY SMT
  <2>2. h[0] = <<>>
    BY <1>1 DEF Spells
  <2> QED
    BY <2>1, <2>2
<1>5. ASSUME NEW k \in Nat, k \in P PROVE k + 1 \in P
  <2>1. k + 1 \in Nat
    BY SMT
  <2>2. ASSUME k + 1 <= m
        PROVE  Len(h[k + 1]) \in Nat /\ g[p + Len(h[k + 1])] = Outside(0, 0, found)
    <3> DEFINE n == k + 1
               q == p + Len(h[k])
               s == ls[n]
    <3>1. n \in 1..m /\ n - 1 = k /\ k <= m
      <4> HIDE DEF m
      <4> QED
        BY <1>2, <2>2, SMT
    <3>2. /\ Len(h[k]) \in Nat /\ Len(h[n]) = Len(h[k]) + Len(s) /\ Stands(text, q, s)
      BY <1>3, <3>1
    <3>3. g[q] = Outside(0, 0, found)
      BY <1>5, <3>1
    <3>4. s \in Seq(STRING) /\ IsLexeme(s) /\ s \notin {Opening, Closing}
      BY <1>2, <3>1 DEF IsNoise
    <3> HIDE DEF n, s
    <3>5. Len(s) \in Nat
      BY <3>4, SMT
    <3>6. q \in Nat /\ q + Len(s) = p + Len(h[n]) /\ Len(h[n]) \in Nat
      BY <3>2, <3>5, SMT
    <3> HIDE DEF q
    <3>7. 0 \in Int /\ 0 \in Nat
      BY SMT
    <3>8. g[q + Len(s)] = Outside(0, 0, found)
      BY <3>2, <3>3, <3>4, <3>6, <3>7, QuietRead
    <3> QED
      BY <3>6, <3>8 DEF n
  <2> QED
    BY <2>1, <2>2
<1> HIDE DEF P
<1>6. Nat \subseteq P
  BY <1>4, <1>5, Induction
<1>7. m <= m
  BY <1>2, SMT
<1> QED
  BY <1>1, <1>2, <1>6, <1>7 DEF P

\* Counting lexemes one by one.
LEMMA CountStep ==
  ASSUME NEW ls, NEW n \in Nat, NEW l
  PROVE  /\ Count(ls, n, l) \in Nat /\ Count(ls, 0, l) = 0
         /\ ls[n + 1] = l => Count(ls, n + 1, l) = Count(ls, n, l) + 1
         /\ ls[n + 1] # l => Count(ls, n + 1, l) = Count(ls, n, l)
<1> DEFINE S(k) == {i \in 1..k : ls[i] = l}
<1>1. n + 1 \in Nat /\ n + 1 \notin 1..n /\ 1..(n + 1) = (1..n) \cup {n + 1} /\ 1..0 = {}
  BY SMT
<1>2. IsFiniteSet(1..n)
  BY FS_Interval, SMT
<1>3. IsFiniteSet(S(n))
  BY <1>2, FS_Subset
<1>4. Cardinality(S(n)) \in Nat
  BY <1>3, FS_CardinalityType
<1>5. S(0) = {}
  BY <1>1
<1>6. ls[n + 1] = l => S(n + 1) = S(n) \cup {n + 1}
  BY <1>1
<1>7. ls[n + 1] # l => S(n + 1) = S(n)
  BY <1>1
<1>8. n + 1 \notin S(n)
  BY <1>1
<1>9. Cardinality(S(n) \cup {n + 1}) = Cardinality(S(n)) + 1
  BY <1>3, <1>8, FS_AddElement
<1>10. Cardinality({}) = 0
  BY FS_EmptySet
<1> QED
  BY <1>4, <1>5, <1>6, <1>7, <1>9, <1>10 DEF Count

\* A lexeme in an object, and what it makes of the depth.
Steps(s, d, e) ==
  /\ s = Opening => e = d + 1
  /\ s = Closing => e = d - 1
  /\ s \notin {Opening, Closing} => e = d

LEMMA InsideRead ==
  ASSUME NEW text, NEW g, Reads(text, g), NEW q \in Nat, NEW s \in Seq(STRING),
         IsLexeme(s), Stands(text, q, s), NEW d \in Int, d > 0, NEW e \in Int,
         Steps(s, d, e), NEW start \in Nat, start > 0, NEW found,
         g[q] = Outside(d, start, found)
  PROVE  /\ e # 0 => g[q + Len(s)] = Outside(e, start, found)
         /\ e = 0 => g[q + Len(s)] =
                       Outside(0, 0, Append(found, SubSeq(text, start, q + Len(s))))
<1>1. d # 0 /\ d + 1 # 0
  BY SMT
<1>2. CASE s = Opening
  <2>1. e = d + 1 /\ Stands(text, q, Opening)
    BY <1>2 DEF Steps
  <2>2. Len(Opening) = 1 /\ g[q + 1] = Outside(e, start, found)
    BY <1>1, <2>1, OpeningRead
  <2> QED
    BY <1>1, <1>2, <2>1, <2>2
<1>3. CASE s = Closing
  <2>1. e = d - 1 /\ Stands(text, q, Closing)
    BY <1>3 DEF Steps
  <2>2. /\ Len(Closing) = 1
        /\ e = 0 => g[q + 1] = Outside(0, 0, Append(found, SubSeq(text, start, q + 1)))
        /\ e # 0 => g[q + 1] = Outside(e, start, found)
    BY <2>1, ClosingRead
  <2> QED
    BY <1>3, <2>2
<1>4. CASE s \notin {Opening, Closing}
  <2>1. e = d
    BY <1>4 DEF Steps
  <2>2. g[q + Len(s)] = Outside(d, start, found)
    BY <1>4, QuietRead
  <2> QED
    BY <1>1, <2>1, <2>2
<1> QED
  BY <1>2, <1>3, <1>4

\* The depth after the first n lexemes.
Depth(ls, n) == Count(ls, n, Opening) - Count(ls, n, Closing)

LEMMA DepthStep ==
  ASSUME NEW ls, NEW n \in Nat
  PROVE  /\ Depth(ls, n) \in Int /\ Depth(ls, 0) = 0
         /\ Steps(ls[n + 1], Depth(ls, n), Depth(ls, n + 1))
<1> DEFINE a == Count(ls, n, Opening)
           b == Count(ls, n, Closing)
           c == Count(ls, n + 1, Opening)
           e == Count(ls, n + 1, Closing)
           s == ls[n + 1]
<1>1. /\ a \in Nat /\ Count(ls, 0, Opening) = 0
      /\ s = Opening => c = a + 1
      /\ s # Opening => c = a
  BY CountStep
<1>2. /\ b \in Nat /\ Count(ls, 0, Closing) = 0
      /\ s = Closing => e = b + 1
      /\ s # Closing => e = b
  BY CountStep
<1>3. Opening # Closing
  BY SMT DEF Opening, Closing
<1>4. Depth(ls, 0) = 0
  BY <1>1, <1>2, SMT DEF Depth
<1>5. Depth(ls, n) = a - b /\ Depth(ls, n + 1) = c - e
  BY DEF Depth
<1> HIDE DEF a, b, c, e, s
<1>6. /\ a - b \in Int
      /\ s = Opening => c - e = (a - b) + 1
      /\ s = Closing => c - e = (a - b) - 1
      /\ s \notin {Opening, Closing} => c - e = a - b
  <2>1. a - b \in Int
    BY <1>1, <1>2, SMT
  <2>2. ASSUME s = Opening PROVE c - e = (a - b) + 1
    <3>1. c = a + 1 /\ e = b
      BY <1>1, <1>2, <1>3, <2>2
    <3> QED
      BY <1>1, <1>2, <3>1, SMT
  <2>3. ASSUME s = Closing PROVE c - e = (a - b) - 1
    <3>1. c = a /\ e = b + 1
      BY <1>1, <1>2, <1>3, <2>3
    <3> QED
      BY <1>1, <1>2, <3>1, SMT
  <2>4. ASSUME s \notin {Opening, Closing} PROVE c - e = a - b
    BY <1>1, <1>2, <2>4
  <2> QED
    BY <2>1, <2>2, <2>3, <2>4
<1> QED
  BY <1>4, <1>5, <1>6 DEF Steps, s

\* In an object it is 0 at the end and not before.
LEMMA ObjectDepth ==
  ASSUME NEW ls \in Lines, IsObject(ls)
  PROVE  /\ Len(ls) \in Nat /\ Len(ls) >= 2 /\ Depth(ls, Len(ls)) = 0
         /\ \A n \in 1..Len(ls) : n < Len(ls) => Depth(ls, n) > 0
<1>1. Len(ls) \in Nat /\ Len(ls) >= 2
  BY SMT DEF IsObject, Lines
<1>2. \A n \in 1..Len(ls) : n \in Nat
  BY SMT
<1>3. \A n \in 1..Len(ls) : Count(ls, n, Opening) \in Nat /\ Count(ls, n, Closing) \in Nat
  BY <1>2, CountStep
<1>4. ASSUME NEW n \in 1..Len(ls), n < Len(ls) PROVE Depth(ls, n) > 0
  <2>1. Count(ls, n, Opening) > Count(ls, n, Closing)
    BY <1>4 DEF IsObject
  <2> QED
    BY <1>3, <2>1, SMT DEF Depth
<1>5. Depth(ls, Len(ls)) = 0
  <2>1. Len(ls) \in 1..Len(ls) /\ ~(Len(ls) < Len(ls))
    BY <1>1, SMT
  <2>2. Count(ls, Len(ls), Opening) = Count(ls, Len(ls), Closing)
    BY <2>1 DEF IsObject
  <2> QED
    BY <1>3, <2>1, <2>2, SMT DEF Depth
<1> QED
  BY <1>1, <1>4, <1>5

\* An object is found, and found whole.
LEMMA ObjectRead ==
  ASSUME NEW text \in Seq(STRING), NEW g, Reads(text, g), NEW p \in Nat, NEW ls \in Lines,
         \A i \in DOMAIN ls : IsLexeme(ls[i]), IsObject(ls), Stands(text, p, Text(ls)),
         NEW found, g[p] = Outside(0, 0, found)
  PROVE  /\ Len(Text(ls)) \in Nat
         /\ g[p + Len(Text(ls))] = Outside(0, 0, Append(found, Text(ls)))
<1>1. PICK h : Spells(ls, h) /\ Text(ls) = h[Len(ls)]
  BY TextSpelt
<1> DEFINE m == Len(ls)
           end(n) == p + Len(h[n])
           P == {k \in Nat : k + 1 < m =>
                   g[end(k + 1)] = Outside(Depth(ls, k + 1), p + 1, found)}
<1>2. /\ m \in Nat /\ m >= 2 /\ Depth(ls, m) = 0
      /\ \A n \in 1..m : n < m => Depth(ls, n) > 0
  BY ObjectDepth
<1>3. DOMAIN ls = 1..m /\ \A n \in 1..m : ls[n] \in Seq(STRING)
  BY SMT DEF Lines
<1>4. ASSUME NEW k \in Nat, k + 1 <= m
      PROVE  /\ k + 1 \in 1..m /\ end(k) \in Nat /\ end(k) + Len(ls[k + 1]) = end(k + 1)
             /\ ls[k + 1] \in Seq(STRING) /\ IsLexeme(ls[k + 1])
             /\ Stands(text, end(k), ls[k + 1])
  <2> DEFINE s == ls[k + 1]
  <2>1. k + 1 \in 1..m /\ (k + 1) - 1 = k
    <3> HIDE DEF m
    <3> QED
      BY <1>2, <1>4, SMT
  <2>2. /\ Len(h[k]) \in Nat /\ Len(h[k + 1]) = Len(h[k]) + Len(s) /\ Stands(text, end(k), s)
    <3>1. \A n \in 1..m :
            /\ Len(h[n - 1]) \in Nat /\ Len(h[n]) = Len(h[n - 1]) + Len(ls[n])
            /\ Stands(text, p + Len(h[n - 1]), ls[n])
      BY <1>1, LexemesStand
    <3> QED
      BY <2>1, <3>1
  <2>3. s \in Seq(STRING) /\ IsLexeme(s)
    BY <1>3, <2>1
  <2>4. end(k) \in Nat /\ end(k) + Len(s) = end(k + 1)
    <3>1. Len(s) \in Nat
      BY <2>3, SMT
    <3> HIDE DEF s
    <3> QED
      BY <2>2, <3>1, SMT
  <2> QED
    BY <2>1, <2>2, <2>3, <2>4
<1>5. end(0) = p
  <2>1. Len(<<>>) = 0 /\ p + 0 = p
    BY SMT
  <2> QED
    BY <1>1, <2>1 DEF Spells
<1>6. p + 1 \in Nat /\ p + 1 > 0
  BY SMT
<1> HIDE DEF end
<1>7. 0 \in P
  <2> DEFINE s == ls[1]
             e == Depth(ls, 1)
  <2>1. 0 \in Nat /\ 0 + 1 = 1 /\ 1 < m /\ 1 <= m /\ 0 \in Int
    BY <1>2, SMT
  <2>2. Steps(s, 0, e) /\ e > 0
    <3>1. /\ Depth(ls, 0) = 0
          /\ Steps(ls[0 + 1], Depth(ls, 0), Depth(ls, 0 + 1))
      BY <2>1, DepthStep
    <3>2. Depth(ls, 1) > 0
      <4>1. 1 \in 1..m
        BY <1>4, <2>1
      <4> QED
        BY <1>2, <2>1, <4>1
    <3> QED
      BY <2>1, <3>1, <3>2
  <2>3. e \in Int
    <3>1. 1 \in Nat
      BY SMT
    <3> QED
      BY <3>1, DepthStep
  <2>4. Stands(text, p, s) /\ p + Len(s) = end(1)
    <3>1. Stands(text, end(0), ls[0 + 1]) /\ end(0) + Len(ls[0 + 1]) = end(0 + 1)
      BY <1>4, <2>1
    <3> QED
      BY <1>5, <2>1, <3>1
  <2> HIDE DEF s, e
  <2>5. s = Opening /\ e = 0 + 1
    <3>1. ~(0 > 0) /\ ~(0 - 1 > 0)
      BY SMT
    <3> QED
      BY <2>2, <3>1 DEF Steps
  <2>6. Len(Opening) = 1 /\ g[p + 1] = Outside(e, p + 1, found)
    BY <2>1, <2>3, <2>4, <2>5, OpeningRead
  <2>7. g[end(1)] = Outside(e, p + 1, found)
    BY <2>4, <2>5, <2>6
  <2> QED
    BY <2>1, <2>7 DEF e
<1>8. ASSUME NEW k \in Nat, k + 1 < m, g[end(k + 1)] = Outside(Depth(ls, k + 1), p + 1, found)
      PROVE  LET n == (k + 1) + 1
                 e == Depth(ls, n)
             IN /\ e # 0 => g[end(n)] = Outside(e, p + 1, found)
                /\ e = 0 => g[end(n)] =
                              Outside(0, 0, Append(found, SubSeq(text, p + 1, end(n))))
  <2> DEFINE j == k + 1
             n == j + 1
             q == end(j)
             s == ls[n]
             d == Depth(ls, j)
             e == Depth(ls, n)
  <2>1. j \in Nat /\ j <= m /\ j < m /\ n <= m /\ n \in Nat
    <3> HIDE DEF m
    <3> QED
      BY <1>2, <1>8, SMT
  <2>2. /\ q \in Nat /\ q + Len(s) = end(n) /\ s \in Seq(STRING) /\ IsLexeme(s)
        /\ Stands(text, q, s)
    <3> HIDE DEF j, m
    <3> QED
      BY <1>4, <2>1
  <2>3. d > 0
    <3>1. j \in 1..m
      BY <1>4, <2>1
    <3> QED
      BY <1>2, <2>1, <3>1
  <2>4. d \in Int /\ e \in Int /\ Steps(s, d, e)
    <3> HIDE DEF j
    <3>1. d \in Int /\ Steps(s, d, e)
      BY <2>1, DepthStep
    <3>2. e \in Int
      <4> HIDE DEF n
      <4> QED
        BY <2>1, DepthStep
    <3> QED
      BY <3>1, <3>2
  <2>5. g[q] = Outside(d, p + 1, found)
    BY <1>8
  <2> HIDE DEF s, d, e, q
  <2>6. /\ e # 0 => g[q + Len(s)] = Outside(e, p + 1, found)
        /\ e = 0 => g[q + Len(s)] =
                      Outside(0, 0, Append(found, SubSeq(text, p + 1, q + Len(s))))
    BY <1>6, <2>2, <2>3, <2>4, <2>5, InsideRead
  <2> QED
    BY <2>2, <2>6 DEF e
<1>9. ASSUME NEW k \in Nat, k \in P PROVE k + 1 \in P
  <2> DEFINE n == (k + 1) + 1
  <2>1. k + 1 \in Nat
    BY SMT
  <2>2. ASSUME n < m PROVE g[end(n)] = Outside(Depth(ls, n), p + 1, found)
    <3>1. k + 1 < m /\ n \in 1..m /\ ~(0 > 0)
      <4> HIDE DEF m
      <4> QED
        BY <1>2, <2>2, SMT
    <3>2. Depth(ls, n) > 0
      BY <1>2, <2>2, <3>1
    <3>3. Depth(ls, n) # 0
      BY <3>1, <3>2
    <3>4. g[end(k + 1)] = Outside(Depth(ls, k + 1), p + 1, found)
      BY <1>9, <3>1
    <3> QED
      BY <1>8, <3>1, <3>3, <3>4
  <2> QED
    BY <2>1, <2>2
<1> HIDE DEF P
<1>10. Nat \subseteq P
  BY <1>7, <1>9, Induction
<1>11. g[end(m)] = Outside(0, 0, Append(found, SubSeq(text, p + 1, end(m))))
  <2> DEFINE k == m - 2
  <2>1. k \in Nat /\ k + 1 < m /\ (k + 1) + 1 = m
    <3> HIDE DEF m
    <3> QED
      BY <1>2, SMT
  <2> HIDE DEF k
  <2>2. g[end(k + 1)] = Outside(Depth(ls, k + 1), p + 1, found)
    BY <1>10, <2>1 DEF P
  <2>3. Depth(ls, (k + 1) + 1) = 0
    BY <1>2, <2>1
  <2>4. g[end((k + 1) + 1)] =
          Outside(0, 0, Append(found, SubSeq(text, p + 1, end((k + 1) + 1))))
    BY <1>8, <2>1, <2>2, <2>3
  <2> QED
    BY <2>1, <2>4
<1>12. h[m] \in Seq(STRING)
  <2>1. m \in 0..m
    BY <1>2, SMT
  <2> QED
    BY <1>1, <2>1 DEF Spells
<1>13. SubSeq(text, p + 1, end(m)) = h[m]
  BY <1>1, <1>12, StandsSubSeq DEF end
<1>14. Len(h[m]) \in Nat
  BY <1>12, SMT
<1> QED
  BY <1>1, <1>11, <1>13, <1>14 DEF end

LEMMA TextTyped ==
  ASSUME NEW ls \in Lines
  PROVE  Text(ls) \in Seq(STRING)
<1>1. PICK h : Spells(ls, h) /\ Text(ls) = h[Len(ls)]
  BY TextSpelt
<1>2. Len(ls) \in 0..Len(ls)
  BY SMT DEF Lines
<1> QED
  BY <1>1, <1>2 DEF Spells

\* Printed around the objects, and printed as one.
Quiet(ls) == ls \in Lines /\ IsNoise(ls) /\ \A i \in DOMAIN ls : IsLexeme(ls[i])
Whole(ls) == ls \in Lines /\ IsObject(ls) /\ \A i \in DOMAIN ls : IsLexeme(ls[i])

LEMMA QuietAt ==
  ASSUME NEW text, NEW g, Reads(text, g), NEW p \in Nat, NEW ls, Quiet(ls),
         Stands(text, p, Text(ls)), NEW found, g[p] = Outside(0, 0, found)
  PROVE  p + Len(Text(ls)) \in Nat /\ g[p + Len(Text(ls))] = Outside(0, 0, found)
<1>1. Len(Text(ls)) \in Nat /\ g[p + Len(Text(ls))] = Outside(0, 0, found)
  BY NoiseRead DEF Quiet
<1> DEFINE n == Len(Text(ls))
<1> HIDE DEF n
<1>2. n \in Nat
  BY <1>1 DEF n
<1>3. p + n \in Nat
  BY <1>2, SMT
<1> QED
  BY <1>1, <1>3 DEF n

LEMMA WholeAt ==
  ASSUME NEW text \in Seq(STRING), NEW g, Reads(text, g), NEW p \in Nat, NEW ls, Whole(ls),
         Stands(text, p, Text(ls)), NEW found, g[p] = Outside(0, 0, found)
  PROVE  /\ p + Len(Text(ls)) \in Nat
         /\ g[p + Len(Text(ls))] = Outside(0, 0, Append(found, Text(ls)))
<1>1. /\ Len(Text(ls)) \in Nat
      /\ g[p + Len(Text(ls))] = Outside(0, 0, Append(found, Text(ls)))
  BY ObjectRead DEF Whole
<1> DEFINE n == Len(Text(ls))
<1> HIDE DEF n
<1>2. n \in Nat
  BY <1>1 DEF n
<1>3. p + n \in Nat
  BY <1>2, SMT
<1> QED
  BY <1>1, <1>3 DEF n

LEMMA TwoElements ==
  ASSUME NEW S, NEW a \in S, NEW b \in S
  PROVE  Append(<<a>>, b) = <<a, b>>
<1> DEFINE s == Append(<<a>>, b)
           t == <<a, b>>
<1>1. s \in Seq(S) /\ Len(s) = 2 /\ s[1] = a /\ s[2] = b
  BY SMT
<1>2. t \in Seq(S) /\ Len(t) = 2 /\ t[1] = a /\ t[2] = b
  BY SMT
<1> HIDE DEF s, t
<1>3. s = [i \in 1..2 |-> s[i]] /\ t = [i \in 1..2 |-> t[i]]
  BY <1>1, <1>2, SMT
<1>4. \A i \in 1..2 : s[i] = t[i]
  <2>1. \A i \in 1..2 : i = 1 \/ i = 2
    BY SMT
  <2> QED
    BY <1>1, <1>2, <2>1
<1> QED
  BY <1>3, <1>4 DEF s, t

\* What is found in an output: the config's object, if one was made, and the
\* registration's.
LEMMA OutputFound ==
  ASSUME NEW a, Quiet(a), NEW b, Quiet(b), NEW c, Quiet(c),
         NEW created, Whole(created) \/ created = <<>>, NEW registered, Whole(registered)
  PROVE  LET text == Text(a) \o Text(created) \o Text(b) \o Text(registered) \o Text(c)
         IN JsonObjects(text) =
              IF created = <<>> THEN <<Text(registered)>>
              ELSE <<Text(created), Text(registered)>>
<1> DEFINE ta == Text(a)
           tb == Text(b)
           tc == Text(c)
           tm == Text(created)
           tr == Text(registered)
           t2 == ta \o tm
           t3 == t2 \o tb
           t4 == t3 \o tr
           text == t4 \o tc
           pm == Len(ta)
           pb == Len(t2)
           pr == Len(t3)
           pc == Len(t4)
           made == IF created = <<>> THEN <<>> ELSE <<tm>>
<1>1. <<>> \in Lines /\ Quiet(<<>>)
  <2>1. <<>> \in Lines /\ DOMAIN <<>> = {}
    BY SMT DEF Lines
  <2> QED
    BY <2>1 DEF Quiet, IsNoise
<1>2. /\ ta \in Seq(STRING) /\ tb \in Seq(STRING) /\ tc \in Seq(STRING)
      /\ tm \in Seq(STRING) /\ tr \in Seq(STRING)
  BY <1>1, TextTyped DEF Quiet, Whole
<1>3. t2 \in Seq(STRING) /\ t3 \in Seq(STRING) /\ t4 \in Seq(STRING) /\ text \in Seq(STRING)
  <2>1. \A x, y \in Seq(STRING) : x \o y \in Seq(STRING)
    BY SMT
  <2> HIDE DEF ta, tb, tc, tm, tr
  <2> QED
    BY <1>2, <2>1
<1> HIDE DEF ta, tb, tc, tm, tr
<1>4. /\ Stands(text, 0, ta) /\ Stands(text, pm, tm) /\ Stands(text, pb, tb)
      /\ Stands(text, pr, tr) /\ Stands(text, pc, tc)
      /\ pm + Len(tm) = pb /\ pb + Len(tb) = pr /\ pr + Len(tr) = pc
      /\ pc + Len(tc) = Len(text)
  <2>1. 0 \in Nat /\ \A x \in Seq(STRING) : 0 + Len(x) = Len(x)
    BY SMT
  <2>2. Stands(text, 0, text)
    <3>1. \A i \in 1..Len(text) : 0 + i = i
      BY SMT
    <3> HIDE DEF text
    <3> QED
      BY <3>1 DEF Stands
  <2>3. Stands(text, 0, t4) /\ Stands(text, pc, tc) /\ pc + Len(tc) = Len(text)
    <3> HIDE DEF t4
    <3>1. Stands(text, 0, t4) /\ Stands(text, 0 + Len(t4), tc) /\ Len(t4 \o tc) = Len(t4) + Len(tc)
      BY <1>2, <1>3, <2>1, <2>2, StandsSplit
    <3> QED
      BY <1>3, <2>1, <3>1
  <2> HIDE DEF text
  <2>4. Stands(text, 0, t3) /\ Stands(text, pr, tr) /\ pr + Len(tr) = pc
    <3> HIDE DEF t3
    <3>1. Stands(text, 0, t3) /\ Stands(text, 0 + Len(t3), tr) /\ Len(t3 \o tr) = Len(t3) + Len(tr)
      BY <1>2, <1>3, <2>1, <2>3, StandsSplit
    <3> QED
      BY <1>3, <2>1, <3>1
  <2>5. Stands(text, 0, t2) /\ Stands(text, pb, tb) /\ pb + Len(tb) = pr
    <3> HIDE DEF t2
    <3>1. Stands(text, 0, t2) /\ Stands(text, 0 + Len(t2), tb) /\ Len(t2 \o tb) = Len(t2) + Len(tb)
      BY <1>2, <1>3, <2>1, <2>4, StandsSplit
    <3> QED
      BY <1>3, <2>1, <3>1
  <2>6. Stands(text, 0, ta) /\ Stands(text, pm, tm) /\ pm + Len(tm) = pb
    <3>1. Stands(text, 0, ta) /\ Stands(text, 0 + Len(ta), tm) /\ Len(ta \o tm) = Len(ta) + Len(tm)
      BY <1>2, <1>3, <2>1, <2>5, StandsSplit
    <3> QED
      BY <1>2, <2>1, <3>1
  <2> QED
    BY <2>3, <2>4, <2>5, <2>6
<1>5. /\ 0 \in Nat /\ pm \in Nat /\ pb \in Nat /\ pr \in Nat /\ pc \in Nat
      /\ 0 + pm = pm
  <2>1. \A x \in Seq(STRING) : Len(x) \in Nat /\ 0 + Len(x) = Len(x)
    BY SMT
  <2> HIDE DEF t2, t3, t4
  <2> QED
    BY <1>2, <1>3, <2>1
<1> HIDE DEF text, t2, t3, t4
<1>6. PICK g : Reads(text, g) /\ JsonObjects(text) = g[Len(text)].found
  BY <1>3, TextRead
<1>7. g[0] = Outside(0, 0, <<>>)
  BY <1>6 DEF Reads, Begun, Outside, AtOutside, State
<1>8. g[pm] = Outside(0, 0, <<>>)
  <2>1. g[0 + Len(ta)] = Outside(0, 0, <<>>)
    BY <1>4, <1>5, <1>6, <1>7, QuietAt DEF ta
  <2> QED
    BY <1>5, <2>1
<1> HIDE DEF pm, pb, pr, pc
<1>9. g[pb] = Outside(0, 0, made)
  <2>1. CASE created = <<>>
    <3>1. g[pm + Len(tm)] = Outside(0, 0, <<>>)
      BY <1>1, <1>4, <1>5, <1>6, <1>8, <2>1, QuietAt DEF tm
    <3> QED
      BY <1>4, <2>1, <3>1
  <2>2. CASE created # <<>>
    <3>1. g[pm + Len(tm)] = Outside(0, 0, Append(<<>>, tm))
      <4> DEFINE none == <<>>
      <4>1. Whole(created) /\ g[pm] = Outside(0, 0, none)
        BY <1>8, <2>2
      <4> HIDE DEF none
      <4>2. g[pm + Len(tm)] = Outside(0, 0, Append(none, tm))
        BY <1>3, <1>4, <1>5, <1>6, <4>1, WholeAt DEF tm
      <4> QED
        BY <4>2 DEF none
    <3>2. Append(<<>>, tm) = <<tm>>
      BY SMT
    <3> QED
      BY <1>4, <2>2, <3>1, <3>2
  <2> QED
    BY <2>1, <2>2
<1> HIDE DEF made
<1>10. g[pr] = Outside(0, 0, made)
  <2>1. g[pb + Len(tb)] = Outside(0, 0, made)
    BY <1>4, <1>5, <1>6, <1>9, QuietAt DEF tb
  <2> QED
    BY <1>4, <2>1
<1>11. g[pc] = Outside(0, 0, Append(made, tr))
  <2>1. g[pr + Len(tr)] = Outside(0, 0, Append(made, tr))
    BY <1>3, <1>4, <1>5, <1>6, <1>10, WholeAt DEF tr
  <2> QED
    BY <1>4, <2>1
<1>12. g[Len(text)] = Outside(0, 0, Append(made, tr))
  <2>1. g[pc + Len(tc)] = Outside(0, 0, Append(made, tr))
    BY <1>4, <1>5, <1>6, <1>11, QuietAt DEF tc
  <2> QED
    BY <1>4, <2>1
<1>13. JsonObjects(text) = Append(made, tr)
  BY <1>6, <1>12 DEF Outside, State
<1>14. Append(made, tr) = IF created = <<>> THEN <<tr>> ELSE <<tm, tr>>
  <2>1. Append(<<>>, tr) = <<tr>>
    BY SMT
  <2>2. Append(<<tm>>, tr) = <<tm, tr>>
    BY <1>2, TwoElements
  <2> QED
    BY <2>1, <2>2 DEF made
<1> QED
  BY <1>13, <1>14 DEF text, t4, t3, t2, ta, tb, tc, tm, tr

\* The first of the objects that say register_enclave is one that does.
LEMMA FirstExtracted ==
  ASSUME NEW text, NEW objects, NEW mine \in objects,
         \/ JsonObjects(text) = <<mine>>
         \/ \E other \in objects : JsonObjects(text) = <<other, mine>>
  PROVE  ExtractRegisterResult(text, objects, {mine}) = mine
<1> DEFINE found == JsonObjects(text)
           registers == {i \in DOMAIN found : found[i] \in {mine}}
           first == CHOOSE i \in registers : \A j \in registers : i <= j
<1>1. /\ ToSet(found) \subseteq objects /\ registers # {}
      /\ \E i \in registers : \A j \in registers : i <= j
  <2>1. CASE found = <<mine>>
    <3>1. DOMAIN found = {1} /\ found[1] = mine
      BY <2>1, SMT
    <3>2. 1 <= 1
      BY SMT
    <3> HIDE DEF found
    <3> QED
      BY <3>1, <3>2 DEF ToSet
  <2>2. CASE \E other \in objects : found = <<other, mine>>
    <3>1. PICK other \in objects : found = <<other, mine>>
      BY <2>2
    <3>2. DOMAIN found = {1, 2} /\ found[1] = other /\ found[2] = mine
      BY <3>1, SMT
    <3>3. 1 <= 1 /\ 1 <= 2 /\ 2 <= 2
      BY SMT
    <3> HIDE DEF found
    <3> QED
      BY <3>1, <3>2, <3>3 DEF ToSet
  <2> QED
    BY <2>1, <2>2
<1>2. first \in registers
  <2> HIDE DEF registers
  <2> QED
    BY <1>1
<1> HIDE DEF first
<1>3. found[first] = mine
  BY <1>2
<1>4. ExtractRegisterResult(text, objects, {mine}) = found[first]
  <2>1. ExtractRegisterResult(text, objects, {mine}) =
          IF ToSet(found) \subseteq objects /\ registers # {} THEN found[first] ELSE <<>>
    BY DEF ExtractRegisterResult, first
  <2> HIDE DEF found, registers
  <2> QED
    BY <1>1, <2>1
<1> QED
  BY <1>3, <1>4

\* What an input of kind "output" is.
Printed(result, text) ==
  \E created \in Objects \cup {<<>>}, registered \in Objects, a, b, c \in Noise :
     /\ result = Text(registered)
     /\ text = Text(a) \o Text(created) \o Text(b) \o Text(registered) \o Text(c)

OutputInput == input.kind = "output" => Printed(input.registered, input.text)

LEMMA OutputInputInit == Init => OutputInput
BY DEF Init, None, OutputInput

LEMMA OutputInputNext == OutputInput /\ [Next]_input => OutputInput'
<1> SUFFICES ASSUME OutputInput, [Next]_input PROVE OutputInput'
  OBVIOUS
<1>1. CASE SealSet
  BY <1>1 DEF SealSet, OutputInput
<1>2. CASE MakeCertificate
  BY <1>2 DEF MakeCertificate, OutputInput
<1>3. CASE MoveProxies
  BY <1>3 DEF MoveProxies, OutputInput
<1>4. CASE RegisterEnclave
  <2>1. PICK result, text : /\ Printed(result, text)
                            /\ input' = [kind |-> "output", registered |-> result, text |-> text]
    BY <1>4 DEF RegisterEnclave, Printed
  <2> QED
    BY <2>1 DEF OutputInput
<1>5. CASE UNCHANGED input
  BY <1>5 DEF OutputInput
<1> QED
  BY <1>1, <1>2, <1>3, <1>4, <1>5 DEF Next

\* Whatever a registration prints around its object, with quotes, braces and
\* escapes wherever JSON allows them, the object taken up is its own.
THEOREM RegistrationsFound == Spec => []RegistrationFound
<1>1. Init => OutputInput
  BY OutputInputInit
<1>2. OutputInput /\ [Next]_input => OutputInput'
  BY OutputInputNext
<1>3. OutputInput => RegistrationFound
  <2> SUFFICES ASSUME OutputInput, input.kind = "output"
               PROVE  ExtractRegisterResult(input.text, {Text(o) : o \in Objects},
                                            {input.registered}) = input.registered
    BY DEF RegistrationFound
  <2>1. PICK created \in Objects \cup {<<>>}, registered \in Objects, a, b, c \in Noise :
          /\ input.registered = Text(registered)
          /\ input.text = Text(a) \o Text(created) \o Text(b) \o Text(registered) \o Text(c)
    BY DEF OutputInput, Printed
  <2>2. (\A ls \in Noise : Quiet(ls)) /\ (\A ls \in Objects : Whole(ls))
    BY ConversionsAssumption DEF Quiet, Whole, Lines
  <2>3. JsonObjects(input.text) =
          IF created = <<>> THEN <<Text(registered)>>
          ELSE <<Text(created), Text(registered)>>
    BY <2>1, <2>2, OutputFound
  <2> DEFINE objects == {Text(o) : o \in Objects}
  <2>4. Text(registered) \in objects /\ (created # <<>> => Text(created) \in objects)
    OBVIOUS
  <2> HIDE DEF objects
  <2>5. ExtractRegisterResult(input.text, objects, {Text(registered)}) = Text(registered)
    BY <2>3, <2>4, FirstExtracted
  <2> QED
    BY <2>1, <2>5 DEF objects
<1> QED
  BY <1>1, <1>2, <1>3, PTL DEF Spec
=============================================================================
