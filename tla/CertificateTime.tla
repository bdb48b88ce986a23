--------------------------- MODULE CertificateTime ---------------------------
(***************************************************************************)
(* The creation time in a Seal session certificate: the enclave computes   *)
(* by hand the calendar date that the key servers print from the same      *)
(* number of milliseconds; the signature is over that text.                *)
(***************************************************************************)
EXTENDS Naturals

\* civil_from_days: years begin in March, 400 of them have 146097 days.
\* Mutant: century years are leap years.
JulianYear(doe) == (doe - doe \div 1460) \div 365
YearOfEra(doe) ==
  (doe - doe \div 1460 + doe \div 36524 - doe \div 146096) \div 365

\* The day of a year, counted from 1 March, and the date of it.
DayOfYear(doe) ==
  LET yoe == YearOfEra(doe) IN doe - (365 * yoe + yoe \div 4 - yoe \div 100)

MonthIndex(doy) == (5 * doy + 2) \div 153
Month(doy) ==
  IF MonthIndex(doy) < 10 THEN MonthIndex(doy) + 3 ELSE MonthIndex(doy) - 9
DayOfMonth(doy) == doy - (153 * MonthIndex(doy) + 2) \div 5 + 1

DateOf(year, doy) ==
  [year |-> year + IF Month(doy) <= 2 THEN 1 ELSE 0,
   month |-> Month(doy), day |-> DayOfMonth(doy)]

CivilFromDays(days) ==
  LET z == days + 719468
      era == z \div 146097
      doe == z - era * 146097
  IN DateOf(YearOfEra(doe) + era * 400, DayOfYear(doe))

\* format_certificate_time, the fields it prints for a day and a second of it.
CertificateFields(days, rem) ==
  [date |-> CivilFromDays(days),
   hour |-> rem \div 3600, minute |-> (rem % 3600) \div 60, second |-> rem % 60]

-----------------------------------------------------------------------------
(* The Gregorian calendar, as toISOString prints it.                       *)

IsLeap(y) == y % 4 = 0 /\ (y % 100 # 0 \/ y % 400 = 0)

DaysInMonth(y, m) ==
  IF m = 2 THEN IF IsLeap(y) THEN 29 ELSE 28
  ELSE IF m \in {4, 6, 9, 11} THEN 30 ELSE 31

IsDate(d) ==
  d.year >= 1970 /\ d.month \in 1..12 /\ d.day \in 1..DaysInMonth(d.year, d.month)

NextDate(d) ==
  IF d.day < DaysInMonth(d.year, d.month) THEN [d EXCEPT !.day = @ + 1]
  ELSE IF d.month < 12 THEN [year |-> d.year, month |-> d.month + 1, day |-> 1]
  ELSE [year |-> d.year + 1, month |-> 1, day |-> 1]
=============================================================================
