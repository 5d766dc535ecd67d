--------------------------- MODULE ScheduleProofs ---------------------------
(***************************************************************************)
(* Schedule: how long the scheduler sleeps, and when it wakes, for every   *)
(* time the service may start and every value of UPDATE_UTC_HOUR.          *)
(***************************************************************************)
EXTENDS Schedule, FilterProofs

(* The one fact of division the proofs rest on, for a day and for a week. *)
LEMMA DayQuotient ==
  ASSUME NEW t \in Int
  PROVE  /\ t \div 86400 \in Int
         /\ (t \div 86400) * 86400 <= t
         /\ t < (t \div 86400) * 86400 + 86400
BY SMT

LEMMA DayRemainder ==
  ASSUME NEW t \in Int, NEW k \in Int, NEW r \in Nat, r < 86400, t = 86400 * k + r
  PROVE  t % 86400 = r
BY SMT

LEMMA WeekRemainder ==
  ASSUME NEW t \in Int, NEW k \in Int, t = 7 * k
  PROVE  t % 7 = 0
BY SMT

(* A clock is ahead of UTC by whole hours; which is all that the timetable
   needs to know of it. *)
LEMMA OffsetTyped ==
  ASSUME NEW t \in Int
  PROVE  Offset(t) \in Int
BY SMT DEF Offset, EasternOffset

LEMMA SecondTyped ==
  ASSUME hour \in Override
  PROVE  Second \in Nat /\ Second <= 82800
<1>1. CASE hour = Unset
  BY <1>1, SMT DEF Second
<1>2. CASE hour # Unset
  <2>1. hour \in Int
    BY <1>2, ScheduleAssumption
  <2>2. hour % 24 \in Nat /\ hour % 24 < 24
    BY <2>1, SMT
  <2> QED BY <1>2, <2>2, SMT DEF Second
<1> QED BY <1>1, <1>2

(* At x the clock shows the second s of some day, or one of the minute after. *)
Shows(x, s) ==
  \E k \in Int : \E r \in Nat : r < 60 /\ x = k * 86400 + s + r

(* From any time to a second of the day: between a minute and a day; and at the
   end of it the clock shows that second, or one of the minute after it. *)
LEMMA UntilBounds ==
  ASSUME NEW t \in Int, NEW s \in Nat, s < 86400
  PROVE  /\ Until(t, s) \in Int /\ 60 <= Until(t, s) /\ Until(t, s) <= 86400
         /\ Shows(t + Until(t, s), s)
<1> DEFINE q == t \div 86400
<1>1. q \in Int /\ q * 86400 <= t /\ t < q * 86400 + 86400
  BY DayQuotient
<1>2. Until(t, s) = AtLeast((IF q * 86400 + s <= t THEN q * 86400 + s + 86400
                             ELSE q * 86400 + s) - t, 60)
  BY SMT DEF Until, Day, Slack
<1> HIDE DEF q
<1> DEFINE b == q * 86400
<1>3. b \in Int
  BY <1>1, SMT
<1>4. /\ Until(t, s) \in Int /\ 60 <= Until(t, s) /\ Until(t, s) <= 86400
      /\ \/ b + s <= t + Until(t, s) /\ t + Until(t, s) < b + s + 60
         \/ b + s + 86400 <= t + Until(t, s) /\ t + Until(t, s) < b + s + 86460
  <2>1. b <= t /\ t < b + 86400
    BY <1>1
  <2>2. Until(t, s) = AtLeast((IF b + s <= t THEN b + s + 86400 ELSE b + s) - t, 60)
    BY <1>2
  <2> HIDE DEF b
  <2> QED BY <1>3, <2>1, <2>2, SMT DEF AtLeast
<1> DEFINE r == t + Until(t, s) - (b + s)
<1>5. CASE r \in Nat /\ r < 60
  <2>1. t + Until(t, s) = q * 86400 + s + r
    BY <1>1, <1>3, <1>4, SMT
  <2> QED BY <1>1, <1>4, <1>5, <2>1 DEF Shows
<1>6. CASE r - 86400 \in Nat /\ r - 86400 < 60
  <2>1. t + Until(t, s) = (q + 1) * 86400 + s + (r - 86400)
    BY <1>1, <1>3, <1>4, SMT
  <2>2. q + 1 \in Int
    BY <1>1
  <2> HIDE DEF r
  <2> QED BY <1>4, <1>6, <2>1, <2>2 DEF Shows
<1>7. (r \in Nat /\ r < 60) \/ (r - 86400 \in Nat /\ r - 86400 < 60)
  BY <1>3, <1>4, SMT
<1> QED BY <1>5, <1>6, <1>7

(* The sleep is between a minute and a day, whatever the clock shows. *)
THEOREM SleepBounds ==
  ASSUME NEW t \in Int, hour \in Override
  PROVE  SecsUntilNextRun(t) \in Int /\ 60 <= SecsUntilNextRun(t) /\ SecsUntilNextRun(t) <= 86400
<1>1. t + Offset(t) \in Int
  BY OffsetTyped
<1>2. Second \in Nat /\ Second < 86400
  BY SecondTyped, SMT
<1> QED BY <1>1, <1>2, UntilBounds DEF SecsUntilNextRun

(* The n-th Sunday of a month is a Sunday, and in the n-th week of it. *)
THEOREM NthSundayIsSunday ==
  ASSUME NEW y \in Int, NEW m \in 1..12, NEW n \in 1..5
  PROVE  /\ (DaysFromCivil(y, m, NthSunday(y, m, n)) + 4) % 7 = 0
         /\ NthSunday(y, m, n) \in (7 * (n - 1) + 1)..(7 * n)
<1> DEFINE first == DaysFromCivil(y, m, 1)
           wd == (first + 4) % 7
           gap == IF wd = 0 THEN 0 ELSE 7 - wd
<1>1. first \in Int
  BY DEF DaysFromCivil
<1>2. \A d \in Int : DaysFromCivil(y, m, d) = first + d - 1
  BY DEF DaysFromCivil
<1>3. wd \in 0..6 /\ \E k \in Int : first + 4 = 7 * k + wd
  BY <1>1
<1>4. NthSunday(y, m, n) = 1 + ((0 - wd) % 7) + (n - 1) * 7
  BY DEF NthSunday
<1> HIDE DEF first, wd
<1>5. (0 - wd) % 7 = gap /\ gap \in 0..6
  BY <1>3
<1> HIDE DEF gap
<1>6. NthSunday(y, m, n) = 1 + gap + (n - 1) * 7
  BY <1>4, <1>5
<1>7. NthSunday(y, m, n) \in (7 * (n - 1) + 1)..(7 * n)
  BY <1>5, <1>6
<1>8. DaysFromCivil(y, m, NthSunday(y, m, n)) + 4 = first + 4 + gap + (n - 1) * 7
  BY <1>1, <1>2, <1>5, <1>6
<1>9. PICK k \in Int : first + 4 = 7 * k + wd
  BY <1>3
<1>10. wd + gap = 0 \/ wd + gap = 7
  BY <1>3 DEF gap
<1>11. \E j \in Int : DaysFromCivil(y, m, NthSunday(y, m, n)) + 4 = 7 * j
  <2> DEFINE sunday == DaysFromCivil(y, m, NthSunday(y, m, n)) + 4
  <2>1. sunday = 7 * k + wd + gap + 7 * (n - 1)
    BY <1>1, <1>3, <1>5, <1>8, <1>9, SMT
  <2> HIDE DEF sunday
  <2>2. k + n \in Int /\ k + n - 1 \in Int
    OBVIOUS
  <2>3. sunday = 7 * (k + n - 1) \/ sunday = 7 * (k + n)
    BY <1>3, <1>5, <1>10, <2>1, SMT
  <2>4. \E j \in Int : sunday = 7 * j
    BY <2>2, <2>3
  <2> QED BY <2>4 DEF sunday
<1>12. DaysFromCivil(y, m, NthSunday(y, m, n)) + 4 \in Int
  BY <1>1, <1>5, <1>8
<1>13. (DaysFromCivil(y, m, NthSunday(y, m, n)) + 4) % 7 = 0
  BY <1>11, <1>12, WeekRemainder
<1> QED BY <1>7, <1>13
-----------------------------------------------------------------------------
(* The year of its era of 400 years, counted from March, that a day of the era is in. *)
YearOfEra(doe) == (doe - doe \div 1460 + doe \div 36524 - doe \div 146096) \div 365

LEMMA Centuries ==
  ASSUME NEW n \in Nat
  PROVE  \E c \in Nat : \E e \in Nat : e < 36524 /\ n = 36524 * c + e
<1>1. /\ n \div 36524 \in Nat /\ n % 36524 \in Nat /\ n % 36524 < 36524
      /\ n = 36524 * (n \div 36524) + (n % 36524)
  BY SMT
<1> WITNESS n \div 36524 \in Nat
<1> WITNESS n % 36524 \in Nat
<1> QED BY <1>1

LEMMA Quadrennia ==
  ASSUME NEW n \in Nat
  PROVE  \E q \in Nat : \E h \in Nat : h < 1461 /\ n = 1461 * q + h
<1>1. /\ n \div 1461 \in Nat /\ n % 1461 \in Nat /\ n % 1461 < 1461
      /\ n = 1461 * (n \div 1461) + (n % 1461)
  BY SMT
<1> WITNESS n \div 1461 \in Nat
<1> WITNESS n % 1461 \in Nat
<1> QED BY <1>1

LEMMA YearOfEraBounds ==
  ASSUME NEW doe \in Nat, doe <= 146096
  PROVE  LET y == YearOfEra(doe)
         IN /\ y \in Nat /\ y <= 399
            /\ 365 * y + y \div 4 - y \div 100 <= doe
            /\ doe < 365 * (y + 1) + (y + 1) \div 4 - (y + 1) \div 100 + (y + 1) \div 400
<1>1. CASE doe = 146096
  <2>1. YearOfEra(doe) = 399
    BY <1>1, SMT DEF YearOfEra
  <2> QED BY <1>1, <2>1, SMT
<1>2. CASE doe < 146096
  <2>1. PICK c \in Nat, e \in Nat : e < 36524 /\ doe = 36524 * c + e
    BY Centuries
  <2>2. c <= 3
    BY <1>2, <2>1, SMT
  <2>3. PICK q \in Nat, h \in Nat : h < 1461 /\ e = 1461 * q + h
    BY Quadrennia
  <2>4. q <= 24 /\ (q = 24 => h < 1460)
    BY <2>1, <2>3, SMT
  <2> DEFINE g == IF q + 24 * c + h < 1460 THEN 0 ELSE 1
  <2>5. g \in 0..1 /\ doe \div 1460 = 25 * c + q + g
    BY <2>1, <2>2, <2>3, <2>4, SMT
  <2>6. doe \div 36524 = c /\ doe \div 146096 = 0
    BY <1>2, <2>1, SMT
  <2> DEFINE k == (h - g) \div 365
  <2>7. k \in Nat /\ k <= 3 /\ 365 * k <= h /\ h < 365 * (k + 1) + (IF k = 3 THEN 1 ELSE 0)
    BY <2>2, <2>3, <2>4, SMT
  <2>8. YearOfEra(doe) = 100 * c + 4 * q + k
    <3>1. YearOfEra(doe) = (365 * (100 * c + 4 * q) + (h - g)) \div 365
      <4> HIDE DEF g
      <4> QED BY <2>1, <2>2, <2>3, <2>5, <2>6, SMT DEF YearOfEra
    <3> QED BY <2>1, <2>2, <2>3, <2>5, <3>1, SMT
  <2> HIDE DEF k, g
  <2> DEFINE y == 100 * c + 4 * q + k
  <2>9. y \in Nat /\ y <= 399 /\ y \div 4 = 25 * c + q /\ y \div 100 = c
    BY <2>2, <2>4, <2>7, SMT
  <2>10. (y + 1) \div 4 = 25 * c + q + (IF k = 3 THEN 1 ELSE 0)
    BY <2>7, SMT
  <2>11. /\ (y + 1) \div 100 = c + (IF q = 24 /\ k = 3 THEN 1 ELSE 0)
         /\ (y + 1) \div 400 = IF c = 3 /\ q = 24 /\ k = 3 THEN 1 ELSE 0
    BY <2>2, <2>4, <2>7, SMT
  <2>12. 365 * y + y \div 4 - y \div 100 <= doe
    BY <2>1, <2>3, <2>7, <2>9, SMT
  <2>13. doe < 365 * (y + 1) + (y + 1) \div 4 - (y + 1) \div 100 + (y + 1) \div 400
    BY <2>1, <2>3, <2>4, <2>7, <2>10, <2>11, SMT
  <2> QED BY <2>8, <2>9, <2>12, <2>13
<1> QED BY <1>1, <1>2

(* The first of March of year y, in days since 1970-01-01: the closed form that
   days_from_civil and civil_from_days are compared with. *)
March(y) == 365 * y + y \div 4 - y \div 100 + y \div 400 - 719468

LEMMA MarchTyped == \A y \in Int : March(y) \in Int
BY SMT DEF March

LEMMA DaysFromCivilMarch ==
  ASSUME NEW y \in Int, NEW m \in 3..12, NEW d \in Int
  PROVE  DaysFromCivil(y, m, d) = March(y) + (153 * (m - 3) + 2) \div 5 + d - 1
BY SMTT(60) DEF DaysFromCivil, March

LEMMA DaysFromCivilWinter ==
  ASSUME NEW y \in Int, NEW m \in 1..2, NEW d \in Int
  PROVE  DaysFromCivil(y, m, d) = March(y - 1) + (IF m = 1 THEN 306 ELSE 337) + d - 1
BY SMTT(60) DEF DaysFromCivil, March

LEMMA MarchNext ==
  ASSUME NEW y \in Int
  PROVE  March(y + 1) = March(y) + (IF Leap(y + 1) THEN 366 ELSE 365)
BY SMTT(60) DEF March, Leap

(* March the first is later in a later year. *)
LEMMA MarchGrows ==
  ASSUME NEW x \in Int, NEW y \in Int, x < y
  PROVE  March(x + 1) <= March(y)
BY SMTT(60) DEF March

(* The year in whose twelve months from March on day z lies. *)
MarchYear(z) ==
  LET era == (z + 719468) \div 146097
  IN YearOfEra(z + 719468 - era * 146097) + 400 * era

LEMMA MarchYearBounds ==
  ASSUME NEW z \in Int
  PROVE  /\ MarchYear(z) \in Int
         /\ March(MarchYear(z)) <= z /\ z < March(MarchYear(z) + 1)
<1> DEFINE era == (z + 719468) \div 146097
           doe == z + 719468 - era * 146097
           y == YearOfEra(doe)
<1>1. era \in Int /\ doe \in Nat /\ doe <= 146096
  BY SMT
<1> HIDE DEF doe
<1>2. /\ y \in Nat /\ y <= 399
      /\ 365 * y + y \div 4 - y \div 100 <= doe
      /\ doe < 365 * (y + 1) + (y + 1) \div 4 - (y + 1) \div 100 + (y + 1) \div 400
  BY <1>1, YearOfEraBounds, SMT
<1>3. MarchYear(z) = y + 400 * era
  BY SMT DEF MarchYear, doe
<1>4. z = doe + era * 146097 - 719468
  BY <1>1, SMT DEF doe
<1> HIDE DEF era, y
<1>5. March(y + 400 * era) = 365 * y + y \div 4 - y \div 100 + 146097 * era - 719468
  BY <1>1, <1>2, SMT DEF March
<1>6. March(y + 400 * era + 1)
        = 365 * (y + 1) + (y + 1) \div 4 - (y + 1) \div 100 + (y + 1) \div 400
          + 146097 * era - 719468
  BY <1>1, <1>2, SMT DEF March
<1>7. y + 400 * era \in Int
  BY <1>1, <1>2
<1> QED BY <1>1, <1>2, <1>3, <1>4, <1>5, <1>6, <1>7, SMT

LEMMA MarchYearOnly ==
  ASSUME NEW z \in Int, NEW y \in Int, March(y) <= z, z < March(y + 1)
  PROVE  MarchYear(z) = y
<1>1. /\ MarchYear(z) \in Int
      /\ March(MarchYear(z)) <= z /\ z < March(MarchYear(z) + 1)
  BY MarchYearBounds
<1>2. /\ March(MarchYear(z)) \in Int /\ March(MarchYear(z) + 1) \in Int
      /\ March(y) \in Int /\ March(y + 1) \in Int
  BY <1>1, MarchTyped
<1>3. ~ (MarchYear(z) < y)
  BY <1>1, <1>2, MarchGrows
<1>4. ~ (y < MarchYear(z))
  BY <1>1, <1>2, MarchGrows
<1> QED BY <1>1, <1>3, <1>4

(* The date of the day of a year that begins in March. *)
DateOf(y, doy) ==
  LET mp == (5 * doy + 2) \div 153
      d == doy - (153 * mp + 2) \div 5 + 1
      m == IF mp < 10 THEN mp + 3 ELSE mp - 9
  IN <<IF m <= 2 THEN y + 1 ELSE y, m, d>>

LEMMA CivilFromDaysIs ==
  ASSUME NEW z \in Int
  PROVE  CivilFromDays(z) = DateOf(MarchYear(z), z - March(MarchYear(z)))
<1> DEFINE era == (z + 719468) \div 146097
           doe == z + 719468 - era * 146097
           yoe == YearOfEra(doe)
           doy == doe - (365 * yoe + yoe \div 4 - yoe \div 100)
<1>1. era \in Int /\ doe \in Nat /\ doe <= 146096
  BY SMT
<1> HIDE DEF doe
<1>2. yoe \in Nat /\ yoe <= 399
  BY <1>1, YearOfEraBounds, SMT
<1>3. MarchYear(z) = yoe + era * 400
  BY <1>1, <1>2, SMT DEF MarchYear, doe
<1>4. CivilFromDays(z) = DateOf(yoe + era * 400, doy)
  BY SMT DEF CivilFromDays, DateOf, YearOfEra, doe
<1>5. z = doe + era * 146097 - 719468
  BY <1>1, SMT DEF doe
<1>6. doy = z - March(yoe + era * 400)
  <2> HIDE DEF era, yoe
  <2>1. March(yoe + era * 400) = 365 * yoe + yoe \div 4 - yoe \div 100 + 146097 * era - 719468
    BY <1>1, <1>2, SMT DEF March
  <2> QED BY <1>1, <1>2, <1>5, <2>1, SMT
<1> HIDE DEF era, yoe, doy
<1> QED BY <1>3, <1>4, <1>6

(* The months of a year that begins in March, and the day each begins at. *)
LEMMA MonthOfDay ==
  ASSUME NEW doy \in Nat, doy <= 365
  PROVE  LET mp == (5 * doy + 2) \div 153
         IN /\ mp \in 0..11
            /\ (153 * mp + 2) \div 5 <= doy /\ doy < (153 * (mp + 1) + 2) \div 5
BY SMT

(* The first day of the mp-th month after March, counted from the first of March. *)
FirstDay(mp) == (153 * mp + 2) \div 5

LEMMA FirstDays ==
  /\ FirstDay(0) = 0 /\ FirstDay(1) = 31 /\ FirstDay(2) = 61 /\ FirstDay(3) = 92
  /\ FirstDay(4) = 122 /\ FirstDay(5) = 153 /\ FirstDay(6) = 184 /\ FirstDay(7) = 214
  /\ FirstDay(8) = 245 /\ FirstDay(9) = 275 /\ FirstDay(10) = 306 /\ FirstDay(11) = 337
  /\ FirstDay(12) = 367
BY SMT DEF FirstDay

LEMMA DateOfMonth ==
  ASSUME NEW y \in Int, NEW doy \in Nat, NEW mp \in 0..11,
         doy <= 365, FirstDay(mp) <= doy, doy < FirstDay(mp + 1)
  PROVE  DateOf(y, doy) = <<IF mp < 10 THEN y ELSE y + 1,
                            IF mp < 10 THEN mp + 3 ELSE mp - 9, doy - FirstDay(mp) + 1>>
<1>1. (5 * doy + 2) \div 153 = mp
  BY SMT DEF FirstDay
<1> QED BY <1>1, SMT DEF DateOf, FirstDay

LEMMA TomorrowIs ==
  ASSUME NEW y, NEW m, NEW d
  PROVE  Tomorrow(<<y, m, d>>) = IF d < MonthLength(y, m) THEN <<y, m, d + 1>>
                                 ELSE IF m < 12 THEN <<y, m + 1, 1>> ELSE <<y + 1, 1, 1>>
BY DEF Tomorrow

LEMMA DateOfNext ==
  ASSUME NEW y \in Int, NEW doy \in Nat, doy < (IF Leap(y + 1) THEN 365 ELSE 364)
  PROVE  DateOf(y, doy + 1) = Tomorrow(DateOf(y, doy))
<1> DEFINE next == doy + 1
<1>1. PICK mp \in 0..11 : FirstDay(mp) <= doy /\ doy < FirstDay(mp + 1)
  BY MonthOfDay, SMT DEF FirstDay
<1> DEFINE year == IF mp < 10 THEN y ELSE y + 1
           month == IF mp < 10 THEN mp + 3 ELSE mp - 9
           day == doy - FirstDay(mp) + 1
<1>2. DateOf(y, doy) = <<year, month, day>>
  BY <1>1, DateOfMonth
<1>3. FirstDay(mp) \in Int /\ FirstDay(mp + 1) \in Int /\ FirstDay(mp + 2) \in Int
  BY SMT DEF FirstDay
<1>4. next \in Nat /\ next <= 365 /\ FirstDay(mp) <= next
  BY <1>1, <1>3, SMT
<1>5. CASE next < FirstDay(mp + 1)
  <2>1. DateOf(y, next) = <<year, month, next - FirstDay(mp) + 1>>
    <3> HIDE DEF next
    <3> QED BY <1>4, <1>5, DateOfMonth
  <2>2. next - FirstDay(mp) + 1 = day + 1
    BY <1>3, SMT
  <2>3. day < MonthLength(year, month)
    BY <1>1, <1>5, FirstDays, SMT DEF MonthLength
  <2> HIDE DEF year, month, day, next
  <2>4. Tomorrow(<<year, month, day>>) = <<year, month, day + 1>>
    BY <2>3, TomorrowIs
  <2>5. DateOf(y, next) = Tomorrow(DateOf(y, doy))
    BY <1>2, <2>1, <2>2, <2>4
  <2> QED BY <2>5 DEF next
<1>6. CASE next = FirstDay(mp + 1)
  <2>1. mp < 11
    BY <1>1, <1>6, FirstDays, SMT
  <2>2. mp + 1 \in 0..11 /\ next < FirstDay(mp + 1 + 1)
    BY <1>6, <2>1, SMT DEF FirstDay
  <2> DEFINE mp2 == mp + 1
             year2 == IF mp2 < 10 THEN y ELSE y + 1
             month2 == IF mp2 < 10 THEN mp2 + 3 ELSE mp2 - 9
  <2>3. DateOf(y, next) = <<year2, month2, 1>>
    <3>1. mp2 \in 0..11 /\ FirstDay(mp2) <= next /\ next < FirstDay(mp2 + 1)
      BY <1>3, <1>6, <2>2
    <3>2. next - FirstDay(mp2) + 1 = 1
      BY <1>3, <1>6, SMT
    <3> HIDE DEF next, mp2
    <3>3. DateOf(y, next) = <<year2, month2, next - FirstDay(mp2) + 1>>
      BY <1>4, <3>1, DateOfMonth
    <3> QED BY <3>2, <3>3
  <2>4. day = MonthLength(year, month)
    BY <1>1, <1>6, <2>1, FirstDays, SMT DEF MonthLength
  <2>5. /\ month = 12 => year2 = year + 1 /\ month2 = 1
        /\ month # 12 => month < 12 /\ year2 = year /\ month2 = month + 1
    BY <2>1, SMT
  <2>6. day \in Int /\ month \in Int
    BY <1>3, SMT
  <2> HIDE DEF year, month, day, next, mp2, year2, month2
  <2>7. Tomorrow(<<year, month, day>>)
          = IF month < 12 THEN <<year, month + 1, 1>> ELSE <<year + 1, 1, 1>>
    <3>1. ~ (day < MonthLength(year, month))
      BY <2>4, <2>6, SMT
    <3> QED BY <3>1, TomorrowIs, ZenonT(60)
  <2>8. DateOf(y, next) = Tomorrow(DateOf(y, doy))
    <3>1. month < 12 => <<year, month + 1, 1>> = <<year2, month2, 1>>
      BY <2>5, <2>6
    <3>2. ~ (month < 12) => <<year + 1, 1, 1>> = <<year2, month2, 1>>
      BY <2>5
    <3>3. Tomorrow(<<year, month, day>>) = <<year2, month2, 1>>
      BY <2>7, <3>1, <3>2
    <3> QED BY <1>2, <2>3, <3>3
  <2> QED BY <2>8 DEF next
<1>7. next < FirstDay(mp + 1) \/ next = FirstDay(mp + 1)
  BY <1>1, <1>3, SMT
<1> QED BY <1>5, <1>6, <1>7

LEMMA DateOfLast ==
  ASSUME NEW y \in Int, NEW doy \in Nat, doy = (IF Leap(y + 1) THEN 365 ELSE 364)
  PROVE  DateOf(y + 1, 0) = Tomorrow(DateOf(y, doy))
BY SMT DEF DateOf, Tomorrow, MonthLength

LEMMA DateOfNumber ==
  ASSUME NEW y \in Int, NEW doy \in Nat, doy <= 365
  PROVE  LET date == DateOf(y, doy)
         IN DaysFromCivil(date[1], date[2], date[3]) = March(y) + doy
<1>1. PICK mp \in 0..11 : FirstDay(mp) <= doy /\ doy < FirstDay(mp + 1)
  BY MonthOfDay, SMT DEF FirstDay
<1>2. DateOf(y, doy) = <<IF mp < 10 THEN y ELSE y + 1,
                         IF mp < 10 THEN mp + 3 ELSE mp - 9, doy - FirstDay(mp) + 1>>
  BY <1>1, DateOfMonth
<1>3. FirstDay(mp) \in Int /\ March(y) \in Int
  BY MarchTyped, SMT DEF FirstDay
<1>4. CASE mp < 10
  <2> DEFINE m == mp + 3
             d == doy - FirstDay(mp) + 1
  <2>1. m \in 3..12 /\ d \in Int
    BY <1>3, <1>4, SMT
  <2>0. FirstDay(mp) = (153 * (m - 3) + 2) \div 5
    BY <1>3, <1>4, SMT DEF FirstDay
  <2>2. DateOf(y, doy) = <<y, m, d>>
    BY <1>2, <1>4
  <2>3. FirstDay(mp) + d - 1 = doy
    BY <1>3, SMT
  <2> HIDE DEF m, d
  <2>4. DaysFromCivil(y, m, d) = March(y) + (153 * (m - 3) + 2) \div 5 + d - 1
    BY <2>1, DaysFromCivilMarch, ZenonT(30)
  <2> QED BY <1>3, <2>0, <2>1, <2>2, <2>3, <2>4, SMT
<1>5. CASE mp >= 10
  <2> DEFINE m == mp - 9
             d == doy - FirstDay(mp) + 1
             x == y + 1
  <2>1. m \in 1..2 /\ d \in Int /\ FirstDay(mp) = (IF m = 1 THEN 306 ELSE 337)
    BY <1>3, <1>5, FirstDays, SMT
  <2>2. DateOf(y, doy) = <<x, m, d>>
    BY <1>2, <1>5, SMT
  <2>3. FirstDay(mp) + d - 1 = doy
    BY <1>3, SMT
  <2>4. x \in Int /\ x - 1 = y
    BY SMT
  <2> HIDE DEF m, d, x
  <2>5. DaysFromCivil(x, m, d) = March(x - 1) + (IF m = 1 THEN 306 ELSE 337) + d - 1
    BY <2>1, <2>4, DaysFromCivilWinter
  <2> QED BY <1>3, <2>1, <2>2, <2>3, <2>4, <2>5, SMT
<1> QED BY <1>4, <1>5, SMT

LEMMA CivilFromDaysIn ==
  ASSUME NEW z \in Int, NEW y \in Int, NEW doy \in Nat,
         z = March(y) + doy, z < March(y + 1)
  PROVE  CivilFromDays(z) = DateOf(y, doy)
<1>1. March(y) \in Int /\ March(y) <= z
  BY MarchTyped, SMT
<1>2. MarchYear(z) = y
  BY <1>1, MarchYearOnly
<1>3. z - March(y) = doy
  BY <1>1, SMT
<1> QED BY <1>2, <1>3, CivilFromDaysIs

(* Day numbers and dates are one and the same calendar. *)
THEOREM CalendarSteps ==
  ASSUME NEW z \in Int
  PROVE  /\ CivilFromDays(z + 1) = Tomorrow(CivilFromDays(z))
         /\ LET date == CivilFromDays(z)
            IN DaysFromCivil(date[1], date[2], date[3]) = z
<1> DEFINE y == MarchYear(z)
           doy == z - March(y)
<1>1. y \in Int /\ March(y) \in Int /\ March(y) <= z /\ z < March(y + 1)
  BY MarchYearBounds, MarchTyped
<1> HIDE DEF y
<1>2. March(y + 1) = March(y) + (IF Leap(y + 1) THEN 366 ELSE 365)
  BY <1>1, MarchNext
<1>3. doy \in Nat /\ doy <= 365 /\ z = March(y) + doy
  BY <1>1, <1>2, SMT
<1>4. CivilFromDays(z) = DateOf(y, doy)
  BY CivilFromDaysIs DEF y
<1>5. ASSUME z + 1 < March(y + 1) PROVE CivilFromDays(z + 1) = Tomorrow(CivilFromDays(z))
  <2>1. z + 1 \in Int /\ doy + 1 \in Nat /\ z + 1 = March(y) + (doy + 1)
    BY <1>1, <1>3, SMT
  <2>2. CivilFromDays(z + 1) = DateOf(y, doy + 1)
    BY <1>1, <1>5, <2>1, CivilFromDaysIn
  <2>3. doy < (IF Leap(y + 1) THEN 365 ELSE 364)
    BY <1>1, <1>2, <1>5, SMT
  <2> HIDE DEF doy
  <2>4. DateOf(y, doy + 1) = Tomorrow(DateOf(y, doy))
    BY <1>1, <1>3, <2>3, DateOfNext
  <2> QED BY <1>4, <2>2, <2>4
<1>6. ASSUME z + 1 = March(y + 1) PROVE CivilFromDays(z + 1) = Tomorrow(CivilFromDays(z))
  <2>1. March(y + 1) < March(y + 1 + 1)
    BY <1>1, MarchNext, MarchTyped, SMT
  <2>2. z + 1 \in Int /\ y + 1 \in Int /\ z + 1 = March(y + 1) + 0
    BY <1>1, <1>6, SMT
  <2>3. CivilFromDays(z + 1) = DateOf(y + 1, 0)
    BY <1>6, <2>1, <2>2, CivilFromDaysIn
  <2>4. doy = (IF Leap(y + 1) THEN 365 ELSE 364)
    BY <1>1, <1>2, <1>6, SMT
  <2> HIDE DEF doy
  <2>5. DateOf(y + 1, 0) = Tomorrow(DateOf(y, doy))
    BY <1>1, <1>3, <2>4, DateOfLast
  <2> QED BY <1>4, <2>3, <2>5
<1>7. z + 1 < March(y + 1) \/ z + 1 = March(y + 1)
  BY <1>1, MarchTyped, SMT
<1>8. CivilFromDays(z + 1) = Tomorrow(CivilFromDays(z))
  BY <1>5, <1>6, <1>7
<1>9. LET date == CivilFromDays(z) IN DaysFromCivil(date[1], date[2], date[3]) = z
  <2> HIDE DEF doy
  <2> QED BY <1>1, <1>3, <1>4, DateOfNumber
<1> QED BY <1>8, <1>9
LEMMA YearBegins ==
  ASSUME NEW y \in Int
  PROVE  DaysFromCivil(y, 1, 1) = March(y - 1) + 306
BY SMTT(60) DEF DaysFromCivil, March

(* The year of a day, by its first of January. *)
LEMMA YearOf ==
  ASSUME NEW z \in Int
  PROVE  LET y == CivilFromDays(z)[1]
         IN y \in Int /\ March(y - 1) + 306 <= z /\ z < March(y) + 306
<1> DEFINE x == MarchYear(z)
           doy == z - March(x)
           y == CivilFromDays(z)[1]
<1>1. x \in Int /\ March(x) \in Int /\ March(x) <= z /\ z < March(x + 1)
  BY MarchYearBounds, MarchTyped
<1>2. CivilFromDays(z) = DateOf(x, doy)
  BY CivilFromDaysIs
<1> HIDE DEF x
<1>3. /\ March(x + 1) = March(x) + (IF Leap(x + 1) THEN 366 ELSE 365)
      /\ March(x) = March(x - 1) + (IF Leap(x) THEN 366 ELSE 365)
  <2>1. March(x - 1 + 1) = March(x - 1) + (IF Leap(x - 1 + 1) THEN 366 ELSE 365)
    BY <1>1, MarchNext
  <2>2. x - 1 + 1 = x
    BY <1>1
  <2> QED BY <1>1, <2>1, <2>2, MarchNext
<1>4. doy \in Nat /\ doy <= 365 /\ z = March(x) + doy
  BY <1>1, <1>3, SMT
<1>5. March(x - 1) \in Int
  BY <1>1, MarchTyped
<1> HIDE DEF doy
<1>6. y = IF doy < 306 THEN x ELSE x + 1
  BY <1>1, <1>2, <1>4, SMT DEF DateOf
<1> HIDE DEF y
<1>7. CASE doy < 306
  BY <1>1, <1>3, <1>4, <1>5, <1>6, <1>7, SMT DEF y
<1>8. CASE doy >= 306
  <2>1. y = x + 1 /\ y - 1 = x
    BY <1>1, <1>4, <1>6, <1>8, SMT
  <2> QED BY <1>1, <1>3, <1>4, <1>8, <2>1, SMT DEF y
<1> QED BY <1>4, <1>7, <1>8

LEMMA YearOnly ==
  ASSUME NEW z \in Int, NEW y \in Int, March(y - 1) + 306 <= z, z < March(y) + 306
  PROVE  CivilFromDays(z)[1] = y
<1> DEFINE x == CivilFromDays(z)[1]
<1>1. x \in Int /\ March(x - 1) + 306 <= z /\ z < March(x) + 306
  BY YearOf
<1> HIDE DEF x
<1>2. /\ March(x) \in Int /\ March(x - 1) \in Int
      /\ March(y) \in Int /\ March(y - 1) \in Int
  BY <1>1, MarchTyped
<1>3. ~ (x < y)
  <2>1. SUFFICES ASSUME x < y PROVE FALSE
    OBVIOUS
  <2>2. y - 1 \in Int /\ (x < y - 1 \/ x = y - 1)
    BY <1>1, <2>1
  <2>3. x < y - 1 => March(x + 1) <= March(y - 1)
    BY <1>1, <2>2, MarchGrows
  <2>4. March(x) < March(x + 1) /\ March(x + 1) \in Int
    BY <1>1, MarchNext, MarchTyped, SMT
  <2> QED BY <1>1, <1>2, <2>2, <2>3, <2>4, SMT
<1>4. ~ (y < x)
  <2>1. SUFFICES ASSUME y < x PROVE FALSE
    OBVIOUS
  <2>2. x - 1 \in Int /\ (y < x - 1 \/ y = x - 1)
    BY <1>1, <2>1
  <2>3. y < x - 1 => March(y + 1) <= March(x - 1)
    BY <1>1, <2>2, MarchGrows
  <2>4. March(y) < March(y + 1) /\ March(y + 1) \in Int
    BY <1>1, MarchNext, MarchTyped, SMT
  <2> QED BY <1>1, <1>2, <2>2, <2>3, <2>4, SMT
<1> QED BY <1>1, <1>3, <1>4 DEF x

(* The leap years among the first n years since 1970. *)
LeapYears(n) == {k \in 1970..(1970 + n - 1) : Leap(k)}

(* The first of January of a year, by counting the leap years since 1970. *)
LEMMA LeapYearsCount ==
  ASSUME NEW n \in Nat
  PROVE  March(1969 + n) + 306 = 365 * n + Cardinality(LeapYears(n))
<1> DEFINE T == {k \in Nat : /\ IsFiniteSet(LeapYears(k))
                             /\ March(1969 + k) + 306 = 365 * k + Cardinality(LeapYears(k))}
<1>1. 0 \in T
  <2>1. LeapYears(0) = {}
    BY SMT DEF LeapYears
  <2>2. IsFiniteSet(LeapYears(0)) /\ Cardinality(LeapYears(0)) = 0
    BY <2>1, FS_EmptySet, Zenon
  <2>3. March(1969 + 0) + 306 = 0
    BY SMT DEF March
  <2> QED BY <2>2, <2>3, SMT
<1>2. ASSUME NEW k \in Nat, k \in T PROVE k + 1 \in T
  <2>1. /\ IsFiniteSet(LeapYears(k)) /\ Cardinality(LeapYears(k)) \in Nat
        /\ March(1969 + k) + 306 = 365 * k + Cardinality(LeapYears(k))
    BY <1>2, FS_CardinalityType
  <2>2. March(1969 + k + 1) = March(1969 + k) + (IF Leap(1970 + k) THEN 366 ELSE 365)
    <3>1. 1969 + k \in Int /\ 1969 + k + 1 = 1970 + k
      OBVIOUS
    <3>2. March(1969 + k + 1) = March(1969 + k) + (IF Leap(1969 + k + 1) THEN 366 ELSE 365)
      BY <3>1, MarchNext
    <3> QED BY <3>1, <3>2
  <2>3. 1969 + (k + 1) = 1969 + k + 1 /\ March(1969 + k) \in Int
    BY MarchTyped
  <2>4. CASE Leap(1970 + k)
    <3>1. LeapYears(k + 1) = LeapYears(k) \cup {1970 + k} /\ 1970 + k \notin LeapYears(k)
      BY <2>4, SMT DEF LeapYears
    <3>2. /\ IsFiniteSet(LeapYears(k + 1))
          /\ Cardinality(LeapYears(k + 1)) = Cardinality(LeapYears(k)) + 1
      <4> DEFINE before == LeapYears(k)
                 year == 1970 + k
      <4>1. IsFiniteSet(before) /\ year \notin before /\ LeapYears(k + 1) = before \cup {year}
        BY <2>1, <3>1
      <4> HIDE DEF before, year
      <4>2. /\ IsFiniteSet(before \cup {year})
            /\ Cardinality(before \cup {year}) = Cardinality(before) + 1
        BY <4>1, FS_AddElement
      <4> QED BY <4>1, <4>2 DEF before
    <3>3. March(1969 + (k + 1)) + 306 = 365 * (k + 1) + Cardinality(LeapYears(k + 1))
      BY <2>1, <2>2, <2>3, <2>4, <3>2, SMT
    <3> QED BY <3>2, <3>3
  <2>5. CASE ~ Leap(1970 + k)
    <3>1. LeapYears(k + 1) = LeapYears(k)
      BY <2>5, SMT DEF LeapYears
    <3>2. March(1969 + (k + 1)) + 306 = 365 * (k + 1) + Cardinality(LeapYears(k + 1))
      BY <2>1, <2>2, <2>3, <2>5, <3>1, SMT
    <3> QED BY <2>1, <3>1, <3>2
  <2> QED BY <2>4, <2>5
<1> HIDE DEF T
<1>3. Nat \subseteq T
  BY <1>1, <1>2, NumberInduction
<1> QED BY <1>3 DEF T
-----------------------------------------------------------------------------
(* The days of a month are numbered one after the other. *)
LEMMA DaysOfMonth ==
  ASSUME NEW y \in Int, NEW m \in 1..12
  PROVE  /\ DaysFromCivil(y, m, 1) \in Int
         /\ \A d \in Int : DaysFromCivil(y, m, d) = DaysFromCivil(y, m, 1) + d - 1
BY SMT DEF DaysFromCivil

LEMMA SevenDays ==
  ASSUME NEW a \in Int, NEW b \in Int, a % 7 = 0, b % 7 = 0, a - b < 7, b - a < 7
  PROVE  a = b
BY SMT

(* Seven days have one Sunday. *)
LEMMA SundayOfIs ==
  ASSUME NEW y \in Int, NEW m \in 1..12, NEW e \in Int, NEW d \in e..(e + 6),
         (DaysFromCivil(y, m, d) + 4) % 7 = 0
  PROVE  SundayOf(y, m, e) = d
<1> DEFINE first == DaysFromCivil(y, m, 1)
<1>1. first \in Int /\ \A x \in Int : DaysFromCivil(y, m, x) = first + x - 1
  BY DaysOfMonth
<1> HIDE DEF first
<1>2. ASSUME NEW x \in e..(e + 6), (DaysFromCivil(y, m, x) + 4) % 7 = 0
      PROVE  x = d
  <2>1. /\ x \in Int /\ d \in Int /\ x - d < 7 /\ d - x < 7
    OBVIOUS
  <2> DEFINE a == first + x + 3
             b == first + d + 3
  <2>2. a \in Int /\ b \in Int /\ a - b < 7 /\ b - a < 7
    BY <1>1, <2>1, SMT
  <2>3. DaysFromCivil(y, m, x) + 4 = a /\ DaysFromCivil(y, m, d) + 4 = b
    BY <1>1, <2>1, SMT
  <2>4. a % 7 = 0 /\ b % 7 = 0
    BY <1>2, <2>3
  <2> HIDE DEF a, b
  <2>5. a = b
    BY <2>2, <2>4, SevenDays
  <2> QED BY <1>1, <2>1, <2>5, SMT DEF a, b
<1>3. \A x \in e..(e + 6) : (DaysFromCivil(y, m, x) + 4) % 7 = 0 <=> x = d
  BY <1>2
<1> QED BY <1>3, Zenon DEF SundayOf

(* The Sundays of the two changes of the clock. *)
SummerDay(y) == DaysFromCivil(y, 3, NthSunday(y, 3, 2))
WinterDay(y) == DaysFromCivil(y, 11, NthSunday(y, 11, 1))

LEMMA ClockSundays ==
  ASSUME NEW y \in Int
  PROVE  /\ NthSunday(y, 3, 2) = SundayOf(y, 3, 8)
         /\ NthSunday(y, 11, 1) = SundayOf(y, 11, 1)
         /\ SummerDay(y) \in Int /\ March(y) + 7 <= SummerDay(y) /\ SummerDay(y) <= March(y) + 13
         /\ WinterDay(y) \in Int
         /\ March(y) + 245 <= WinterDay(y) /\ WinterDay(y) <= March(y) + 251
<1> DEFINE s == NthSunday(y, 3, 2)
           w == NthSunday(y, 11, 1)
<1>1. s \in 8..(8 + 6) /\ (DaysFromCivil(y, 3, s) + 4) % 7 = 0
  <2>1. s \in (7 * (2 - 1) + 1)..(7 * 2) /\ (DaysFromCivil(y, 3, s) + 4) % 7 = 0
    BY NthSundayIsSunday, 3 \in 1..12, 2 \in 1..5
  <2> QED BY <2>1
<1>2. w \in 1..(1 + 6) /\ (DaysFromCivil(y, 11, w) + 4) % 7 = 0
  <2>1. w \in (7 * (1 - 1) + 1)..(7 * 1) /\ (DaysFromCivil(y, 11, w) + 4) % 7 = 0
    BY NthSundayIsSunday, 11 \in 1..12, 1 \in 1..5
  <2> QED BY <2>1
<1> HIDE DEF s, w
<1>3. SundayOf(y, 3, 8) = s
  BY <1>1, SundayOfIs, 3 \in 1..12, 8 \in Int
<1>4. SundayOf(y, 11, 1) = w
  BY <1>2, SundayOfIs, 11 \in 1..12, 1 \in Int
<1>5. DaysFromCivil(y, 3, s) = March(y) + s - 1
  BY <1>1, SMTT(60) DEF DaysFromCivil, March
<1>6. DaysFromCivil(y, 11, w) = March(y) + 245 + w - 1
  BY <1>2, SMTT(60) DEF DaysFromCivil, March
<1>7. March(y) \in Int
  BY MarchTyped
<1> QED BY <1>1, <1>2, <1>3, <1>4, <1>5, <1>6, <1>7, SMT DEF SummerDay, WinterDay, s, w

LEMMA EasternOffsetIs ==
  ASSUME NEW t \in Int
  PROVE  LET y == CivilFromDays(t \div Day)[1]
         IN EasternOffset(t) = IF /\ t >= SummerDay(y) * Day + 7 * 3600
                                  /\ t < WinterDay(y) * Day + 6 * 3600
                               THEN -4 * 3600 ELSE -5 * 3600
BY SMTT(60) DEF EasternOffset, SummerDay, WinterDay

(* The calendar and the clock of Schedule are those of the calendar's rules, for
   every time from 1970 on. *)
LEMMA CalendarRules == now \in Nat => CalendarAgrees
<1> SUFFICES ASSUME now \in Nat PROVE CalendarAgrees
  OBVIOUS
<1> DEFINE today == now \div Day
           y == CivilFromDays(today)[1]
<1>1. today \in Nat
  BY SMT DEF Day
<1> HIDE DEF today
<1>2. y \in Int /\ March(y - 1) + 306 <= today /\ today < March(y) + 306
  BY <1>1, YearOf
<1> HIDE DEF y
<1>3. y >= 1970
  <2>1. SUFFICES ASSUME y < 1970 PROVE FALSE
    BY <1>2, SMT
  <2>2. March(1969) = -306 /\ March(y) \in Int /\ March(y + 1) \in Int
    BY <1>2, MarchTyped, SMT DEF March
  <2>3. March(y) < March(y + 1)
    BY <1>2, MarchNext, <2>2, SMT
  <2>4. y < 1969 => March(y + 1) <= March(1969)
    BY <1>2, MarchGrows
  <2> QED BY <1>1, <1>2, <2>1, <2>2, <2>3, <2>4, SMT
<1>4. DaysFromCivil(y, 1, 1)
        = 365 * (y - 1970) + Cardinality({k \in 1970..(y - 1) : Leap(k)})
  <2> DEFINE n == y - 1970
  <2>1. n \in Nat /\ 1969 + n = y - 1 /\ 1970 + n - 1 = y - 1
    BY <1>2, <1>3, SMT
  <2> HIDE DEF n
  <2>2. March(y - 1) + 306 = 365 * n + Cardinality({k \in 1970..(y - 1) : Leap(k)})
    BY <2>1, LeapYearsCount DEF LeapYears
  <2> QED BY <1>2, <2>2, YearBegins DEF n
<1>5. ASSUME NEW century \in 0..4
      PROVE  LET z == today + century * 36524
                 date == CivilFromDays(z)
             IN /\ CivilFromDays(z + 1) = Tomorrow(date)
                /\ DaysFromCivil(date[1], date[2], date[3]) = z
  <2> DEFINE z == today + century * 36524
  <2>1. z \in Int
    BY <1>1, SMT
  <2> HIDE DEF z
  <2>2. /\ CivilFromDays(z + 1) = Tomorrow(CivilFromDays(z))
        /\ LET date == CivilFromDays(z)
           IN DaysFromCivil(date[1], date[2], date[3]) = z
    BY <2>1, CalendarSteps
  <2> QED BY <2>2 DEF z
<1>6. LET wall == now - 5 * 3600
          summer == /\ wall >= DaysFromCivil(y, 3, SundayOf(y, 3, 8)) * Day + 2 * 3600
                    /\ wall < DaysFromCivil(y, 11, SundayOf(y, 11, 1)) * Day + 3600
      IN EasternOffset(now) = IF summer THEN -4 * 3600 ELSE -5 * 3600
  <2> DEFINE s == SummerDay(y)
             w == WinterDay(y)
  <2>1. /\ s = DaysFromCivil(y, 3, SundayOf(y, 3, 8))
        /\ w = DaysFromCivil(y, 11, SundayOf(y, 11, 1))
    BY <1>2, ClockSundays, Zenon DEF SummerDay, WinterDay
  <2>2. s \in Int /\ w \in Int
    BY <1>2, ClockSundays
  <2>3. EasternOffset(now) = IF /\ now >= s * Day + 7 * 3600
                                /\ now < w * Day + 6 * 3600
                             THEN -4 * 3600 ELSE -5 * 3600
    <3>1. now \in Int
      OBVIOUS
    <3> QED BY <3>1, EasternOffsetIs DEF y, today
  <2> HIDE DEF s, w
  <2>4. /\ now >= s * Day + 7 * 3600 <=> now - 5 * 3600 >= s * Day + 2 * 3600
        /\ now < w * Day + 6 * 3600 <=> now - 5 * 3600 < w * Day + 3600
    BY <2>2, SMT DEF Day
  <2> QED BY <2>1, <2>3, <2>4
<1> QED BY <1>4, <1>5, <1>6 DEF CalendarAgrees, y, today

LEMMA SummerIs ==
  ASSUME NEW t \in Int, NEW y \in Int,
         SummerDay(y) * 86400 + 25200 <= t, t < WinterDay(y) * 86400 + 21600
  PROVE  EasternOffset(t) = -14400
<1> DEFINE z == t \div 86400
<1>1. z \in Int /\ z * 86400 <= t /\ t < z * 86400 + 86400
  BY DayQuotient
<1> HIDE DEF z
<1>2. /\ SummerDay(y) \in Int /\ March(y) + 7 <= SummerDay(y)
      /\ WinterDay(y) \in Int /\ WinterDay(y) <= March(y) + 251
  BY ClockSundays
<1>3. March(y) \in Int /\ March(y - 1) \in Int /\ March(y) \in Int
  BY MarchTyped
<1>4. March(y - 1) + 306 <= March(y)
  <2>1. y - 1 \in Int /\ y - 1 + 1 = y
    BY SMT
  <2>2. March(y - 1 + 1) = March(y - 1) + (IF Leap(y - 1 + 1) THEN 366 ELSE 365)
    BY <2>1, MarchNext
  <2> QED BY <1>3, <2>1, <2>2, SMT
<1>5. March(y - 1) + 306 <= z /\ z < March(y) + 306
  BY <1>1, <1>2, <1>3, <1>4, SMT
<1>6. CivilFromDays(z)[1] = y
  BY <1>1, <1>5, YearOnly
<1>7. EasternOffset(t) = IF /\ t >= SummerDay(y) * Day + 7 * 3600
                            /\ t < WinterDay(y) * Day + 6 * 3600
                         THEN -4 * 3600 ELSE -5 * 3600
  BY <1>6, EasternOffsetIs DEF z, Day
<1> QED BY <1>2, <1>7, SMT DEF Day

LEMMA SummerOnly ==
  ASSUME NEW t \in Int
  PROVE  /\ EasternOffset(t) \in {-14400, -18000}
         /\ EasternOffset(t) = -14400 =>
              \E y \in Int : /\ SummerDay(y) * 86400 + 25200 <= t
                             /\ t < WinterDay(y) * 86400 + 21600
<1> DEFINE y == CivilFromDays(t \div Day)[1]
<1>1. y \in Int
  <2>1. t \div Day \in Int
    BY SMT DEF Day
  <2> QED BY <2>1, YearOf
<1>2. EasternOffset(t) = IF /\ t >= SummerDay(y) * Day + 7 * 3600
                            /\ t < WinterDay(y) * Day + 6 * 3600
                         THEN -4 * 3600 ELSE -5 * 3600
  BY EasternOffsetIs
<1> HIDE DEF y
<1>3. SummerDay(y) \in Int /\ WinterDay(y) \in Int
  BY <1>1, ClockSundays
<1>4. EasternOffset(t) \in {-14400, -18000}
  BY <1>2, SMT
<1>5. EasternOffset(t) = -14400 => /\ SummerDay(y) * 86400 + 25200 <= t
                                   /\ t < WinterDay(y) * 86400 + 21600
  BY <1>2, <1>3, SMT DEF Day
<1> QED BY <1>1, <1>4, <1>5

(* When the clock goes back between p and n, a day or so apart, n being near
   noon, it does so on the day of n: the day before it was still ahead. *)
LEMMA ClockGoesBack ==
  ASSUME NEW p \in Int, NEW n \in Int, NEW k \in Int, p < n,
         (k - 1) * 86400 + 39540 <= p, k * 86400 + 39600 <= n, n < k * 86400 + 43200,
         EasternOffset(p) = -14400, EasternOffset(n) = -18000
  PROVE  EasternOffset(n - 86400) = -14400
<1>1. PICK y \in Int : /\ SummerDay(y) * 86400 + 25200 <= p
                       /\ p < WinterDay(y) * 86400 + 21600
  BY SummerOnly
<1> DEFINE s == SummerDay(y)
           w == WinterDay(y)
<1>2. s \in Int /\ w \in Int /\ s + 200 < w
  BY ClockSundays, MarchTyped, SMT
<1>3. w * 86400 + 21600 <= n
  <2>1. SUFFICES ASSUME n < w * 86400 + 21600 PROVE FALSE
    BY <1>2, SMT
  <2>2. s * 86400 + 25200 <= n
    BY <1>1, <1>2, SMT
  <2>3. EasternOffset(n) = -14400
    BY <2>1, <2>2, SummerIs
  <2> QED BY <2>3, SMT
<1>4. /\ p < w * 86400 + 21600
      /\ s * 86400 + 25200 <= p
  BY <1>1
<1> HIDE DEF s, w
<1>5. w = k
  BY <1>2, <1>3, <1>4, SMT
<1> DEFINE x == n - 86400
<1>6. x \in Int /\ s * 86400 + 25200 <= x /\ x < w * 86400 + 21600
  BY <1>2, <1>4, <1>5, SMT
<1> HIDE DEF x
<1>7. EasternOffset(x) = -14400
  BY <1>6, SummerIs DEF s, w
<1> QED BY <1>7 DEF x

(* The target that Until aims at from t is the second s of day k. *)
Aims(t, s, k) == \E r \in Nat : r < 60 /\ t + Until(t, s) = k * 86400 + s + r

LEMMA NextTarget ==
  ASSUME NEW t \in Int, NEW s \in Nat, s < 86400, NEW k \in Int,
         (k - 1) * 86400 + s <= t, t < k * 86400 + s
  PROVE  Aims(t, s, k)
<1> DEFINE q == t \div 86400
<1>1. q \in Int /\ q * 86400 <= t /\ t < q * 86400 + 86400
  BY DayQuotient
<1>2. Until(t, s) = AtLeast((IF q * 86400 + s <= t THEN q * 86400 + s + 86400
                             ELSE q * 86400 + s) - t, 60)
  BY SMT DEF Until, Day, Slack
<1> HIDE DEF q
<1>3. (IF q * 86400 + s <= t THEN q * 86400 + s + 86400 ELSE q * 86400 + s)
        = k * 86400 + s
  BY <1>1, SMT
<1> DEFINE b == k * 86400 + s
<1>4. b \in Int /\ t < b
  BY SMT
<1>5. Until(t, s) = AtLeast(b - t, 60)
  BY <1>2, <1>3
<1> HIDE DEF b
<1> DEFINE r == t + Until(t, s) - b
<1>6. r \in Nat /\ r < 60 /\ t + Until(t, s) = b + r
  BY <1>4, <1>5, SMT DEF AtLeast
<1>7. t + Until(t, s) = k * 86400 + s + r
  BY <1>6 DEF b
<1> HIDE DEF r
<1> QED BY <1>6, <1>7 DEF Aims

LEMMA DayIs ==
  ASSUME NEW t \in Int, NEW k \in Int, k * 86400 <= t, t < k * 86400 + 86400
  PROVE  t \div 86400 = k
BY DayQuotient, SMT
-----------------------------------------------------------------------------
(* The sleep that began at s ended at t, at its time by the clock of s. *)
Woke(s, t) ==
  /\ s \in Nat /\ t \in Nat /\ s < t /\ t <= s + Day + Slack
  /\ LET past == ((t + Offset(s)) % Day) - Second
     IN past >= 0 /\ \E l \in Late : past < Slack + l

LEMMA OffsetIs ==
  ASSUME NEW t \in Int
  PROVE  /\ hour # Unset => Offset(t) = 0
         /\ hour = Unset => Offset(t) = EasternOffset(t) /\ Offset(t) \in {-14400, -18000}
         /\ Offset(t) \in Int
<1>1. CASE hour # Unset
  BY <1>1, SMT DEF Offset
<1>2. CASE hour = Unset
  BY <1>2, SummerOnly, SMT DEF Offset
<1> QED BY <1>1, <1>2

LEMMA WokeAt ==
  ASSUME NEW p, NEW r, Woke(p, r), hour \in Override, NEW d \in Duration
  PROVE  \E k \in Int : \E x \in Nat :
           /\ r + Offset(p) = k * 86400 + Second + x
           /\ x < 120 /\ x + d + 3600 < 86400
<1> DEFINE u == r + Offset(p)
           x == (u % 86400) - Second
<1>1. p \in Int /\ r \in Int /\ Offset(p) \in Int
  BY OffsetIs DEF Woke
<1>2. PICK l \in Late : x >= 0 /\ x < 60 + l
  BY DEF Woke, Day, Slack
<1>3. /\ l \in Nat /\ l <= 60
      /\ d \in Nat /\ d + 3600 + 60 + l < 86400
  BY ScheduleAssumption, SMT DEF Slack, Day
<1>4. Second \in Nat /\ Second <= 82800
  BY SecondTyped
<1>5. u \in Int
  BY <1>1
<1>6. /\ u \div 86400 \in Int /\ u % 86400 \in Int
      /\ u = (u \div 86400) * 86400 + (u % 86400)
  <2> HIDE DEF u
  <2> QED BY <1>5, SMT
<1> DEFINE k == u \div 86400
<1>7. k \in Int /\ x \in Nat /\ u = k * 86400 + Second + x
  <2> HIDE DEF u
  <2> QED BY <1>2, <1>4, <1>6, SMT
<1>8. x < 120 /\ x + d + 3600 < 86400
  <2>1. x \in Nat
    BY <1>7
  <2> HIDE DEF x
  <2> QED BY <1>2, <1>3, <2>1, SMT
<1> HIDE DEF k, x
<1> QED BY <1>7, <1>8 DEF u

(* An update that wakes at r and takes less than a day but an hour is followed
   by that of the next day: unless the clock goes back while it runs. *)
LEMMA DayAfter ==
  ASSUME hour \in Override, NEW p, NEW r, Woke(p, r),
         NEW n \in Nat, n - r \in Duration,
         NEW m \in Nat, NEW l \in Late, m = n + SecsUntilNextRun(n) + l
  PROVE  \/ DayOf(m) = DayOf(r) + 1
         \/ DayOf(m) = DayOf(r) /\ Offset(n) < Offset(n - Day)
<1> DEFINE d == n - r
           a == Offset(p)
           b == Offset(n)
           c == Offset(r)
           e == Offset(m)
           s == Second
<1>1. /\ p \in Nat /\ r \in Nat /\ p < r /\ r <= p + 86460
      /\ d \in Nat /\ n = r + d
  BY ScheduleAssumption, SMT DEF Woke, Day, Slack
<1>2. l \in Nat /\ l <= 60
  BY ScheduleAssumption, SMT DEF Slack
<1>3. PICK k \in Int, x \in Nat :
        r + a = k * 86400 + s + x /\ x < 120 /\ x + d + 3600 < 86400
  BY WokeAt
<1>4. /\ a \in Int /\ b \in Int /\ c \in Int /\ e \in Int
      /\ hour # Unset => a = 0 /\ b = 0 /\ c = 0 /\ e = 0
      /\ hour = Unset => /\ a \in {-14400, -18000} /\ b \in {-14400, -18000}
                         /\ c \in {-14400, -18000} /\ e \in {-14400, -18000}
  BY <1>1, OffsetIs
<1>5. s \in Nat /\ s <= 82800 /\ (hour = Unset => s = 25200)
  BY SecondTyped, SMT DEF Second
<1>6. DayOf(r) = (r + c) \div 86400 /\ DayOf(m) = (m + e) \div 86400
  BY DEF DayOf, Day
<1>7. SecsUntilNextRun(n) = Until(n + b, s)
  BY DEF SecsUntilNextRun
<1> DEFINE u == n + b
<1>8. u \in Int /\ s < 86400
  BY <1>4, <1>5, SMT
<1> HIDE DEF d, a, b, c, e, s
<1>9. DayOf(r) = k
  <2>1. k * 86400 <= r + c /\ r + c < k * 86400 + 86400 /\ r + c \in Int
    <3>1. CASE hour = Unset
      BY <1>1, <1>3, <1>4, <1>5, <3>1, SMT
    <3>2. CASE hour # Unset
      BY <1>1, <1>3, <1>4, <1>5, <3>2, SMT
    <3> QED BY <3>1, <3>2
  <2> QED BY <1>6, <2>1, DayIs
<1>10. ASSUME NEW j \in Int, (j - 1) * 86400 + s <= u, u < j * 86400 + s
       PROVE  DayOf(m) = j
  <2>1. Aims(u, s, j)
    <3> HIDE DEF u
    <3> QED BY <1>5, <1>8, <1>10, NextTarget
  <2>2. PICK y \in Nat : y < 60 /\ u + Until(u, s) = j * 86400 + s + y
    BY <2>1 DEF Aims
  <2>3. Until(u, s) \in Int
    <3> HIDE DEF u
    <3> QED BY <1>5, <1>8, UntilBounds
  <2>4. m + b = j * 86400 + s + y + l
    BY <1>2, <1>4, <1>7, <2>2, <2>3, SMT
  <2>5. j * 86400 <= m + e /\ m + e < j * 86400 + 86400 /\ m + e \in Int
    <3>1. CASE hour = Unset
      BY <1>2, <1>4, <1>5, <2>2, <2>4, <3>1, SMT
    <3>2. CASE hour # Unset
      BY <1>2, <1>4, <1>5, <2>2, <2>4, <3>2, SMT
    <3> QED BY <3>1, <3>2
  <2> QED BY <1>6, <2>5, DayIs
<1>11. u = k * 86400 + s + x + d + b - a
  BY <1>1, <1>3, <1>4, <1>5, SMT
<1>12. u < (k + 1) * 86400 + s
  <2>1. b - a <= 3600
    BY <1>4, SMT
  <2> HIDE DEF u
  <2> QED BY <1>1, <1>3, <1>4, <1>5, <1>8, <1>11, <2>1, SMT
<1>13. CASE k * 86400 + s <= u
  <2> DEFINE j == k + 1
  <2>1. j \in Int /\ (j - 1) * 86400 + s <= u /\ u < j * 86400 + s
    BY <1>5, <1>8, <1>12, <1>13, SMT
  <2> HIDE DEF j
  <2>2. DayOf(m) = j
    BY <1>10, <2>1
  <2> QED BY <1>9, <2>2 DEF j
<1>14. CASE u < k * 86400 + s
  <2>1. /\ hour = Unset /\ a = -14400 /\ b = -18000 /\ x + d < 3600
    <3>1. x + d + b - a < 0
      BY <1>1, <1>3, <1>4, <1>5, <1>11, <1>14, SMT
    <3> QED BY <1>1, <1>3, <1>4, <3>1, SMT
  <2>2. (k - 1) * 86400 + s <= u
    BY <1>1, <1>3, <1>4, <1>5, <1>11, <2>1, SMT
  <2>3. DayOf(m) = k
    BY <1>10, <1>14, <2>2
  <2>4. EasternOffset(p) = -14400 /\ EasternOffset(n) = -18000
    BY <1>1, <2>1, OffsetIs, SMT DEF a, b
  <2>5. /\ (k - 1) * 86400 + 39540 <= p
        /\ k * 86400 + 39600 <= n /\ n < k * 86400 + 43200
        /\ p < n /\ p \in Int /\ n \in Int
    BY <1>1, <1>3, <1>5, <2>1, SMT
  <2>6. EasternOffset(n - 86400) = -14400
    BY <2>4, <2>5, ClockGoesBack
  <2>7. Offset(n) < Offset(n - Day)
    BY <2>1, <2>4, <2>6, SMT DEF Offset, Day
  <2> QED BY <1>9, <2>3, <2>7
<1>15. k * 86400 + s <= u \/ u < k * 86400 + s
  <2> HIDE DEF u
  <2> QED BY <1>5, <1>8, SMT
<1> QED BY <1>13, <1>14, <1>15

(* What holds whenever the scheduler acts: the update that is due, or that has
   just ended, began at its time, and no day is without one or has two. *)
TInv ==
  /\ ScheduleTypeOK
  /\ Due => Woke(slept, now)
  /\ at = "ask" /\ ran # -1 => slept # -1 /\ Woke(slept, ran) /\ now - ran \in Duration
  /\ EveryDayOnce

LEMMA TInitInv == TInit => TInv
BY ScheduleAssumption DEF TInit, TInv, ScheduleTypeOK, EveryDayOnce, Due

LEMMA UpdateInv == TInv /\ Update => TInv'
<1> SUFFICES ASSUME TInv, Update PROVE TInv'
  OBVIOUS
<1>1. PICK d \in Duration : now' = now + d
  BY DEF Update
<1>2. d \in Nat
  BY ScheduleAssumption
<1>3. ScheduleTypeOK'
  BY <1>1, <1>2, SMT DEF Update, TInv, ScheduleTypeOK
<1>4. ~ Due' /\ EveryDayOnce'
  BY DEF Update, EveryDayOnce, Due
<1>5. ASSUME ran' # -1 PROVE slept' # -1 /\ Woke(slept, ran)' /\ now' - ran' \in Duration
  <2>1. slept # -1 /\ ran' = now /\ slept' = slept /\ hour' = hour /\ Due
    BY <1>5 DEF Update, Due
  <2>2. Woke(slept, now)
    BY <2>1 DEF TInv
  <2>3. Woke(slept, ran)'
    BY <2>1, <2>2 DEF Woke, Offset, Second
  <2>4. now' - ran' = d
    BY <1>1, <1>2, <2>1, SMT DEF TInv, ScheduleTypeOK
  <2> QED BY <2>1, <2>3, <2>4
<1> QED BY <1>3, <1>4, <1>5 DEF TInv

(* The step that matters: the sleep ends where the scheduler aimed. *)
LEMMA SleepInv == TInv /\ Sleep => TInv'
<1> SUFFICES ASSUME TInv, Sleep PROVE TInv'
  OBVIOUS
<1>1. now \in Nat /\ hour \in Override /\ hour' = hour /\ slept' = now /\ ran' = ran
  BY DEF TInv, ScheduleTypeOK, Sleep
<1>2. PICK l \in Late : now' = now + SecsUntilNextRun(now) + l
  BY DEF Sleep
<1>3. l \in Nat /\ l <= 60
  BY ScheduleAssumption, SMT DEF Slack
<1> DEFINE off == Offset(now)
<1>4. off \in Int
  BY <1>1, OffsetIs
<1>5. Second \in Nat /\ Second <= 82800
  BY <1>1, SecondTyped
<1>6. SecsUntilNextRun(now) = Until(now + off, Second)
  BY DEF SecsUntilNextRun
<1>7. Second' = Second /\ Offset(slept)' = off
  BY <1>1 DEF Second, Offset
<1> HIDE DEF off
<1>8. /\ now + off \in Int /\ Until(now + off, Second) \in Int
      /\ 60 <= Until(now + off, Second) /\ Until(now + off, Second) <= 86400
  BY <1>1, <1>4, <1>5, UntilBounds, SMT
<1>9. now' \in Nat /\ now < now' /\ now' <= now + 86460
  BY <1>1, <1>2, <1>3, <1>6, <1>8, SMT
<1>10. PICK k \in Int, r \in Nat :
         r < 60 /\ now + off + Until(now + off, Second) = k * 86400 + Second + r
  <2> DEFINE u == now + off
  <2>1. u \in Int /\ Second \in Nat /\ Second < 86400
    BY <1>5, <1>8, SMT
  <2> HIDE DEF u
  <2>2. Shows(u + Until(u, Second), Second)
    BY <2>1, UntilBounds
  <2> QED BY <2>2 DEF Shows, u
<1>11. (now' + off) % 86400 = Second + r + l
  <2>1. now' + off = 86400 * k + (Second + r + l)
    BY <1>1, <1>2, <1>3, <1>4, <1>5, <1>6, <1>8, <1>10, SMT
  <2>2. Second + r + l \in Nat /\ Second + r + l < 86400
    BY <1>3, <1>5, <1>10, SMT
  <2>3. now' + off \in Int
    BY <1>4, <1>9, SMT
  <2> QED BY <2>1, <2>2, <2>3, DayRemainder
<1>12. Woke(slept, now)'
  <2>1. ((now' + off) % 86400) - Second = r + l
    BY <1>3, <1>5, <1>11, SMT
  <2>2. r + l >= 0 /\ r + l < 60 + l
    BY <1>3, <1>10, SMT
  <2>3. slept' \in Nat /\ now' \in Nat /\ slept' < now' /\ now' <= slept' + Day + Slack
    BY <1>1, <1>9, SMT DEF Day, Slack
  <2>4. LET past == ((now' + off) % Day) - Second
        IN past >= 0 /\ \E x \in Late : past < Slack + x
    BY <2>1, <2>2 DEF Day, Slack
  <2> QED BY <1>7, <2>3, <2>4 DEF Woke
<1>13. ScheduleTypeOK' /\ at' = "update"
  BY <1>1, <1>9 DEF Sleep, TInv, ScheduleTypeOK
<1>14. EveryDayOnce'
  <2>1. SUFFICES ASSUME ran # -1
                 PROVE  (\/ DayOf(now) = DayOf(ran) + 1
                         \/ DayOf(now) = DayOf(ran) /\ Offset(slept) < Offset(slept - Day))'
    BY <1>1 DEF EveryDayOnce
  <2>2. Woke(slept, ran) /\ now - ran \in Duration
    BY <2>1 DEF TInv, Sleep
  <2>3. \/ DayOf(now') = DayOf(ran) + 1
        \/ DayOf(now') = DayOf(ran) /\ Offset(now) < Offset(now - Day)
    BY <1>1, <1>2, <1>9, <2>2, DayAfter
  <2>4. /\ DayOf(now)' = DayOf(now') /\ DayOf(ran)' = DayOf(ran)
        /\ Offset(slept)' = Offset(now) /\ Offset(slept - Day)' = Offset(now - Day)
    BY <1>1 DEF DayOf, Offset
  <2> QED BY <2>3, <2>4
<1> QED BY <1>12, <1>13, <1>14 DEF TInv

LEMMA TStutterInv == TInv /\ UNCHANGED tvars => TInv'
BY DEF TInv, tvars, ScheduleTypeOK, EveryDayOnce, DayOf, Woke, Due, Second, Offset

LEMMA TInvHolds == TSpec => []TInv
<1>1. TInv /\ [TNext]_tvars => TInv'
  BY UpdateInv, SleepInv, TStutterInv DEF TNext
<1> QED BY TInitInv, <1>1, PTL DEF TSpec

(* However long updates take and whenever the service starts, a scheduled update
   begins at the second it is meant for, or within a minute and a late wake-up
   of it, by the clock in force when the scheduler went to sleep. *)
THEOREM OnTimeTheorem == TSpec => []OnTime
<1>1. TInv => OnTime
  BY DEF TInv, OnTime, Woke
<1> QED BY TInvHolds, <1>1, PTL

(* Two scheduled updates in a row are those of two days in a row, whatever the
   hour they are set to; but for the Sunday in November on which the clock goes
   back between them, which may have both. *)
THEOREM EveryDayOnceTheorem == TSpec => []EveryDayOnce
<1>1. TInv => EveryDayOnce
  BY DEF TInv
<1> QED BY TInvHolds, <1>1, PTL

(* At any time from 1970 on, civil_from_days and days_from_civil agree with the
   rules of the calendar, and eastern_offset_secs with those of the clock. *)
THEOREM CalendarTheorem == TSpec => []CalendarAgrees
<1>1. TInv => CalendarAgrees
  BY CalendarRules DEF TInv, ScheduleTypeOK
<1> QED BY TInvHolds, <1>1, PTL
=============================================================================
