------------------------------ MODULE Schedule ------------------------------
(***************************************************************************)
(* The daily update's timetable: scheduler and the date arithmetic of      *)
(* csl-service (bootstrap.rs:76-184).  An update runs when the service     *)
(* starts; after every update the scheduler reads the clock, works out how *)
(* long to sleep, sleeps and updates again.  What an update does is in     *)
(* Corpus; here it only takes time.  Times are seconds since 1970, UTC.    *)
(***************************************************************************)
EXTENDS Integers, FiniteSets

CONSTANTS
  Override,    \* values of UPDATE_UTC_HOUR; Unset for none that parses
  Unset,
  Boot,        \* when the service may start
  Duration,    \* how many seconds an update may take, until it ends or fails
  Late,        \* how many seconds a sleep may last too long
  Horizon      \* bound: no update starts later

Day == 86400
Slack == 60    \* the shortest sleep

ASSUME ScheduleAssumption ==
  /\ Unset \notin Int /\ Override \subseteq Int \cup {Unset}
  /\ Boot \subseteq Nat /\ Horizon \in Nat
  /\ Duration \subseteq Nat /\ Late \subseteq 0..Slack
  /\ \A d \in Duration : \A l \in Late : d + 3600 + Slack + l < Day

VARIABLES
  hour,     \* UPDATE_UTC_HOUR of this service
  at,       \* "update" or "ask": the scheduler updates, or asks for the time
  now,      \* the clock
  slept,    \* when it last went to sleep; -1: not yet
  ran       \* when the scheduled update before the last one began; -1: none

tvars == <<hour, at, now, slept, ran>>
-----------------------------------------------------------------------------
(* Here \div rounds down; so does the code, which corrects its division, that
   truncates, for years and days before the year 0. *)
DaysFromCivil(y0, m, d) ==
  LET y == IF m <= 2 THEN y0 - 1 ELSE y0
      era == y \div 400
      yoe == y - era * 400
      mp == IF m > 2 THEN m - 3 ELSE m + 9
      doy == (153 * mp + 2) \div 5 + d - 1
      doe == yoe * 365 + yoe \div 4 - yoe \div 100 + doy
  IN era * 146097 + doe - 719468

(* Mutant of CivilFromDays: January and February keep the year they began in. *)
CivilFromDaysMarch(z0) ==
  LET z == z0 + 719468
      era == z \div 146097
      doe == z - era * 146097
      yoe == (doe - doe \div 1460 + doe \div 36524 - doe \div 146096) \div 365
      doy == doe - (365 * yoe + yoe \div 4 - yoe \div 100)
      mp == (5 * doy + 2) \div 153
  IN <<yoe + era * 400,
       IF mp < 10 THEN mp + 3 ELSE mp - 9,
       doy - (153 * mp + 2) \div 5 + 1>>

(* Year, month and day of a day number. *)
CivilFromDays(z0) ==
  LET z == z0 + 719468
      era == z \div 146097
      doe == z - era * 146097
      yoe == (doe - doe \div 1460 + doe \div 36524 - doe \div 146096) \div 365
      y == yoe + era * 400
      doy == doe - (365 * yoe + yoe \div 4 - yoe \div 100)
      mp == (5 * doy + 2) \div 153
      d == doy - (153 * mp + 2) \div 5 + 1
      m == IF mp < 10 THEN mp + 3 ELSE mp - 9
  IN <<IF m <= 2 THEN y + 1 ELSE y, m, d>>

(* Day of the month of the n-th Sunday; 0 is Sunday, 1970-01-01 was a 4. *)
NthSunday(y, m, n) ==
  LET first == (DaysFromCivil(y, m, 1) + 4) % 7
  IN 1 + ((0 - first) % 7) + (n - 1) * 7

(* Seconds to add to UTC: daylight saving time from the second Sunday of March,
   07:00 UTC, to the first of November, 06:00 UTC. *)
EasternOffset(t) ==
  LET y == CivilFromDays(t \div Day)[1]
      start == DaysFromCivil(y, 3, NthSunday(y, 3, 2)) * Day + 7 * 3600
      end == DaysFromCivil(y, 11, NthSunday(y, 11, 1)) * Day + 6 * 3600
  IN IF t >= start /\ t < end THEN -4 * 3600 ELSE -5 * 3600

AtLeast(a, b) == IF a < b THEN b ELSE a

(* Mutant of Until: at the very second of the target, the target is today's. *)
UntilToday(t, second) ==
  LET today == (t \div Day) * Day + second
      target == IF today < t THEN today + Day ELSE today
  IN AtLeast(target - t, Slack)

(* From t to the next time the clock of the day shows this second. *)
Until(t, second) ==
  LET today == (t \div Day) * Day + second
      target == IF today <= t THEN today + Day ELSE today
  IN AtLeast(target - t, Slack)

(* What the scheduler adds to UTC, and the second of the day it aims at. *)
Offset(t) == IF hour = Unset THEN EasternOffset(t) ELSE 0
Second == IF hour = Unset THEN 7 * 3600 ELSE (hour % 24) * 3600

(* Mutant of SecsUntilNextRun: the time is looked up in UTC. *)
SecsUntilNextRunUtc(t) == Until(t, Second)

(* secs_until_next_run, and secs_until_utc_hour. *)
SecsUntilNextRun(t) == Until(t + Offset(t), Second)
-----------------------------------------------------------------------------
TInit ==
  /\ hour \in Override
  /\ at = "update" /\ now \in Boot
  /\ slept = -1 /\ ran = -1

(* run_update: it ends, or fails and is only logged. *)
Update ==
  /\ at = "update" /\ now < Horizon
  /\ \E d \in Duration : now' = now + d
  /\ at' = "ask"
  /\ ran' = IF slept = -1 THEN -1 ELSE now
  /\ UNCHANGED <<hour, slept>>

(* The scheduler's loop: ask for the time, sleep, start the next update. *)
Sleep ==
  /\ at = "ask"
  /\ \E l \in Late : now' = now + SecsUntilNextRun(now) + l
  /\ slept' = now
  /\ at' = "update"
  /\ UNCHANGED <<hour, ran>>

TNext == Update \/ Sleep

TSpec == TInit /\ [][TNext]_tvars
-----------------------------------------------------------------------------
ScheduleTypeOK ==
  /\ hour \in Override /\ at \in {"update", "ask"}
  /\ now \in Nat /\ slept \in Nat \cup {-1} /\ ran \in Nat \cup {-1}

(* A scheduled update is about to begin. *)
Due == at = "update" /\ slept # -1

(* It begins at its time, by the clock that was in force when the scheduler
   went to sleep, or within the shortest sleep after it: in Eastern time 07:00
   ("daily at 07:00 US Eastern", bootstrap.rs:77, :121), except on the two
   Sundays of a year when the clock changes during the sleep. *)
OnTime ==
  Due => LET past == ((now + Offset(slept)) % Day) - Second
         IN past >= 0 /\ \E l \in Late : past < Slack + l

DayOf(t) == (t + Offset(t)) \div Day

(* Every day has its update, and no day has two: but for the Sunday in November
   that the clock goes back, whose first one comes at six. *)
EveryDayOnce ==
  Due /\ ran # -1 =>
    \/ DayOf(now) = DayOf(ran) + 1
    \/ DayOf(now) = DayOf(ran) /\ Offset(slept) < Offset(slept - Day)
-----------------------------------------------------------------------------
(* The calendar, from its rules: the reference for the arithmetic above. *)
Leap(y) == y % 4 = 0 /\ (y % 100 # 0 \/ y % 400 = 0)

MonthLength(y, m) ==
  CASE m = 2 -> IF Leap(y) THEN 29 ELSE 28
    [] m \in {4, 6, 9, 11} -> 30
    [] OTHER -> 31

Tomorrow(date) ==
  LET y == date[1]  m == date[2]  d == date[3]
  IN IF d < MonthLength(y, m) THEN <<y, m, d + 1>>
     ELSE IF m < 12 THEN <<y, m + 1, 1>> ELSE <<y + 1, 1, 1>>

SundayOf(y, m, earliest) ==
  CHOOSE d \in earliest..(earliest + 6) : (DaysFromCivil(y, m, d) + 4) % 7 = 0

(* Day numbers and dates go together as the calendar's rules have it, around
   the date of now and up to four centuries on; and the clock is an hour ahead
   between the Sundays of the Energy Policy Act of 2005 (that of 8 to 14 March,
   that of 1 to 7 November), from and to two o'clock in the morning. *)
CalendarAgrees ==
  /\ LET y == CivilFromDays(now \div Day)[1]
     IN DaysFromCivil(y, 1, 1)
          = 365 * (y - 1970) + Cardinality({k \in 1970..(y - 1) : Leap(k)})
  /\ \A century \in 0..4 :
       LET z == now \div Day + century * 36524
           date == CivilFromDays(z)
       IN /\ CivilFromDays(z + 1) = Tomorrow(date)
          /\ DaysFromCivil(date[1], date[2], date[3]) = z
  /\ LET y == CivilFromDays(now \div Day)[1]
         wall == now - 5 * 3600      \* the clock without the change
         summer == /\ wall >= DaysFromCivil(y, 3, SundayOf(y, 3, 8)) * Day + 2 * 3600
                   /\ wall < DaysFromCivil(y, 11, SundayOf(y, 11, 1)) * Day + 3600
     IN EasternOffset(now) = IF summer THEN -4 * 3600 ELSE -5 * 3600
=============================================================================
