----------------------------- MODULE Timestamps -----------------------------
(***************************************************************************)
(* The arithmetic of module Calendar against a calendar that is walked day *)
(* by day and against the time package, which Vectorize uses.              *)
(***************************************************************************)
EXTENDS Calendar

CONSTANTS
  FirstYear, LastYear,   \* the years walked, 1970 among them
  Minutes,               \* the times of day of the timestamps
  Offsets                \* the minutes their zones are ahead of UTC

ASSUME YearsAssumption ==
  FirstYear \in Int /\ LastYear \in Int /\ FirstYear <= 1970 /\ 1970 <= LastYear
ASSUME StampsAssumption == Minutes \subseteq 0..1439 /\ Offsets \subseteq -1439..1439

VARIABLES
  date,   (* the day that is written in a timestamp                         *)
  days    (* days from 1 January FirstYear to it                            *)

dateVars == <<date, days>>

-----------------------------------------------------------------------------
(* The calendar. *)

LeapYear(y) == y % 4 = 0 /\ (y % 100 # 0 \/ y % 400 = 0)

DaysIn(y, m) ==
  CASE m \in {4, 6, 9, 11} -> 30
    [] m = 2 -> IF LeapYear(y) THEN 29 ELSE 28
    [] OTHER -> 31

NextDay ==
  /\ date.year <= LastYear
  /\ date' = IF date.day < DaysIn(date.year, date.month)
             THEN [date EXCEPT !.day = @ + 1]
             ELSE IF date.month < 12
                  THEN Date(date.year, date.month + 1, 1)
                  ELSE Date(date.year + 1, 1, 1)
  /\ days' = days + 1

CalendarInit == date = Date(FirstYear, 1, 1) /\ days = 0
CalendarNext == NextDay
CalendarSpec == CalendarInit /\ [][CalendarNext]_dateVars

(* Days from 1 January FirstYear to 1 January 1970. *)
LeapsBefore(y) == (y - 1) \div 4 - (y - 1) \div 100 + (y - 1) \div 400
Epoch == 365 * (1970 - FirstYear) + LeapsBefore(1970) - LeapsBefore(FirstYear)

-----------------------------------------------------------------------------
(* time.Parse of the same text and UTC(), as hourWeekday and minutesBetween of
   vectorize.go use them. *)
utc(s)         == (days - Epoch) * 1440 + s.minute - s.ahead
hourWeekday(s) == clock(utc(s))

Plain    == {Stamp(m, FALSE, a) : m \in Minutes, a \in Offsets}
RFC3339  == Plain \cup {Stamp(m, TRUE, a) : m \in Minutes, a \in Offsets}

(* From a timestamp without a fraction parseISO8601 gets the same instant as
   time.Parse: daysFromCivil counts the days of the calendar, leap years,
   centuries and the change of era included, so the minutes since the last
   transaction are the same, also across zones. *)
SameInstant == \A s \in Plain : parseISO8601(date, s) = utc(s)

(* For an instant after 1970 it gets the same hour and weekday, also where the
   zone moves it to another day. *)
SameHourAndWeekday ==
  \A s \in Plain :
    utc(s) >= 0 =>
      LET ts == parseISO8601(date, s)
      IN  <<hour(ts), weekday(ts)>> = hourWeekday(s)

(* TestQueryFromBodyMatchesVectorize (parse_test.go), for every RFC 3339
   timestamp time.Parse reads: the hour, weekday and instant are the same. *)
MatchesVectorize ==
  \A s \in RFC3339 :
    utc(s) >= 0 =>
      LET ts == parseISO8601(date, s)
      IN  ts = utc(s) /\ <<hour(ts), weekday(ts)>> = hourWeekday(s)
=============================================================================
