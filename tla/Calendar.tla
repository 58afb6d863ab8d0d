------------------------------ MODULE Calendar ------------------------------
(***************************************************************************)
(* The calendar arithmetic of internal/vectorize/parse.go: daysFromCivil,  *)
(* parseISO8601, and the hour and weekday QueryFromBody computes. Times    *)
(* are in minutes; seconds are left out.                                   *)
(***************************************************************************)
EXTENDS Integers

(* Go divides towards zero. *)
goDiv(a, b) == IF a >= 0 THEN a \div b ELSE -((-a) \div b)
goMod(a, b) == a - b * goDiv(a, b)

(* The day of the year that starts on 1 March. *)
MarchDayRounded(mp, d) == goDiv(153 * mp + 3, 5) + d - 1   \* bug: + 3 for + 2
MarchDay(mp, d)        == goDiv(153 * mp + 2, 5) + d - 1

daysFromCivil(y0, m, d) ==
  LET y   == IF m <= 2 THEN y0 - 1 ELSE y0
      era == IF y >= 0 THEN goDiv(y, 400) ELSE goDiv(y - 399, 400)
      yoe == y - era * 400
      mp  == IF m > 2 THEN m - 3 ELSE m + 9
      doe == yoe * 365 + goDiv(yoe, 4) - goDiv(yoe, 100) + MarchDay(mp, d)
  IN  era * 146097 + doe - 719468

Date(y, m, d) == [year |-> y, month |-> m, day |-> d]

(* A timestamp: minute of the day, whether a fraction follows the seconds, and
   the minutes its zone is ahead of UTC, 0 for Z. *)
Stamp(minute, fraction, ahead) ==
  [minute |-> minute, fraction |-> fraction, ahead |-> ahead]

(* Byte 19 is read as the sign of the offset; a fraction is there instead, and
   nothing after it is looked at. *)
OffsetUnsigned(s) == IF s.fraction THEN 0                   \* bug: sign not looked at
                     ELSE IF s.ahead < 0 THEN -s.ahead ELSE s.ahead
Offset(s)         == IF s.fraction THEN 0 ELSE s.ahead

parseISO8601(dt, s) ==
  daysFromCivil(dt.year, dt.month, dt.day) * 1440 + s.minute - Offset(s)

weekdayFromSunday(ts) == goMod(goMod(goDiv(ts, 1440) + 4, 7) + 7, 7)  \* bug: + 4 for + 3
weekday(ts) == goMod(goMod(goDiv(ts, 1440) + 3, 7) + 7, 7)
hour(ts)    == goMod(goMod(goDiv(ts, 60), 24) + 24, 24)

(* Hour and weekday of an instant by the time package, UTC() in hourWeekday of
   vectorize.go. *)
clock(u) == <<(u \div 60) % 24, (u \div 1440 + 3) % 7>>
=============================================================================
